-------------------------- MODULE QuorumAgreement --------------------------
(* What a quorum of signatures promises (docs/P2P_SETTLEMENT_RFC.md, section 3): *)
(* an executor of a task becomes settled, once and for good, and only when at    *)
(* least QuorumThreshold executors hold the answer it holds.                     *)
EXTENDS Naturals, FiniteSets

CONSTANTS Executors, QuorumThreshold
VARIABLES answer, settled

Agreeing(n) == {m \in Executors : answer[m] = answer[n]}

AgreementInit == settled = {}

Settle(n) == /\ n \in Executors \ settled
             /\ Cardinality(Agreeing(n)) >= QuorumThreshold
             /\ settled' = settled \cup {n}
             /\ UNCHANGED answer

AgreementNext == \E n \in Executors : Settle(n)

AgreementSpec == AgreementInit /\ [][AgreementNext]_<<answer, settled>>
=============================================================================
