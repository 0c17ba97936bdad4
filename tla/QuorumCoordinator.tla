------------------------- MODULE QuorumCoordinator -------------------------
(* awaitQuorum of src/src/p2p/quorum-coordinator.ts on every co-executor of one *)
(* task, with the swarm agent that dispatches the task and starts it            *)
(* (src/src/swarm/agent.ts) and the p2p node that carries the messages.         *)
(* An attestation names the worker it pays and is signed by some executor: a    *)
(* reveal when the two are the same, an endorsement otherwise.  A signature of  *)
(* an executor is over the answer it computed, so only its hash is kept.        *)
EXTENDS Naturals, FiniteSets

CONSTANTS Executors,      \* the originator and its coExecutors
          Originator,     \* the node whose platform task it is
          Hashes,         \* what the redundant executions may answer
          QuorumThreshold \* distinct signers a proof needs

ASSUME QuorumAssumption == /\ Originator \in Executors
                           /\ IsFiniteSet(Executors)
                           /\ QuorumThreshold \in Nat \ {0, 1}

VARIABLES stage,     \* where each executor is with the task
          answer,    \* the hash of what each computes
          collected, \* collected: who signed for my address and hash
          endorsed,  \* alreadyEndorsed: the workers I cross-signed
          cut,       \* pairs of executors without a connection
          mail       \* attestations sent over a connection and not yet received

quorumVars == <<stage, answer, collected, endorsed, cut, mail>>

Attestation == [worker : Executors, signer : Executors, hash : Hashes, to : Executors]

QuorumTypeOK ==
    /\ stage \in [Executors -> {"idle", "computing", "listening", "accepted", "expired", "failed"}]
    /\ answer \in [Executors -> Hashes]
    /\ collected \in [Executors -> SUBSET Executors]
    /\ endorsed \in [Executors -> SUBSET Executors]
    /\ cut \subseteq SUBSET Executors
    /\ mail \subseteq Attestation

QuorumInit == /\ stage = [n \in Executors |-> IF n = Originator THEN "computing" ELSE "idle"]
              /\ answer \in [Executors -> Hashes]
              /\ collected = [n \in Executors |-> {}]
              /\ endorsed = [n \in Executors |-> {}]
              /\ cut = {}
              /\ mail = {}

(* sendTask and sendAttestation return false for a peer without a connection,   *)
(* and nothing is sent again.                                                   *)
Connected(n) == {m \in Executors \ {n} : {n, m} \notin cut}
Broadcast(n, worker) ==
    {[worker |-> worker, signer |-> n, hash |-> answer[n], to |-> m] : m \in Connected(n)}

(* It names the receiver's own answer.                                          *)
Matches(a) == a.hash = answer[a.to]

(* What the receiver of a would still do something with, now or once it listens: *)
(* the rest of the mail is ignored on arrival and not kept.                      *)
Useful(a) ==
    /\ stage[a.to] \in {"idle", "computing", "listening"}
    /\ IF a.worker = a.to THEN a.signer \notin collected[a.to]
       ELSE Matches(a) /\ a.worker \notin endorsed[a.to]

Deliverable(msgs) == {a \in msgs : Useful(a)'}

(* awaitQuorum: seed the own signature, listen, reveal.  evaluate() right after *)
(* sees the own signature alone: a threshold above one is not met yet.  The     *)
(* co-executors start when their own computation ends.                          *)
FinishCompute(n) ==
    /\ n # Originator
    /\ stage[n] = "computing"
    /\ stage' = [stage EXCEPT ![n] = "listening"]
    /\ collected' = [collected EXCEPT ![n] = {n}]
    /\ UNCHANGED <<answer, endorsed, cut>>
    /\ mail' = Deliverable(mail \cup Broadcast(n, n))

FailCompute(n) == /\ n # Originator
                  /\ stage[n] = "computing"
                  /\ stage' = [stage EXCEPT ![n] = "failed"]
                  /\ UNCHANGED <<answer, collected, endorsed, cut>>
                  /\ mail' = Deliverable(mail)

(* The originator hands the task to its co-executors and starts to wait at once. *)
Dispatch ==
    /\ stage[Originator] = "computing"
    /\ stage' = [n \in Executors |-> CASE n = Originator -> "listening"
                                       [] n \in Connected(Originator) -> "computing"
                                       [] OTHER -> stage[n]]
    /\ collected' = [collected EXCEPT ![Originator] = {Originator}]
    /\ UNCHANGED <<answer, endorsed, cut>>
    /\ mail' = Deliverable(mail \cup Broadcast(Originator, Originator))

(* An attestation for my own address counts toward my proof if it names my      *)
(* answer: collected is what evaluate() keeps of the map.                       *)
Count(a) ==
    LET n == a.to
        signers == IF Matches(a) THEN collected[n] \cup {a.signer} ELSE collected[n]
    IN /\ stage[n] = "listening"
       /\ a.worker = n
       /\ collected' = [collected EXCEPT ![n] = signers]
       /\ stage' = IF Cardinality(signers) >= QuorumThreshold
                   THEN [stage EXCEPT ![n] = "accepted"] ELSE stage
       /\ UNCHANGED <<answer, endorsed, cut>>
       /\ mail' = Deliverable(mail \ {a})

(* Any other one that names my answer is cross-signed for its worker, once, and *)
(* sent to every co-executor: an endorsement passes a reveal on.                *)
Endorse(a) ==
    LET n == a.to
    IN /\ stage[n] = "listening"
       /\ a.worker # n
       /\ Matches(a)
       /\ a.worker \notin endorsed[n]
       /\ endorsed' = [endorsed EXCEPT ![n] = @ \cup {a.worker}]
       /\ UNCHANGED <<stage, answer, collected, cut>>
       /\ mail' = Deliverable((mail \ {a}) \cup Broadcast(n, a.worker))

(* Nobody listens for the event yet: it is gone.                                *)
ArriveEarly(a) == /\ stage[a.to] \in {"idle", "computing"}
                  /\ mail' = mail \ {a}
                  /\ UNCHANGED <<stage, answer, collected, endorsed, cut>>

ExpireSettled(n) ==    \* mutant: finish() does not ask whether it has finished
    /\ stage[n] \in {"listening", "accepted"}
    /\ stage' = [stage EXCEPT ![n] = "expired"]
    /\ UNCHANGED <<answer, collected, endorsed, cut>>
    /\ mail' = Deliverable(mail)

(* The 8 s timer: finish() stops listening, so this node endorses no one later. *)
Expire(n) == /\ stage[n] = "listening"
             /\ stage' = [stage EXCEPT ![n] = "expired"]
             /\ UNCHANGED <<answer, collected, endorsed, cut>>
             /\ mail' = Deliverable(mail)

(* A connection goes away; what it carried is lost.                             *)
Disconnect(n, m) == /\ n # m
                    /\ {n, m} \notin cut
                    /\ cut' = cut \cup {{n, m}}
                    /\ mail' = {a \in mail : {a.signer, a.to} # {n, m}}
                    /\ UNCHANGED <<stage, answer, collected, endorsed>>

QuorumNext == \/ Dispatch
              \/ \E n, m \in Executors : Disconnect(n, m)
              \/ \E n \in Executors : FinishCompute(n) \/ FailCompute(n) \/ Expire(n)
              \/ \E a \in mail : Count(a) \/ Endorse(a) \/ ArriveEarly(a)

QuorumSpec == QuorumInit /\ [][QuorumNext]_quorumVars

(* A timer that is set fires.                                                   *)
QuorumFairness == \A n \in Executors : WF_quorumVars(Expire(n))

-----------------------------------------------------------------------------
Settled(n) == stage[n] \in {"accepted", "expired", "failed"}

(* A proof that awaitQuorum accepts holds enough distinct signers, and each of  *)
(* them computed the proof's answer itself: a vouch is never repeated from      *)
(* hearsay, although endorsements are passed on through third executors.        *)
ProofIsAgreement ==
    \A n \in Executors : stage[n] = "accepted" =>
        /\ Cardinality(collected[n]) >= QuorumThreshold
        /\ \A m \in collected[n] : answer[m] = answer[n] /\ stage[m] \notin {"idle", "computing"}

(* With a majority threshold two executors never both get paid for different    *)
(* answers, whatever was lost and however their timers raced.                   *)
OneAnswerPaid ==
    2 * QuorumThreshold > Cardinality(Executors) =>
        \A n, m \in Executors :
            stage[n] = "accepted" /\ stage[m] = "accepted" => answer[n] = answer[m]

Agreement == INSTANCE QuorumAgreement WITH
                 settled <- {n \in Executors : stage[n] = "accepted"}

(* The coordinators implement the agreement the RFC promises.                   *)
ImplementsAgreement == Agreement!AgreementSpec

(* Every await ends, also when nobody answers.                                  *)
AwaitEnds == \A n \in Executors : stage[n] = "listening" ~> Settled(n)
=============================================================================
