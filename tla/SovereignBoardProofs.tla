------------------------- MODULE SovereignBoardProofs -------------------------
(* Lemmas about the views of a board, for every set of envelopes and every      *)
(* order of ids, also one that is not total.                                    *)
EXTENDS SovereignBoard, TLAPS

\* Views only gain from more envelopes.
LEMMA ViewsGrow ==
  ASSUME NEW B, NEW C, B \subseteq C, NEW m
  PROVE  /\ Tasks(B) \subseteq Tasks(C)
         /\ Leases(B, m) \subseteq Leases(C, m)
         /\ DataLeases(B, m) \subseteq DataLeases(C, m)
         /\ Finalizes(B, m) \subseteq Finalizes(C, m)
         /\ Results(B, m) \subseteq Results(C, m)
  <1>1. /\ Tasks(B) \subseteq Tasks(C)
        /\ Leases(B, m) \subseteq Leases(C, m)
        /\ Finalizes(B, m) \subseteq Finalizes(C, m)
    BY DEF Tasks, OfType, Leases, Finalizes
  <1>2. DataLeases(B, m) \subseteq DataLeases(C, m)
    BY <1>1 DEF DataLeases
  <1>3. Results(B, m) \subseteq Results(C, m)
    BY <1>2 DEF Results, OfType
  <1> QED BY <1>1, <1>2, <1>3

\* What a board accepts counts as a result and is reproduced, pinned or not.
LEMMA AcceptedIsReproduced ==
  ASSUME NEW B, NEW m, AcceptedResult(B, m) # None
  PROVE  AcceptedResult(B, m) \in Results(B, m) /\ Reproduced(B, m, AcceptedResult(B, m))
  <1>0. ASSUME NEW S, TheOne(S) # None PROVE TheOne(S) \in S
    BY <1>0 DEF TheOne
  <1>1. CASE Pins(B, m) # {}
    <2>1. AcceptedResult(B, m) \in {f.result : f \in Least(Pins(B, m), FinalizeBefore)}
      BY <1>0, <1>1 DEF AcceptedResult
    <2> QED BY <2>1 DEF Least, Pins
  <1>2. CASE Pins(B, m) = {}
    <2>1. AcceptedResult(B, m) \in Least({r \in Results(B, m) : Reproduced(B, m, r)}, ResultBefore)
      BY <1>0, <1>2 DEF AcceptedResult, FirstReproduced
    <2> QED BY <2>1 DEF Least
  <1> QED BY <1>1, <1>2

\* Views of the proof bundle of a task: of each kind of envelope it holds just what
\* the board counted, of the results the accepted one.
LEMMA BundleViews ==
  ASSUME NEW B, NEW m \in Tasks(B), AcceptedResult(B, m) # None,
         AcceptedResult(B, m) \in Results(B, m)
  PROVE  LET r == AcceptedResult(B, m)
             P == ProofBundle(B, m)
         IN  /\ Leases(P, m) = Leases(B, m)
             /\ Finalizes(P, m) = Finalizes(B, m)
             /\ Results(P, m) = {r}
             /\ Attests(P, m, r) = Attests(B, m, r)
  <1> DEFINE r == AcceptedResult(B, m)
             P == ProofBundle(B, m)
             leases == Leases(B, m)
             finalizes == Finalizes(B, m)
             attests == Attests(B, m, r)
  <1>1. P = {m, r} \cup leases \cup attests \cup finalizes
    BY DEF ProofBundle
  <1>2. /\ m \in B /\ m.type = "publish"
        /\ r \in B /\ r.type = "result"
        /\ \A e \in leases : e \in B /\ e.type = "lease"
        /\ \A e \in finalizes : e \in B /\ e.type = "finalize"
        /\ \A e \in attests : e \in B /\ e.type = "attest"
    BY DEF Tasks, OfType, Results, Leases, Finalizes, Attests, Votes
  <1>3. Leases(P, m) = leases
    BY <1>1, <1>2 DEF Leases, OfType
  <1>4. Finalizes(P, m) = finalizes
    BY <1>1, <1>2 DEF Finalizes, OfType
  <1>5. DataLeases(P, m) = DataLeases(B, m) /\ VerifyLeases(P, m) = VerifyLeases(B, m)
    BY <1>3 DEF DataLeases, VerifyLeases
  <1>6. Results(P, m) = {r}
    <2>1. \A e \in P : e.type = "result" => e = r
      BY <1>1, <1>2
    <2>2. r \in Results(P, m)
      BY <1>1, <1>2, <1>5 DEF Results, OfType
    <2> QED BY <2>1, <2>2 DEF Results, OfType
  <1>7. Votes(P, m, r) = attests
    <2>1. attests \subseteq Votes(B, m, r)
      BY DEF Attests
    <2>2. \A e \in P : e.type = "attest" => e \in attests
      BY <1>1, <1>2
    <2>3. Votes(P, m, r) \subseteq attests
      BY <2>2 DEF Votes, OfType
    <2>4. r \in P /\ attests \subseteq P
      BY <1>1
    <2>5. \A a \in attests : /\ a \in P /\ a.type = "attest"
                             /\ a.task = m /\ a.result = r /\ a.signer # r.signer
                             /\ \E l \in VerifyLeases(P, m) : l.worker = a.signer
      BY <1>2, <1>5, <2>1, <2>4 DEF Votes
    <2> HIDE DEF attests, P, r
    <2>6. attests \subseteq Votes(P, m, r)
      BY <2>4, <2>5 DEF Votes, OfType
    <2> QED BY <2>3, <2>6
  <1>8. Attests(P, m, r) = attests
    <2>1. Attests(P, m, r) = {a \in attests : \A b \in attests : b.signer = a.signer => b = a \/ Before(a, b)}
      BY <1>7 DEF Attests
    <2>2. \A a \in attests, b \in attests : b.signer = a.signer => b = a \/ Before(a, b)
      BY DEF Attests
    <2> HIDE DEF attests
    <2> QED BY <2>1, <2>2
  <1> QED BY <1>3, <1>4, <1>6, <1>8

\* A client that evaluates the proof bundle of a task accepts the result that the
\* board accepts, and no other.
LEMMA BundleIsProof ==
  ASSUME NEW B, NEW m \in Tasks(B), AcceptedResult(B, m) # None
  PROVE  AcceptedResult(ProofBundle(B, m), m) = AcceptedResult(B, m)
  <1> DEFINE r == AcceptedResult(B, m)
             P == ProofBundle(B, m)
  <1>1. r \in Results(B, m) /\ Reproduced(B, m, r)
    BY AcceptedIsReproduced
  <1>2. /\ Finalizes(P, m) = Finalizes(B, m)
        /\ Results(P, m) = {r}
        /\ Attests(P, m, r) = Attests(B, m, r)
    BY <1>1, BundleViews
  <1>3. Reproduced(P, m, r)
    BY <1>1, <1>2 DEF Reproduced, Matching, Mismatching
  <1>4. Pins(P, m) = {f \in Pins(B, m) : f.result = r}
    <2>1. \A f \in Pins(P, m) : f \in Finalizes(B, m) /\ f.decision = "accepted" /\ f.result = r
      BY <1>2 DEF Pins
    <2>2. \A f \in Finalizes(B, m) : f.decision = "accepted" /\ f.result = r => f \in Pins(P, m) /\ f \in Pins(B, m)
      BY <1>1, <1>2, <1>3 DEF Pins
    <2>3. \A f \in Pins(B, m) : f \in Finalizes(B, m) /\ f.decision = "accepted"
      BY DEF Pins
    <2> HIDE DEF r, P
    <2> QED BY <2>1, <2>2, <2>3
  <1>5. CASE Pins(B, m) # {}
    <2>1. r \in {f.result : f \in Least(Pins(B, m), FinalizeBefore)}
      BY <1>5 DEF AcceptedResult, TheOne
    <2>2. PICK f \in Least(Pins(B, m), FinalizeBefore) : f.result = r
      BY <2>1
    <2>3. f \in Least(Pins(P, m), FinalizeBefore)
      BY <1>4, <2>2 DEF Least
    <2>4. \A g \in Least(Pins(P, m), FinalizeBefore) : g.result = r
      BY <1>4 DEF Least
    <2>5. {g.result : g \in Least(Pins(P, m), FinalizeBefore)} = {r}
      BY <2>2, <2>3, <2>4
    <2>6. Pins(P, m) # {}
      BY <2>3 DEF Least
    <2> HIDE DEF r, P
    <2> QED BY <2>5, <2>6 DEF AcceptedResult, TheOne, r, P
  <1>6. CASE Pins(B, m) = {}
    <2>1. Pins(P, m) = {}
      BY <1>4, <1>6
    <2>2. {s \in Results(P, m) : Reproduced(P, m, s)} = {r}
      BY <1>2, <1>3
    <2>3. Least({r}, ResultBefore) = {r}
      BY DEF Least
    <2>4. AcceptedResult(P, m) = TheOne({r})
      BY <2>1, <2>2, <2>3 DEF AcceptedResult, FirstReproduced
    <2> QED BY <2>4 DEF TheOne
  <1> QED BY <1>5, <1>6
=============================================================================
