---------------------------- MODULE SovereignBoard ----------------------------
(* The views a Board derives from its set of signed envelopes                   *)
(* (src/sovereign/board.ts).  A board is a set B; an envelope is content-       *)
(* addressed, so it is its own id, and a field that holds an id in the code     *)
(* (task, lease, result) holds the envelope it names here.  A view must        *)
(* therefore ask whether that envelope is in B before it uses it.               *)
(*                                                                              *)
(*   publish   [type, signer, ts, entity, minVerifiers, leaseMs, deadline,      *)
(*              maxAttempts, backups, funding, budget]                          *)
(*   lease     [type, signer, ts, task, role, worker, epoch, expiresAt]         *)
(*   result    [type, signer, ts, task, lease, entity, hash]                    *)
(*   attest    [type, signer, ts, task, result, verdict, observed]              *)
(*   finalize  [type, signer, ts, task, decision, result]                       *)
(*                                                                              *)
(* Canonicalization, signatures and schemas are left out: every envelope here   *)
(* is well formed, as ingest() requires.  entity stands for (entity, adapter).  *)
EXTENDS Integers, FiniteSets, Sequences

CONSTANTS Before(_, _),  \* the order of ids, that is of sha256 digests
          FailoverFloor, \* 5_000 ms in the code
          None           \* the result of an evaluation that has none

OfType(B, type) == {e \in B : e.type = type}
Larger(a, b) == IF a >= b THEN a ELSE b

\* The first element of S in the order LT and the last one, each as a set that is
\* empty when there is none.
Least(S, LT(_, _)) == {x \in S : \A y \in S \ {x} : LT(x, y)}
Greatest(S, LT(_, _)) == {x \in S : \A y \in S \ {x} : LT(y, x)}
TheOne(S) == IF S = {} THEN None ELSE CHOOSE x \in S : TRUE

Tasks(B) == OfType(B, "publish")
BackupsOf(m) == {m.backups[i] : i \in 1 .. Len(m.backups)}
Coordinators(m) == {m.signer} \cup BackupsOf(m)

\* How long coordination must be silent before the first backup may take over.
FailoverMs(m) == Larger(FailoverFloor, 2 * m.leaseMs)

\* The publisher always coordinates; a backup only with envelopes stamped after
\* the failover window opened.
IsCoordinator(m, e) == \/ e.signer = m.signer
                       \/ e.signer \in BackupsOf(m) /\ e.ts >= m.ts + FailoverMs(m)

Leases(B, m) == {l \in OfType(B, "lease") : m \in B /\ l.task = m /\ IsCoordinator(m, l)}
DataLeases(B, m) == {l \in Leases(B, m) : l.role = "data"}
VerifyLeases(B, m) == {l \in Leases(B, m) : l.role = "verify"}
LeaseBefore(a, b) == a.epoch < b.epoch \/ (a.epoch = b.epoch /\ Before(a, b))

\* A result counts when it answers a data lease of the task that names its signer.
Results(B, m) == {r \in OfType(B, "result") : /\ r.task = m
                                              /\ r.lease \in DataLeases(B, m)
                                              /\ r.lease.worker = r.signer
                                              /\ r.entity = m.entity}
ResultBefore(a, b) == \/ a.lease.epoch < b.lease.epoch
                      \/ a.lease.epoch = b.lease.epoch /\ Before(a, b)

\* Votes cast by leased verifiers other than the worker.
Votes(B, m, r) == {a \in OfType(B, "attest") : /\ r \in B
                                               /\ a.task = m
                                               /\ a.result = r
                                               /\ a.signer # r.signer
                                               /\ \E l \in VerifyLeases(B, m) : l.worker = a.signer}

\* One vote per verifier: the one with the least id.
Attests(B, m, r) == LET votes == Votes(B, m, r) IN
                    {a \in votes : \A b \in votes : b.signer = a.signer => b = a \/ Before(a, b)}

Finalizes(B, m) == {f \in OfType(B, "finalize") : m \in B /\ f.task = m /\ IsCoordinator(m, f)}
FinalizeBefore(a, b) == a.ts < b.ts \/ (a.ts = b.ts /\ Before(a, b))

Matching(B, m, r) == {a.signer : a \in {b \in Attests(B, m, r) :
                                            b.verdict = "match" /\ b.observed = r.hash}}
Mismatching(B, m, r) == {a.signer : a \in {b \in Attests(B, m, r) : b.verdict = "mismatch"}}

\* accepts(resultId): enough verifiers reproduced the hash, and more than failed to.
Reproduced(B, m, r) ==
    LET yes == Cardinality(Matching(B, m, r))
        no == Cardinality(Mismatching(B, m, r))
    IN  yes >= m.minVerifiers /\ yes > no

Refuted(B, m, r) ==
    LET yes == Cardinality(Matching(B, m, r))
        no == Cardinality(Mismatching(B, m, r))
    IN  no >= m.minVerifiers /\ no > yes

\* The finalizes that still hold: they pin a result that counts and is reproduced.
Pins(B, m) == {f \in Finalizes(B, m) : /\ f.decision = "accepted"
                                       /\ f.result \in Results(B, m)
                                       /\ Reproduced(B, m, f.result)}

FirstReproduced(B, m) ==
    TheOne(Least({r \in Results(B, m) : Reproduced(B, m, r)}, ResultBefore))

\* Mutant: the pins are not looked at.
\* The result evaluate() accepts, or None: the first pin wins, then the first
\* reproduced result in epoch order.
AcceptedResult(B, m) ==
    IF Pins(B, m) # {} THEN TheOne({f.result : f \in Least(Pins(B, m), FinalizeBefore)})
    ELSE FirstReproduced(B, m)

RefutedResult(B, m) ==
    TheOne(Least({r \in Results(B, m) : Refuted(B, m, r)}, ResultBefore))

Status(B, m, now) ==
    IF m \notin B THEN "unassigned"
    ELSE IF AcceptedResult(B, m) # None THEN "accepted"
    ELSE IF RefutedResult(B, m) # None THEN "rejected"
    ELSE IF now > m.deadline THEN "expired"
    ELSE IF Results(B, m) # {} THEN "awaiting-verification"
    ELSE IF DataLeases(B, m) # {} THEN "leased"
    ELSE "unassigned"

\* lastCoordinator(): the latest valid coordination, the publication included, and
\* the publisher's on a tie.  Leases are looked at before finalizes.
CoordinationBefore(a, b) ==
    \/ a.type = "lease" /\ b.type = "finalize"
    \/ a.type = b.type /\ a.type = "lease" /\ LeaseBefore(a, b)
    \/ a.type = b.type /\ a.type = "finalize" /\ FinalizeBefore(a, b)

LastCoordinations(B, m) ==
    LET acts == {m} \cup Leases(B, m) \cup Finalizes(B, m)
        latest == {e \in acts : \A f \in acts : f.ts <= e.ts}
        own == {e \in latest : e.signer = m.signer}
    IN  IF own # {} THEN own ELSE Least(latest, CoordinationBefore)

\* Mutant: the leases of the verifiers are left out of the bundle.
BundleWithoutVerifiers(B, m) ==
    LET r == AcceptedResult(B, m) IN
    {m, r} \cup DataLeases(B, m) \cup Attests(B, m, r) \cup Finalizes(B, m)

\* proofBundle(): what a node serves as proof of an accepted task, and what a client
\* evaluates again without trusting the node.
ProofBundle(B, m) ==
    LET r == AcceptedResult(B, m) IN
    {m, r} \cup Leases(B, m) \cup Attests(B, m, r) \cup Finalizes(B, m)
=============================================================================
