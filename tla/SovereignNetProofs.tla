-------------------------- MODULE SovereignNetProofs --------------------------
(* Proofs about SovereignNet, for every network, every order of ids and every   *)
(* value of the bounds.  Shape says what one step can do to boards, envelopes   *)
(* and running work; each part of the invariant is then kept because of it.     *)
EXTENDS SovereignNet, SovereignBoardProofs, FiniteSetTheorems

\* What a manifest promises to the arithmetic of leases and takeovers.
ManifestsOK == \A m \in Tasks(emitted) :
                  m.ts \in Nat /\ {m.minVerifiers, m.leaseMs, m.maxAttempts} \subseteq Nat \ {0}

\* A node holds what it signed.
Own == \A e \in emitted : e \in board[e.signer]

\* A lease or finalize names a task its signer held and coordinated.
Coordinated == \A e \in emitted : e.type \in {"lease", "finalize"} =>
                  e.task \in Tasks(board[e.signer]) /\ IsCoordinator(e.task, e)

\* No lease asks a coordinator of its task.
Disinterested == \A l \in OfType(emitted, "lease") : l.worker \notin Coordinators(l.task)

\* A result answers a data lease its signer held.
Answers(r) == /\ r.lease \in DataLeases(board[r.signer], r.task)
              /\ r.lease.worker = r.signer
              /\ r.entity = r.task.entity
Answering == \A r \in OfType(emitted, "result") : Answers(r)

\* Who votes for a match has seen what the registry served.
Seen == \A a \in OfType(emitted, "attest") : a.verdict = "match" => a.observed \in 1 .. source

\* What runs has not been answered yet.
RunningLease(n, l) == /\ l \in DataLeases(board[n], l.task)
                      /\ l.worker = n
                      /\ \A r \in OfType(emitted, "result") : r.lease # l
RunningCheck(n, r) == \A a \in OfType(emitted, "attest") : a.signer = n => a.result # r
Running == \A n \in Nodes : \A w \in inflight[n] :
              /\ w.type = "lease" => RunningLease(n, w)
              /\ w.type = "result" => RunningCheck(n, w)

\* The data leases signed for a task follow each other.
Signed(m) == {l \in OfType(emitted, "lease") : l.task = m /\ l.role = "data"}
Follow(l1, l2) == /\ l1.epoch # l2.epoch
                  /\ l1.worker # l2.worker
                  /\ l1.epoch < l2.epoch => l1.expiresAt < l2.ts
InTurn(m) == /\ \A l \in Signed(m) : l.epoch \in Nat /\ l.expiresAt \in Nat
             /\ \A l1, l2 \in Signed(m) : l1 # l2 => Follow(l1, l2)
             /\ IsFiniteSet(Signed(m)) /\ Cardinality(Signed(m)) <= m.maxAttempts
Turns == \A m \in Tasks(emitted) : m.backups = << >> => InTurn(m)

Inv == /\ TypeOK /\ ManifestsOK /\ Own /\ Coordinated /\ Disinterested /\ Answering
       /\ Seen /\ Running /\ AnsweredOnce /\ FinalizedOnce /\ Turns
-----------------------------------------------------------------------------
\* A node that decides to coordinate (node.ts) signs what every board takes for
\* valid coordination (board.ts), however old the time its tick read is.
LEMMA WhoCoordinatesIsCoordinator ==
  ASSUME Inv, NEW n \in Nodes, NEW t \in 0 .. now, NEW m \in Tasks(board[n]),
         Coordinates(n, m, t), NEW e, e.signer = n, e.ts = now
  PROVE  IsCoordinator(m, e)
  <1> USE NetAssumption DEF NetAssumption
  <1>1. CASE m.signer = n
    BY <1>1 DEF IsCoordinator
  <1>2. CASE m.signer # n
    <2>1. n \in BackupsOf(m)
      BY <1>2 DEF Coordinates
    <2>2. PICK last \in LastCoordinations(board[n], m) :
             last.signer = n \/ t - last.ts >= FailoverMs(m) * Rank(m, n)
      BY <1>2 DEF Coordinates
    <2> DEFINE acts == {m} \cup Leases(board[n], m) \cup Finalizes(board[n], m)
    <2>3. last \in acts /\ m.ts <= last.ts
      <3>1. \/ LastCoordinations(board[n], m) = Least({f \in acts : \A g \in acts : g.ts <= f.ts}, CoordinationBefore)
            \/ LastCoordinations(board[n], m) = {f \in {f \in acts : \A g \in acts : g.ts <= f.ts} : f.signer = m.signer}
        BY DEF LastCoordinations
      <3>2. last \in {f \in acts : \A g \in acts : g.ts <= f.ts}
        BY <2>2, <3>1 DEF Least
      <3> QED BY <3>2
    <2>4. acts \subseteq emitted /\ m \in emitted /\ m \in Tasks(emitted)
      BY DEF Inv, TypeOK, Tasks, OfType, Leases, Finalizes
    <2>5. /\ m.ts \in Nat /\ m.leaseMs \in Nat
          /\ last.ts \in 0 .. now /\ now \in Nat
      BY <2>3, <2>4 DEF Inv, TypeOK, ManifestsOK
    <2>6. FailoverMs(m) \in Nat
      BY <2>5 DEF FailoverMs, Larger
    <2>7. CASE last.signer = n
      <3>1. IsCoordinator(m, last)
        BY <1>2, <2>3, <2>7 DEF Leases, Finalizes
      <3>2. last.ts >= m.ts + FailoverMs(m)
        BY <1>2, <2>7, <3>1 DEF IsCoordinator
      <3>3. now >= m.ts + FailoverMs(m)
        BY <2>5, <2>6, <3>2
      <3> QED BY <2>1, <3>3 DEF IsCoordinator
    <2>8. CASE t - last.ts >= FailoverMs(m) * Rank(m, n)
      <3>1. Rank(m, n) \in 1 .. Len(m.backups)
        BY <2>1 DEF Rank, BackupsOf
      <3>2. Rank(m, n) \in Nat \ {0}
        BY <3>1
      <3>3. FailoverMs(m) * Rank(m, n) >= FailoverMs(m)
        BY <2>6, <3>2
      <3>4. FailoverMs(m) * Rank(m, n) \in Nat
        BY <2>6, <3>2
      <3> DEFINE silence == FailoverMs(m) * Rank(m, n)
      <3> HIDE DEF silence
      <3>5. now >= m.ts + FailoverMs(m)
        BY <2>3, <2>5, <2>6, <2>8, <3>3, <3>4 DEF silence
      <3> QED BY <2>1, <3>5 DEF IsCoordinator
    <2> QED BY <2>2, <2>7, <2>8
  <1> QED BY <1>1, <1>2

\* The data lease e that n may sign next for m: to a worker n has not leased, after
\* the last lease it knows of expired, at the latest now.
Succeeds(n, m, e) ==
    LET leases == DataLeases(board[n], m) IN
    /\ \A l \in leases : l.worker # e.worker
    /\ e.expiresAt \in Nat
    /\ \/ leases = {} /\ e.epoch = 1
       \/ /\ \E l \in Greatest(leases, LeaseBefore), t \in 0 .. now : l.expiresAt < t
          /\ \E l \in Greatest(leases, LeaseBefore) : e.epoch = l.epoch + 1
          /\ Cardinality(leases) < m.maxAttempts

\* What a coordinator may sign for the task m in one duty.
Lawful(n, m, e) ==
    /\ e.signer = n /\ e.ts = now /\ e.task = m
    /\ IsCoordinator(m, e)
    /\ \/ e.type = "lease" /\ e.worker \notin Coordinators(m) /\ (e.role = "data" => Succeeds(n, m, e))
       \/ e.type = "finalize" /\ Finalizes(board[n], m) = {}

LEMMA DataLeaseSucceeds ==
  ASSUME Inv, NEW n \in Nodes, NEW t \in 0 .. now, NEW m \in Tasks(board[n]),
         NEW d \in DataLeaseChoices(n, m, t), NEW e \in d
  PROVE  /\ Succeeds(n, m, e)
         /\ \E worker, epoch : /\ worker \notin Reserved(n, m)
                               /\ e = LeaseFor(n, m, t, "data", worker, epoch)
  <1> USE NetAssumption DEF NetAssumption
  <1> DEFINE leases == DataLeases(board[n], m)
             epoch == IF leases = {} THEN 1 ELSE TheOne(Greatest(leases, LeaseBefore)).epoch + 1
  <1>1. PICK worker : /\ worker \notin {l.worker : l \in leases} \cup Reserved(n, m)
                      /\ e = LeaseFor(n, m, t, "data", worker, epoch)
                      /\ NeedsExecutor(n, m, t)
    BY DEF DataLeaseChoices, Candidates
  <1>2. e.worker = worker /\ e.epoch = epoch /\ e.expiresAt = t + m.leaseMs
    BY <1>1 DEF LeaseFor
  <1>3. t + m.leaseMs \in Nat /\ now \in Nat
    BY DEF Inv, TypeOK, ManifestsOK, Tasks, OfType
  <1>4. CASE leases = {}
    BY <1>1, <1>2, <1>3, <1>4 DEF Succeeds
  <1>5. CASE leases # {}
    <2>1. PICK l \in Greatest(leases, LeaseBefore) : l.expiresAt < t
      BY <1>1, <1>5 DEF NeedsExecutor
    <2>3. TheOne(Greatest(leases, LeaseBefore)) \in Greatest(leases, LeaseBefore)
      BY <2>1 DEF TheOne
    <2>4. Cardinality(leases) < m.maxAttempts
      BY <1>1, <1>5 DEF NeedsExecutor
    <2> QED BY <1>1, <1>2, <1>3, <1>5, <2>1, <2>3, <2>4 DEF Succeeds
  <1> QED BY <1>1, <1>4, <1>5

LEMMA CoordinationIsLawful ==
  ASSUME Inv, NEW n \in Nodes, NEW t \in 0 .. now, NEW m \in Tasks(board[n]),
         NEW envs \in Coordination(n, m, t)
  PROVE  /\ \A e \in envs : Lawful(n, m, e)
         /\ \A e, f \in envs : e.type = "finalize" /\ f.type = "finalize" => e = f
         /\ \A e, f \in envs : e.type = f.type /\ e.type = "lease" /\ e.role = "data" /\ f.role = "data" => e = f
  <1>1. CASE envs = {}
    BY <1>1
  <1>2. CASE envs # {} /\ Status(board[n], m, t) \in {"accepted", "rejected"}
    <2>1. Coordinates(n, m, t) /\ Finalizes(board[n], m) = {} /\ envs = {Decision(n, m)}
      BY <1>2 DEF Coordination
    <2>2. /\ Decision(n, m).type = "finalize" /\ Decision(n, m).signer = n
          /\ Decision(n, m).ts = now /\ Decision(n, m).task = m
      BY DEF Decision
    <2>3. IsCoordinator(m, Decision(n, m))
      BY <2>1, <2>2, WhoCoordinatesIsCoordinator
    <2> QED BY <2>1, <2>2, <2>3 DEF Lawful
  <1>3. CASE envs # {} /\ Status(board[n], m, t) \notin {"accepted", "rejected"}
    <2>1. /\ Coordinates(n, m, t)
          /\ \E d \in DataLeaseChoices(n, m, t), v \in VerifyLeaseChoices(n, m, t) : envs = d \cup v
      BY <1>3 DEF Coordination
    <2>2. PICK d \in DataLeaseChoices(n, m, t), v \in VerifyLeaseChoices(n, m, t) : envs = d \cup v
      BY <2>1
    <2>3. ASSUME NEW e \in d
          PROVE  /\ Succeeds(n, m, e)
                 /\ \E worker, epoch : /\ worker \notin Reserved(n, m)
                                       /\ e = LeaseFor(n, m, t, "data", worker, epoch)
      BY <2>2, <2>3, DataLeaseSucceeds
    <2>4. ASSUME NEW e \in v
          PROVE  \E worker, epoch : /\ worker \notin Reserved(n, m)
                                    /\ e = LeaseFor(n, m, t, "verify", worker, epoch)
      BY <2>2, <2>4 DEF VerifyLeaseChoices, Candidates
    <2>5. ASSUME NEW e \in envs
          PROVE  Lawful(n, m, e) /\ e.type = "lease" /\ (e.role = "data" => e \in d)
      <3>1. PICK role, worker, epoch : /\ worker \notin Reserved(n, m)
                                       /\ e = LeaseFor(n, m, t, role, worker, epoch)
                                       /\ role = "data" => e \in d /\ Succeeds(n, m, e)
        BY <2>2, <2>3, <2>4, <2>5
      <3>2. /\ e.type = "lease" /\ e.signer = n /\ e.ts = now /\ e.task = m
            /\ e.worker = worker /\ e.role = role
        BY <3>1 DEF LeaseFor
      <3>3. IsCoordinator(m, e)
        BY <2>1, <3>2, WhoCoordinatesIsCoordinator
      <3> QED BY <3>1, <3>2, <3>3 DEF Lawful, Reserved
    <2>6. \A e, f \in d : e = f
      BY <2>2 DEF DataLeaseChoices
    <2> QED BY <2>5, <2>6
  <1> QED BY <1>1, <1>2, <1>3
-----------------------------------------------------------------------------
\* An envelope the step signs.
Fresh(e) ==
    /\ e.signer \in Nodes /\ e.ts = now /\ now' = now
    /\ e \in board'[e.signer]
    /\ \/ /\ e.type = "publish"
          /\ {e.minVerifiers, e.leaseMs, e.maxAttempts} \subseteq Nat \ {0}
       \/ /\ e.type \in {"lease", "finalize"}
          /\ e.task \in Tasks(board[e.signer]) /\ Lawful(e.signer, e.task, e)
       \/ /\ e.type = "result"
          /\ e.lease \in inflight[e.signer] \ inflight'[e.signer]
          /\ e.lease.type = "lease" /\ e.task = e.lease.task /\ e.entity = e.task.entity
       \/ /\ e.type = "attest"
          /\ e.result \in inflight[e.signer] \ inflight'[e.signer]
          /\ e.result.type = "result"
          /\ e.verdict = "match" => e.observed = source

\* Work the step starts: none of it has been answered.
Started(n, w) ==
    /\ w \in board'[n]
    /\ \/ /\ w.type = "lease" /\ w \in DataLeases(board'[n], w.task) /\ w.worker = n
          /\ \A r \in Results(board'[n], w.task) : r.signer # n
       \/ /\ w.type = "result"
          /\ \A a \in OfType(board'[n], "attest") : ~(a.signer = n /\ a.result = w)

\* All that a step can do.
Shape ==
    /\ emitted \subseteq emitted'
    /\ now <= now' /\ now' \in 0 .. MaxTime
    /\ source <= source' /\ source' \in 1 .. MaxVersions
    /\ restarts' \in 0 .. MaxRestarts
    /\ tickAt' \in [Nodes -> 0 .. now \cup {None}]
    /\ board' \in [Nodes -> SUBSET emitted']
    /\ \A n \in Nodes : board[n] \subseteq board'[n]
    /\ inflight' = [n \in Nodes |-> inflight'[n]]
    /\ \A e \in emitted' \ emitted : Fresh(e)
    /\ \A e, f \in emitted' \ emitted : e.type = f.type /\ e.type \in {"result", "attest"} => e = f
    /\ \A e, f \in emitted' \ emitted : e.type = f.type /\ e.type = "finalize" /\ e.task = f.task => e = f
    /\ \A e, f \in emitted' \ emitted : e.type = f.type /\ e.type = "lease" /\ e.task = f.task
                                       /\ e.role = "data" /\ f.role = "data" => e = f
    /\ \A n \in Nodes : \A w \in inflight'[n] \ inflight[n] :
          Started(n, w) /\ \A e \in emitted' \ emitted : e.type \notin {"result", "attest"}

LEMMA EmitGrows ==
  ASSUME TypeOK, NEW n \in Nodes, NEW envs, Emit(n, envs)
  PROVE  /\ emitted' = emitted \cup envs
         /\ board' \in [Nodes -> SUBSET emitted']
         /\ \A k \in Nodes : board[k] \subseteq board'[k]
         /\ board'[n] = board[n] \cup envs
  BY DEF Emit, TypeOK

LEMMA PublishShape ==
  ASSUME Inv, NEW n \in Publishers, NEW terms \in Terms, PublishTask(n, terms)
  PROVE  Shape
  <1> USE NetAssumption DEF NetAssumption
  <1>1. n \in Nodes /\ TypeOK
    BY DEF Inv
  <1> DEFINE m == [type |-> "publish", signer |-> n, ts |-> now, entity |-> terms.entity,
                   minVerifiers |-> terms.minVerifiers, leaseMs |-> terms.leaseMs,
                   deadline |-> now + terms.deadline, maxAttempts |-> terms.maxAttempts,
                   backups |-> SelectSeq(terms.backups, LAMBDA k : k # n),
                   funding |-> terms.funding, budget |-> terms.budget]
  <1>2. Emit(n, {m}) /\ UNCHANGED <<now, tickAt, inflight, source, restarts>>
    BY DEF PublishTask
  <1>3. /\ m.type = "publish" /\ m.signer = n /\ m.ts = now
        /\ {m.minVerifiers, m.leaseMs, m.maxAttempts} \subseteq Nat \ {0}
    OBVIOUS
  <1> HIDE DEF m
  <1>4. /\ emitted' = emitted \cup {m}
        /\ board' \in [Nodes -> SUBSET emitted']
        /\ \A k \in Nodes : board[k] \subseteq board'[k]
        /\ board'[n] = board[n] \cup {m}
    BY <1>1, <1>2, EmitGrows
  <1>5. Fresh(m)
    BY <1>1, <1>2, <1>3, <1>4 DEF Fresh
  <1> QED BY <1>1, <1>2, <1>3, <1>4, <1>5 DEF Shape, TypeOK

LEMMA ReceiveShape ==
  ASSUME Inv, NEW n \in Nodes, NEW e \in emitted \ board[n], Receive(n, e)
  PROVE  Shape
  BY DEF Receive, Shape, Inv, TypeOK

LEMMA TickBeginShape ==
  ASSUME Inv, NEW n \in Nodes, TickBegin(n)
  PROVE  Shape
  BY DEF TickBegin, Shape, Inv, TypeOK

LEMMA RestartShape ==
  ASSUME Inv, NEW n \in Nodes, Restart(n)
  PROVE  Shape
  <1> USE NetAssumption DEF NetAssumption
  <1>1. inflight' = [inflight EXCEPT ![n] = {}] /\ TypeOK
    BY DEF Restart, Inv
  <1>2. /\ inflight' = [k \in Nodes |-> inflight'[k]]
        /\ \A k \in Nodes : inflight'[k] \subseteq inflight[k]
    BY <1>1 DEF TypeOK
  <1>3. tickAt' \in [Nodes -> 0 .. now \cup {None}]
    BY <1>1 DEF Restart, TypeOK
  <1> QED BY <1>1, <1>2, <1>3 DEF Restart, Shape, TypeOK

LEMMA ClockAndSourceShape ==
  ASSUME Inv, SourceChanges \/ Tick \/ UNCHANGED vars
  PROVE  Shape
  <1> USE NetAssumption DEF NetAssumption
  <1>1. CASE SourceChanges
    BY <1>1 DEF SourceChanges, Shape, Inv, TypeOK
  <1>2. CASE Tick
    BY <1>2 DEF Tick, Shape, Inv, TypeOK
  <1>3. CASE UNCHANGED vars
    BY <1>3 DEF vars, Shape, Inv, TypeOK
  <1> QED BY <1>1, <1>2, <1>3

\* What a tick starts, given the board it leaves behind.
LEMMA FetchesAreOpen ==
  ASSUME NEW n, NEW B, NEW t, NEW l \in Fetches(n, B, t)
  PROVE  /\ l \in B /\ l.type = "lease" /\ l \in DataLeases(B, l.task) /\ l.worker = n
         /\ \A r \in Results(B, l.task) : r.signer # n
  <1>1. PICK m \in Tasks(B) : l \in DataLeases(B, m)
    BY DEF Fetches
  <1>2. l \in B /\ l.type = "lease" /\ l.task = m
    BY <1>1 DEF DataLeases, Leases, OfType
  <1> QED BY <1>1, <1>2 DEF Fetches

LEMMA ChecksAreOpen ==
  ASSUME NEW n, NEW B, NEW r \in Checks(n, B)
  PROVE  /\ r \in B /\ r.type = "result"
         /\ \A a \in OfType(B, "attest") : ~(a.signer = n /\ a.result = r)
  <1>1. PICK m \in Tasks(B) : r \in Least(Unjudged(n, B, m), ResultBefore)
    BY DEF Checks
  <1>2. r \in Unjudged(n, B, m)
    BY <1>1 DEF Least
  <1> QED BY <1>2 DEF Unjudged, Results, OfType

LEMMA DutiesShape ==
  ASSUME Inv, NEW n \in Nodes, Duties(n)
  PROVE  Shape
  <1> USE NetAssumption DEF NetAssumption
  <1> DEFINE t == IF n \in Slow THEN tickAt[n] ELSE now
             tasks == Tasks(board[n])
             choices == UNION {Coordination(n, m, t) : m \in tasks}
  <1>1. PICK pick \in [tasks -> choices] :
           /\ \A m \in tasks : pick[m] \in Coordination(n, m, t)
           /\ Emit(n, UNION {pick[m] : m \in tasks})
           /\ inflight' = [inflight EXCEPT ![n] =
                 @ \cup Fetches(n, board[n] \cup UNION {pick[m] : m \in tasks}, t)
                   \cup Checks(n, board[n] \cup UNION {pick[m] : m \in tasks})]
    BY DEF Duties
  <1> DEFINE envs == UNION {pick[m] : m \in tasks}
  <1>2. TypeOK /\ t \in 0 .. now
    BY DEF Duties, Inv, TypeOK
  <1>3. /\ emitted' = emitted \cup envs
        /\ board' \in [Nodes -> SUBSET emitted']
        /\ \A k \in Nodes : board[k] \subseteq board'[k]
        /\ board'[n] = board[n] \cup envs
    BY <1>1, <1>2, EmitGrows
  <1>4. \A m \in tasks : /\ \A e \in pick[m] : Lawful(n, m, e)
                         /\ \A e, f \in pick[m] : e.type = "finalize" /\ f.type = "finalize" => e = f
                         /\ \A e, f \in pick[m] : e.type = f.type /\ e.type = "lease"
                                                  /\ e.role = "data" /\ f.role = "data" => e = f
    BY <1>1, <1>2, CoordinationIsLawful
  <1>5. \A e \in envs : e.task \in tasks /\ e \in pick[e.task] /\ Lawful(n, e.task, e)
    BY <1>4 DEF Lawful
  <1>6. inflight' = [inflight EXCEPT ![n] = @ \cup Fetches(n, board'[n], t) \cup Checks(n, board'[n])]
    BY <1>1, <1>3
  <1>7. UNCHANGED <<now, source, restarts>> /\ tickAt' = [tickAt EXCEPT ![n] = None]
    BY DEF Duties
  <1> HIDE DEF envs, t
  <1>8. \A e \in envs : Fresh(e) /\ e.type \in {"lease", "finalize"}
    BY <1>3, <1>5, <1>7 DEF Fresh, Lawful
  <1>9. /\ \A e, f \in envs : e.type = f.type /\ e.type = "finalize" /\ e.task = f.task => e = f
        /\ \A e, f \in envs : e.type = f.type /\ e.type = "lease" /\ e.task = f.task
                             /\ e.role = "data" /\ f.role = "data" => e = f
    BY <1>4, <1>5
  <1>10. \A w \in Fetches(n, board'[n], t) : Started(n, w)
    BY FetchesAreOpen DEF Started
  <1>11. \A w \in Checks(n, board'[n]) : Started(n, w)
    BY ChecksAreOpen DEF Started
  <1>12. \A k \in Nodes : \A w \in inflight'[k] \ inflight[k] : Started(k, w)
    BY <1>2, <1>6, <1>10, <1>11 DEF TypeOK
  <1>13. inflight' = [k \in Nodes |-> inflight'[k]]
    BY <1>2, <1>6 DEF TypeOK
  <1>14. tickAt' \in [Nodes -> 0 .. now \cup {None}]
    BY <1>2, <1>7 DEF TypeOK
  <1>15. now <= now' /\ now' \in 0 .. MaxTime /\ source <= source' /\ source' \in 1 .. MaxVersions
         /\ restarts' \in 0 .. MaxRestarts
    BY <1>2, <1>7 DEF TypeOK
  <1> QED BY <1>3, <1>8, <1>9, <1>12, <1>13, <1>14, <1>15 DEF Shape

\* Fetches and verifications end with one envelope that answers them, or with none.
LEMMA WorkShape ==
  ASSUME Inv, NEW n \in Nodes, Work(n)
  PROVE  Shape
  <1> USE NetAssumption DEF NetAssumption
  <1>1. TypeOK
    BY DEF Inv
  <1>2. PICK w \in inflight[n] :
           \/ w.type = "lease" /\ (FetchDone(n, w) \/ FetchFailed(n, w))
           \/ w.type = "result" /\ (VerifyDone(n, w) \/ VerifyFailed(n, w))
    BY DEF Work, OfType
  <1>3. ASSUME NEW e, Emit(n, {e}), Finished(n, w), UNCHANGED <<now, tickAt, source, restarts>>,
               e.signer = n, e.ts = now,
               \/ /\ e.type = "result" /\ w.type = "lease" /\ e.lease = w
                  /\ e.task = e.lease.task /\ e.entity = e.task.entity
               \/ /\ e.type = "attest" /\ w.type = "result" /\ e.result = w
                  /\ e.verdict = "match" => e.observed = source
        PROVE  Shape
    <2>1. /\ emitted' = emitted \cup {e}
          /\ board' \in [Nodes -> SUBSET emitted']
          /\ \A k \in Nodes : board[k] \subseteq board'[k]
          /\ board'[n] = board[n] \cup {e}
      BY <1>1, <1>3, EmitGrows
    <2>2. /\ inflight' = [k \in Nodes |-> inflight'[k]] /\ w \notin inflight'[n]
          /\ \A k \in Nodes : inflight'[k] \subseteq inflight[k]
      BY <1>1, <1>3 DEF Finished, TypeOK
    <2>3. Fresh(e)
      BY <1>2, <1>3, <2>1, <2>2 DEF Fresh
    <2> QED BY <1>1, <1>3, <2>1, <2>2, <2>3 DEF Shape, TypeOK
  <1>4. ASSUME Finished(n, w), UNCHANGED <<now, emitted, board, tickAt, source, restarts>>
        PROVE  Shape
    <2>1. /\ inflight' = [k \in Nodes |-> inflight'[k]]
          /\ \A k \in Nodes : inflight'[k] \subseteq inflight[k]
      BY <1>1, <1>4 DEF Finished, TypeOK
    <2> QED BY <1>1, <1>4, <2>1 DEF Shape, TypeOK
  <1>5. CASE w.type = "lease" /\ FetchDone(n, w)
    <2> DEFINE e == [type |-> "result", signer |-> n, ts |-> now, task |-> w.task, lease |-> w,
                     entity |-> w.task.entity, hash |-> Hash(n)]
    <2>1. /\ Emit(n, {e}) /\ Finished(n, w) /\ UNCHANGED <<now, tickAt, source, restarts>>
      BY <1>5 DEF FetchDone
    <2>2. /\ e.signer = n /\ e.ts = now /\ e.type = "result" /\ e.lease = w
          /\ e.task = e.lease.task /\ e.entity = e.task.entity
      OBVIOUS
    <2> HIDE DEF e
    <2> QED BY <1>3, <1>5, <2>1, <2>2
  <1>6. CASE w.type = "result" /\ VerifyDone(n, w)
    <2> DEFINE e == Vote(n, w, IF source = w.hash THEN "match" ELSE "mismatch", source)
    <2>1. /\ Emit(n, {e}) /\ Finished(n, w) /\ UNCHANGED <<now, tickAt, source, restarts>>
      BY <1>6 DEF VerifyDone
    <2>2. /\ e.signer = n /\ e.ts = now /\ e.type = "attest" /\ e.result = w
          /\ e.observed = source
      BY DEF Vote
    <2> HIDE DEF e
    <2> QED BY <1>3, <1>6, <2>1, <2>2
  <1>7. CASE w.type = "result" /\ VerifyFailed(n, w)
    <2> DEFINE e == Vote(n, w, "inconclusive", None)
    <2>1. /\ Emit(n, {e}) /\ Finished(n, w) /\ UNCHANGED <<now, tickAt, source, restarts>>
      BY <1>7 DEF VerifyFailed
    <2>2. /\ e.signer = n /\ e.ts = now /\ e.type = "attest" /\ e.result = w
          /\ e.verdict # "match"
      BY DEF Vote
    <2> HIDE DEF e
    <2> QED BY <1>3, <1>7, <2>1, <2>2
  <1>8. CASE w.type = "lease" /\ FetchFailed(n, w)
    BY <1>4, <1>8 DEF FetchFailed
  <1> QED BY <1>2, <1>5, <1>6, <1>7, <1>8

LEMMA StepShape ==
  ASSUME Inv, [Next]_vars
  PROVE  Shape
  <1>1. ASSUME NEW n \in Nodes, NEW e \in emitted \ board[n], Receive(n, e) PROVE Shape
    BY <1>1, ReceiveShape
  <1> QED BY <1>1, PublishShape, TickBeginShape, DutiesShape, WorkShape, RestartShape,
             ClockAndSourceShape DEF Next
-----------------------------------------------------------------------------
LEMMA InitInv == Init => Inv
  <1> SUFFICES ASSUME Init PROVE Inv
    OBVIOUS
  <1> USE NetAssumption DEF NetAssumption
  <1>1. TypeOK
    BY DEF Init, TypeOK
  <1>2. emitted = {} /\ \A n \in Nodes : inflight[n] = {}
    BY DEF Init
  <1> QED BY <1>1, <1>2 DEF Inv, ManifestsOK, Own, Coordinated, Disinterested, Answering, Seen,
             Running, AnsweredOnce, FinalizedOnce, Turns, Tasks, OfType

\* The parts of the invariant that speak of what was signed.
LEMMA EnvelopesInv ==
  ASSUME Inv, Shape
  PROVE  /\ TypeOK' /\ ManifestsOK' /\ Own' /\ Coordinated'
         /\ Disinterested' /\ Answering' /\ Seen'
  <1> USE NetAssumption DEF NetAssumption
  <1>0. /\ TypeOK /\ now <= now' /\ now \in 0 .. MaxTime /\ now' \in 0 .. MaxTime
        /\ \A n \in Nodes : board[n] \subseteq board'[n] /\ board[n] \subseteq emitted /\ board'[n] \subseteq emitted'
        /\ emitted \subseteq emitted'
        /\ \A e \in emitted' \ emitted : Fresh(e)
    BY DEF Inv, Shape, TypeOK
  <1>1. TypeOK'
    <2>1. \A e \in emitted' : e.type \in EnvelopeType /\ e.signer \in Nodes /\ e.ts \in 0 .. now'
      BY <1>0 DEF TypeOK, Fresh, EnvelopeType
    <2>2. tickAt' \in [Nodes -> 0 .. now' \cup {None}]
      BY <1>0 DEF Shape
    <2>3. \A n \in Nodes : \A w \in inflight'[n] : w \in board'[n] /\ w.type \in {"lease", "result"}
      <3> SUFFICES ASSUME NEW n \in Nodes, NEW w \in inflight'[n]
                   PROVE  w \in board'[n] /\ w.type \in {"lease", "result"}
        OBVIOUS
      <3>1. CASE w \in inflight[n]
        BY <1>0, <3>1 DEF TypeOK, OfType
      <3>2. CASE w \notin inflight[n]
        BY <3>2 DEF Shape, Started
      <3> QED BY <3>1, <3>2
    <2>4. /\ inflight' \in [Nodes -> SUBSET (OfType(emitted', "lease") \cup OfType(emitted', "result"))]
          /\ \A n \in Nodes : inflight'[n] \subseteq board'[n]
      <3>1. \A n \in Nodes : inflight'[n] \subseteq OfType(emitted', "lease") \cup OfType(emitted', "result")
        BY <1>0, <2>3 DEF OfType
      <3>2. inflight' = [n \in Nodes |-> inflight'[n]]
        BY DEF Shape
      <3> QED BY <2>3, <3>1, <3>2
    <2> QED BY <2>1, <2>2, <2>4 DEF TypeOK, Shape
  <1>2. ManifestsOK'
    BY <1>0 DEF Inv, ManifestsOK, Tasks, OfType, Fresh
  <1>3. Own'
    BY <1>0 DEF Inv, Own, TypeOK, Fresh
  <1>4. Coordinated'
    <2> SUFFICES ASSUME NEW e \in emitted', e.type \in {"lease", "finalize"}
                 PROVE  e.task \in Tasks(board'[e.signer]) /\ IsCoordinator(e.task, e)
      BY DEF Coordinated
    <2>1. e.signer \in Nodes /\ e.task \in Tasks(board[e.signer]) /\ IsCoordinator(e.task, e)
      <3>1. CASE e \in emitted
        BY <1>0, <3>1 DEF Inv, Coordinated, TypeOK
      <3>2. CASE e \notin emitted
        BY <1>0, <3>2 DEF Fresh, Lawful
      <3> QED BY <3>1, <3>2
    <2> QED BY <1>0, <2>1, ViewsGrow
  <1>5. Disinterested'
    BY <1>0 DEF Inv, Disinterested, OfType, Fresh, Lawful
  <1>6. Answering'
    <2> SUFFICES ASSUME NEW r \in emitted', r.type = "result"
                 PROVE  Answers(r)'
      BY DEF Answering, OfType
    <2>1. /\ r.signer \in Nodes /\ r.lease \in DataLeases(board[r.signer], r.task)
          /\ r.lease.worker = r.signer /\ r.entity = r.task.entity
      <3>1. CASE r \in emitted
        BY <1>0, <3>1 DEF Inv, Answering, Answers, OfType, TypeOK
      <3>2. CASE r \notin emitted
        <4>1. /\ r.signer \in Nodes /\ r.lease \in inflight[r.signer] /\ r.lease.type = "lease"
              /\ r.task = r.lease.task /\ r.entity = r.task.entity
          BY <1>0, <3>2 DEF Fresh
        <4> QED BY <4>1 DEF Inv, Running, RunningLease
      <3> QED BY <3>1, <3>2
    <2>2. r.lease \in DataLeases(board'[r.signer], r.task)
      BY <1>0, <2>1, ViewsGrow
    <2> QED BY <2>1, <2>2 DEF Answers
  <1>7. Seen'
    <2> SUFFICES ASSUME NEW a \in emitted', a.type = "attest", a.verdict = "match"
                 PROVE  a.observed \in 1 .. source'
      BY DEF Seen, OfType
    <2>1. source \in 1 .. MaxVersions /\ source <= source' /\ source' \in 1 .. MaxVersions
      BY <1>0 DEF TypeOK, Shape
    <2>2. CASE a \in emitted
      BY <2>1, <2>2 DEF Inv, Seen, OfType
    <2>3. CASE a \notin emitted
      BY <1>0, <2>1, <2>3 DEF Fresh
    <2> QED BY <2>2, <2>3
  <1> QED BY <1>1, <1>2, <1>3, <1>4, <1>5, <1>6, <1>7

\* What runs stays unanswered: a fresh answer ends the work it answers, and work is
\* started only where the node, which holds all it signed, sees no answer of its own.
LEMMA RunningInv ==
  ASSUME Inv, Shape
  PROVE  Running'
  <1>0. /\ \A n \in Nodes : board[n] \subseteq board'[n]
        /\ \A e \in emitted' \ emitted : Fresh(e)
        /\ \A n \in Nodes : \A w \in inflight'[n] \ inflight[n] :
              Started(n, w) /\ \A e \in emitted' \ emitted : e.type \notin {"result", "attest"}
    BY DEF Shape
  <1>1. ASSUME NEW n \in Nodes, NEW w \in inflight'[n], w.type = "lease"
        PROVE  RunningLease(n, w)'
    <2>1. CASE w \in inflight[n]
      <3>1. RunningLease(n, w)
        BY <1>1, <2>1 DEF Inv, Running
      <3>2. w \in DataLeases(board'[n], w.task)
        BY <1>0, <3>1, ViewsGrow DEF RunningLease
      <3>3. ASSUME NEW r \in emitted', r.type = "result", r.lease = w PROVE FALSE
        <4>1. r \notin emitted
          BY <3>1, <3>3 DEF RunningLease, OfType
        <4>2. r.signer \in Nodes /\ r.lease \in inflight[r.signer] \ inflight'[r.signer]
          BY <1>0, <3>3, <4>1 DEF Fresh
        <4>3. w.worker = r.signer /\ w.worker = n
          BY <1>1, <3>1, <3>3, <4>2 DEF Inv, Running, RunningLease
        <4> QED BY <1>1, <3>3, <4>2, <4>3
      <3> QED BY <3>1, <3>2, <3>3 DEF RunningLease, OfType
    <2>2. CASE w \notin inflight[n]
      <3>1. /\ w \in DataLeases(board'[n], w.task) /\ w.worker = n
            /\ \A r \in Results(board'[n], w.task) : r.signer # n
        BY <1>0, <1>1, <2>2 DEF Started
      <3>2. ASSUME NEW r \in emitted', r.type = "result", r.lease = w PROVE FALSE
        <4>1. r \in emitted
          BY <1>0, <2>2, <3>2
        <4>2. Answers(r) /\ r \in board[r.signer]
          BY <3>2, <4>1 DEF Inv, Answering, Own, OfType
        <4>3. r.signer = n
          BY <3>1, <3>2, <4>2 DEF Answers
        <4>4. w.task = r.task
          BY <3>2, <4>2 DEF Answers, DataLeases, Leases
        <4>5. r \in Results(board[n], w.task)
          BY <3>2, <4>2, <4>3, <4>4 DEF Results, OfType, Answers
        <4> QED BY <1>0, <3>1, <4>3, <4>5, ViewsGrow
      <3> QED BY <3>1, <3>2 DEF RunningLease, OfType
    <2> QED BY <2>1, <2>2
  <1>2. ASSUME NEW n \in Nodes, NEW w \in inflight'[n], w.type = "result"
        PROVE  RunningCheck(n, w)'
    <2> SUFFICES ASSUME NEW a \in emitted', a.type = "attest", a.signer = n, a.result = w
                 PROVE  FALSE
      BY DEF RunningCheck, OfType
    <2>1. CASE w \in inflight[n]
      <3>1. a \notin emitted
        BY <1>2, <2>1 DEF Inv, Running, RunningCheck, OfType
      <3> QED BY <1>0, <1>2, <3>1 DEF Fresh
    <2>2. CASE w \notin inflight[n]
      <3>1. a \in emitted
        BY <1>0, <2>2
      <3>2. a \in board'[n]
        BY <1>0, <3>1 DEF Inv, Own
      <3> QED BY <1>0, <1>2, <2>2, <3>2 DEF Started, OfType
    <2> QED BY <2>1, <2>2
  <1> QED BY <1>1, <1>2 DEF Running

LEMMA OnceInv ==
  ASSUME Inv, Shape
  PROVE  AnsweredOnce' /\ FinalizedOnce'
  <1>0. /\ \A e \in emitted' \ emitted : Fresh(e)
        /\ \A e, f \in emitted' \ emitted : e.type = f.type /\ e.type \in {"result", "attest"} => e = f
        /\ \A e, f \in emitted' \ emitted : e.type = f.type /\ e.type = "finalize" /\ e.task = f.task => e = f
    BY DEF Shape
  <1>1. ASSUME NEW r \in emitted, NEW s \in emitted' \ emitted, r.type = "result", s.type = "result"
        PROVE  r.lease # s.lease
    <2>1. s.signer \in Nodes /\ s.lease \in inflight[s.signer] /\ s.lease.type = "lease"
      BY <1>0, <1>1 DEF Fresh
    <2> QED BY <1>1, <2>1 DEF Inv, Running, RunningLease, OfType
  <1>2. ASSUME NEW a \in emitted, NEW c \in emitted' \ emitted, a.type = "attest", c.type = "attest",
               a.signer = c.signer
        PROVE  a.result # c.result
    <2>1. c.signer \in Nodes /\ c.result \in inflight[c.signer] /\ c.result.type = "result"
      BY <1>0, <1>2 DEF Fresh
    <2> QED BY <1>2, <2>1 DEF Inv, Running, RunningCheck, OfType
  <1>3. ASSUME NEW f \in emitted, NEW g \in emitted' \ emitted, f.type = "finalize", g.type = "finalize",
               f.signer = g.signer
        PROVE  f.task # g.task
    <2>1. f.task \in Tasks(board[f.signer]) /\ IsCoordinator(f.task, f) /\ f \in board[f.signer]
      BY <1>3 DEF Inv, Coordinated, Own
    <2>2. f \in Finalizes(board[f.signer], f.task)
      BY <1>3, <2>1 DEF Finalizes, OfType, Tasks
    <2>3. Finalizes(board[g.signer], g.task) = {}
      BY <1>0, <1>3 DEF Fresh, Lawful
    <2> QED BY <1>3, <2>2, <2>3
  <1>4. AnsweredOnce'
    BY <1>0, <1>1, <1>2 DEF Inv, AnsweredOnce, OfType
  <1>5. FinalizedOnce'
    BY <1>0, <1>3 DEF Inv, FinalizedOnce, OfType
  <1> QED BY <1>4, <1>5

\* A data lease of a task without backups is its publisher's, who holds them all.
LEMMA PublisherHoldsLeases ==
  ASSUME Inv, NEW m \in Tasks(emitted), m.backups = << >>
  PROVE  m.signer \in Nodes /\ Signed(m) = DataLeases(board[m.signer], m)
  <1>1. m.signer \in Nodes /\ m \in board[m.signer] /\ board[m.signer] \subseteq emitted
    BY DEF Inv, TypeOK, Own, Tasks, OfType
  <1>2. BackupsOf(m) = {}
    BY DEF BackupsOf
  <1>3. ASSUME NEW l \in Signed(m) PROVE l \in DataLeases(board[m.signer], m)
    <2>1. IsCoordinator(m, l) /\ l \in board[l.signer]
      BY DEF Inv, Coordinated, Own, Signed, OfType
    <2>2. l.signer = m.signer
      BY <1>2, <2>1 DEF IsCoordinator
    <2> QED BY <1>1, <2>1, <2>2 DEF Signed, DataLeases, Leases, OfType
  <1> QED BY <1>1, <1>3 DEF Signed, DataLeases, Leases, OfType

\* A lease that succeeds the others of its task keeps their order and their number.
LEMMA SuccessorInTurn ==
  ASSUME Inv, NEW m \in Tasks(emitted), m.backups = << >>, now' = now,
         NEW e, e.ts = now, Succeeds(m.signer, m, e), Signed(m)' = Signed(m) \cup {e},
         e \notin Signed(m)
  PROVE  InTurn(m)'
  <1> DEFINE leases == Signed(m)
  <1>1. leases = DataLeases(board[m.signer], m)
    BY PublisherHoldsLeases
  <1>2. /\ \A l \in leases : l.epoch \in Nat /\ l.expiresAt \in Nat /\ l.ts \in 0 .. now
        /\ \A l1, l2 \in leases : l1 # l2 => Follow(l1, l2)
        /\ IsFiniteSet(leases)
        /\ m.maxAttempts \in Nat \ {0} /\ now \in Nat
    <2>1. InTurn(m) /\ TypeOK /\ m.maxAttempts \in Nat \ {0}
      BY DEF Inv, Turns, ManifestsOK
    <2>2. now \in Nat /\ \A l \in leases : l.ts \in 0 .. now
      BY <2>1, NetAssumption DEF TypeOK, Signed, OfType, NetAssumption
    <2> QED BY <2>1, <2>2 DEF InTurn
  <1>3. e.epoch \in Nat /\ e.expiresAt \in Nat
    BY <1>1, <1>2 DEF Succeeds, Greatest
  <1>4. ASSUME NEW l \in leases PROVE Follow(l, e) /\ Follow(e, l)
    <2>1. leases # {} /\ l.worker # e.worker
      BY <1>1 DEF Succeeds
    <2>2. PICK g \in Greatest(leases, LeaseBefore) : e.epoch = g.epoch + 1
      BY <1>1, <2>1 DEF Succeeds
    <2>3. PICK h \in Greatest(leases, LeaseBefore), t \in 0 .. now : h.expiresAt < t
      BY <1>1, <2>1 DEF Succeeds
    <2>4. \A k \in leases : \A q \in Greatest(leases, LeaseBefore) : k # q => k.epoch < q.epoch
      BY <1>2 DEF Greatest, LeaseBefore, Follow
    <2>5. g \in leases /\ h \in leases
      BY DEF Greatest
    <2>6. h = g
      BY <1>2, <2>4, <2>5
    <2>7. l.epoch < e.epoch
      BY <1>2, <2>2, <2>4, <2>5
    <2>8. l.expiresAt < now
      <3>1. CASE l = g
        BY <1>2, <2>3, <2>6, <3>1
      <3>2. CASE l # g
        BY <1>2, <2>4, <2>5, <3>2 DEF Follow
      <3> QED BY <3>1, <3>2
    <2> QED BY <1>2, <1>3, <2>1, <2>7, <2>8 DEF Follow
  <1>5. IsFiniteSet(Signed(m)') /\ Cardinality(Signed(m)') = Cardinality(leases) + 1
    BY <1>2, FS_AddElement
  <1>6. Cardinality(Signed(m)') <= m.maxAttempts
    <2>1. Cardinality(leases) \in Nat
      BY <1>2, FS_CardinalityType
    <2>2. leases = {} => Cardinality(leases) = 0
      BY FS_EmptySet
    <2>3. leases = {} \/ Cardinality(leases) < m.maxAttempts
      BY <1>1 DEF Succeeds
    <2> QED BY <1>2, <1>5, <2>1, <2>2, <2>3
  <1> HIDE DEF leases
  <1>7. \A l \in Signed(m)' : l \in leases \/ l = e
    BY DEF leases
  <1>8. /\ \A l \in Signed(m)' : l.epoch \in Nat /\ l.expiresAt \in Nat
        /\ \A l1, l2 \in Signed(m)' : l1 # l2 => Follow(l1, l2)
    BY <1>2, <1>3, <1>4, <1>7
  <1> QED BY <1>5, <1>6, <1>8 DEF InTurn

LEMMA TurnsInv ==
  ASSUME Inv, Shape
  PROVE  Turns'
  <1>0. /\ emitted \subseteq emitted'
        /\ \A e \in emitted' \ emitted : Fresh(e)
        /\ \A e, f \in emitted' \ emitted : e.type = f.type /\ e.type = "lease" /\ e.task = f.task
                                           /\ e.role = "data" /\ f.role = "data" => e = f
    BY DEF Shape
  <1> SUFFICES ASSUME NEW m \in Tasks(emitted'), m.backups = << >> PROVE InTurn(m)'
    BY DEF Turns
  <1> DEFINE new == Signed(m)' \ Signed(m)
  <1>1. /\ Signed(m) \subseteq Signed(m)'
        /\ new = {l \in emitted' \ emitted : l.type = "lease" /\ l.task = m /\ l.role = "data"}
    BY <1>0 DEF Signed, OfType
  <1>2. \A e \in new : Fresh(e)
    BY <1>0, <1>1
  <1>3. \A e, f \in new : e = f
    BY <1>0, <1>1
  <1>4. CASE m \in Tasks(emitted)
    <2>1. InTurn(m)
      BY <1>4 DEF Inv, Turns
    <2>2. CASE new = {}
      <3>1. Signed(m)' = Signed(m)
        BY <1>1, <2>2
      <3> QED BY <2>1, <3>1 DEF InTurn
    <2>3. CASE new # {}
      <3>1. PICK e \in new : TRUE
        BY <2>3
      <3>2. Signed(m)' = Signed(m) \cup {e} /\ e \notin Signed(m) /\ e.task = m
        BY <1>1, <1>3, <3>1
      <3>3. /\ now' = now /\ e.ts = now /\ Succeeds(e.signer, m, e)
            /\ IsCoordinator(m, e)
        BY <1>1, <1>2, <3>1, <3>2 DEF Fresh, Lawful
      <3>4. e.signer = m.signer
        BY <3>3 DEF IsCoordinator, BackupsOf
      <3> QED BY <1>4, <3>2, <3>3, <3>4, SuccessorInTurn
    <2> QED BY <2>2, <2>3
  <1>5. CASE m \notin Tasks(emitted)
    <2>1. Signed(m)' = {}
      <3>1. ASSUME NEW l \in Signed(m)' PROVE m \in Tasks(emitted)
        <4>1. CASE l \in emitted
          BY <4>1 DEF Inv, Coordinated, TypeOK, Signed, Tasks, OfType
        <4>2. CASE l \notin emitted
          <5>1. l.signer \in Nodes /\ m \in Tasks(board[l.signer])
            BY <1>0, <4>2 DEF Fresh, Signed, OfType
          <5> QED BY <5>1 DEF Inv, TypeOK, Tasks, OfType
        <4> QED BY <4>1, <4>2
      <3> QED BY <1>5, <3>1
    <2>2. m.maxAttempts \in Nat
      BY <1>0, <1>5 DEF Fresh, Tasks, OfType
    <2> QED BY <2>1, <2>2, FS_EmptySet DEF InTurn
  <1> QED BY <1>4, <1>5

LEMMA NextInv == Inv /\ [Next]_vars => Inv'
  BY StepShape, EnvelopesInv, RunningInv, OnceInv, TurnsInv DEF Inv

LEMMA Invariance == Spec => []Inv
  BY InitInv, NextInv, PTL DEF Spec
-----------------------------------------------------------------------------
\* Leases and votes a board counts were signed under the invariant.
LEMMA LeasesAreSigned ==
  ASSUME Inv, NEW n \in Nodes, NEW m \in Tasks(board[n])
  PROVE  /\ m \in Tasks(emitted)
         /\ \A l \in Leases(board[n], m) : l \in OfType(emitted, "lease") /\ l.task = m
  BY DEF Inv, TypeOK, Tasks, OfType, Leases

LEMMA VotesAreSigned ==
  ASSUME Inv, NEW n \in Nodes, NEW m, NEW r, NEW v \in Matching(board[n], m, r)
  PROVE  /\ v # r.signer
         /\ \E l \in VerifyLeases(board[n], m) : l.worker = v
         /\ \E a \in OfType(emitted, "attest") : a.verdict = "match" /\ a.observed = r.hash
  <1>1. board[n] \subseteq emitted
    BY DEF Inv, TypeOK
  <1>2. PICK a \in Attests(board[n], m, r) : a.verdict = "match" /\ a.observed = r.hash /\ a.signer = v
    BY DEF Matching
  <1>3. a \in Votes(board[n], m, r)
    BY <1>2 DEF Attests
  <1> QED BY <1>1, <1>2, <1>3 DEF Votes, OfType

LEMMA InvIsIndependent == Inv => IndependentRoles
  <1> SUFFICES ASSUME Inv, NEW n \in Nodes, NEW m \in Tasks(board[n]), AcceptedResult(board[n], m) # None
               PROVE  /\ AcceptedResult(board[n], m).signer \notin Coordinators(m)
                      /\ Matching(board[n], m, AcceptedResult(board[n], m))
                            \cap (Coordinators(m) \cup {AcceptedResult(board[n], m).signer}) = {}
    BY DEF IndependentRoles
  <1> DEFINE r == AcceptedResult(board[n], m)
  <1>1. r \in Results(board[n], m)
    BY AcceptedIsReproduced
  <1>2. \A l \in Leases(board[n], m) : l.worker \notin Coordinators(m)
    BY LeasesAreSigned DEF Inv, Disinterested
  <1> HIDE DEF r
  <1>3. r.signer \notin Coordinators(m)
    BY <1>1, <1>2 DEF Results, DataLeases
  <1>4. \A v \in Matching(board[n], m, r) : v # r.signer /\ v \notin Coordinators(m)
    <2> SUFFICES ASSUME NEW v \in Matching(board[n], m, r)
                 PROVE  v # r.signer /\ v \notin Coordinators(m)
      OBVIOUS
    <2>1. v # r.signer /\ \E l \in VerifyLeases(board[n], m) : l.worker = v
      BY VotesAreSigned
    <2> QED BY <1>2, <2>1 DEF VerifyLeases, DataLeases
  <1> QED BY <1>3, <1>4 DEF r

LEMMA InvIsGenuine == Inv => GenuineAccepted
  <1> SUFFICES ASSUME Inv, NEW n \in Nodes, NEW m \in Tasks(board[n]), AcceptedResult(board[n], m) # None
               PROVE  AcceptedResult(board[n], m).hash \in 1 .. source
    BY DEF GenuineAccepted
  <1> DEFINE r == AcceptedResult(board[n], m)
  <1>1. Reproduced(board[n], m, r)
    BY AcceptedIsReproduced
  <1> HIDE DEF r
  <1>2. m.minVerifiers \in Nat \ {0}
    BY LeasesAreSigned DEF Inv, ManifestsOK
  <1>3. Matching(board[n], m, r) # {}
    BY <1>1, <1>2, FS_EmptySet DEF Reproduced
  <1>4. PICK a \in OfType(emitted, "attest") : a.verdict = "match" /\ a.observed = r.hash
    BY <1>3, VotesAreSigned
  <1>5. r.hash \in 1 .. source
    BY <1>4 DEF Inv, Seen
  <1> QED BY <1>5 DEF r

\* Boards hold signed envelopes of the past, ticks read past times, and what runs
\* is held: in every network, under every interleaving of ticks, pushes and restarts.
THEOREM TypeCorrect == Spec => []TypeOK
  BY Invariance, PTL DEF Inv

\* node.ts never signs coordination that board.ts would not believe: takeovers are
\* decided by silence, measured with a stale clock, and judged by the manifest's age.
THEOREM TakeoverIsBelieved == Spec => []CoordinationIsValid
  <1>1. Inv => CoordinationIsValid
    BY DEF Inv, Coordinated, CoordinationIsValid
  <1> QED BY <1>1, Invariance, PTL

\* Work that outlives its tick or is forgotten in a restart is never answered twice.
THEOREM AnswersAreUnique == Spec => []AnsweredOnce
  BY Invariance, PTL DEF Inv

\* A coordinator finalizes a task once, restarts and takeovers included.
THEOREM FinalizesAreUnique == Spec => []FinalizedOnce
  BY Invariance, PTL DEF Inv

\* No coordinator of a task executes it or helps to accept it, and no worker verifies
\* its own result, with any number of backups that take over in any order.
THEOREM RolesAreIndependent == Spec => []IndependentRoles
  BY InvIsIndependent, Invariance, PTL

\* Whatever tampering workers send, what any board accepts was served by the registry.
THEOREM AcceptedIsGenuine == Spec => []GenuineAccepted
  BY InvIsGenuine, Invariance, PTL

\* The data leases of a task without backups never overlap, go to ever new workers
\* and are at most maxAttempts, for every lease time, clock and staleness of a tick.
THEOREM OneExecutorAtATime == Spec => []ExecutorsInTurn
  <1>1. Inv => ExecutorsInTurn
    BY DEF Inv, Turns, InTurn, Signed, Follow, ExecutorsInTurn
  <1> QED BY <1>1, Invariance, PTL

\* Answers, votes and finalizes are each given once.
COROLLARY NothingIsDoneTwice == Spec => []OnlyOnce
  <1>1. AnsweredOnce /\ FinalizedOnce => OnlyOnce
    BY DEF OnlyOnce
  <1> QED BY <1>1, AnswersAreUnique, FinalizesAreUnique, PTL
=============================================================================
