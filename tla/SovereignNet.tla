----------------------------- MODULE SovereignNet -----------------------------
(* The sovereign task protocol: nodes that publish, lease, execute, verify and  *)
(* finalize tasks over boards kept in step by push and anti-entropy             *)
(* (src/sovereign/node.ts).  tick() is two actions, TickBegin and Duties: it    *)
(* reads the clock, awaits the pulls from its peers, and only then does its     *)
(* duties, with the time it read before.  Fetches run between ticks.            *)
(*                                                                              *)
(* Announcements are taken as exchanged (DataNodes, VerifyNodes); which of the  *)
(* eligible candidates comes first by price, host, history and hash is a free   *)
(* choice; the ledger is in SovereignReplica.                                   *)
EXTENDS SovereignBoard

CONSTANTS Nodes, DataNodes, VerifyNodes,
          Publishers, \* who publishes
          Terms,      \* what a task may ask for: manifests without type, signer, ts
          Tamperers,  \* workers with faultInjection.tamperResults
          Lagging,    \* nodes a push may reach late; the others receive at once
          MaxTime, MaxTasks, MaxVersions, MaxRestarts, \* bounds, for TLC
          PublishBy,  \* bound: no publication after this time
          Slow,       \* nodes whose pulls take time; a tick of the others is one step
          MaxStale    \* bound on how long the pulls of a tick take

ASSUME NetAssumption ==
    /\ DataNodes \cup VerifyNodes \cup Publishers \cup Tamperers \cup Lagging \cup Slow \subseteq Nodes
    /\ {MaxTime, MaxTasks, MaxRestarts, PublishBy, FailoverFloor} \subseteq Nat
    /\ MaxVersions \in Nat \ {0}
    /\ MaxStale \in Nat
    /\ None \notin Nat
    /\ \A t \in Terms : {t.minVerifiers, t.leaseMs, t.deadline, t.maxAttempts} \subseteq Nat \ {0}

VARIABLES now,      \* Date.now() of every node
          emitted,  \* every envelope signed so far
          board,    \* [Nodes -> envelopes held]
          tickAt,   \* [Nodes -> the time the running tick read, None when idle]
          inflight, \* [Nodes -> leases being executed and results being verified]
          source,   \* the version of the content the registry serves
          restarts  \* how many restarts so far

vars == <<now, emitted, board, tickAt, inflight, source, restarts>>

Forged == 0
Hash(n) == IF n \in Tamperers THEN Forged ELSE source
-----------------------------------------------------------------------------
(* emit(): sign, store, push.  A push may be lost or late only for Lagging.     *)
Emit(n, envs) ==
    /\ emitted' = emitted \cup envs
    /\ board' = [k \in Nodes |-> IF k = n \/ k \notin Lagging
                                 THEN board[k] \cup envs ELSE board[k]]

Init == /\ now = 0
        /\ emitted = {}
        /\ board = [n \in Nodes |-> {}]
        /\ tickAt = [n \in Nodes |-> None]
        /\ inflight = [n \in Nodes |-> {}]
        /\ source = 1
        /\ restarts = 0

PublishTask(n, terms) ==
    /\ now <= PublishBy
    /\ Cardinality(Tasks(emitted)) < MaxTasks
    /\ LET wanted == terms.backups
           m == [type |-> "publish", signer |-> n, ts |-> now, entity |-> terms.entity,
                 minVerifiers |-> terms.minVerifiers, leaseMs |-> terms.leaseMs,
                 deadline |-> now + terms.deadline, maxAttempts |-> terms.maxAttempts,
                 backups |-> SelectSeq(wanted, LAMBDA k : k # n),
                 funding |-> terms.funding, budget |-> terms.budget]
       IN  Emit(n, {m})
    /\ UNCHANGED <<now, tickAt, inflight, source, restarts>>

\* Mutant: a finalize is not taken over from a peer.
ReceiveNoFinalize(n, e) ==
    /\ e \in emitted \ board[n]
    /\ e.type # "finalize"
    /\ board' = [board EXCEPT ![n] = @ \cup {e}]
    /\ UNCHANGED <<now, emitted, tickAt, inflight, source, restarts>>

(* An envelope reaches n late, by a delayed or forwarded push or a pull.        *)
Receive(n, e) ==
    /\ e \in emitted \ board[n]
    /\ board' = [board EXCEPT ![n] = @ \cup {e}]
    /\ UNCHANGED <<now, emitted, tickAt, inflight, source, restarts>>
-----------------------------------------------------------------------------
(* publisherDuty                                                                *)
Rank(m, n) == CHOOSE i \in 1 .. Len(m.backups) : m.backups[i] = n

\* Mutant: not the silence is measured but the time since publication, and one too much of it.
CoordinatesSincePublication(n, m, t) ==
    \/ m.signer = n
    \/ n \in BackupsOf(m) /\ t + 1 - m.ts >= FailoverMs(m) * Rank(m, n)

Coordinates(n, m, t) ==
    \/ m.signer = n
    \/ /\ n \in BackupsOf(m)
       /\ \E last \in LastCoordinations(board[n], m) :
             last.signer = n \/ t - last.ts >= FailoverMs(m) * Rank(m, n)

\* candidates(): who announced the role, in an order that is left open here.
Candidates(role, exclude) == (IF role = "data" THEN DataNodes ELSE VerifyNodes) \ exclude

\* Mutant: the backups are not reserved.
ReservedPublisher(n, m) == {m.signer, n}

\* No coordinator and no worker of the task is asked to work for it (again).
Reserved(n, m) == Coordinators(m) \cup {n}

\* Mutant: the time of signing and the time of expiry are swapped.
LeaseForSwapped(n, m, t, role, worker, epoch) ==
    [type |-> "lease", signer |-> n, ts |-> t + m.leaseMs, task |-> m, role |-> role,
     worker |-> worker, epoch |-> epoch, expiresAt |-> now]

LeaseFor(n, m, t, role, worker, epoch) ==
    [type |-> "lease", signer |-> n, ts |-> now, task |-> m, role |-> role,
     worker |-> worker, epoch |-> epoch, expiresAt |-> t + m.leaseMs]

\* Mutant: a lease is replaced whether or not it expired.
NeedsExecutorAlways(n, m, t) ==
    /\ Results(board[n], m) = {}
    /\ Cardinality(DataLeases(board[n], m)) < m.maxAttempts

\* No result yet, and no lease, or the latest one expired and attempts are left.
NeedsExecutor(n, m, t) ==
    LET leases == DataLeases(board[n], m) IN
    /\ Results(board[n], m) = {}
    /\ \/ leases = {}
       \/ /\ \E l \in Greatest(leases, LeaseBefore) : l.expiresAt < t
          /\ Cardinality(leases) < m.maxAttempts

DataLeaseChoices(n, m, t) ==
    LET leases == DataLeases(board[n], m)
        epoch == IF leases = {} THEN 1 ELSE TheOne(Greatest(leases, LeaseBefore)).epoch + 1
        free == Candidates("data", {l.worker : l \in leases} \cup Reserved(n, m))
    IN  IF NeedsExecutor(n, m, t) /\ free # {}
        THEN {{LeaseFor(n, m, t, "data", w, epoch)} : w \in free}
        ELSE {{}}

\* Verify leases still worth waiting for: unexpired, or already answered.
ActiveVerifyLeases(n, m, r, t) ==
    {l \in VerifyLeases(board[n], m) :
        \/ l.expiresAt >= t
        \/ \E a \in Attests(board[n], m, r) : a.signer = l.worker}

VerifyLeaseChoices(n, m, t) ==
    IF Results(board[n], m) = {} THEN {{}}
    ELSE LET r == TheOne(Least(Results(board[n], m), ResultBefore))
             used == {l.worker : l \in VerifyLeases(board[n], m)}
             free == Candidates("verify", used \cup Reserved(n, m) \cup {r.signer})
             missing == m.minVerifiers - Cardinality(ActiveVerifyLeases(n, m, r, t))
             wanted == IF missing <= Cardinality(free) THEN missing ELSE Cardinality(free)
         IN  IF missing <= 0 THEN {{}}
             ELSE {{LeaseFor(n, m, t, "verify", v, 1) : v \in vs} :
                      vs \in {s \in SUBSET free : Cardinality(s) = wanted}}

Decision(n, m) ==
    LET yes == AcceptedResult(board[n], m)
        no == RefutedResult(board[n], m)
    IN  [type |-> "finalize", signer |-> n, ts |-> now, task |-> m,
         decision |-> IF yes # None THEN "accepted" ELSE "rejected",
         result |-> IF yes # None THEN yes ELSE no]

\* Mutant: a decided task is left alone.
\* Mutant: every tick finalizes again.
\* What the duty may emit for one task: one of these sets of envelopes.
Coordination(n, m, t) ==
    LET status == Status(board[n], m, t) IN
    IF ~Coordinates(n, m, t) \/ status = "expired" THEN {{}}
    ELSE IF status \in {"accepted", "rejected"}
    THEN {IF Finalizes(board[n], m) = {} THEN {Decision(n, m)} ELSE {}}
    ELSE {d \cup v : d \in DataLeaseChoices(n, m, t), v \in VerifyLeaseChoices(n, m, t)}
-----------------------------------------------------------------------------
(* workerDuty and verifierDuty: the work a tick starts, given the board B.      *)
Fetches(n, B, t) ==
    {l \in UNION {DataLeases(B, m) : m \in Tasks(B)} :
        /\ n \in DataNodes
        /\ l.worker = n
        /\ l.expiresAt >= t
        /\ l \notin inflight[n]
        /\ \A r \in Results(B, l.task) : r.signer # n}

Unjudged(n, B, m) ==
    {r \in Results(B, m) : /\ r.signer # n
                           /\ r \notin inflight[n]
                           /\ ~\E a \in OfType(B, "attest") : a.signer = n /\ a.result = r}

\* Does a verify lease ask n for votes on the task?
AskedToVerify(n, B, m) == n \in VerifyNodes /\ \E l \in VerifyLeases(B, m) : l.worker = n

\* Mutant: only the running verifications are remembered, not the votes cast.
ChecksAgain(n, B) ==
    LET open(m) == {r \in Results(B, m) : r.signer # n /\ r \notin inflight[n]} IN
    UNION {Least(open(m), ResultBefore) : m \in {k \in Tasks(B) : AskedToVerify(n, B, k)}}

\* One verification per task and tick: the first result not yet judged.
Checks(n, B) ==
    UNION {Least(Unjudged(n, B, m), ResultBefore) : m \in {k \in Tasks(B) : AskedToVerify(n, B, k)}}

TickBegin(n) ==
    /\ n \in Slow
    /\ tickAt[n] = None
    /\ tickAt' = [tickAt EXCEPT ![n] = now]
    /\ UNCHANGED <<now, emitted, board, inflight, source, restarts>>

Duties(n) ==
    /\ n \in Slow => tickAt[n] # None
    /\ tickAt' = [tickAt EXCEPT ![n] = None]
    /\ LET t == IF n \in Slow THEN tickAt[n] ELSE now
           tasks == Tasks(board[n])
           choices == UNION {Coordination(n, m, t) : m \in tasks}
       IN  \E pick \in [tasks -> choices] :
              /\ \A m \in tasks : pick[m] \in Coordination(n, m, t)
              /\ LET B == board[n] \cup UNION {pick[m] : m \in tasks} IN
                 /\ Emit(n, UNION {pick[m] : m \in tasks})
                 /\ inflight' = [inflight EXCEPT ![n] = @ \cup Fetches(n, B, t) \cup Checks(n, B)]
    /\ UNCHANGED <<now, source, restarts>>
-----------------------------------------------------------------------------
(* runFetch and runVerify: what a started fetch ends in.                        *)
Finished(n, work) == inflight' = [inflight EXCEPT ![n] = @ \ {work}]

FetchDone(n, l) ==
    /\ l \in OfType(inflight[n], "lease")
    /\ Emit(n, {[type |-> "result", signer |-> n, ts |-> now, task |-> l.task, lease |-> l,
                 entity |-> l.task.entity, hash |-> Hash(n)]})
    /\ Finished(n, l)
    /\ UNCHANGED <<now, tickAt, source, restarts>>

\* The source is unavailable: nothing is emitted, the lease will expire.
FetchFailed(n, l) ==
    /\ l \in OfType(inflight[n], "lease")
    /\ Finished(n, l)
    /\ UNCHANGED <<now, emitted, board, tickAt, source, restarts>>

Vote(n, r, verdict, observed) ==
    [type |-> "attest", signer |-> n, ts |-> now, task |-> r.task, result |-> r,
     verdict |-> verdict, observed |-> observed]

\* Mutant: a verifier believes the hash it was sent.
VerifyDoneTrusting(n, r) ==
    /\ r \in OfType(inflight[n], "result")
    /\ Emit(n, {Vote(n, r, "match", r.hash)})
    /\ Finished(n, r)
    /\ UNCHANGED <<now, tickAt, source, restarts>>

VerifyDone(n, r) ==
    /\ r \in OfType(inflight[n], "result")
    /\ Emit(n, {Vote(n, r, IF source = r.hash THEN "match" ELSE "mismatch", source)})
    /\ Finished(n, r)
    /\ UNCHANGED <<now, tickAt, source, restarts>>

\* Mutant: a failed verification says nothing.
VerifyFailedSilently(n, r) ==
    /\ r \in OfType(inflight[n], "result")
    /\ Finished(n, r)
    /\ UNCHANGED <<now, emitted, board, tickAt, source, restarts>>

VerifyFailed(n, r) ==
    /\ r \in OfType(inflight[n], "result")
    /\ Emit(n, {Vote(n, r, "inconclusive", None)})
    /\ Finished(n, r)
    /\ UNCHANGED <<now, tickAt, source, restarts>>
-----------------------------------------------------------------------------
\* The process restarts: the board comes back from disk, what was running is gone.
Restart(n) ==
    /\ restarts < MaxRestarts
    /\ restarts' = restarts + 1
    /\ tickAt' = [tickAt EXCEPT ![n] = None]
    /\ inflight' = [inflight EXCEPT ![n] = {}]
    /\ UNCHANGED <<now, emitted, board, source>>

SourceChanges == /\ source < MaxVersions
                 /\ source' = source + 1
                 /\ UNCHANGED <<now, emitted, board, tickAt, inflight, restarts>>

Tick == /\ now < MaxTime
        /\ \A n \in Nodes : tickAt[n] # None => now - tickAt[n] < MaxStale
        /\ now' = now + 1
        /\ UNCHANGED <<emitted, board, tickAt, inflight, source, restarts>>

Work(n) == \/ \E l \in OfType(inflight[n], "lease") : FetchDone(n, l) \/ FetchFailed(n, l)
           \/ \E r \in OfType(inflight[n], "result") : VerifyDone(n, r) \/ VerifyFailed(n, r)

Next == \/ \E n \in Publishers, terms \in Terms : PublishTask(n, terms)
        \/ \E n \in Nodes : \/ \E e \in emitted \ board[n] : Receive(n, e)
                            \/ TickBegin(n) \/ Duties(n)
                            \/ Work(n)
                            \/ Restart(n)
        \/ SourceChanges
        \/ Tick

Spec == Init /\ [][Next]_vars

\* setInterval keeps every node ticking, a pull from each peer follows every tick,
\* and a fetch ends within its timeout.  Clock and registry owe nothing.
Fairness == \A n \in Nodes : /\ WF_vars(TickBegin(n))
                             /\ WF_vars(Duties(n))
                             /\ WF_vars(Work(n))
                             /\ WF_vars(\E e \in emitted \ board[n] : Receive(n, e))
FairSpec == Spec /\ Fairness
-----------------------------------------------------------------------------
EnvelopeType == {"publish", "lease", "result", "attest", "finalize"}

\* Boards hold envelopes that were signed in the past; a running tick read a past
\* time; what runs is a lease or a result the node holds.
TypeOK == /\ now \in 0 .. MaxTime
          /\ \A e \in emitted : e.type \in EnvelopeType /\ e.signer \in Nodes /\ e.ts \in 0 .. now
          /\ board \in [Nodes -> SUBSET emitted]
          /\ tickAt \in [Nodes -> 0 .. now \cup {None}]
          /\ inflight \in [Nodes -> SUBSET (OfType(emitted, "lease") \cup OfType(emitted, "result"))]
          /\ \A n \in Nodes : inflight[n] \subseteq board[n]
          /\ source \in 1 .. MaxVersions
          /\ restarts \in 0 .. MaxRestarts

\* No node ever accepts content the registry did not serve, whatever the workers
\* send, as long as the verifiers fetch for themselves.
GenuineAccepted ==
    \A n \in Nodes : \A m \in Tasks(board[n]) :
        LET r == AcceptedResult(board[n], m) IN r # None => r.hash \in 1 .. source

\* Who accepted a task's result is neither its worker nor one who could choose the
\* verifiers: the publisher and every backup are kept out of all roles, by every
\* coordinator, before and after a takeover.
IndependentRoles ==
    \A n \in Nodes : \A m \in Tasks(board[n]) :
        LET r == AcceptedResult(board[n], m) IN
        r # None => /\ r.signer \notin Coordinators(m)
                    /\ Matching(board[n], m, r) \cap (Coordinators(m) \cup {r.signer}) = {}

\* What a coordinator decides it may emit (node.ts coordinates) every board agrees
\* it was allowed to (board.ts isCoordinator), whatever its clock reading was worth.
CoordinationIsValid ==
    \A e \in emitted : e.type \in {"lease", "finalize"} => IsCoordinator(e.task, e)

\* A task without backups never has two executors at work: its data leases follow
\* each other, the next one signed after the last expired, to another worker, at most
\* maxAttempts of them, across stale ticks and restarts.  (With backups two
\* coordinators may each have leased an executor before they hear of each other.)
ExecutorsInTurn ==
    \A m \in Tasks(emitted) :
        LET leases == {l \in OfType(emitted, "lease") : l.task = m /\ l.role = "data"} IN
        m.backups = << >> =>
            /\ \A l1, l2 \in leases : l1 # l2 =>
                  /\ l1.epoch # l2.epoch
                  /\ l1.worker # l2.worker
                  /\ l1.epoch < l2.epoch => l1.expiresAt < l2.ts
            /\ Cardinality(leases) <= m.maxAttempts

\* A worker answers a lease at most once and a verifier judges a result at most
\* once, although fetches outlive ticks and a restart forgets what was running.
AnsweredOnce ==
    /\ \A r1, r2 \in OfType(emitted, "result") : r1.lease = r2.lease => r1 = r2
    /\ \A a1, a2 \in OfType(emitted, "attest") :
          a1.signer = a2.signer /\ a1.result = a2.result => a1 = a2

\* A task without backups is finalized once, by its publisher, and one with backups
\* at most once by each coordinator.
FinalizedOnce ==
    \A f1, f2 \in OfType(emitted, "finalize") : f1.task = f2.task /\ f1.signer = f2.signer => f1 = f2

\* Nobody answers, judges or finalizes twice, over slow fetches, takeovers and restarts.
OnlyOnce == AnsweredOnce /\ FinalizedOnce

\* Every envelope reaches every node.
Converges == <>[](\A n \in Nodes : board[n] = emitted)

\* A verifier that holds its lease and a counted result of another worker votes on it.
LeasedVerifierVotes ==
    \A v \in VerifyNodes : \A w \in DataNodes \ {v} :
        (\E m \in Tasks(board[v]) : /\ \E l \in VerifyLeases(board[v], m) : l.worker = v
                                    /\ \E r \in Results(board[v], m) : r.signer = w)
        ~> \E a \in OfType(emitted, "attest") : a.signer = v /\ a.result.signer = w

\* A publisher that sees its task accepted finalizes it, or stops seeing it accepted.
AcceptedIsFinalized ==
    \A n \in Publishers :
        (\E m \in Tasks(board[n]) : m.signer = n /\ AcceptedResult(board[n], m) # None)
        ~> (\E m \in Tasks(board[n]) : m.signer = n /\ ( \/ Finalizes(board[n], m) # {}
                                                        \/ AcceptedResult(board[n], m) = None))

\* Both duties that somebody else waits for are done in the end: votes and pins.
DutiesAreDone == LeasedVerifierVotes /\ AcceptedIsFinalized
=============================================================================
