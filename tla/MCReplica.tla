------------------------------ MODULE MCReplica ------------------------------
(* Universes of envelopes for SovereignReplica: what one publisher p, its       *)
(* backup b, two workers and two verifiers sign in runs of the protocol.        *)
EXTENDS SovereignReplica

CONSTANTS p, b, w1, w2, v1, v2, x

Position(s, e) == CHOOSE i \in DOMAIN s : s[i] = e
NodeOrder == <<p, b, w1, w2, v1, v2>>
NodeEarlier(a, c) == Position(NodeOrder, a) < Position(NodeOrder, c)

Publish(n, funding, budget) ==
    [type |-> "publish", signer |-> p, ts |-> n, entity |-> x, minVerifiers |-> 1,
     leaseMs |-> 1, deadline |-> 50, maxAttempts |-> 2, backups |-> <<b>>,
     funding |-> funding, budget |-> budget]
Lease(m, signer, ts, role, worker) ==
    [type |-> "lease", signer |-> signer, ts |-> ts, task |-> m, role |-> role,
     worker |-> worker, epoch |-> 1, expiresAt |-> ts + 1]
Result(l, hash) ==
    [type |-> "result", signer |-> l.worker, ts |-> l.ts + 1, task |-> l.task,
     lease |-> l, entity |-> x, hash |-> hash]
Vote(v, r, verdict, hash) ==
    [type |-> "attest", signer |-> v, ts |-> r.ts + 2, task |-> r.task,
     result |-> r, verdict |-> verdict, observed |-> hash]
Finalize(signer, ts, r) ==
    [type |-> "finalize", signer |-> signer, ts |-> ts, task |-> r.task,
     decision |-> "accepted", result |-> r]

m1 == Publish(1, "commercial", 1001)
d1 == Lease(m1, p, 2, "data", w1)      \* the publisher's executor
d2 == Lease(m1, b, 8, "data", w2)      \* the backup's, leased behind the publisher's back
r1 == Result(d1, "h")
r2 == Result(d2, "h")
q1 == Lease(m1, p, 5, "verify", v1)    \* the first verifier, slow
q2 == Lease(m1, p, 7, "verify", v2)    \* its replacement
a11 == Vote(v1, r1, "match", "h")
a21 == Vote(v2, r1, "match", "h")
a12 == Vote(v1, r2, "match", "h")
f1 == Finalize(p, 12, r1)
f2 == Finalize(b, 11, r2)              \* the backup's pin: earlier, and for the other result

\* Two subsidized tasks, the second published under the same budget.
m3 == Publish(3, "subsidized", 1000)
m4 == Publish(4, "subsidized", 8)       \* so small that two verifiers get nothing each
d3 == Lease(m3, p, 5, "data", w1)
d4 == Lease(m4, p, 6, "data", w2)
r3 == Result(d3, "h")
r4 == Result(d4, "h")
q3 == Lease(m3, p, 7, "verify", v1)
q4 == Lease(m4, p, 8, "verify", v1)
a3 == Vote(v1, r3, "match", "h")
a4 == Vote(v1, r4, "match", "h")
q5 == Lease(m4, p, 8, "verify", v2)
a5 == Vote(v2, r4, "match", "h")

IdOrder == <<m1, m4, m3, d2, d1, d3, d4, q1, q2, q3, q4, q5, r2, r1, r4, r3,
             a11, a12, a21, a3, a4, a5, f1, f2>>
Earlier(a, c) == Position(IdOrder, a) < Position(IdOrder, c)

Disputed == {m1, d1, d2, r1, r2, q1, q2, a11, a12, f1}
LateVerifier == {m1, d1, r1, q1, q2, a11, a21}
TwoPins == {m1, d1, d2, r1, r2, q1, a11, a12, f1, f2}
\* Two stories in one run: a replica hears one of them, and a crash is met once
\* in the longer one.
Stories == Disputed \cup {m3, m4, d3, d4, r3, r4, q3, q4, q5, a3, a4, a5}
OneStory == \A n \in Replicas :
                \/ board[n] \subseteq Disputed
                \/ board[n] \cap Disputed = {} /\ crashes <= 1
=============================================================================
