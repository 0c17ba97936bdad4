---------------------------- MODULE LoginLimiter ----------------------------
(* The bounded PIN failure window of the gateway: class LoginAttemptLimiter     *)
(* (src/security/login-limit.ts) driven by POST /api/auth/login                 *)
(* (src/gateway/server.ts).  The handler has no await between check and record, *)
(* so one request is one action.                                                *)
EXTENDS Integers, FiniteSets, Sequences

CONSTANTS Clients,     \* the addresses that log in
          MaxFailures, \* 5 in the code
          Window,      \* 900_000 ms in the code: failure window and lockout
          MaxTracked,  \* 4096 in the code: entries kept at once
          MaxTime      \* bound on the clock, for TLC

ASSUME LimiterAssumption ==
    /\ MaxFailures \in Nat \ {0, 1}
    /\ Window \in Nat \ {0}
    /\ MaxTracked \in Nat \ {0}
    /\ MaxTime \in Nat

VARIABLES attempts, \* [tracked clients -> Attempt]
          now,      \* the clock
          failed    \* history: when a client's PINs were judged wrong, since its last login

vars == <<attempts, now, failed>>

Time == 0 .. MaxTime
Attempt == [count : 1 .. MaxFailures, firstFailureAt : Nat, lockedUntil : Nat]

Init == /\ attempts = << >>
        /\ now = 1
        /\ failed = [c \in Clients |-> << >>]

\* Mutants: the window ends a tick early; the window ends a lockout too.
StaleByWindow(entry) == \/ entry.lockedUntil > 0 /\ now >= entry.lockedUntil
                        \/ now - entry.firstFailureAt >= Window

\* An entry is forgotten when its lockout or its unblocked window is over.
Stale(entry) == \/ entry.lockedUntil > 0 /\ now >= entry.lockedUntil
                \/ entry.lockedUntil = 0 /\ now - entry.firstFailureAt >= Window

Without(table, gone) == [c \in DOMAIN table \ gone |-> table[c]]
StaleIn(table, cs) == {c \in cs \cap DOMAIN table : Stale(table[c])}

\* The table after the deletions check() makes: its own entry, and every stale
\* entry when an untracked client meets a full table.
Checked(c) ==
    LET own == Without(attempts, StaleIn(attempts, {c})) IN
    IF c \notin DOMAIN own /\ Cardinality(DOMAIN own) >= MaxTracked
    THEN Without(own, StaleIn(own, DOMAIN own))
    ELSE own

\* Mutant: the table bound is off by one.
Allowed(c) ==
    LET table == Checked(c) IN
    IF c \in DOMAIN table THEN table[c].lockedUntil <= now
                          ELSE Cardinality(DOMAIN table) < MaxTracked

\* Mutant: every failure restarts the window.
\* Mutant: one failure more before the lockout.
\* record(ip, false): the entry is never stale here, check() has just dropped it.
Failure(table, c) ==
    LET old == IF c \in DOMAIN table THEN table[c]
               ELSE [count |-> 0, firstFailureAt |-> now, lockedUntil |-> 0]
        n == old.count + 1
    IN  [count |-> n,
         firstFailureAt |-> old.firstFailureAt,
         lockedUntil |-> IF n >= MaxFailures THEN now + Window ELSE old.lockedUntil]

Refused(c) == /\ ~Allowed(c)
              /\ attempts' = Checked(c)
              /\ UNCHANGED <<now, failed>>

CorrectPin(c) == /\ Allowed(c)
                 /\ attempts' = Without(Checked(c), {c})
                 /\ failed' = [failed EXCEPT ![c] = << >>]
                 /\ UNCHANGED now

WrongPin(c) == /\ Allowed(c)
               /\ LET table == Checked(c) IN
                  attempts' = [d \in DOMAIN table \cup {c} |->
                                 IF d = c THEN Failure(table, c) ELSE table[d]]
               /\ failed' = [failed EXCEPT ![c] = Append(@, now)]
               /\ UNCHANGED now

Tick == /\ now < MaxTime
        /\ now' = now + 1
        /\ UNCHANGED <<attempts, failed>>

Next == \/ \E c \in Clients : Refused(c) \/ CorrectPin(c) \/ WrongPin(c)
        \/ Tick

Spec == Init /\ [][Next]_vars
-----------------------------------------------------------------------------
\* The table maps some clients to attempts; the clock and the history are times.
TypeOK == /\ DOMAIN attempts \subseteq Clients
          /\ attempts \in [DOMAIN attempts -> Attempt]
          /\ now \in Nat
          /\ failed \in [Clients -> Seq(Nat)]

\* No number of clients makes the table grow past its bound: check() admits an
\* untracked client only below it, and record() runs after check() alone.
TableBounded == Cardinality(DOMAIN attempts) <= MaxTracked

\* An entry counts exactly the failures judged since its window opened: pruning
\* for other clients never resets or drops one (login-limit.test.ts:20).
CountsFailures ==
    \A c \in DOMAIN attempts :
        attempts[c].count = Cardinality({i \in DOMAIN failed[c] :
                                            failed[c][i] >= attempts[c].firstFailureAt})

\* The window is fixed, not sliding: a client may end one window one failure
\* short of the lockout and spend a full budget in the next.  No Window-long
\* stretch of time holds more failures than that.
BurstBound ==
    \A c \in Clients : \A t \in 1 .. now :
        Cardinality({i \in DOMAIN failed[c] : failed[c][i] \in t .. t + Window - 1})
            <= 2 * MaxFailures - 2

Locked(c) == c \in DOMAIN attempts /\ attempts[c].lockedUntil > now

\* While a lockout runs no step touches its entry: not a request of the client,
\* whatever its PIN, and not the pruning another client's request causes.
LockoutStands == \A c \in Clients : Locked(c) /\ now' < attempts[c].lockedUntil
                     => c \in DOMAIN attempts' /\ attempts'[c] = attempts[c]
LockoutKept == [][LockoutStands]_vars

\* What the limiter remembers of a client is what happened, whoever else knocks: its
\* failures count, its lockout stays, and the table keeps within its bound.
LimitsKept == [][LockoutStands /\ (TableBounded /\ CountsFailures /\ BurstBound)']_vars
=============================================================================
