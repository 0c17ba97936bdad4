--------------------------- MODULE SovereignReplica ---------------------------
(* What a sovereign node keeps and what it keeps on disk: the board and its     *)
(* journal objects.jsonl (restore and store in src/sovereign/node.ts), and the  *)
(* reward ledger and its journal ledger.jsonl (src/sovereign/rewards.ts), under *)
(* envelopes that arrive in any order and crashes that tear a journal's last    *)
(* line.  Who signs what is left to SovereignNet: here every envelope of        *)
(* Universe may arrive at any replica at any time.                              *)
EXTENDS SovereignBoard, FiniteSetsExt

CONSTANTS Replicas,
          Universe,         \* the envelopes that may arrive
          NodeBefore(_, _), \* the order of node ids
          OperatorShare, ExecutionShare, VerificationShare, PerNodeCap, \* basis points
          SubsidyBudget,
          MaxCrashes        \* bound on crashes, for TLC

BPS == 10000

\* Ids are compared as strings: two of them always, and never both ways.
TotalOrder(LT(_, _), S) ==
    \A a, b, c \in S : /\ ~LT(a, a)
                       /\ a # b => LT(a, b) \/ LT(b, a)
                       /\ LT(a, b) /\ LT(b, c) => LT(a, c)

\* The two shares of the pool fit in it, and the cap is below neither (DEFAULT_PARAMS).
ASSUME ReplicaAssumption ==
    /\ \A m \in Tasks(Universe) : m.budget \in Nat
    /\ {OperatorShare, ExecutionShare, VerificationShare, PerNodeCap} \subseteq 0 .. BPS
    /\ ExecutionShare + VerificationShare <= BPS
    /\ ExecutionShare <= PerNodeCap /\ VerificationShare <= PerNodeCap
    /\ SubsidyBudget \in Nat
    /\ MaxCrashes \in Nat
    /\ TotalOrder(Before, Tasks(Universe))
    /\ TotalOrder(NodeBefore, {e.signer : e \in Universe})

VARIABLES board,    \* [Replicas -> envelopes held]
          file,     \* [Replicas -> envelopes on intact lines of objects.jsonl]
          torn,     \* [Replicas -> does objects.jsonl end in a torn line?]
          ledger,   \* [Replicas -> accruals in memory]
          spent,    \* [Replicas -> subsidySpent]
          paid,     \* [Replicas -> accruals on intact lines of ledger.jsonl]
          paidTorn, \* [Replicas -> does ledger.jsonl end in a torn line?]
          todo,     \* [Replicas -> accruals the running ledgerDuty has still to apply]
          crashes   \* how many crashes so far

boardVars == <<board, file, torn>>
ledgerVars == <<ledger, spent, paid, paidTorn, todo>>
vars == <<boardVars, ledgerVars, crashes>>
-----------------------------------------------------------------------------
(* computeAccruals(): the split of a task's budget, floored at every division.  *)
Bps(amount, share) == (amount * share) \div BPS
Pool(m) == Bps(m.budget, OperatorShare)
Capped(m, amount) == IF amount < Bps(Pool(m), PerNodeCap) THEN amount ELSE Bps(Pool(m), PerNodeCap)

Accrual(m, r, node, role, amount) ==
    [task |-> m, result |-> r, node |-> node, role |-> role, amount |-> amount]
SameId(a, b) == <<a.task, a.result, a.node, a.role>> = <<b.task, b.result, b.node, b.role>>

ExecuteAccruals(m, r) ==
    LET amount == Bps(Pool(m), ExecutionShare) IN
    IF r.signer \notin Coordinators(m) /\ amount > 0
    THEN {Accrual(m, r, r.signer, "execute", Capped(m, amount))}
    ELSE {}

\* Mutant: the remainder of the division is handed out too.
\* Mutant: an accrual of nothing is written down too.
VerifyAccrualsOfNothing(B, m, r) ==
    LET verifiers == Matching(B, m, r) \ (Coordinators(m) \cup {r.signer}) IN
    {Accrual(m, r, v, "verify",
             Capped(m, Bps(Pool(m), VerificationShare) \div Cardinality(verifiers))) : v \in verifiers}

VerifyAccruals(B, m, r) ==
    LET verifiers == Matching(B, m, r) \ (Coordinators(m) \cup {r.signer})
        each == Bps(Pool(m), VerificationShare) \div Cardinality(verifiers)
    IN  IF verifiers # {} /\ each > 0
        THEN {Accrual(m, r, v, "verify", Capped(m, each)) : v \in verifiers}
        ELSE {}

Accruals(B, m) ==
    LET r == AcceptedResult(B, m) IN
    IF m \in B /\ r # None THEN ExecuteAccruals(m, r) \cup VerifyAccruals(B, m, r) ELSE {}

\* ledgerDuty() goes through the tasks in id order, apply() through the executor
\* and then the verifiers in node order.
AccrualBefore(a, b) ==
    \/ a.task # b.task /\ Before(a.task, b.task)
    \/ a.task = b.task /\ a.role = "execute" /\ b.role = "verify"
    \/ a.task = b.task /\ a.role = b.role /\ NodeBefore(a.node, b.node)

Subsidized(accruals) == {a \in accruals : a.task.funding = "subsidized"}
Sum(accruals) == MapThenSumSet(LAMBDA a : a.amount, accruals)
-----------------------------------------------------------------------------
Init == /\ board = [n \in Replicas |-> {}]
        /\ file = [n \in Replicas |-> {}]
        /\ torn = [n \in Replicas |-> FALSE]
        /\ ledger = [n \in Replicas |-> {}]
        /\ spent = [n \in Replicas |-> 0]
        /\ paid = [n \in Replicas |-> {}]
        /\ paidTorn = [n \in Replicas |-> FALSE]
        /\ todo = [n \in Replicas |-> {}]
        /\ crashes = 0

\* Mutant: the envelope is kept in memory only.
StoreInMemory(n, e) ==
    /\ todo[n] = {}
    /\ e \notin board[n]
    /\ board' = [board EXCEPT ![n] = @ \cup {e}]
    /\ UNCHANGED <<file, torn, ledgerVars, crashes>>

\* store(): ingest, then append one line.  A line appended to a torn one is glued
\* to it, and neither parses again.
Store(n, e) ==
    /\ todo[n] = {}
    /\ e \notin board[n]
    /\ board' = [board EXCEPT ![n] = @ \cup {e}]
    /\ file' = [file EXCEPT ![n] = IF torn[n] THEN @ ELSE @ \cup {e}]
    /\ torn' = [torn EXCEPT ![n] = FALSE]
    /\ UNCHANGED <<ledgerVars, crashes>>

\* ledgerDuty() runs to its end with no await: the board is fixed until todo is empty.
LedgerDuty(n) ==
    /\ todo[n] = {}
    /\ todo' = [todo EXCEPT ![n] = UNION {Accruals(board[n], m) : m \in Tasks(board[n])}]
    /\ UNCHANGED <<boardVars, ledger, spent, paid, paidTorn, crashes>>

SettledFor(n, m) == \E b \in ledger[n] : b.task = m

\* Mutants of apply()'s checks.
AcceptsAnyResult(n, a) ==
    /\ \A b \in ledger[n] : ~SameId(a, b)
    /\ a.task.funding = "subsidized" => spent[n] + a.amount <= SubsidyBudget
AcceptsUnderBudget(n, a) ==
    /\ \A b \in ledger[n] : ~SameId(a, b)
    /\ SettledFor(n, a.task) => \E b \in ledger[n] : b.task = a.task /\ b.result = a.result
    /\ a.task.funding = "subsidized" => spent[n] < SubsidyBudget

\* apply() takes an accrual that is new, is for the result its task was first
\* accrued for, and fits the subsidy budget.
Accepts(n, a) ==
    /\ \A b \in ledger[n] : ~SameId(a, b)
    /\ SettledFor(n, a.task) => \E b \in ledger[n] : b.task = a.task /\ b.result = a.result
    /\ a.task.funding = "subsidized" => spent[n] + a.amount <= SubsidyBudget

ApplyNext(n) ==
    /\ todo[n] # {}
    /\ LET a == TheOne(Least(todo[n], AccrualBefore)) IN
       /\ todo' = [todo EXCEPT ![n] = @ \ {a}]
       /\ IF Accepts(n, a)
          THEN /\ ledger' = [ledger EXCEPT ![n] = @ \cup {a}]
               /\ spent' = [spent EXCEPT ![n] = IF a.task.funding = "subsidized" THEN @ + a.amount ELSE @]
               /\ paid' = [paid EXCEPT ![n] = IF paidTorn[n] THEN @ ELSE @ \cup {a}]
               /\ paidTorn' = [paidTorn EXCEPT ![n] = FALSE]
          ELSE UNCHANGED <<ledger, spent, paid, paidTorn>>
    /\ UNCHANGED <<boardVars, crashes>>

\* restore() and the Ledger's constructor: memory becomes what the journals parse to.
\* With tear the crash hit an append in progress and left its line torn.
Restarted(n, tearBoard, tearLedger) ==
    /\ crashes < MaxCrashes
    /\ crashes' = crashes + 1
    /\ board' = [board EXCEPT ![n] = file[n]]
    /\ ledger' = [ledger EXCEPT ![n] = paid[n]]
    /\ spent' = [spent EXCEPT ![n] = Sum(Subsidized(paid[n]))]
    /\ todo' = [todo EXCEPT ![n] = {}]
    /\ torn' = [torn EXCEPT ![n] = @ \/ tearBoard]
    /\ paidTorn' = [paidTorn EXCEPT ![n] = @ \/ tearLedger]
    /\ UNCHANGED <<file, paid>>

Crash(n) == Restarted(n, FALSE, FALSE)
CrashStoring(n) == todo[n] = {} /\ Universe \ board[n] # {} /\ Restarted(n, TRUE, FALSE)
CrashApplying(n) == /\ todo[n] # {}
                    /\ Accepts(n, TheOne(Least(todo[n], AccrualBefore)))
                    /\ Restarted(n, FALSE, TRUE)

Next == \E n \in Replicas :
            \/ \E e \in Universe : Store(n, e)
            \/ LedgerDuty(n) \/ ApplyNext(n)
            \/ Crash(n) \/ CrashStoring(n) \/ CrashApplying(n)

Spec == Init /\ [][Next]_vars
-----------------------------------------------------------------------------
AccrualSet == [task : Tasks(Universe), result : OfType(Universe, "result"),
               node : {e.signer : e \in Universe}, role : {"execute", "verify"}, amount : Nat \ {0}]

\* Boards and journals hold envelopes of the universe, ledgers hold accruals of
\* something.
TypeOK == /\ board \in [Replicas -> SUBSET Universe]
          /\ file \in [Replicas -> SUBSET Universe]
          /\ torn \in [Replicas -> BOOLEAN]
          /\ ledger \in [Replicas -> SUBSET AccrualSet]
          /\ spent \in [Replicas -> Nat]
          /\ paid \in [Replicas -> SUBSET AccrualSet]
          /\ paidTorn \in [Replicas -> BOOLEAN]
          /\ todo \in [Replicas -> SUBSET AccrualSet]
          /\ crashes \in 0 .. MaxCrashes

\* A journal is behind its memory by at most one line: the one glued to a torn
\* line.  Right after a torn write the two are equal (node.ts store and restore).
DiskBehindByOne ==
    \A n \in Replicas :
        /\ board[n] = file[n] \/ \E e \in Universe : board[n] = file[n] \cup {e}
        /\ ledger[n] = paid[n] \/ \E a \in ledger[n] : ledger[n] = paid[n] \cup {a}
        /\ torn[n] => board[n] = file[n]
        /\ paidTorn[n] => ledger[n] = paid[n]

\* A ledger never holds accruals for two results of one task, and never two
\* accruals with one id, whichever result was accepted when, and across restarts
\* (rewards.ts: "a task is accrued at most once, and an accrualId at most once").
AccruedOnce ==
    \A n \in Replicas : \A a, b \in ledger[n] :
        /\ a.task = b.task => a.result = b.result
        /\ SameId(a, b) => a = b

\* subsidySpent is what the ledger's subsidized accruals add up to, also after a
\* replay of the journal, and stays within the budget.
SubsidyCap ==
    \A n \in Replicas : /\ spent[n] = Sum(Subsidized(ledger[n]))
                        /\ spent[n] <= SubsidyBudget

\* One computation of the split never hands out more than the operator pool,
\* whatever the verifiers seen so far (rewards.test.ts:56).
SplitWithinPool ==
    \A n \in Replicas : \A m \in Tasks(board[n]) : Sum(Accruals(board[n], m)) <= Pool(m)

\* Neither the pool of a task nor the subsidy of the network is overdrawn by what a
\* node computes, in whatever order results and votes reach it.
RewardsBounded == SplitWithinPool /\ SubsidyCap

\* While a pin holds, a late result of another worker does not change the result
\* the task is accepted for (board.ts:272).
PinnedResultKept ==
    [][\A n \in Replicas : \A m \in Tasks(board[n]) :
          /\ Pins(board[n], m) # {}
          /\ \E e \in OfType(Universe, "result") : board'[n] = board[n] \cup {e}
          => AcceptedResult(board'[n], m) = AcceptedResult(board[n], m)]_vars

\* What a node serves as proof of an accepted task convinces a client that holds
\* nothing else of the same result, also when the task has two results, pins and
\* votes on both (board.ts proofBundle, verifyProofBundle).
BundleProves ==
    \A n \in Replicas : \A m \in Tasks(board[n]) :
        LET r == AcceptedResult(board[n], m) IN
        r # None => AcceptedResult(ProofBundle(board[n], m), m) = r

\* What is promised of the ledger and of the journal over time, each disproved by
\* a run of its own.
\* "never allocates more than the operator pool, whatever the verifier count"
LedgerWithinPool ==
    \A n \in Replicas : \A m \in Tasks(Universe) :
        Sum({a \in ledger[n] : a.task = m}) <= Pool(m)

\* "torn final line after a crash" is all that restore() skips: every envelope whose
\* append completed is read back, so a restart now would lose none.
RestoreComplete == \A n \in Replicas : board[n] \subseteq file[n]
=============================================================================
