------------------------ MODULE SovereignReplicaProofs ------------------------
(* Proofs about SovereignReplica, for every universe of envelopes, every order  *)
(* of ids and every split of the budgets.                                       *)
EXTENDS SovereignReplica, SovereignBoardProofs, FiniteSetTheorems

Replicated == /\ board = [n \in Replicas |-> board[n]]
              /\ file = [n \in Replicas |-> file[n]]
              /\ torn = [n \in Replicas |-> torn[n]]
              /\ ledger = [n \in Replicas |-> ledger[n]]
              /\ paid = [n \in Replicas |-> paid[n]]
              /\ paidTorn = [n \in Replicas |-> paidTorn[n]]

Inv == Replicated /\ DiskBehindByOne /\ AccruedOnce

LEMMA InitInv == Init => Inv
  BY DEF Init, Inv, Replicated, DiskBehindByOne, AccruedOnce

\* Only apply() adds to a ledger, and only what its checks let through.
LEMMA ApplyInv ==
  ASSUME Inv, NEW n \in Replicas, ApplyNext(n)
  PROVE  Inv'
  <1> DEFINE a == TheOne(Least(todo[n], AccrualBefore))
  <1>1. CASE Accepts(n, a)
    <2>1. /\ ledger' = [ledger EXCEPT ![n] = @ \cup {a}]
          /\ paid' = [paid EXCEPT ![n] = IF paidTorn[n] THEN @ ELSE @ \cup {a}]
          /\ paidTorn' = [paidTorn EXCEPT ![n] = FALSE]
          /\ UNCHANGED boardVars
      BY <1>1 DEF ApplyNext
    <2> HIDE DEF a
    <2>2. Replicated'
      BY <2>1 DEF Inv, Replicated, boardVars
    <2>3. /\ ledger'[n] = ledger[n] \cup {a}
          /\ paid'[n] = IF paidTorn[n] THEN paid[n] ELSE paid[n] \cup {a}
          /\ ~paidTorn'[n]
          /\ \A k \in Replicas \ {n} : ledger'[k] = ledger[k] /\ paid'[k] = paid[k] /\ paidTorn'[k] = paidTorn[k]
      BY <2>1 DEF Inv, Replicated
    <2>4. \A b \in ledger[n] : /\ ~SameId(a, b)
                               /\ b.task = a.task => b.result = a.result
      BY <1>1 DEF Accepts, SettledFor, Inv, AccruedOnce
    <2>5. AccruedOnce'
      BY <2>3, <2>4 DEF Inv, AccruedOnce, SameId
    <2>6. \/ ledger'[n] = paid'[n]
          \/ \E c \in ledger'[n] : ledger'[n] = paid'[n] \cup {c}
      <3>1. CASE paidTorn[n]
        BY <2>3, <3>1 DEF Inv, DiskBehindByOne
      <3>2. CASE ~paidTorn[n] /\ ledger[n] = paid[n]
        BY <2>3, <3>2
      <3>3. CASE ~paidTorn[n] /\ \E c \in ledger[n] : ledger[n] = paid[n] \cup {c}
        BY <2>3, <3>3
      <3> QED BY <3>1, <3>2, <3>3 DEF Inv, DiskBehindByOne
    <2>7. DiskBehindByOne'
      BY <2>1, <2>3, <2>6 DEF Inv, DiskBehindByOne, boardVars
    <2> QED BY <2>2, <2>5, <2>7 DEF Inv
  <1>2. CASE ~Accepts(n, a)
    BY <1>2 DEF ApplyNext, Inv, Replicated, DiskBehindByOne, AccruedOnce, boardVars
  <1> QED BY <1>1, <1>2

LEMMA StoreInv ==
  ASSUME Inv, NEW n \in Replicas, NEW e \in Universe, Store(n, e)
  PROVE  Inv'
  <1>1. /\ board' = [board EXCEPT ![n] = @ \cup {e}]
        /\ file' = [file EXCEPT ![n] = IF torn[n] THEN @ ELSE @ \cup {e}]
        /\ torn' = [torn EXCEPT ![n] = FALSE]
        /\ UNCHANGED ledgerVars
    BY DEF Store
  <1>2. Replicated' /\ AccruedOnce'
    BY <1>1 DEF Inv, Replicated, AccruedOnce, ledgerVars
  <1>3. /\ board'[n] = board[n] \cup {e}
        /\ file'[n] = IF torn[n] THEN file[n] ELSE file[n] \cup {e}
        /\ ~torn'[n]
        /\ \A k \in Replicas \ {n} : board'[k] = board[k] /\ file'[k] = file[k] /\ torn'[k] = torn[k]
    BY <1>1 DEF Inv, Replicated
  <1>4. board'[n] = file'[n] \/ \E f \in Universe : board'[n] = file'[n] \cup {f}
    <2>1. CASE torn[n]
      BY <1>3, <2>1 DEF Inv, DiskBehindByOne
    <2>2. CASE ~torn[n] /\ board[n] = file[n]
      BY <1>3, <2>2
    <2>3. CASE ~torn[n] /\ \E f \in Universe : board[n] = file[n] \cup {f}
      BY <1>3, <2>3
    <2> QED BY <2>1, <2>2, <2>3 DEF Inv, DiskBehindByOne
  <1>5. DiskBehindByOne'
    BY <1>1, <1>3, <1>4 DEF Inv, DiskBehindByOne, ledgerVars
  <1> QED BY <1>2, <1>5 DEF Inv

\* After a restart memory is what the journals hold, a subset of what it was.
LEMMA RestartedInv ==
  ASSUME Inv, NEW n \in Replicas, NEW tearBoard, NEW tearLedger, Restarted(n, tearBoard, tearLedger)
  PROVE  Inv'
  <1>1. /\ board' = [board EXCEPT ![n] = file[n]]
        /\ ledger' = [ledger EXCEPT ![n] = paid[n]]
        /\ torn' = [torn EXCEPT ![n] = @ \/ tearBoard]
        /\ paidTorn' = [paidTorn EXCEPT ![n] = @ \/ tearLedger]
        /\ UNCHANGED <<file, paid>>
    BY DEF Restarted
  <1>2. Replicated'
    BY <1>1 DEF Inv, Replicated
  <1>3. /\ board'[n] = file'[n] /\ ledger'[n] = paid'[n] /\ ledger'[n] \subseteq ledger[n]
        /\ \A k \in Replicas \ {n} : /\ board'[k] = board[k] /\ file'[k] = file[k]
                                     /\ ledger'[k] = ledger[k] /\ paid'[k] = paid[k]
    BY <1>1 DEF Inv, Replicated, DiskBehindByOne
  <1>4. \A k \in Replicas \ {n} : torn'[k] = torn[k] /\ paidTorn'[k] = paidTorn[k]
    BY <1>1 DEF Inv, Replicated
  <1>5. AccruedOnce'
    BY <1>3 DEF Inv, AccruedOnce
  <1>6. DiskBehindByOne'
    BY <1>3, <1>4 DEF Inv, DiskBehindByOne
  <1> QED BY <1>2, <1>5, <1>6 DEF Inv

LEMMA NextInv == Inv /\ [Next]_vars => Inv'
  <1> SUFFICES ASSUME Inv, [Next]_vars PROVE Inv'
    OBVIOUS
  <1>1. ASSUME NEW n \in Replicas, LedgerDuty(n) PROVE Inv'
    BY <1>1 DEF LedgerDuty, Inv, Replicated, DiskBehindByOne, AccruedOnce, boardVars
  <1>2. ASSUME NEW n \in Replicas, Crash(n) \/ CrashStoring(n) \/ CrashApplying(n) PROVE Inv'
    BY <1>2, RestartedInv DEF Crash, CrashStoring, CrashApplying
  <1>3. CASE UNCHANGED vars
    BY <1>3 DEF vars, boardVars, ledgerVars, Inv, Replicated, DiskBehindByOne, AccruedOnce
  <1> QED BY <1>1, <1>2, <1>3, StoreInv, ApplyInv DEF Next

\* However envelopes arrive, results and pins change and crashes tear the journal, no
\* task is ever accrued for two results, and no accrual id twice.
THEOREM TasksAccruedOnce == Spec => []AccruedOnce
  <1>1. Inv => AccruedOnce
    BY DEF Inv
  <1> QED BY <1>1, InitInv, NextInv, PTL DEF Spec

\* However many crashes, a journal never lags its memory by more than the one line
\* that was glued to a torn one.
THEOREM JournalsKeepUp == Spec => []DiskBehindByOne
  <1>1. Inv => DiskBehindByOne
    BY DEF Inv
  <1> QED BY <1>1, InitInv, NextInv, PTL DEF Spec

\* A proof bundle convinces a client of the accepted result in every state, whatever
\* second results, late votes and pins the node holds besides.
THEOREM BundlesProve == Spec => []BundleProves
  <1>1. BundleProves
    BY BundleIsProof DEF BundleProves
  <1> QED BY <1>1, PTL

-----------------------------------------------------------------------------
(* Sums over sets of accruals.                                                  *)

One(S) == CHOOSE x \in S : TRUE

\* What Sum() computes over the subsets of S, as an equation.
Sums(S, g) == g = [s \in SUBSET S |-> IF s = {} THEN 0 ELSE One(s).amount + g[s \ {One(s)}]]

LEMMA SumIsSums == \A S : Sum(S) = (CHOOSE g : Sums(S, g))[S]
  BY Zenon DEF Sum, MapThenSumSet, MapThenFoldSet, Sums, One

\* A nonempty set of subsets of a finite set has a member none of whose proper subsets is in it.
LEMMA LeastSubset ==
  ASSUME NEW S, IsFiniteSet(S), NEW Q, Q \subseteq SUBSET S, Q # {}
  PROVE  \E T \in Q : \A U \in Q : U \subseteq T => U = T
  <1>1. IsWellFoundedOn(StrictSubsetOrdering(S), SUBSET S)
    BY FS_StrictSubsetOrderingWellFounded, FS_FiniteSubsetsOfFinite
  <1>2. \E T \in Q : \A U \in Q : ~(<<U, T>> \in StrictSubsetOrdering(S))
    BY <1>1, WFMin
  <1> QED BY <1>2 DEF StrictSubsetOrdering

\* Two solutions agree where both are defined.
LEMMA SumsAgree ==
  ASSUME NEW S, IsFiniteSet(S), NEW g, Sums(S, g), NEW R, NEW h, Sums(R, h), NEW s, s \subseteq S, s \subseteq R
  PROVE  g[s] = h[s]
  <1> DEFINE Q == {t \in SUBSET s : g[t] # h[t]}
  <1>1. SUFFICES ASSUME Q # {} PROVE FALSE
    OBVIOUS
  <1>2. IsFiniteSet(s)
    BY FS_Subset
  <1>3. PICK t \in Q : \A u \in Q : u \subseteq t => u = t
    <2>1. Q \subseteq SUBSET s
      OBVIOUS
    <2> HIDE DEF Q
    <2> QED BY <1>1, <1>2, <2>1, LeastSubset
  <1>4. /\ g[t] = IF t = {} THEN 0 ELSE One(t).amount + g[t \ {One(t)}]
        /\ h[t] = IF t = {} THEN 0 ELSE One(t).amount + h[t \ {One(t)}]
    BY DEF Sums
  <1>5. t # {}
    BY <1>4
  <1>6. One(t) \in t
    BY <1>5 DEF One
  <1>7. t \ {One(t)} \notin Q
    BY <1>3, <1>6
  <1> QED BY <1>4, <1>5, <1>7

LEMMA SumsExist ==
  ASSUME NEW S, IsFiniteSet(S)
  PROVE  \E g : Sums(S, g)
  <1> DEFINE Q == {t \in SUBSET S : ~\E g : Sums(t, g)}
  <1>1. SUFFICES ASSUME Q # {} PROVE FALSE
    OBVIOUS
  <1>2. PICK t \in Q : \A u \in Q : u \subseteq t => u = t
    <2>1. Q \subseteq SUBSET S
      OBVIOUS
    <2> HIDE DEF Q
    <2> QED BY <1>1, <2>1, LeastSubset
  <1> DEFINE G(u) == CHOOSE g : Sums(u, g)
             h == [s \in SUBSET t |-> IF s = {} THEN 0
                                      ELSE One(s).amount + G(s \ {One(s)})[s \ {One(s)}]]
  <1>3. \A u : u \subseteq t /\ u # t => Sums(u, G(u))
    BY <1>2
  <1>4. ASSUME NEW s \in SUBSET t, s # {}
        PROVE  h[s] = One(s).amount + h[s \ {One(s)}]
    <2> DEFINE r == s \ {One(s)}
    <2>1. One(s) \in s
      BY <1>4 DEF One
    <2>2. r \subseteq t /\ r # t
      BY <2>1
    <2>3. Sums(r, G(r))
      BY <1>3, <2>2
    <2>4. G(r)[r] = h[r]
      <3>1. CASE r = {}
        <4>1. G(r)[r] = 0
          BY <2>3, <3>1 DEF Sums
        <4>2. h[r] = 0
          BY <3>1, <2>2
        <4> QED BY <4>1, <4>2
      <3>2. CASE r # {}
        <4> DEFINE q == r \ {One(r)}
        <4>1. Sums(q, G(q))
          BY <1>3, <2>2
        <4>2. G(r)[r] = One(r).amount + G(r)[q]
          BY <2>3, <3>2 DEF Sums
        <4>3. h[r] = One(r).amount + G(q)[q]
          BY <2>2, <3>2
        <4>4. IsFiniteSet(r)
          BY FS_Subset, <2>2
        <4>5. G(r)[q] = G(q)[q]
          <5> HIDE DEF G
          <5> QED BY <4>1, <2>3, <4>4, SumsAgree
        <4> QED BY <4>2, <4>3, <4>5
      <3> QED BY <3>1, <3>2
    <2>5. h[s] = One(s).amount + G(r)[r]
      BY <1>4
    <2> QED BY <2>4, <2>5
  <1>5. Sums(t, h)
    <2>1. h = [s \in SUBSET t |-> h[s]] /\ h[{}] = 0
      OBVIOUS
    <2> HIDE DEF h
    <2>2. \A s \in SUBSET t : h[s] = IF s = {} THEN 0 ELSE One(s).amount + h[s \ {One(s)}]
      BY <1>4, <2>1
    <2> QED BY <2>1, <2>2 DEF Sums
  <1> QED BY <1>5, <1>2

Amounts(S) == IsFiniteSet(S) /\ \A a \in S : a.amount \in Nat

\* The equation that defines a sum.
LEMMA SumStep ==
  ASSUME NEW S, IsFiniteSet(S)
  PROVE  /\ Sum({}) = 0
         /\ S # {} => One(S) \in S /\ Sum(S) = One(S).amount + Sum(S \ {One(S)})
  <1>1. ASSUME NEW R, IsFiniteSet(R) PROVE \E g : Sums(R, g) /\ Sum(R) = g[R]
    BY <1>1, SumsExist, SumIsSums
  <1>2. Sum({}) = 0
    BY <1>1, FS_EmptySet DEF Sums
  <1>3. ASSUME S # {} PROVE One(S) \in S /\ Sum(S) = One(S).amount + Sum(S \ {One(S)})
    <2> DEFINE R == S \ {One(S)}
    <2>1. One(S) \in S
      BY <1>3 DEF One
    <2>2. PICK g : Sums(S, g) /\ Sum(S) = g[S]
      BY <1>1
    <2>3. IsFiniteSet(R)
      BY FS_Subset
    <2>4. PICK h : Sums(R, h) /\ Sum(R) = h[R]
      BY <1>1, <2>3
    <2>5. g[R] = h[R]
      <3>1. R \subseteq S /\ R \subseteq R
        OBVIOUS
      <3> HIDE DEF R
      <3> QED BY <3>1, <2>2, <2>4, SumsAgree
    <2>6. g[S] = One(S).amount + g[R]
      BY <2>2, <1>3 DEF Sums
    <2> QED BY <2>1, <2>2, <2>4, <2>5, <2>6
  <1> QED BY <1>2, <1>3

LEMMA SumOfNone == Amounts({}) /\ Sum({}) = 0
  BY FS_EmptySet, SumStep DEF Amounts

LEMMA SumIsNat ==
  ASSUME NEW S, Amounts(S)
  PROVE  Sum(S) \in Nat
  <1> DEFINE Q == {t \in SUBSET S : Sum(t) \notin Nat}
  <1>1. SUFFICES ASSUME Q # {} PROVE FALSE
    OBVIOUS
  <1>2. PICK t \in Q : \A u \in Q : u \subseteq t => u = t
    <2>1. Q \subseteq SUBSET S
      OBVIOUS
    <2> HIDE DEF Q
    <2> QED BY <1>1, <2>1, LeastSubset DEF Amounts
  <1>3. IsFiniteSet(t)
    BY FS_Subset DEF Amounts
  <1>4. t # {} /\ One(t) \in t /\ Sum(t) = One(t).amount + Sum(t \ {One(t)})
    <2>1. Sum({}) = 0
      BY <1>3, SumStep
    <2>2. t # {}
      BY <2>1
    <2> QED BY <2>2, <1>3, SumStep
  <1>5. Sum(t \ {One(t)}) \in Nat
    BY <1>2, <1>4
  <1> QED BY <1>4, <1>5 DEF Amounts

\* A sum grows by what is added, whichever element was chosen first.
LEMMA SumAdds ==
  ASSUME NEW S, NEW a, Amounts(S \cup {a}), a \notin S
  PROVE  Sum(S \cup {a}) = Sum(S) + a.amount
  <1> DEFINE Q == {t \in SUBSET S : ~\A b \in (S \cup {a}) \ t : Sum(t \cup {b}) = Sum(t) + b.amount}
  <1>1. SUFFICES ASSUME Q # {} PROVE FALSE
    OBVIOUS
  <1>0. IsFiniteSet(S) /\ \A R \in SUBSET (S \cup {a}) : Amounts(R) /\ Sum(R) \in Nat
    <2>1. \A R \in SUBSET (S \cup {a}) : Amounts(R)
      BY FS_Subset DEF Amounts
    <2> QED BY <2>1, SumIsNat DEF Amounts
  <1>2. PICK t \in Q : \A u \in Q : u \subseteq t => u = t
    <2>1. Q \subseteq SUBSET S
      OBVIOUS
    <2> HIDE DEF Q
    <2> QED BY <1>0, <1>1, <2>1, LeastSubset
  <1>3. PICK b \in (S \cup {a}) \ t : Sum(t \cup {b}) # Sum(t) + b.amount
    OBVIOUS
  <1> DEFINE c == One(t \cup {b})
  <1>4. c \in t \cup {b} /\ Sum(t \cup {b}) = c.amount + Sum((t \cup {b}) \ {c})
    <2>1. IsFiniteSet(t \cup {b})
      BY <1>0 DEF Amounts
    <2> QED BY <2>1, SumStep
  <1>5. b.amount \in Nat /\ c.amount \in Nat /\ Sum(t) \in Nat
    BY <1>0, <1>4 DEF Amounts
  <1>6. c # b
    <2>1. (t \cup {b}) \ {b} = t
      OBVIOUS
    <2> HIDE DEF c
    <2>2. c = b => Sum(t \cup {b}) = b.amount + Sum(t)
      BY <1>4, <2>1
    <2> QED BY <1>3, <1>5, <2>2
  <1> DEFINE u == t \ {c}
  <1>7. (t \cup {b}) \ {c} = u \cup {b} /\ u \cup {c} = t /\ u \subseteq t /\ u # t /\ c \in t
    BY <1>4, <1>6
  <1>8. Sum(u \cup {b}) = Sum(u) + b.amount /\ Sum(u \cup {c}) = Sum(u) + c.amount
    BY <1>2, <1>7
  <1>9. Sum(u) \in Nat
    BY <1>0, <1>7
  <1> HIDE DEF u, c
  <1>10. Sum(t \cup {b}) = c.amount + (Sum(u) + b.amount) /\ Sum(t) = Sum(u) + c.amount
    BY <1>4, <1>7, <1>8
  <1> QED BY <1>3, <1>5, <1>9, <1>10

-----------------------------------------------------------------------------
LEMMA SumBounded ==
  ASSUME NEW S, Amounts(S), NEW k \in Nat, \A a \in S : a.amount <= k
  PROVE  Sum(S) <= k * Cardinality(S)
  <1> DEFINE Q == {t \in SUBSET S : ~(Sum(t) <= k * Cardinality(t))}
  <1>1. SUFFICES ASSUME Q # {} PROVE FALSE
    BY DEF Amounts
  <1>2. PICK t \in Q : \A u \in Q : u \subseteq t => u = t
    <2>1. Q \subseteq SUBSET S
      OBVIOUS
    <2> HIDE DEF Q
    <2> QED BY <1>1, <2>1, LeastSubset DEF Amounts
  <1>3. IsFiniteSet(t)
    BY FS_Subset DEF Amounts
  <1>4. t # {}
    <2>1. Sum({}) = 0 /\ Cardinality({}) = 0
      BY <1>3, SumStep, FS_EmptySet
    <2>2. Sum({}) <= k * Cardinality({})
      BY <2>1
    <2> QED BY <2>2
  <1> DEFINE c == One(t)
             u == t \ {c}
  <1>5. c \in t /\ Sum(t) = c.amount + Sum(u)
    BY <1>3, <1>4, SumStep
  <1>6. IsFiniteSet(u) /\ Cardinality(u) \in Nat /\ Cardinality(t) = Cardinality(u) + 1
    <2>1. IsFiniteSet(u) /\ Cardinality(u) = Cardinality(t) - 1
      BY <1>3, <1>5, FS_RemoveElement
    <2> HIDE DEF u
    <2> QED BY <1>3, <2>1, FS_CardinalityType
  <1>7. Sum(u) <= k * Cardinality(u)
    BY <1>2, <1>5
  <1>8. Sum(u) \in Nat /\ c.amount \in Nat /\ c.amount <= k
    BY <1>5, <1>6, SumIsNat DEF Amounts
  <1>9. Sum(t) <= k * Cardinality(t)
    <2> HIDE DEF c, u
    <2>1. k * (Cardinality(u) + 1) = k * Cardinality(u) + k /\ k * Cardinality(u) \in Nat
      BY <1>6
    <2> QED BY <1>5, <1>6, <1>7, <1>8, <2>1
  <1> QED BY <1>9

LEMMA ImageIsFinite ==
  ASSUME NEW S, IsFiniteSet(S), NEW f, DOMAIN f = S, NEW T, T = {f[x] : x \in S}
  PROVE  IsFiniteSet(T) /\ Cardinality(T) <= Cardinality(S)
  <1>1. f = [x \in S |-> f[x]] => f \in Surjection(S, T)
    BY DEF Surjection
  <1>2. [x \in S |-> f[x]] \in Surjection(S, T)
    BY DEF Surjection
  <1> QED BY <1>2, FS_Surjection

-----------------------------------------------------------------------------
(* The arithmetic of the split.                                                *)
LEMMA BPSType == BPS \in Nat \ {0}
  BY DEF BPS

LEMMA Floored ==
  ASSUME NEW k \in Nat \ {0}, NEW y \in Nat, NEW z \in Nat, y <= z
  PROVE  /\ y \div k \in Nat /\ (y \div k) * k <= y
         /\ y \div k <= z \div k /\ y \div k <= y
  OBVIOUS

LEMMA BpsBounds ==
  ASSUME NEW x \in Nat, NEW s \in 0 .. BPS
  PROVE  Bps(x, s) \in Nat /\ Bps(x, s) * BPS <= x * s /\ x * s <= x * BPS
  <1> DEFINE y == x * s
  <1>1. y \in Nat /\ y <= x * BPS
    BY BPSType
  <1>2. Bps(x, s) = y \div BPS
    BY DEF Bps
  <1> HIDE DEF y
  <1>3. Bps(x, s) \in Nat /\ Bps(x, s) * BPS <= y
    BY <1>1, <1>2, BPSType, Floored
  <1> QED BY <1>1, <1>3 DEF y

LEMMA BpsWithin ==
  ASSUME NEW x \in Nat, NEW s \in 0 .. BPS
  PROVE  Bps(x, s) \in Nat /\ Bps(x, s) <= x
  <1> DEFINE y == x * s
             z == Bps(x, s)
  <1>1. z \in Nat /\ y \in Nat /\ z * BPS <= y /\ y <= x * BPS
    <2>1. y \in Nat
      BY BPSType
    <2> QED BY <2>1, BpsBounds, Zenon
  <1> HIDE DEF y, z
  <1>2. z <= x
    BY BPSType, <1>1
  <1> QED BY <1>1, <1>2 DEF z

LEMMA BpsGrows ==
  ASSUME NEW x \in Nat, NEW s \in 0 .. BPS, NEW t \in 0 .. BPS, s <= t
  PROVE  Bps(x, s) <= Bps(x, t)
  <1> DEFINE y == x * s
             z == x * t
  <1>1. y \in Nat /\ z \in Nat /\ y <= z
    BY BPSType
  <1>2. Bps(x, s) = y \div BPS /\ Bps(x, t) = z \div BPS
    BY DEF Bps
  <1> HIDE DEF y, z
  <1> QED BY <1>1, <1>2, BPSType, Floored

LEMMA BpsSplits ==
  ASSUME NEW x \in Nat, NEW s \in 0 .. BPS, NEW t \in 0 .. BPS, s + t <= BPS
  PROVE  Bps(x, s) + Bps(x, t) <= x
  <1> DEFINE y == x * s
             z == x * t
             a == Bps(x, s)
             b == Bps(x, t)
  <1>1. y \in Nat /\ z \in Nat /\ y + z <= x * BPS
    <2>1. x * s + x * t = x * (s + t) /\ x * (s + t) <= x * BPS
      BY BPSType
    <2> QED BY <2>1
  <1>2. a \in Nat /\ a * BPS <= y /\ b \in Nat /\ b * BPS <= z
    <2>1. y \in Nat /\ z \in Nat
      BY BPSType
    <2> QED BY <1>1, BpsBounds, Zenon
  <1> HIDE DEF y, z, a, b
  <1>3. a + b <= x
    BY BPSType, <1>1, <1>2
  <1> QED BY <1>3 DEF a, b

Shares == {ExecutionShare, VerificationShare}

LEMMA PoolTyped ==
  ASSUME NEW m \in Tasks(Universe), NEW share \in Shares
  PROVE  /\ Pool(m) \in Nat
         /\ Bps(Pool(m), share) \in Nat
         /\ Bps(Pool(m), share) <= Bps(Pool(m), PerNodeCap)
         /\ Bps(Pool(m), PerNodeCap) \in Nat
  <1>1. m.budget \in Nat /\ OperatorShare \in 0 .. BPS /\ PerNodeCap \in 0 .. BPS
        /\ share \in 0 .. BPS /\ share <= PerNodeCap
    BY ReplicaAssumption DEF Shares
  <1>2. Pool(m) \in Nat
    BY <1>1, BpsWithin DEF Pool
  <1> QED BY <1>1, <1>2, BpsWithin, BpsGrows

\* The cap never takes an amount to nothing, nor adds to it.
LEMMA CappedTyped ==
  ASSUME NEW m \in Tasks(Universe), NEW share \in Shares, NEW x \in Nat \ {0}, x <= Bps(Pool(m), share)
  PROVE  Capped(m, x) \in Nat \ {0} /\ Capped(m, x) <= x
  <1>1. Bps(Pool(m), share) \in Nat /\ Bps(Pool(m), share) <= Bps(Pool(m), PerNodeCap)
        /\ Bps(Pool(m), PerNodeCap) \in Nat
    BY PoolTyped
  <1> QED BY <1>1 DEF Capped

LEMMA AcceptedAnswers ==
  ASSUME NEW B, NEW m \in Tasks(B), AcceptedResult(B, m) # None
  PROVE  AcceptedResult(B, m) \in OfType(B, "result")
  BY AcceptedIsReproduced DEF Results, Tasks, OfType

Verifiers(B, m, r) == Matching(B, m, r) \ (Coordinators(m) \cup {r.signer})
Each(B, m, r) == Bps(Pool(m), VerificationShare) \div Cardinality(Verifiers(B, m, r))

\* As many verifiers as envelopes at most, and what each gets fits in their share.
LEMMA EachFits ==
  ASSUME NEW B, IsFiniteSet(B), NEW m \in Tasks(Universe), NEW r, Verifiers(B, m, r) # {}
  PROVE  /\ IsFiniteSet(Verifiers(B, m, r))
         /\ Cardinality(Verifiers(B, m, r)) \in Nat \ {0}
         /\ Each(B, m, r) \in Nat
         /\ Each(B, m, r) <= Bps(Pool(m), VerificationShare)
         /\ Each(B, m, r) * Cardinality(Verifiers(B, m, r)) <= Bps(Pool(m), VerificationShare)
  <1> DEFINE votes == {b \in Attests(B, m, r) : b.verdict = "match" /\ b.observed = r.hash}
             signerOf == [a \in votes |-> a.signer]
  <1>1. IsFiniteSet(votes)
    <2>1. votes \subseteq B
      BY DEF Attests, Votes, OfType
    <2> QED BY <2>1, FS_Subset
  <1>2. Matching(B, m, r) = {signerOf[a] : a \in votes} /\ DOMAIN signerOf = votes
    BY DEF Matching
  <1>3. IsFiniteSet(Matching(B, m, r))
    <2> HIDE DEF votes, signerOf
    <2> QED BY <1>1, <1>2, ImageIsFinite
  <1>4. IsFiniteSet(Verifiers(B, m, r))
    BY <1>3, FS_Subset DEF Verifiers
  <1> DEFINE k == Cardinality(Verifiers(B, m, r))
             x == Bps(Pool(m), VerificationShare)
  <1>5. k \in Nat \ {0}
    BY <1>4, FS_CardinalityType, FS_EmptySet
  <1>6. x \in Nat
    BY PoolTyped DEF Shares
  <1> HIDE DEF k, x
  <1>7. x \div k \in Nat /\ x \div k <= x /\ (x \div k) * k <= x
    BY <1>5, <1>6, Floored
  <1> QED BY <1>4, <1>5, <1>7 DEF Each, k, x

LEMMA VerifyAccrualsAre ==
  ASSUME NEW B, NEW m, NEW r
  PROVE  VerifyAccruals(B, m, r) =
            IF Verifiers(B, m, r) # {} /\ Each(B, m, r) > 0
            THEN {Accrual(m, r, v, "verify", Capped(m, Each(B, m, r))) : v \in Verifiers(B, m, r)}
            ELSE {}
  BY DEF VerifyAccruals, Verifiers, Each

LEMMA SplitTyped ==
  ASSUME NEW B, B \subseteq Universe, IsFiniteSet(B), NEW m \in Tasks(B), NEW a \in Accruals(B, m)
  PROVE  /\ a \in AccrualSet
         /\ a.task = m /\ a.result = AcceptedResult(B, m)
  <1> DEFINE r == AcceptedResult(B, m)
             verifiers == Matching(B, m, r) \ (Coordinators(m) \cup {r.signer})
  <1>1. m \in Tasks(Universe) /\ r # None /\ r \in OfType(Universe, "result")
    BY AcceptedAnswers DEF Accruals, Tasks, OfType
  <1>2. a \in ExecuteAccruals(m, r) \/ a \in VerifyAccruals(B, m, r)
    BY DEF Accruals
  <1>3. Matching(B, m, r) \subseteq {e.signer : e \in Universe} /\ r.signer \in {e.signer : e \in Universe}
    BY <1>1 DEF Matching, Attests, Votes, OfType
  <1> HIDE DEF r
  <1>4. CASE a \in ExecuteAccruals(m, r)
    <2> DEFINE x == Bps(Pool(m), ExecutionShare)
    <2>1. x > 0 /\ a = Accrual(m, r, r.signer, "execute", Capped(m, x))
      BY <1>4 DEF ExecuteAccruals
    <2>2. x \in Nat \ {0} /\ x <= x
      BY <1>1, <2>1, PoolTyped DEF Shares
    <2>3. Capped(m, x) \in Nat \ {0}
      BY <1>1, <2>2, CappedTyped DEF Shares
    <2> HIDE DEF x
    <2> QED BY <1>1, <1>3, <2>1, <2>3 DEF Accrual, AccrualSet, r
  <1>5. CASE a \in VerifyAccruals(B, m, r)
    <2> DEFINE x == Each(B, m, r)
    <2>1. Verifiers(B, m, r) # {} /\ x > 0
      BY <1>5, VerifyAccrualsAre
    <2>2. PICK v \in Verifiers(B, m, r) : a = Accrual(m, r, v, "verify", Capped(m, x))
      BY <1>5, VerifyAccrualsAre
    <2>3. x \in Nat \ {0} /\ x <= Bps(Pool(m), VerificationShare)
      BY <1>1, <2>1, EachFits
    <2>4. Capped(m, x) \in Nat \ {0}
      BY <1>1, <2>3, CappedTyped DEF Shares
    <2>5. v \in {e.signer : e \in Universe}
      BY <1>3 DEF Verifiers
    <2> HIDE DEF x
    <2> QED BY <1>1, <2>2, <2>4, <2>5 DEF Accrual, AccrualSet, r
  <1> QED BY <1>2, <1>4, <1>5

\* A task is split once per role and node.
LEMMA SplitUnique ==
  ASSUME NEW B, NEW m, NEW a \in Accruals(B, m), NEW b \in Accruals(B, m),
         a.role = b.role, a.node = b.node
  PROVE  a = b
  <1> DEFINE r == AcceptedResult(B, m)
  <1>1. \A c \in Accruals(B, m) :
            \/ c = Accrual(m, r, r.signer, "execute", Capped(m, Bps(Pool(m), ExecutionShare)))
            \/ \E v : c = Accrual(m, r, v, "verify", Capped(m, Each(B, m, r)))
    BY VerifyAccrualsAre DEF Accruals, ExecuteAccruals
  <1> QED BY <1>1 DEF Accrual

LEMMA VerifiersFit ==
  ASSUME NEW B, B \subseteq Universe, IsFiniteSet(B), NEW m \in Tasks(B), NEW r, r = AcceptedResult(B, m),
         r # None, NEW S, S = VerifyAccruals(B, m, r)
  PROVE  /\ Amounts(S) /\ Sum(S) <= Bps(Pool(m), VerificationShare)
         /\ \A a \in S : a.role = "verify"
  <1>1. CASE S = {}
    BY <1>1, SumOfNone, PoolTyped DEF Shares, Tasks, OfType
  <1>2. CASE S # {}
    <2> DEFINE V == Verifiers(B, m, r)
               x == Each(B, m, r)
               f == [v \in V |-> Accrual(m, r, v, "verify", Capped(m, x))]
    <2>1. V # {} /\ x > 0 /\ S = {f[v] : v \in V} /\ DOMAIN f = V
      BY <1>2, VerifyAccrualsAre
    <2>2. m \in Tasks(Universe)
      BY DEF Tasks, OfType
    <2>3. /\ IsFiniteSet(V) /\ Cardinality(V) \in Nat
          /\ x \in Nat \ {0} /\ x <= Bps(Pool(m), VerificationShare)
          /\ x * Cardinality(V) <= Bps(Pool(m), VerificationShare)
      BY <2>1, <2>2, EachFits
    <2>4. Capped(m, x) \in Nat /\ Capped(m, x) <= x
      BY <2>2, <2>3, CappedTyped DEF Shares
    <2>5. \A a \in S : a.amount \in Nat /\ a.amount <= x /\ a.role = "verify"
      BY <2>1, <2>4 DEF Accrual
    <2> HIDE DEF V, x, f
    <2>6. IsFiniteSet(S) /\ Cardinality(S) <= Cardinality(V) /\ Cardinality(S) \in Nat
      BY <2>1, <2>3, ImageIsFinite, FS_CardinalityType
    <2>7. Amounts(S) /\ Sum(S) \in Nat /\ Sum(S) <= x * Cardinality(S)
      BY <2>3, <2>5, <2>6, SumBounded, SumIsNat DEF Amounts
    <2>8. x * Cardinality(S) <= x * Cardinality(V) /\ x * Cardinality(S) \in Nat /\ x * Cardinality(V) \in Nat
      BY <2>3, <2>6
    <2>9. Bps(Pool(m), VerificationShare) \in Nat
      BY <2>2, PoolTyped DEF Shares
    <2> QED BY <2>3, <2>5, <2>7, <2>8, <2>9
  <1> QED BY <1>1, <1>2

\* One computation of the split hands out no more than the pool.
LEMMA SplitFits ==
  ASSUME NEW B, B \subseteq Universe, IsFiniteSet(B), NEW m \in Tasks(B)
  PROVE  Amounts(Accruals(B, m)) /\ Sum(Accruals(B, m)) <= Pool(m)
  <1>0. m \in Tasks(Universe)
    BY DEF Tasks, OfType
  <1>1. CASE Accruals(B, m) = {}
    BY <1>0, <1>1, SumOfNone, PoolTyped DEF Shares
  <1>2. CASE Accruals(B, m) # {}
    <2> DEFINE r == AcceptedResult(B, m)
               S == VerifyAccruals(B, m, r)
               E == ExecuteAccruals(m, r)
               x == Bps(Pool(m), ExecutionShare)
               y == Bps(Pool(m), VerificationShare)
    <2>1. r # None /\ Accruals(B, m) = E \cup S
      BY <1>2 DEF Accruals
    <2>2. Amounts(S) /\ Sum(S) <= y /\ \A a \in S : a.role = "verify"
      BY <2>1, VerifiersFit
    <2>3. x \in Nat /\ y \in Nat /\ Pool(m) \in Nat /\ x + y <= Pool(m)
      BY <1>0, PoolTyped, BpsSplits, ReplicaAssumption DEF Shares
    <2>4. \/ E = {}
          \/ \E a : E = {a} /\ a.amount \in Nat /\ a.amount <= x /\ a.role = "execute"
      <3>1. CASE x > 0
        <4>1. x \in Nat \ {0} /\ x <= x
          BY <2>3, <3>1
        <4>2. Capped(m, x) \in Nat /\ Capped(m, x) <= x
          BY <1>0, <4>1, CappedTyped DEF Shares
        <4> QED BY <4>2 DEF ExecuteAccruals, Accrual
      <3>2. CASE ~(x > 0)
        BY <3>2 DEF ExecuteAccruals
      <3> QED BY <3>1, <3>2
    <2> HIDE DEF E, S, x, y
    <2>5. Sum(S) \in Nat
      BY <2>2, SumIsNat
    <2>6. CASE E = {}
      <3>1. Accruals(B, m) = S
        BY <2>1, <2>6
      <3> QED BY <3>1, <2>2, <2>3, <2>5
    <2>7. CASE E # {}
      <3>1. PICK a : E = {a} /\ a.amount \in Nat /\ a.amount <= x /\ a.role = "execute"
        BY <2>4, <2>7
      <3>2. Accruals(B, m) = S \cup {a} /\ a \notin S
        BY <2>1, <2>2, <3>1
      <3>3. Amounts(S \cup {a})
        BY <2>2, <3>1, FS_AddElement DEF Amounts
      <3>4. Sum(S \cup {a}) = Sum(S) + a.amount
        BY <3>2, <3>3, SumAdds
      <3> QED BY <2>2, <2>3, <2>5, <3>1, <3>2, <3>3, <3>4
    <2> QED BY <2>6, <2>7
  <1> QED BY <1>1, <1>2

-----------------------------------------------------------------------------
(* The order in which a duty's accruals are applied.                           *)
Distinct(S) == \A a, b \in S : a.task = b.task /\ a.role = b.role /\ a.node = b.node => a = b

Ordered(S) ==
    \A a, b, c \in S : /\ a # b => AccrualBefore(a, b) \/ AccrualBefore(b, a)
                       /\ AccrualBefore(a, b) /\ AccrualBefore(b, c) => AccrualBefore(a, c)

LEMMA AccrualsInOrder ==
  ASSUME NEW S, S \subseteq AccrualSet, Distinct(S)
  PROVE  Ordered(S)
  <1> DEFINE Ids == Tasks(Universe)
             Nodes == {e.signer : e \in Universe}
  <1>1. \A a \in S : a.task \in Ids /\ a.node \in Nodes /\ a.role \in {"execute", "verify"}
    BY DEF AccrualSet
  <1>2. \A i, j, k \in Ids : /\ ~Before(i, i)
                             /\ i # j => Before(i, j) \/ Before(j, i)
                             /\ Before(i, j) /\ Before(j, k) => Before(i, k)
    BY ReplicaAssumption DEF TotalOrder
  <1>3. \A i, j, k \in Nodes : /\ ~NodeBefore(i, i)
                               /\ i # j => NodeBefore(i, j) \/ NodeBefore(j, i)
                               /\ NodeBefore(i, j) /\ NodeBefore(j, k) => NodeBefore(i, k)
    BY ReplicaAssumption DEF TotalOrder
  <1> HIDE DEF Ids, Nodes
  <1> SUFFICES ASSUME NEW a \in S, NEW b \in S, NEW c \in S
               PROVE  /\ a # b => AccrualBefore(a, b) \/ AccrualBefore(b, a)
                      /\ AccrualBefore(a, b) /\ AccrualBefore(b, c) => AccrualBefore(a, c)
    BY DEF Ordered
  <1>4. a # b => AccrualBefore(a, b) \/ AccrualBefore(b, a)
    BY <1>1, <1>2, <1>3 DEF AccrualBefore, Distinct
  <1>5. ASSUME AccrualBefore(a, b), AccrualBefore(b, c) PROVE AccrualBefore(a, c)
    <2>1. CASE a.task = b.task /\ b.task = c.task
      BY <1>1, <1>3, <1>5, <2>1 DEF AccrualBefore
    <2>2. CASE a.task # b.task \/ b.task # c.task
      BY <1>1, <1>2, <1>5, <2>2 DEF AccrualBefore
    <2> QED BY <2>1, <2>2
  <1> QED BY <1>4, <1>5

LEMMA NextAccrual ==
  ASSUME NEW S, S \subseteq AccrualSet, Distinct(S), IsFiniteSet(S), S # {}
  PROVE  TheOne(Least(S, AccrualBefore)) \in S
  <1>0. Ordered(S)
    BY AccrualsInOrder
  <1> DEFINE Q == {t \in SUBSET S : t # {} /\ Least(t, AccrualBefore) = {}}
  <1>1. ASSUME Q # {} PROVE FALSE
    <2>1. PICK t \in Q : \A u \in Q : u \subseteq t => u = t
      <3>1. Q \subseteq SUBSET S
        OBVIOUS
      <3> HIDE DEF Q
      <3> QED BY <1>1, <3>1, LeastSubset
    <2>2. PICK x \in t : TRUE
      OBVIOUS
    <2> DEFINE u == t \ {x}
    <2>3. u # {}
      BY <2>1, <2>2 DEF Least
    <2>4. PICK z \in u : \A y \in u \ {z} : AccrualBefore(z, y)
      <3>1. u \notin Q /\ u \subseteq S
        BY <2>1, <2>2
      <3>2. Least(u, AccrualBefore) # {}
        BY <2>3, <3>1
      <3> QED BY <3>2 DEF Least
    <2>6. CASE AccrualBefore(z, x)
      <3>1. z \in Least(t, AccrualBefore)
        BY <2>4, <2>6 DEF Least
      <3> QED BY <3>1
    <2>7. CASE AccrualBefore(x, z)
      <3>1. \A y \in t \ {x} : AccrualBefore(x, y)
        BY <1>0, <2>2, <2>4, <2>7 DEF Ordered
      <3>2. x \in Least(t, AccrualBefore)
        BY <3>1 DEF Least
      <3> QED BY <3>2
    <2> QED BY <2>2, <2>4, <1>0, <2>6, <2>7 DEF Ordered
  <1>2. Least(S, AccrualBefore) # {}
    BY <1>1
  <1> QED BY <1>2 DEF TheOne, Least

-----------------------------------------------------------------------------
(* What is held is finite, and what a duty has still to apply is part of a      *)
(* split.                                                                       *)
Finite == \A n \in Replicas : IsFiniteSet(board[n]) /\ IsFiniteSet(ledger[n]) /\ IsFiniteSet(todo[n])
TodoIsSplit == \A n \in Replicas : Distinct(todo[n])
Books == Inv /\ TypeOK /\ Finite /\ TodoIsSplit /\ SubsidyCap

LEMMA InitBooks == Init => Books
  <1> SUFFICES ASSUME Init PROVE Books
    OBVIOUS
  <1>1. Inv
    BY InitInv
  <1>2. TypeOK
    BY ReplicaAssumption DEF Init, TypeOK
  <1>3. Finite /\ TodoIsSplit
    BY FS_EmptySet DEF Init, Finite, TodoIsSplit, Distinct
  <1>4. Subsidized({}) = {}
    BY DEF Subsidized
  <1>5. SubsidyCap
    <2>1. \A n \in Replicas : spent[n] = 0 /\ ledger[n] = {}
      BY DEF Init
    <2>2. SubsidyBudget \in Nat
      BY ReplicaAssumption
    <2> QED BY <1>4, <2>1, <2>2, SumOfNone DEF SubsidyCap
  <1> QED BY <1>1, <1>2, <1>3, <1>5 DEF Books

LEMMA StoreBooks ==
  ASSUME Books, Inv', NEW n \in Replicas, NEW e \in Universe, Store(n, e)
  PROVE  Books'
  <1>1. TypeOK'
    BY DEF Books, TypeOK, Store, ledgerVars
  <1>2. board'[n] = board[n] \cup {e} /\ \A k \in Replicas \ {n} : board'[k] = board[k]
    BY DEF Books, TypeOK, Store
  <1>3. Finite'
    BY <1>2, FS_AddElement DEF Books, Finite, Store, ledgerVars
  <1>4. TodoIsSplit' /\ SubsidyCap'
    BY DEF Books, TodoIsSplit, SubsidyCap, Store, ledgerVars
  <1> QED BY <1>1, <1>3, <1>4 DEF Books

\* The duty's accruals are finitely many, typed, and of one split per task.
LEMMA DutyIsSplit ==
  ASSUME NEW B, B \subseteq Universe, IsFiniteSet(B), NEW T, T = UNION {Accruals(B, m) : m \in Tasks(B)}
  PROVE  T \subseteq AccrualSet /\ IsFiniteSet(T) /\ Distinct(T)
  <1>1. T \subseteq AccrualSet
    BY SplitTyped
  <1>2. IsFiniteSet(T)
    <2> DEFINE f == [m \in Tasks(B) |-> Accruals(B, m)]
               F == {f[m] : m \in Tasks(B)}
    <2>1. IsFiniteSet(Tasks(B)) /\ DOMAIN f = Tasks(B)
      BY FS_Subset DEF Tasks, OfType
    <2>2. \A m \in Tasks(B) : IsFiniteSet(f[m])
      BY SplitFits DEF Amounts
    <2>3. T = UNION F
      OBVIOUS
    <2> HIDE DEF f
    <2>4. IsFiniteSet(F)
      BY <2>1, ImageIsFinite
    <2> QED BY <2>2, <2>3, <2>4, FS_UNION
  <1>3. Distinct(T)
    <2> SUFFICES ASSUME NEW a \in T, NEW b \in T, a.task = b.task, a.role = b.role, a.node = b.node
                 PROVE  a = b
      BY DEF Distinct
    <2>1. PICK m \in Tasks(B) : a \in Accruals(B, m)
      OBVIOUS
    <2>2. PICK k \in Tasks(B) : b \in Accruals(B, k)
      OBVIOUS
    <2>3. m = k
      BY <2>1, <2>2, SplitTyped
    <2> QED BY <2>1, <2>2, <2>3, SplitUnique
  <1> QED BY <1>1, <1>2, <1>3

LEMMA DutyBooks ==
  ASSUME Books, Inv', NEW n \in Replicas, LedgerDuty(n)
  PROVE  Books'
  <1> DEFINE T == UNION {Accruals(board[n], m) : m \in Tasks(board[n])}
  <1>1. board[n] \subseteq Universe /\ IsFiniteSet(board[n])
    BY DEF Books, TypeOK, Finite
  <1>2. T \subseteq AccrualSet /\ IsFiniteSet(T) /\ Distinct(T)
    BY <1>1, DutyIsSplit
  <1>3. /\ todo' = [todo EXCEPT ![n] = T]
        /\ UNCHANGED <<boardVars, ledger, spent, paid, paidTorn, crashes>>
    BY DEF LedgerDuty
  <1> HIDE DEF T
  <1>4. TypeOK'
    BY <1>2, <1>3 DEF Books, TypeOK, boardVars
  <1>5. todo'[n] = T /\ \A k \in Replicas \ {n} : todo'[k] = todo[k]
    BY <1>3 DEF Books, TypeOK
  <1>6. Finite' /\ TodoIsSplit'
    BY <1>2, <1>3, <1>5 DEF Books, Finite, TodoIsSplit, boardVars
  <1>7. SubsidyCap'
    BY <1>3 DEF Books, SubsidyCap
  <1> QED BY <1>4, <1>6, <1>7 DEF Books

LEMMA SubsidyTyped ==
  ASSUME NEW S, S \subseteq AccrualSet, IsFiniteSet(S)
  PROVE  Amounts(S) /\ Amounts(Subsidized(S)) /\ Sum(Subsidized(S)) \in Nat
  <1>1. Amounts(S)
    BY DEF Amounts, AccrualSet
  <1>2. Amounts(Subsidized(S))
    BY <1>1, FS_Subset DEF Amounts, Subsidized
  <1> QED BY <1>1, <1>2, SumIsNat

\* The subsidy grows by an accrual that is new and subsidized.
LEMMA SubsidyGrows ==
  ASSUME NEW S, NEW a, S \cup {a} \subseteq AccrualSet, IsFiniteSet(S), a \notin S
  PROVE  Sum(Subsidized(S \cup {a})) =
            IF a.task.funding = "subsidized" THEN Sum(Subsidized(S)) + a.amount ELSE Sum(Subsidized(S))
  <1>1. CASE a.task.funding = "subsidized"
    <2>1. Subsidized(S \cup {a}) = Subsidized(S) \cup {a} /\ a \notin Subsidized(S)
      BY <1>1 DEF Subsidized
    <2>2. Amounts(Subsidized(S) \cup {a})
      <3>1. IsFiniteSet(S \cup {a})
        BY FS_AddElement
      <3>2. Amounts(Subsidized(S \cup {a}))
        BY <3>1, SubsidyTyped
      <3> QED BY <2>1, <3>2
    <2> QED BY <1>1, <2>1, <2>2, SumAdds
  <1>2. CASE a.task.funding # "subsidized"
    <2>1. Subsidized(S \cup {a}) = Subsidized(S)
      BY <1>2 DEF Subsidized
    <2> QED BY <1>2, <2>1
  <1> QED BY <1>1, <1>2

LEMMA ApplyBooks ==
  ASSUME Books, Inv', NEW n \in Replicas, ApplyNext(n)
  PROVE  Books'
  <1> DEFINE a == TheOne(Least(todo[n], AccrualBefore))
  <1>1. /\ todo[n] \subseteq AccrualSet /\ ledger[n] \subseteq AccrualSet /\ spent[n] \in Nat
        /\ IsFiniteSet(todo[n]) /\ IsFiniteSet(ledger[n]) /\ Distinct(todo[n])
        /\ spent[n] = Sum(Subsidized(ledger[n])) /\ spent[n] <= SubsidyBudget
    BY DEF Books, TypeOK, Finite, TodoIsSplit, SubsidyCap
  <1>2. a \in todo[n]
    BY <1>1, NextAccrual DEF ApplyNext
  <1>3. a \in AccrualSet /\ a.amount \in Nat
    BY <1>1, <1>2 DEF AccrualSet
  <1>4. /\ todo' = [todo EXCEPT ![n] = @ \ {a}]
        /\ UNCHANGED <<boardVars, crashes>>
    BY DEF ApplyNext
  <1>5. IF Accepts(n, a)
        THEN /\ ledger' = [ledger EXCEPT ![n] = @ \cup {a}]
             /\ spent' = [spent EXCEPT ![n] = IF a.task.funding = "subsidized" THEN @ + a.amount ELSE @]
             /\ paid' = [paid EXCEPT ![n] = IF paidTorn[n] THEN @ ELSE @ \cup {a}]
             /\ paidTorn' = [paidTorn EXCEPT ![n] = FALSE]
        ELSE UNCHANGED <<ledger, spent, paid, paidTorn>>
    BY DEF ApplyNext
  <1>6. Accepts(n, a) => /\ a \notin ledger[n]
                         /\ a.task.funding = "subsidized" => spent[n] + a.amount <= SubsidyBudget
    BY DEF Accepts, SameId
  <1> HIDE DEF a
  <1>7. TypeOK'
    <2>1. /\ board' \in [Replicas -> SUBSET Universe] /\ file' \in [Replicas -> SUBSET Universe]
          /\ torn' \in [Replicas -> BOOLEAN] /\ crashes' \in 0 .. MaxCrashes
          /\ todo' \in [Replicas -> SUBSET AccrualSet]
      BY <1>4 DEF Books, TypeOK, boardVars
    <2>2. /\ ledger' \in [Replicas -> SUBSET AccrualSet]
          /\ paid' \in [Replicas -> SUBSET AccrualSet]
          /\ paidTorn' \in [Replicas -> BOOLEAN]
      <3>1. CASE Accepts(n, a)
        <4>1. /\ ledger' = [ledger EXCEPT ![n] = @ \cup {a}]
              /\ paid' = [paid EXCEPT ![n] = IF paidTorn[n] THEN @ ELSE @ \cup {a}]
              /\ paidTorn' = [paidTorn EXCEPT ![n] = FALSE]
          BY <1>5, <3>1
        <4> QED BY <1>3, <4>1 DEF Books, TypeOK
      <3>2. CASE ~Accepts(n, a)
        BY <1>5, <3>2 DEF Books, TypeOK
      <3> QED BY <3>1, <3>2
    <2>3. spent' \in [Replicas -> Nat]
      <3> DEFINE s == IF a.task.funding = "subsidized" THEN spent[n] + a.amount ELSE spent[n]
      <3>1. s \in Nat
        BY <1>1, <1>3
      <3>2. spent' = [spent EXCEPT ![n] = s] \/ spent' = spent
        BY <1>5
      <3> HIDE DEF s
      <3> QED BY <3>1, <3>2 DEF Books, TypeOK
    <2> QED BY <2>1, <2>2, <2>3 DEF TypeOK
  <1>8. todo'[n] = todo[n] \ {a} /\ \A k \in Replicas \ {n} : todo'[k] = todo[k]
    BY <1>4 DEF Books, TypeOK
  <1>9. TodoIsSplit'
    BY <1>8 DEF Books, TodoIsSplit, Distinct
  <1>10. CASE Accepts(n, a)
    <2>1. /\ ledger'[n] = ledger[n] \cup {a}
          /\ spent'[n] = IF a.task.funding = "subsidized" THEN spent[n] + a.amount ELSE spent[n]
          /\ \A k \in Replicas \ {n} : ledger'[k] = ledger[k] /\ spent'[k] = spent[k]
      BY <1>5, <1>10 DEF Books, TypeOK
    <2>2. Finite'
      <3>1. IsFiniteSet(ledger[n] \cup {a}) /\ IsFiniteSet(todo[n] \ {a})
        BY <1>1, FS_AddElement, FS_RemoveElement
      <3> QED BY <1>4, <1>8, <2>1, <3>1 DEF Books, Finite, boardVars
    <2>3. spent'[n] = Sum(Subsidized(ledger'[n])) /\ spent'[n] <= SubsidyBudget
      BY <1>1, <1>3, <1>6, <1>10, <2>1, SubsidyGrows
    <2>4. SubsidyCap'
      BY <2>1, <2>3 DEF Books, SubsidyCap
    <2> QED BY <1>7, <1>9, <2>2, <2>4 DEF Books
  <1>11. CASE ~Accepts(n, a)
    <2>1. UNCHANGED <<ledger, spent>>
      BY <1>5, <1>11
    <2>2. Finite'
      <3>1. IsFiniteSet(todo'[n])
        BY <1>1, <1>8, FS_RemoveElement
      <3> QED BY <1>4, <1>8, <2>1, <3>1 DEF Books, Finite, boardVars
    <2>3. SubsidyCap'
      BY <2>1 DEF Books, SubsidyCap
    <2> QED BY <1>7, <1>9, <2>2, <2>3 DEF Books
  <1> QED BY <1>10, <1>11

\* What is read back is what was held, or one accrual less: the sum cannot exceed
\* the budget it was held to.
LEMMA RestartedBooks ==
  ASSUME Books, Inv', NEW n \in Replicas, NEW tearBoard \in BOOLEAN, NEW tearLedger \in BOOLEAN,
         Restarted(n, tearBoard, tearLedger)
  PROVE  Books'
  <1>1. /\ ledger[n] \subseteq AccrualSet /\ paid[n] \subseteq AccrualSet
        /\ IsFiniteSet(ledger[n]) /\ IsFiniteSet(board[n])
        /\ spent[n] = Sum(Subsidized(ledger[n])) /\ spent[n] <= SubsidyBudget
    BY DEF Books, TypeOK, Finite, SubsidyCap
  <1>2. /\ ledger[n] = paid[n] \/ \E a \in ledger[n] : ledger[n] = paid[n] \cup {a}
        /\ file[n] \subseteq board[n]
    BY DEF Books, Inv, DiskBehindByOne
  <1>3. IsFiniteSet(paid[n]) /\ IsFiniteSet(file[n])
    BY <1>1, <1>2, FS_Subset
  <1>4. Sum(Subsidized(paid[n])) \in Nat /\ Sum(Subsidized(paid[n])) <= SubsidyBudget
    <2>1. Sum(Subsidized(paid[n])) \in Nat /\ Sum(Subsidized(ledger[n])) \in Nat /\ SubsidyBudget \in Nat
      BY <1>1, <1>3, SubsidyTyped, ReplicaAssumption
    <2>2. CASE ledger[n] = paid[n]
      BY <1>1, <2>1, <2>2
    <2>3. ASSUME NEW a \in ledger[n], a \notin paid[n], ledger[n] = paid[n] \cup {a}
          PROVE  Sum(Subsidized(paid[n])) <= SubsidyBudget
      <3>1. a.amount \in Nat
        BY <1>1 DEF AccrualSet
      <3>2. Sum(Subsidized(ledger[n])) =
               IF a.task.funding = "subsidized" THEN Sum(Subsidized(paid[n])) + a.amount ELSE Sum(Subsidized(paid[n]))
        BY <1>1, <1>3, <2>3, SubsidyGrows
      <3> QED BY <1>1, <2>1, <3>1, <3>2
    <2> QED BY <1>2, <2>1, <2>2, <2>3
  <1>5. /\ board' = [board EXCEPT ![n] = file[n]]
        /\ ledger' = [ledger EXCEPT ![n] = paid[n]]
        /\ spent' = [spent EXCEPT ![n] = Sum(Subsidized(paid[n]))]
        /\ todo' = [todo EXCEPT ![n] = {}]
    BY DEF Restarted
  <1>6. TypeOK'
    <2>1. crashes' \in 0 .. MaxCrashes
      BY ReplicaAssumption DEF Restarted, Books, TypeOK
    <2> QED BY <1>4, <1>5, <2>1 DEF Books, TypeOK, Restarted
  <1>7. /\ board'[n] = file[n] /\ ledger'[n] = paid[n] /\ todo'[n] = {} /\ spent'[n] = Sum(Subsidized(paid[n]))
        /\ \A k \in Replicas \ {n} : /\ board'[k] = board[k] /\ ledger'[k] = ledger[k]
                                     /\ todo'[k] = todo[k] /\ spent'[k] = spent[k]
    BY <1>5 DEF Books, TypeOK
  <1>8. Finite'
    BY <1>3, <1>7, FS_EmptySet DEF Books, Finite
  <1>9. TodoIsSplit'
    BY <1>7 DEF Books, TodoIsSplit, Distinct
  <1>10. SubsidyCap'
    BY <1>4, <1>7 DEF Books, SubsidyCap
  <1> QED BY <1>6, <1>8, <1>9, <1>10 DEF Books

LEMMA NextBooks == Books /\ [Next]_vars => Books'
  <1> SUFFICES ASSUME Books, [Next]_vars PROVE Books'
    OBVIOUS
  <1>1. Inv'
    BY NextInv DEF Books
  <1>2. ASSUME NEW n \in Replicas, Crash(n) \/ CrashStoring(n) \/ CrashApplying(n) PROVE Books'
    BY <1>1, <1>2, RestartedBooks DEF Crash, CrashStoring, CrashApplying
  <1>3. CASE UNCHANGED vars
    BY <1>1, <1>3 DEF vars, boardVars, ledgerVars, Books, TypeOK, Finite, TodoIsSplit, SubsidyCap
  <1> QED BY <1>1, <1>2, <1>3, StoreBooks, DutyBooks, ApplyBooks DEF Next

LEMMA BooksAlways == Spec => []Books
  BY InitBooks, NextBooks, PTL DEF Spec

\* Boards, journals and ledgers hold what the network signed and what is computed
\* from it, through crashes, torn lines and the replay of the journals.
THEOREM TypeCorrect == Spec => []TypeOK
  <1>1. Books => TypeOK
    BY DEF Books
  <1> QED BY <1>1, BooksAlways, PTL

\* No computation of the split exceeds the pool of its task, for any number of
\* verifiers and any shares that fit, although every division is floored; and no
\* order of accruals, crashes and replays takes a ledger beyond the subsidy.
THEOREM RewardsStayBounded == Spec => []RewardsBounded
  <1>1. Books => RewardsBounded
    BY SplitFits DEF Books, TypeOK, Finite, RewardsBounded, SplitWithinPool
  <1> QED BY <1>1, BooksAlways, PTL
=============================================================================
