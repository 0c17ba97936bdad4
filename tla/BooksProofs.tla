------------------------------ MODULE BooksProofs -----------------------------
(* Proofs about what a node counts: the shards it stores and the pins it keeps   *)
(* (NodeStorage), the fees of its chain nodes (NodeAsAService), its earnings,   *)
(* stakes and bounties (EarningBooks), the meter of the compute it shares       *)
(* (ComputeSharing), the stake the ledger holds (Blockchain), its skills and    *)
(* bridged tokens (AppsAndSkills), and the answers a quorum pays                *)
(* (QuorumCoordinator, which implements QuorumAgreement).  Each invariant is proved with the           *)
(* strengthening that makes it inductive; sums are those of SumFunctionOnSet.   *)
EXTENDS NodeAsAService, NodeStorage, EarningBooks, ComputeSharing, Blockchain,
        AppsAndSkills, QuorumCoordinator, FiniteSetTheorems, WellFoundedInduction, TLAPS

-----------------------------------------------------------------------------
(* Sums of the values of a function over a finite set.                          *)
Total(f, S) == SumFunctionOnSet(f, S)
One(S) == CHOOSE x \in S : TRUE

\* What Total(f, ) computes over the subsets of S, as an equation.
SumsUp(f, S, g) == g = [s \in SUBSET S |-> IF s = {} THEN 0 ELSE f[One(s)] + g[s \ {One(s)}]]

LEMMA SumIsSums == \A f, S : Total(f, S) = (CHOOSE g : SumsUp(f, S, g))[S]
  BY Zenon DEF Total, SumFunctionOnSet, FoldFunctionOnSet, MapThenFoldSet, SumsUp, One

\* A nonempty set of subsets of a finite set has a member none of whose proper subsets is in it.
LEMMA LeastSubset ==
  ASSUME NEW S, IsFiniteSet(S), NEW Q, Q \subseteq SUBSET S, Q # {}
  PROVE  \E T \in Q : \A U \in Q : U \subseteq T => U = T
  <1>1. IsWellFoundedOn(StrictSubsetOrdering(S), SUBSET S)
    BY FS_StrictSubsetOrderingWellFounded, FS_FiniteSubsetsOfFinite
  <1>2. \E T \in Q : \A U \in Q : ~(<<U, T>> \in StrictSubsetOrdering(S))
    BY <1>1, WFMin
  <1> QED BY <1>2 DEF StrictSubsetOrdering

\* Two solutions agree where both are defined.
LEMMA SumsAgree ==
  ASSUME NEW f, NEW S, IsFiniteSet(S), NEW g, SumsUp(f, S, g), NEW R, NEW h, SumsUp(f, R, h), NEW s, s \subseteq S, s \subseteq R
  PROVE  g[s] = h[s]
  <1> DEFINE Q == {t \in SUBSET s : g[t] # h[t]}
  <1>1. SUFFICES ASSUME Q # {} PROVE FALSE
    OBVIOUS
  <1>2. IsFiniteSet(s)
    BY FS_Subset
  <1>3. PICK t \in Q : \A u \in Q : u \subseteq t => u = t
    <2>1. Q \subseteq SUBSET s
      OBVIOUS
    <2> HIDE DEF Q
    <2> QED BY <1>1, <1>2, <2>1, LeastSubset
  <1>4. /\ g[t] = IF t = {} THEN 0 ELSE f[One(t)] + g[t \ {One(t)}]
        /\ h[t] = IF t = {} THEN 0 ELSE f[One(t)] + h[t \ {One(t)}]
    BY DEF SumsUp
  <1>5. t # {}
    BY <1>4
  <1>6. One(t) \in t
    BY <1>5 DEF One
  <1>7. t \ {One(t)} \notin Q
    BY <1>3, <1>6
  <1> QED BY <1>4, <1>5, <1>7

LEMMA SumsExist ==
  ASSUME NEW f, NEW S, IsFiniteSet(S)
  PROVE  \E g : SumsUp(f, S, g)
  <1> DEFINE Q == {t \in SUBSET S : ~\E g : SumsUp(f, t, g)}
  <1>1. SUFFICES ASSUME Q # {} PROVE FALSE
    OBVIOUS
  <1>2. PICK t \in Q : \A u \in Q : u \subseteq t => u = t
    <2>1. Q \subseteq SUBSET S
      OBVIOUS
    <2> HIDE DEF Q
    <2> QED BY <1>1, <2>1, LeastSubset
  <1> DEFINE G(u) == CHOOSE g : SumsUp(f, u, g)
             h == [s \in SUBSET t |-> IF s = {} THEN 0
                                      ELSE f[One(s)] + G(s \ {One(s)})[s \ {One(s)}]]
  <1>3. \A u : u \subseteq t /\ u # t => SumsUp(f, u, G(u))
    BY <1>2
  <1>4. ASSUME NEW s \in SUBSET t, s # {}
        PROVE  h[s] = f[One(s)] + h[s \ {One(s)}]
    <2> DEFINE r == s \ {One(s)}
    <2>1. One(s) \in s
      BY <1>4 DEF One
    <2>2. r \subseteq t /\ r # t
      BY <2>1
    <2>3. SumsUp(f, r, G(r))
      BY <1>3, <2>2
    <2>4. G(r)[r] = h[r]
      <3>1. CASE r = {}
        <4>1. G(r)[r] = 0
          BY <2>3, <3>1 DEF SumsUp
        <4>2. h[r] = 0
          BY <3>1, <2>2
        <4> QED BY <4>1, <4>2
      <3>2. CASE r # {}
        <4> DEFINE q == r \ {One(r)}
        <4>1. SumsUp(f, q, G(q))
          BY <1>3, <2>2
        <4>2. G(r)[r] = f[One(r)] + G(r)[q]
          BY <2>3, <3>2 DEF SumsUp
        <4>3. h[r] = f[One(r)] + G(q)[q]
          BY <2>2, <3>2
        <4>4. IsFiniteSet(r)
          BY FS_Subset, <2>2
        <4>5. G(r)[q] = G(q)[q]
          <5>1. q \subseteq r
            OBVIOUS
          <5> HIDE DEF G, q, r
          <5>2. PICK gr, gq : gr = G(r) /\ gq = G(q)
            OBVIOUS
          <5>3. SumsUp(f, r, gr) /\ SumsUp(f, q, gq)
            BY <4>1, <2>3, <5>2
          <5>4. gr[q] = gq[q]
            BY <4>4, <5>1, <5>3, SumsAgree
          <5> QED BY <5>2, <5>4
        <4> QED BY <4>2, <4>3, <4>5
      <3> QED BY <3>1, <3>2
    <2>5. h[s] = f[One(s)] + G(r)[r]
      BY <1>4
    <2> QED BY <2>4, <2>5
  <1>5. SumsUp(f, t, h)
    <2>1. h = [s \in SUBSET t |-> h[s]] /\ h[{}] = 0
      OBVIOUS
    <2> HIDE DEF h
    <2>2. \A s \in SUBSET t : h[s] = IF s = {} THEN 0 ELSE f[One(s)] + h[s \ {One(s)}]
      BY <1>4, <2>1
    <2> QED BY <2>1, <2>2 DEF SumsUp
  <1> QED BY <1>5, <1>2

Amounts(f, S) == IsFiniteSet(S) /\ \A a \in S : f[a] \in Nat

\* The equation that defines a sum.
LEMMA SumStep ==
  ASSUME NEW f, NEW S, IsFiniteSet(S)
  PROVE  /\ Total(f, {}) = 0
         /\ S # {} => One(S) \in S /\ Total(f, S) = f[One(S)] + Total(f, S \ {One(S)})
  <1>1. ASSUME NEW R, IsFiniteSet(R) PROVE \E g : SumsUp(f, R, g) /\ Total(f, R) = g[R]
    BY <1>1, SumsExist, SumIsSums
  <1>2. Total(f, {}) = 0
    BY <1>1, FS_EmptySet DEF SumsUp
  <1>3. ASSUME S # {} PROVE One(S) \in S /\ Total(f, S) = f[One(S)] + Total(f, S \ {One(S)})
    <2> DEFINE R == S \ {One(S)}
    <2>1. One(S) \in S
      BY <1>3 DEF One
    <2>2. PICK g : SumsUp(f, S, g) /\ Total(f, S) = g[S]
      BY <1>1
    <2>3. IsFiniteSet(R)
      BY FS_Subset
    <2>4. PICK h : SumsUp(f, R, h) /\ Total(f, R) = h[R]
      BY <1>1, <2>3
    <2>5. g[R] = h[R]
      <3>1. R \subseteq S /\ R \subseteq R
        OBVIOUS
      <3> HIDE DEF R
      <3> QED BY <3>1, <2>2, <2>4, SumsAgree
    <2>6. g[S] = f[One(S)] + g[R]
      BY <2>2, <1>3 DEF SumsUp
    <2> QED BY <2>1, <2>2, <2>4, <2>5, <2>6
  <1> QED BY <1>2, <1>3

LEMMA SumOfNone == \A f : Amounts(f, {}) /\ Total(f, {}) = 0
  BY FS_EmptySet, SumStep DEF Amounts

LEMMA SumIsNat ==
  ASSUME NEW f, NEW S, Amounts(f, S)
  PROVE  Total(f, S) \in Nat
  <1> DEFINE Q == {t \in SUBSET S : Total(f, t) \notin Nat}
  <1>1. SUFFICES ASSUME Q # {} PROVE FALSE
    OBVIOUS
  <1>2. PICK t \in Q : \A u \in Q : u \subseteq t => u = t
    <2>1. Q \subseteq SUBSET S
      OBVIOUS
    <2> HIDE DEF Q
    <2> QED BY <1>1, <2>1, LeastSubset DEF Amounts
  <1>3. IsFiniteSet(t)
    BY FS_Subset DEF Amounts
  <1>4. t # {} /\ One(t) \in t /\ Total(f, t) = f[One(t)] + Total(f, t \ {One(t)})
    <2>1. Total(f, {}) = 0
      BY <1>3, SumStep
    <2>2. t # {}
      BY <2>1
    <2> QED BY <2>2, <1>3, SumStep
  <1>5. Total(f, t \ {One(t)}) \in Nat
    BY <1>2, <1>4
  <1> QED BY <1>4, <1>5 DEF Amounts

\* A sum grows by what is added, whichever element was chosen first.
LEMMA SumAdds ==
  ASSUME NEW f, NEW S, NEW a, Amounts(f, S \cup {a}), a \notin S
  PROVE  Total(f, S \cup {a}) = Total(f, S) + f[a]
  <1> DEFINE Q == {t \in SUBSET S : ~\A b \in (S \cup {a}) \ t : Total(f, t \cup {b}) = Total(f, t) + f[b]}
  <1>1. SUFFICES ASSUME Q # {} PROVE FALSE
    OBVIOUS
  <1>0. IsFiniteSet(S) /\ \A R \in SUBSET (S \cup {a}) : Amounts(f, R) /\ Total(f, R) \in Nat
    <2>1. \A R \in SUBSET (S \cup {a}) : Amounts(f, R)
      BY FS_Subset DEF Amounts
    <2> QED BY <2>1, SumIsNat DEF Amounts
  <1>2. PICK t \in Q : \A u \in Q : u \subseteq t => u = t
    <2>1. Q \subseteq SUBSET S
      OBVIOUS
    <2> HIDE DEF Q
    <2> QED BY <1>0, <1>1, <2>1, LeastSubset
  <1>3. PICK b \in (S \cup {a}) \ t : Total(f, t \cup {b}) # Total(f, t) + f[b]
    OBVIOUS
  <1> DEFINE c == One(t \cup {b})
  <1>4. c \in t \cup {b} /\ Total(f, t \cup {b}) = f[c] + Total(f, (t \cup {b}) \ {c})
    <2>1. IsFiniteSet(t \cup {b})
      BY <1>0 DEF Amounts
    <2> QED BY <2>1, SumStep
  <1>5. f[b] \in Nat /\ f[c] \in Nat /\ Total(f, t) \in Nat
    BY <1>0, <1>4 DEF Amounts
  <1>6. c # b
    <2>1. (t \cup {b}) \ {b} = t
      OBVIOUS
    <2> HIDE DEF c
    <2>2. c = b => Total(f, t \cup {b}) = f[b] + Total(f, t)
      BY <1>4, <2>1
    <2> QED BY <1>3, <1>5, <2>2
  <1> DEFINE u == t \ {c}
  <1>7. (t \cup {b}) \ {c} = u \cup {b} /\ u \cup {c} = t /\ u \subseteq t /\ u # t /\ c \in t
    BY <1>4, <1>6
  <1>8. Total(f, u \cup {b}) = Total(f, u) + f[b] /\ Total(f, u \cup {c}) = Total(f, u) + f[c]
    BY <1>2, <1>7
  <1>9. Total(f, u) \in Nat
    BY <1>0, <1>7
  <1> HIDE DEF u, c
  <1>10. Total(f, t \cup {b}) = f[c] + (Total(f, u) + f[b]) /\ Total(f, t) = Total(f, u) + f[c]
    BY <1>4, <1>7, <1>8
  <1> QED BY <1>3, <1>5, <1>9, <1>10

\* Functions that agree on a set have the same sum over it.
LEMMA SumOfSame ==
  ASSUME NEW f, NEW g, NEW S, IsFiniteSet(S), \A a \in S : f[a] = g[a]
  PROVE  Total(f, S) = Total(g, S)
  <1> DEFINE Q == {t \in SUBSET S : Total(f, t) # Total(g, t)}
  <1>1. SUFFICES ASSUME Q # {} PROVE FALSE
    OBVIOUS
  <1>2. PICK t \in Q : \A u \in Q : u \subseteq t => u = t
    <2>1. Q \subseteq SUBSET S
      OBVIOUS
    <2> HIDE DEF Q
    <2> QED BY <1>1, <2>1, LeastSubset
  <1>3. IsFiniteSet(t) /\ t \subseteq S
    BY FS_Subset
  <1>4. /\ Total(f, {}) = 0 /\ Total(g, {}) = 0
        /\ t # {} => One(t) \in t /\ Total(f, t) = f[One(t)] + Total(f, t \ {One(t)}) /\ Total(g, t) = g[One(t)] + Total(g, t \ {One(t)})
    BY <1>3, SumStep
  <1>5. t # {}
    BY <1>4
  <1>6. t \ {One(t)} \notin Q
    BY <1>2, <1>4, <1>5
  <1>7. Total(f, t \ {One(t)}) = Total(g, t \ {One(t)}) /\ f[One(t)] = g[One(t)]
    BY <1>3, <1>4, <1>5, <1>6
  <1> QED BY <1>4, <1>5, <1>7

\* What one element adds to a sum, and what changing it does.
LEMMA SumWithout ==
  ASSUME NEW f, NEW S, NEW a \in S, Amounts(f, S)
  PROVE  Total(f, S) = Total(f, S \ {a}) + f[a] /\ Total(f, S \ {a}) \in Nat /\ f[a] \in Nat
  <1>1. PICK R : R = S \ {a}
    OBVIOUS
  <1>2. R \cup {a} = S /\ a \notin R
    BY <1>1
  <1>3. IsFiniteSet(R) /\ Amounts(f, R)
    BY <1>1, FS_Subset DEF Amounts
  <1>4. Total(f, R \cup {a}) = Total(f, R) + f[a] /\ Total(f, R) \in Nat
    BY <1>2, <1>3, SumAdds, SumIsNat
  <1> QED BY <1>1, <1>2, <1>4 DEF Amounts

LEMMA SumChanges ==
  ASSUME NEW f, NEW g, NEW S, NEW a \in S, Amounts(f, S), g[a] \in Nat, \A s \in S : s # a => g[s] = f[s]
  PROVE  /\ Amounts(g, S) /\ Total(f, S) \in Nat /\ Total(g, S) \in Nat
         /\ f[a] <= Total(f, S) /\ f[a] \in Nat
         /\ Total(g, S) = (Total(f, S) - f[a]) + g[a]
  <1>1. Amounts(g, S)
    BY DEF Amounts
  <1>2. Total(f, S \ {a}) = Total(g, S \ {a})
    <2>1. PICK R : R = S \ {a}
      OBVIOUS
    <2>2. IsFiniteSet(R) /\ \A s \in R : f[s] = g[s]
      BY <2>1, FS_Subset DEF Amounts
    <2> QED BY <2>1, <2>2, SumOfSame
  <1>3. /\ Total(f, S) = Total(f, S \ {a}) + f[a] /\ Total(f, S \ {a}) \in Nat /\ f[a] \in Nat
        /\ Total(g, S) = Total(g, S \ {a}) + g[a]
    BY <1>1, SumWithout
  <1> QED BY <1>1, <1>2, <1>3

LEMMA SumOfZeros ==
  ASSUME NEW f, NEW S, IsFiniteSet(S), \A a \in S : f[a] = 0
  PROVE  Total(f, S) = 0
  <1> DEFINE Q == {t \in SUBSET S : Total(f, t) # 0}
  <1>1. SUFFICES ASSUME Q # {} PROVE FALSE
    OBVIOUS
  <1>2. PICK t \in Q : \A u \in Q : u \subseteq t => u = t
    <2>1. Q \subseteq SUBSET S
      OBVIOUS
    <2> HIDE DEF Q
    <2> QED BY <1>1, <2>1, LeastSubset
  <1>3. IsFiniteSet(t) /\ t \subseteq S
    BY FS_Subset
  <1>4. Total(f, {}) = 0 /\ (t # {} => One(t) \in t /\ Total(f, t) = f[One(t)] + Total(f, t \ {One(t)}))
    BY <1>3, SumStep
  <1>5. t # {}
    BY <1>4
  <1>6. t \ {One(t)} \notin Q
    BY <1>2, <1>4, <1>5
  <1>7. Total(f, t \ {One(t)}) = 0 /\ f[One(t)] = 0
    BY <1>3, <1>4, <1>5, <1>6
  <1> QED BY <1>4, <1>5, <1>7

\* The sum over two sets without a common element, and over the image of a set.
LEMMA SumOfUnion ==
  ASSUME NEW f, NEW A, NEW B, Amounts(f, A \cup B), A \cap B = {}
  PROVE  Total(f, A \cup B) = Total(f, A) + Total(f, B) /\ Total(f, A) \in Nat /\ Total(f, B) \in Nat
  <1> DEFINE Q == {t \in SUBSET B : Total(f, A \cup t) # Total(f, A) + Total(f, t)}
  <1>0. /\ IsFiniteSet(A) /\ IsFiniteSet(B) /\ IsFiniteSet(A \cup B)
        /\ \A R \in SUBSET (A \cup B) : Amounts(f, R) /\ Total(f, R) \in Nat
    <2>1. IsFiniteSet(A \cup B) /\ \A R \in SUBSET (A \cup B) : IsFiniteSet(R)
      BY FS_Subset DEF Amounts
    <2>2. \A R \in SUBSET (A \cup B) : Amounts(f, R)
      BY <2>1 DEF Amounts
    <2> QED BY <2>1, <2>2, SumIsNat
  <1>1. SUFFICES ASSUME Q # {} PROVE FALSE
    <2>1. Total(f, A) \in Nat /\ Total(f, B) \in Nat
      BY <1>0
    <2> QED BY <2>1
  <1>2. PICK t \in Q : \A u \in Q : u \subseteq t => u = t
    <2>1. Q \subseteq SUBSET B
      OBVIOUS
    <2> HIDE DEF Q
    <2> QED BY <1>0, <1>1, <2>1, LeastSubset
  <1>3. Total(f, {}) = 0 /\ Total(f, A) \in Nat
    BY <1>0, SumOfNone
  <1>4. t # {}
    <2>1. t = {} => Total(f, A \cup t) = Total(f, A) /\ Total(f, t) = 0
      <3>1. A \cup {} = A
        OBVIOUS
      <3> QED BY <1>3, <3>1
    <2> QED BY <1>3, <2>1
  <1>5. PICK x : x \in t
    BY <1>4
  <1>6. PICK u, v : u = t \ {x} /\ v = A \cup u
    OBVIOUS
  <1>7. /\ u \cup {x} = t /\ v \cup {x} = A \cup t /\ x \notin u /\ x \notin v
        /\ u \subseteq A \cup B /\ t \subseteq A \cup B /\ v \subseteq A \cup B /\ v \cup {x} \subseteq A \cup B /\ u \notin Q /\ u \subseteq B
    BY <1>2, <1>5, <1>6
  <1>8. Amounts(f, u \cup {x}) /\ Amounts(f, v \cup {x}) /\ Total(f, u) \in Nat /\ Total(f, v) \in Nat /\ f[x] \in Nat
    <2>1. Amounts(f, u \cup {x}) /\ Amounts(f, v \cup {x}) /\ Total(f, u) \in Nat /\ Total(f, v) \in Nat
      BY <1>0, <1>7
    <2> QED BY <2>1 DEF Amounts
  <1>9. Total(f, u \cup {x}) = Total(f, u) + f[x] /\ Total(f, v \cup {x}) = Total(f, v) + f[x]
    BY <1>7, <1>8, SumAdds
  <1>10. Total(f, v) = Total(f, A) + Total(f, u)
    BY <1>6, <1>7
  <1>11. Total(f, t) = Total(f, u) + f[x] /\ Total(f, A \cup t) = Total(f, v) + f[x]
    BY <1>7, <1>9
  <1>12. Total(f, A \cup t) # Total(f, A) + Total(f, t)
    BY <1>2
  <1> HIDE DEF Q
  <1> QED BY <1>3, <1>8, <1>10, <1>11, <1>12

LEMMA SumOfImage ==
  ASSUME NEW f, NEW g, NEW s, NEW D, IsFiniteSet(D), \A i \in D : f[i] = g[s[i]] /\ f[i] \in Nat,
         \A i, j \in D : s[i] = s[j] => i = j
  PROVE  Total(f, D) = Total(g, {s[i] : i \in D})
  <1> DEFINE I(t) == {s[i] : i \in t}
             Q == {t \in SUBSET D : Total(f, t) # Total(g, I(t))}
  <1>1. SUFFICES ASSUME Q # {} PROVE FALSE
    OBVIOUS
  <1>2. PICK t \in Q : \A u \in Q : u \subseteq t => u = t
    <2>1. Q \subseteq SUBSET D
      OBVIOUS
    <2> HIDE DEF Q
    <2> QED BY <1>1, <2>1, LeastSubset
  <1>3. I({}) = {} /\ Total(f, {}) = 0 /\ Total(g, {}) = 0
    BY SumOfNone
  <1>4. t # {} /\ t \subseteq D
    BY <1>2, <1>3
  <1>5. PICK x : x \in t
    BY <1>4
  <1>6. PICK u, J, y : u = t \ {x} /\ J = I(u) /\ y = s[x]
    OBVIOUS
  <1>7. u \cup {x} = t /\ J \cup {y} = I(t) /\ x \notin u /\ y \notin J /\ Total(f, u) = Total(g, J) /\ u \subseteq D /\ x \in D
    <2>1. u \cup {x} = t /\ x \notin u /\ u \subseteq D /\ x \in D
      BY <1>4, <1>5, <1>6
    <2>2. J \cup {y} = I(t)
      BY <1>6, <2>1
    <2>3. y \notin J
      BY <1>6, <2>1
    <2>4. Total(f, u) = Total(g, J)
      BY <1>2, <1>6, <2>1
    <2> QED BY <2>1, <2>2, <2>3, <2>4
  <1>8. Amounts(f, u \cup {x})
    BY <1>7, FS_Subset DEF Amounts
  <1>9. Amounts(g, J \cup {y})
    <2>1. IsFiniteSet(u)
      BY <1>7, FS_Subset
    <2>2. IsFiniteSet(J)
      <3> DEFINE h == [i \in u |-> s[i]]
      <3>1. h \in Surjection(u, J)
        BY <1>6 DEF Surjection
      <3> HIDE DEF h
      <3> QED BY <2>1, <3>1, FS_Surjection
    <2>3. IsFiniteSet(J \cup {y})
      BY <2>2, FS_AddElement
    <2>4. \A z \in J \cup {y} : \E i \in D : z = s[i]
      BY <1>6, <1>7
    <2>5. \A z \in J \cup {y} : g[z] \in Nat
      BY <2>4
    <2> QED BY <2>3, <2>5 DEF Amounts
  <1>10. Total(f, u \cup {x}) = Total(f, u) + f[x] /\ Total(g, J \cup {y}) = Total(g, J) + g[y] /\ f[x] = g[y]
    <2>1. f[x] = g[y]
      BY <1>6, <1>7
    <2> HIDE DEF I, Q
    <2>2. x \notin u /\ y \notin J
      BY <1>7
    <2>3. Total(f, u \cup {x}) = Total(f, u) + f[x]
      BY <1>8, <2>2, SumAdds
    <2>4. Total(g, J \cup {y}) = Total(g, J) + g[y]
      BY <1>9, <2>2, SumAdds
    <2> QED BY <2>1, <2>3, <2>4
  <1>11. Total(f, t) = Total(g, I(t))
    BY <1>7, <1>10
  <1> QED BY <1>2, <1>11

LEMMA LeastNatural ==
  ASSUME NEW S, S \subseteq Nat, S # {}
  PROVE  \E n \in S : \A k \in S : n <= k
  <1> DEFINE R == OpToRel(<, Nat)
  <1>1. IsWellFoundedOn(R, Nat)
    BY NatLessThanWellFounded
  <1>2. \A j, k \in Nat : <<j, k>> \in R <=> j < k
    BY DEF OpToRel
  <1> HIDE DEF R
  <1>3. PICK n \in S : \A k \in S : ~(<<k, n>> \in R)
    BY <1>1, WFMin
  <1>4. ASSUME NEW k \in S PROVE n <= k
    <2>1. n \in Nat /\ k \in Nat /\ ~(k < n)
      BY <1>2, <1>3
    <2> QED BY <2>1
  <1> QED BY <1>4

-----------------------------------------------------------------------------
(* The vault (NodeStorage).  What its index lists fits in its share, so what is *)
(* loaded after a crash does.                                                   *)
LEMMA SpaceIsTotal ==
  /\ Space({}) = 0
  /\ \A S \in SUBSET ShardIds : IsFiniteSet(S) => Space(S) \in Nat
  /\ \A S \in SUBSET ShardIds, s \in ShardIds : IsFiniteSet(S) /\ s \notin S => Space(S \cup {s}) = Space(S) + SizeOf[s]
  <1>1. \A S : Space(S) = Total(SizeOf, S)
    BY DEF Space, Total
  <1>2. \A S \in SUBSET ShardIds : IsFiniteSet(S) => Amounts(SizeOf, S)
    BY VaultAssumption DEF Amounts
  <1>3. \A S \in SUBSET ShardIds : IsFiniteSet(S) => Space(S) \in Nat
    BY <1>1, <1>2, SumIsNat
  <1>4. ASSUME NEW S \in SUBSET ShardIds, NEW s \in ShardIds, IsFiniteSet(S), s \notin S
        PROVE  Space(S \cup {s}) = Space(S) + SizeOf[s]
    <2>1. IsFiniteSet(S \cup {s}) /\ S \cup {s} \in SUBSET ShardIds
      BY <1>4, FS_AddElement
    <2>2. Amounts(SizeOf, S \cup {s})
      BY <1>2, <2>1
    <2> QED BY <1>1, <1>4, <2>2, SumAdds
  <1> QED BY <1>1, <1>3, <1>4, SumOfNone

LEMMA SpaceGrows ==
  ASSUME NEW S \in SUBSET ShardIds, IsFiniteSet(S), NEW s \in ShardIds
  PROVE  Space(S \cup {s}) <= Space(S) + SizeOf[s]
  <1>1. Space(S) \in Nat /\ SizeOf[s] \in Nat
    BY SpaceIsTotal, VaultAssumption
  <1>2. CASE s \in S
    <2>1. S \cup {s} = S
      BY <1>2
    <2> QED BY <1>1, <2>1
  <1>3. CASE s \notin S
    BY <1>1, <1>3, SpaceIsTotal
  <1> QED BY <1>2, <1>3

LEMMA SpaceOfFewer ==
  ASSUME NEW T \in SUBSET ShardIds, IsFiniteSet(T), NEW S \in SUBSET T
  PROVE  Space(S) <= Space(T)
  <1> DEFINE Q == {t \in SUBSET T : ~(Space(S) <= Space(S \cup t))}
  <1>1. \A R \in SUBSET T : IsFiniteSet(R) /\ Space(R) \in Nat
    BY FS_Subset, SpaceIsTotal
  <1>2. ASSUME Q # {} PROVE FALSE
    <2>1. PICK t \in Q : \A u \in Q : u \subseteq t => u = t
      <3>1. Q \subseteq SUBSET T
        OBVIOUS
      <3> HIDE DEF Q
      <3> QED BY <1>2, <3>1, LeastSubset
    <2>2. t # {}
      <3>1. S \cup {} = S /\ Space(S) <= Space(S)
        BY <1>1
      <3> QED BY <3>1
    <2>3. PICK c \in t : TRUE
      BY <2>2
    <2>4. t \ {c} \notin Q
      BY <2>1
    <2>5. Space(S) <= Space(S \cup (t \ {c}))
      BY <2>4
    <2>6. CASE c \in S
      <3>1. S \cup (t \ {c}) = S \cup t
        BY <2>3, <2>6
      <3> QED BY <2>5, <3>1
    <2>7. CASE c \notin S
      <3> DEFINE R == S \cup (t \ {c})
      <3>1. R \cup {c} = S \cup t /\ c \notin R /\ R \in SUBSET T /\ c \in ShardIds /\ R \in SUBSET ShardIds /\ S \cup t \in SUBSET T
        BY <2>3, <2>7
      <3>2. Space(R \cup {c}) = Space(R) + SizeOf[c] /\ SizeOf[c] \in Nat
        BY <1>1, <3>1, SpaceIsTotal, VaultAssumption
      <3>3. Space(S) \in Nat /\ Space(R) \in Nat /\ Space(S) <= Space(R)
        BY <1>1, <2>5, <3>1
      <3>4. Space(S \cup t) = Space(R) + SizeOf[c]
        BY <3>1, <3>2
      <3>5. ~(Space(S) <= Space(S \cup t))
        OBVIOUS
      <3> QED BY <3>2, <3>3, <3>4, <3>5
    <2> QED BY <2>6, <2>7
  <1>3. ~(\E t \in SUBSET T : ~(Space(S) <= Space(S \cup t)))
    BY <1>2
  <1>4. S \cup T = T
    OBVIOUS
  <1> QED BY <1>3, <1>4

ShelvesAreFull == /\ IsFiniteSet(vault.shards) /\ vault.used <= MaxStorage /\ Space(vault.shards) <= vault.used
                  /\ \/ index = Torn
                     \/ index \in SUBSET ShardIds /\ vault.shards \subseteq index /\ IsFiniteSet(index) /\ Space(index) <= MaxStorage

VaultInv == VaultTypeOK /\ ShelvesAreFull

VaultKind == [state : {"down", "on", "stopping"}, shards : SUBSET ShardIds, used : Nat, verified : SUBSET ShardIds]

LEMMA VaultMeans == VaultInv => VaultTypeOK /\ VaultWithinShare
  BY DEF VaultInv, ShelvesAreFull, VaultWithinShare

(* A vault that is down counts and knows nothing.                               *)
LEMMA DownIsEmpty ==
  ASSUME NEW i, i = Torn \/ (i \in SUBSET ShardIds /\ IsFiniteSet(i) /\ Space(i) <= MaxStorage), vault' = Down, index' = i
  PROVE  ShelvesAreFull' /\ Down \in VaultKind
  <1>1. Down.shards = {} /\ Down.used = 0 /\ Down \in VaultKind
    BY DEF Down, VaultKind
  <1>2. IsFiniteSet({}) /\ Space({}) = 0 /\ 0 <= MaxStorage
    BY FS_EmptySet, SpaceIsTotal, VaultAssumption
  <1>3. Space(vault'.shards) = 0 /\ vault'.shards = {} /\ vault'.used = 0
    BY <1>1, <1>2
  <1>4. \/ index' = Torn
        \/ index' \in SUBSET ShardIds /\ vault'.shards \subseteq index' /\ IsFiniteSet(index') /\ Space(index') <= MaxStorage
    BY <1>3
  <1>5. IsFiniteSet(vault'.shards) /\ vault'.used <= MaxStorage /\ Space(vault'.shards) <= vault'.used
    BY <1>2, <1>3
  <1> QED BY <1>1, <1>4, <1>5 DEF ShelvesAreFull

LEMMA VaultStarts == VaultInit => VaultInv
  <1> SUFFICES ASSUME VaultInit PROVE VaultInv
    OBVIOUS
  <1>1. vault = Down /\ fetching = NoPolls /\ shardFile = [s \in ShardIds |-> "none"] /\ index = {} /\ vaultFaults = 0
    BY DEF VaultInit
  <1>2. Down.shards = {} /\ Down.used = 0 /\ Down \in VaultKind
    BY DEF Down, VaultKind
  <1>3. IsFiniteSet({}) /\ Space({}) = 0 /\ 0 <= MaxStorage
    BY FS_EmptySet, SpaceIsTotal, VaultAssumption
  <1>4. ShelvesAreFull
    BY <1>1, <1>2, <1>3 DEF ShelvesAreFull
  <1>5. 0 \in 0..MaxVaultFaults /\ NoPolls \in [Polls -> SUBSET ShardIds]
    BY VaultAssumption DEF NoPolls
  <1>6. VaultTypeOK
    BY <1>1, <1>2, <1>5 DEF VaultTypeOK, VaultKind
  <1> QED BY <1>4, <1>6 DEF VaultInv

(* What stays, stays.                                                           *)
LEMMA VaultFacts ==
  ASSUME VaultInv
  PROVE  /\ vault \in VaultKind /\ vault.shards \in SUBSET ShardIds /\ vault.used \in Nat /\ vault.verified \in SUBSET ShardIds
         /\ IsFiniteSet(vault.shards) /\ vault.used <= MaxStorage /\ Space(vault.shards) <= vault.used
         /\ Space(vault.shards) \in Nat /\ Space(vault.shards) <= MaxStorage /\ MaxStorage \in Nat
         /\ index = Torn \/ (index \in SUBSET ShardIds /\ IsFiniteSet(index) /\ Space(index) <= MaxStorage /\ vault.shards \subseteq index)
  <1>1. /\ vault \in VaultKind /\ vault.shards \in SUBSET ShardIds /\ vault.used \in Nat /\ vault.verified \in SUBSET ShardIds
    BY DEF VaultInv, VaultTypeOK, VaultKind
  <1>2. /\ IsFiniteSet(vault.shards) /\ vault.used <= MaxStorage /\ Space(vault.shards) <= vault.used
        /\ index = Torn \/ (index \in SUBSET ShardIds /\ IsFiniteSet(index) /\ Space(index) <= MaxStorage /\ vault.shards \subseteq index)
    BY DEF VaultInv, ShelvesAreFull
  <1>3. Space(vault.shards) \in Nat /\ MaxStorage \in Nat
    BY <1>1, <1>2, SpaceIsTotal, VaultAssumption
  <1>4. Space(vault.shards) <= MaxStorage
    BY <1>1, <1>2, <1>3
  <1> QED BY <1>1, <1>2, <1>3, <1>4

LEMMA ShelvesStay ==
  ASSUME VaultInv, vault'.shards = vault.shards, vault'.used = vault.used, index' = index
  PROVE  ShelvesAreFull'
  BY DEF VaultInv, ShelvesAreFull

LEMMA VaultLoads == ASSUME VaultInv, StartVault PROVE VaultInv'
  <1> DEFINE kept == {s \in ShardIds \cap (IF index = Torn THEN {} ELSE index) : shardFile[s] # "none"}
  <1>1. PICK flags \in SUBSET kept : vault' = [state |-> "on", shards |-> kept, used |-> Space(kept), verified |-> flags]
    BY DEF StartVault
  <1>2. UNCHANGED <<shardFile, index, fetching, vaultFaults>>
    BY DEF StartVault
  <1>3. kept \in SUBSET ShardIds /\ IsFiniteSet(kept) /\ Space(kept) \in Nat /\ Space(kept) <= MaxStorage /\ (index = Torn \/ kept \subseteq index)
    <2>1. CASE index = Torn
      <3>1. kept = {}
        BY <2>1
      <3>2. IsFiniteSet({}) /\ Space({}) = 0 /\ 0 <= MaxStorage
        BY FS_EmptySet, SpaceIsTotal, VaultAssumption
      <3> QED BY <2>1, <3>1, <3>2
    <2>2. CASE index # Torn
      <3>1. index \in SUBSET ShardIds /\ IsFiniteSet(index) /\ Space(index) <= MaxStorage /\ Space(index) \in Nat
        BY <2>2, VaultFacts, SpaceIsTotal
      <3>2. kept \in SUBSET index /\ kept \in SUBSET ShardIds
        BY <2>2, <3>1
      <3> HIDE DEF kept
      <3>3. IsFiniteSet(kept) /\ Space(kept) <= Space(index)
        BY <3>1, <3>2, FS_Subset, SpaceOfFewer
      <3>4. Space(kept) \in Nat
        BY <3>2, <3>3, SpaceIsTotal
      <3> QED BY <3>1, <3>2, <3>3, <3>4, VaultAssumption
    <2> QED BY <2>1, <2>2
  <1> HIDE DEF kept
  <1>4. vault'.shards = kept /\ vault'.used = Space(kept) /\ vault' \in VaultKind
    BY <1>1, <1>3 DEF VaultKind
  <1>5. ShelvesAreFull'
    <2>1. IsFiniteSet(vault'.shards) /\ vault'.used <= MaxStorage /\ Space(vault'.shards) <= vault'.used
      BY <1>3, <1>4
    <2>2. index' = Torn \/ (index' \in SUBSET ShardIds /\ vault'.shards \subseteq index' /\ IsFiniteSet(index') /\ Space(index') <= MaxStorage)
      BY <1>2, <1>3, <1>4, VaultFacts
    <2> QED BY <2>1, <2>2 DEF ShelvesAreFull
  <1>6. VaultTypeOK'
    BY <1>2, <1>4 DEF VaultInv, VaultTypeOK, VaultKind
  <1> QED BY <1>5, <1>6 DEF VaultInv

LEMMA ShardIsStored ==
  ASSUME VaultInv, NEW p \in Polls, NEW s \in ShardIds, StoreShard(p, s)
  PROVE  VaultInv'
  <1> DEFINE S == vault.shards \cup {s}
  <1>1. /\ fetching' = [fetching EXCEPT ![p] = @ \ {s}] /\ shardFile' = [shardFile EXCEPT ![s] = "good"]
        /\ vault' = [vault EXCEPT !.shards = @ \cup {s}, !.used = @ + SizeOf[s], !.verified = @ \cup {s}]
        /\ index' = vault'.shards /\ UNCHANGED vaultFaults
        /\ vault.used + SizeOf[s] <= MaxStorage
    BY DEF StoreShard, FetchedFrom, Fits
  <1>2. SizeOf[s] \in Nat /\ vault.used \in Nat /\ vault \in VaultKind
    BY VaultFacts, VaultAssumption
  <1>3. vault'.shards = S /\ vault'.used = vault.used + SizeOf[s] /\ vault' \in VaultKind
    <2> DEFINE u == vault.used + SizeOf[s]
               v == vault.verified \cup {s}
    <2>1. S \in SUBSET ShardIds /\ v \in SUBSET ShardIds /\ u \in Nat
      BY <1>2, VaultFacts
    <2>2. vault' = [vault EXCEPT !.shards = S, !.used = u, !.verified = v]
      BY <1>1
    <2> HIDE DEF S, u, v
    <2>3. vault'.shards = S /\ vault'.used = u /\ vault' \in VaultKind
      BY <1>2, <2>1, <2>2 DEF VaultKind
    <2> QED BY <2>3 DEF u
  <1>4. S \in SUBSET ShardIds /\ IsFiniteSet(S) /\ Space(S) \in Nat /\ Space(S) <= Space(vault.shards) + SizeOf[s]
    <2>1. S \in SUBSET ShardIds /\ IsFiniteSet(S)
      BY VaultFacts, FS_AddElement
    <2> QED BY <2>1, VaultFacts, SpaceGrows, SpaceIsTotal
  <1> HIDE DEF S
  <1>5. Space(S) <= vault.used + SizeOf[s] /\ Space(S) <= MaxStorage
    <2>1. Space(vault.shards) \in Nat /\ Space(vault.shards) <= vault.used /\ MaxStorage \in Nat
      BY VaultFacts
    <2> HIDE DEF Fits
    <2>2. \A a, b, c, d, m \in Nat : a <= b /\ d <= a + c /\ b + c <= m => d <= b + c /\ d <= m
      OBVIOUS
    <2> QED BY <1>1, <1>2, <1>4, <2>1, <2>2
  <1>6. ShelvesAreFull'
    BY <1>1, <1>3, <1>4, <1>5 DEF ShelvesAreFull
  <1>7. fetching' \in [Polls -> SUBSET ShardIds] /\ shardFile' \in [ShardIds -> {"none", "good", "damaged"}]
    BY <1>1 DEF VaultInv, VaultTypeOK
  <1>8. VaultTypeOK'
    BY <1>1, <1>3, <1>4, <1>7 DEF VaultInv, VaultTypeOK, VaultKind
  <1> QED BY <1>6, <1>8 DEF VaultInv

LEMMA VaultCrashes ==
  ASSUME VaultInv, vault' = Down, fetching' = NoPolls, shardFile' \in [ShardIds -> {"none", "good", "damaged"}],
         index' \in {index, Torn}, vaultFaults' \in 0..MaxVaultFaults
  PROVE  VaultInv'
  <1>1. index' = Torn \/ (index' \in SUBSET ShardIds /\ IsFiniteSet(index') /\ Space(index') <= MaxStorage)
    BY VaultFacts
  <1>2. PICK i : i = index'
    OBVIOUS
  <1>3. ShelvesAreFull' /\ Down \in VaultKind
    BY <1>1, <1>2, DownIsEmpty
  <1>4. NoPolls \in [Polls -> SUBSET ShardIds]
    BY DEF NoPolls
  <1>5. VaultTypeOK'
    BY <1>1, <1>3, <1>4 DEF VaultTypeOK, VaultKind
  <1> QED BY <1>3, <1>5 DEF VaultInv

LEMMA VaultKept == VaultInv /\ [VaultNext]_vaultVars => VaultInv'
  <1> SUFFICES ASSUME VaultInv, [VaultNext]_vaultVars PROVE VaultInv'
    OBVIOUS
  <1>0. /\ vault \in VaultKind /\ shardFile \in [ShardIds -> {"none", "good", "damaged"}] /\ index \in (SUBSET ShardIds) \cup {Torn}
        /\ fetching \in [Polls -> SUBSET ShardIds] /\ vaultFaults \in 0..MaxVaultFaults /\ MaxVaultFaults \in Nat
    BY VaultAssumption DEF VaultInv, VaultTypeOK, VaultKind
  <1>1. CASE StartVault
    BY <1>1, VaultLoads
  <1>2. CASE ProveStorage
    <2>1. PICK v \in SUBSET ShardIds : vault' = [vault EXCEPT !.verified = v]
      BY <1>0, <1>2 DEF ProveStorage, VaultKind
    <2>2. vault' \in VaultKind /\ vault'.shards = vault.shards /\ vault'.used = vault.used
      BY <1>0, <2>1 DEF VaultKind
    <2>3. UNCHANGED <<shardFile, index, fetching, vaultFaults>>
      BY <1>2 DEF ProveStorage
    <2>4. ShelvesAreFull'
      BY <2>2, <2>3, ShelvesStay
    <2> QED BY <1>0, <2>2, <2>3, <2>4 DEF VaultInv, VaultTypeOK, VaultKind
  <1>3. CASE StopVault
    <2>1. /\ vault' = [vault EXCEPT !.state = "stopping"] /\ index' = vault.shards /\ UNCHANGED <<shardFile, fetching, vaultFaults>>
      BY <1>3 DEF StopVault
    <2>2. vault' \in VaultKind /\ vault'.shards = vault.shards /\ vault'.used = vault.used
      BY <1>0, <2>1 DEF VaultKind
    <2>3. ShelvesAreFull'
      BY <2>1, <2>2, VaultFacts DEF ShelvesAreFull
    <2>4. index' \in (SUBSET ShardIds) \cup {Torn}
      BY <2>1, VaultFacts
    <2> QED BY <1>0, <2>1, <2>2, <2>3, <2>4 DEF VaultInv, VaultTypeOK, VaultKind
  <1>4. CASE ExitVault
    BY <1>0, <1>4, VaultCrashes DEF ExitVault
  <1>5. CASE VaultFault
    <2>1. vaultFaults' \in 0..MaxVaultFaults /\ index' = index
      BY <1>0, <1>5 DEF VaultFault
    <2>2. CASE vault' = Down /\ fetching' = NoPolls /\ UNCHANGED shardFile
      BY <1>0, <2>1, <2>2, VaultCrashes
    <2>3. CASE \E s \in ShardIds : /\ shardFile' \in {[shardFile EXCEPT ![s] = to] : to \in {"none", "damaged"}}
                                   /\ UNCHANGED <<vault, fetching>>
      <3>1. shardFile' \in [ShardIds -> {"none", "good", "damaged"}]
        BY <1>0, <2>3
      <3>2. ShelvesAreFull'
        BY <2>1, <2>3, ShelvesStay
      <3> QED BY <1>0, <2>1, <2>3, <3>1, <3>2 DEF VaultInv, VaultTypeOK, VaultKind
    <2> QED BY <1>5, <2>2, <2>3 DEF VaultFault
  <1>6. ASSUME NEW p \in Polls, PollRequests(p) PROVE VaultInv'
    <2>1. fetching' \in [Polls -> SUBSET ShardIds] /\ UNCHANGED <<vault, shardFile, index, vaultFaults>>
      BY <1>0, <1>6 DEF PollRequests
    <2>2. ShelvesAreFull'
      BY <2>1, ShelvesStay
    <2> QED BY <1>0, <2>1, <2>2 DEF VaultInv, VaultTypeOK, VaultKind
  <1>7. ASSUME NEW p \in Polls, NEW s \in ShardIds, SkipShard(p, s) PROVE VaultInv'
    <2>1. fetching' \in [Polls -> SUBSET ShardIds] /\ UNCHANGED <<vault, shardFile, index, vaultFaults>>
      BY <1>0, <1>7 DEF SkipShard, FetchedFrom
    <2>2. ShelvesAreFull'
      BY <2>1, ShelvesStay
    <2> QED BY <1>0, <2>1, <2>2 DEF VaultInv, VaultTypeOK, VaultKind
  <1>8. ASSUME NEW p \in Polls, NEW s \in ShardIds, CrashStoring(p, s) PROVE VaultInv'
    <2>1. vaultFaults' \in 0..MaxVaultFaults /\ vault' = Down /\ fetching' = NoPolls /\ index' \in {index, Torn}
      BY <1>0, <1>8 DEF CrashStoring
    <2>2. shardFile' \in [ShardIds -> {"none", "good", "damaged"}]
      BY <1>0, <1>8 DEF CrashStoring
    <2> QED BY <2>1, <2>2, VaultCrashes
  <1>9. CASE UNCHANGED vaultVars
    <2>1. UNCHANGED <<vault, shardFile, index, fetching, vaultFaults>>
      BY <1>9 DEF vaultVars
    <2>2. ShelvesAreFull'
      BY <2>1, ShelvesStay
    <2> QED BY <1>0, <2>1, <2>2 DEF VaultInv, VaultTypeOK, VaultKind
  <1> QED BY <1>1, <1>2, <1>3, <1>4, <1>5, <1>6, <1>7, <1>8, <1>9, ShardIsStored DEF VaultNext

-----------------------------------------------------------------------------
(* The pins (storage/ipfs.ts) and the ledger of what was charged (fees/ledger): *)
(* a request is under way only while the process runs; before the first fault   *)
(* the file is what was asked for; the ledger was last written at a multiple of *)
(* SaveEvery, and one that is down has nothing that was not written.            *)
AnsweredAsks == {c \in PinCalls : pinCall[c].stage = "over"}
KeptLast == {c \in Cids : lastDone[c] = "kept"}
PinsAreTracked ==
    /\ \A c \in PinCalls : pinCall[c].stage \in {"asked", "done", "failed"} => client.enabled
    /\ ~client.enabled => client.pins = {} /\ ledgerEvents = ledgerFile
    /\ pinFaults = 0 => pinsFile = KeptLast /\ (client.enabled => client.pins = KeptLast)
    /\ \A c \in client.pins : lastDone[c] = "kept" \/ (c \in pinsFile /\ pinFaults > 0)
LedgerIsCounted ==
    /\ ledgerEvents = acknowledged /\ ledgerEvents <= Cardinality(AnsweredAsks)
    /\ ledgerFile % SaveEvery = 0 /\ ledgerFile <= ledgerEvents /\ ledgerEvents - ledgerFile < SaveEvery
PinInv == PinTypeOK /\ PinsAreTracked /\ LedgerIsCounted

PinCallKind == [kind : PinKinds, cid : Cids, stage : {"new", "asked", "done", "failed", "over"}]
PinClient == [enabled : BOOLEAN, pins : SUBSET Cids]

LEMMA Multiples == ASSUME NEW n \in Nat, NEW d \in Nat \ {0}, n % d = 0 PROVE (n + d) % d = 0
  <1> DEFINE q == n \div d
  <1>1. q \in Nat /\ n = (d * q) + (n % d)
    OBVIOUS
  <1>2. \A k \in Nat : (d * k) % d = 0
    OBVIOUS
  <1> HIDE DEF q
  <1>3. d * (q + 1) = (d * q) + d /\ d * q \in Nat
    BY <1>1
  <1>4. n = d * q
    BY <1>1, <1>3
  <1>5. n + d = d * (q + 1)
    BY <1>3, <1>4
  <1> QED BY <1>1, <1>2, <1>5, SMTT(30)

LEMMA PinKnown ==
  ASSUME PinTypeOK
  PROVE  /\ pinCall \in [PinCalls -> PinCallKind] /\ client \in PinClient /\ lastDone \in [Cids -> {"none", "kept", "removed"}]
         /\ MostPins \in Nat /\ SaveEvery \in Nat \ {0} /\ MaxPinFaults \in Nat /\ pinFaults \in 0..MaxPinFaults
         /\ ledgerEvents \in 0..MostPins /\ ledgerFile \in 0..MostPins /\ acknowledged \in 0..MostPins
         /\ daemonPins \subseteq Cids /\ pinsFile \subseteq Cids /\ stats \subseteq Cids /\ client.pins \subseteq Cids
  BY PinAssumption, FS_CardinalityType DEF PinTypeOK, PinCallKind, PinClient, MostPins

LEMMA AnsweredSets == ASSUME NEW S \in SUBSET PinCalls
                      PROVE  IsFiniteSet(S) /\ Cardinality(S) \in Nat /\ Cardinality(S) <= MostPins
  BY PinAssumption, FS_Subset, FS_CardinalityType DEF MostPins

LEMMA PinsMean == PinInv => PinTypeOK /\ PinsAsAsked
  BY DEF PinInv, PinsAreTracked, LedgerIsCounted, PinsAsAsked, KeptLast

LEMMA PinsBegin == PinInit => PinInv
  <1> SUFFICES ASSUME PinInit PROVE PinInv
    OBVIOUS
  <1>0. MostPins \in Nat /\ SaveEvery \in Nat \ {0} /\ MaxPinFaults \in Nat /\ Cids # {}
    BY PinAssumption, FS_CardinalityType DEF MostPins
  <1>1. NewCall \in PinCallKind /\ NewCall.stage = "new"
    <2>1. (CHOOSE c \in Cids : TRUE) \in Cids
      BY <1>0
    <2> QED BY <2>1 DEF NewCall, PinCallKind, PinKinds
  <1>2. PinTypeOK
    BY <1>0, <1>1 DEF PinInit, PinTypeOK, PinCallKind
  <1>3. PinsAreTracked
    <2>1. KeptLast = {} /\ client.enabled = FALSE /\ client.pins = {}
      BY DEF PinInit, KeptLast
    <2> QED BY <1>1, <2>1 DEF PinInit, PinsAreTracked
  <1>4. LedgerIsCounted
    <2>1. AnsweredAsks \in SUBSET PinCalls
      BY DEF AnsweredAsks
    <2>2. 0 % SaveEvery = 0
      BY <1>0
    <2> QED BY <1>0, <2>1, <2>2, AnsweredSets DEF PinInit, LedgerIsCounted
  <1> QED BY <1>2, <1>3, <1>4 DEF PinInv

(* The list is written, or was not for a fault.                                 *)
LEMMA PinsAreSaved ==
  ASSUME PinInv, NEW pins \in SUBSET Cids, SavePins(pins)
  PROVE  /\ pinsFile' \in SUBSET Cids /\ pinFaults' \in 0..MaxPinFaults /\ pinFaults <= pinFaults'
         /\ pinFaults' = 0 => pinFaults = 0 /\ pinsFile' = pins
         /\ pinsFile' = pins \/ pinsFile' = pinsFile
         /\ pinFaults > 0 => pinFaults' > 0
  <1>1. PinTypeOK
    BY DEF PinInv
  <1> QED BY <1>1, PinKnown DEF SavePins, PinFault, NoPinFault

(* One request moves on, towards its end.                                       *)
LEMMA OnePinMoves ==
  ASSUME PinInv, NEW c \in PinCalls, NEW to \in PinCallKind, pinCall' = [pinCall EXCEPT ![c] = to],
         pinCall[c].stage # "over"
  PROVE  /\ pinCall' \in [PinCalls -> PinCallKind]
         /\ (to.stage \in {"asked", "done", "failed"} => client'.enabled) /\ client'.enabled = client.enabled
               => \A d \in PinCalls : pinCall'[d].stage \in {"asked", "done", "failed"} => client'.enabled
         /\ Cardinality(AnsweredAsks) \in Nat /\ Cardinality(AnsweredAsks') \in Nat /\ Cardinality(AnsweredAsks') <= MostPins
         /\ Cardinality(AnsweredAsks') >= Cardinality(AnsweredAsks)
         /\ to.stage = "over" => Cardinality(AnsweredAsks') = Cardinality(AnsweredAsks) + 1
  <1>1. pinCall \in [PinCalls -> PinCallKind]
    BY PinKnown DEF PinInv
  <1>2. pinCall' \in [PinCalls -> PinCallKind] /\ pinCall'[c] = to /\ \A d \in PinCalls \ {c} : pinCall'[d] = pinCall[d]
    BY <1>1
  <1>3. (to.stage \in {"asked", "done", "failed"} => client'.enabled) /\ client'.enabled = client.enabled
           => \A d \in PinCalls : pinCall'[d].stage \in {"asked", "done", "failed"} => client'.enabled
    BY <1>2 DEF PinInv, PinsAreTracked
  <1>4. AnsweredAsks \in SUBSET PinCalls /\ AnsweredAsks' \in SUBSET PinCalls /\ c \notin AnsweredAsks
        /\ AnsweredAsks' = IF to.stage = "over" THEN AnsweredAsks \cup {c} ELSE AnsweredAsks
    BY <1>2 DEF AnsweredAsks
  <1>5. Cardinality(AnsweredAsks \cup {c}) = Cardinality(AnsweredAsks) + 1 /\ Cardinality(AnsweredAsks) \in Nat /\ Cardinality(AnsweredAsks') \in Nat /\ Cardinality(AnsweredAsks') <= MostPins
    BY <1>4, AnsweredSets, FS_AddElement
  <1> QED BY <1>2, <1>3, <1>4, <1>5

LEMMA PinKept ==
  ASSUME PinInv, NEW c \in PinCalls, Kept(c) PROVE PinInv'
  <1> DEFINE cid == pinCall[c].cid
  <1>0. /\ PinTypeOK /\ pinCall[c].stage = "done" /\ client.enabled /\ UNCHANGED daemonPins
        /\ client' = [client EXCEPT !.pins = @ \cup {cid}] /\ SavePins(client'.pins) /\ Charged /\ PinOver(c)
        /\ lastDone' = [lastDone EXCEPT ![cid] = "kept"]
    BY DEF PinInv, PinsAreTracked, Kept
  <1>1. cid \in Cids /\ pinCall[c] \in PinCallKind
    BY <1>0, PinKnown DEF PinCallKind
  <1>2. client' \in PinClient /\ client'.pins = client.pins \cup {cid} /\ client'.enabled = client.enabled /\ client'.pins \in SUBSET Cids
    BY <1>0, <1>1, PinKnown DEF PinClient
  <1>3. lastDone' \in [Cids -> {"none", "kept", "removed"}] /\ lastDone'[cid] = "kept" /\ \A d \in Cids \ {cid} : lastDone'[d] = lastDone[d]
    BY <1>0, <1>1, PinKnown
  <1>4. stats' \in SUBSET Cids
    BY <1>0, <1>1, PinKnown DEF Kept
  <1>4a. \A x \in PinCallKind : [x EXCEPT !.stage = "over"] \in PinCallKind /\ [x EXCEPT !.stage = "over"].stage = "over"
    BY DEF PinCallKind
  <1>5. PICK to \in PinCallKind : to = [pinCall[c] EXCEPT !.stage = "over"] /\ to.stage = "over"
    BY <1>1, <1>4a
  <1>6. /\ pinCall' \in [PinCalls -> PinCallKind]
        /\ \A d \in PinCalls : pinCall'[d].stage \in {"asked", "done", "failed"} => client'.enabled
        /\ Cardinality(AnsweredAsks) \in Nat /\ Cardinality(AnsweredAsks') = Cardinality(AnsweredAsks) + 1 /\ Cardinality(AnsweredAsks') <= MostPins
    <2>1. pinCall' = [pinCall EXCEPT ![c] = to] /\ to.stage \notin {"asked", "done", "failed"}
      BY <1>0, <1>5 DEF PinOver
    <2> QED BY <1>0, <1>2, <1>5, <2>1, OnePinMoves
  <1> HIDE DEF cid
  <1>7. /\ pinsFile' \in SUBSET Cids /\ pinFaults' \in 0..MaxPinFaults /\ pinFaults <= pinFaults'
        /\ pinFaults' = 0 => pinFaults = 0 /\ pinsFile' = client'.pins
        /\ pinsFile' = client'.pins \/ pinsFile' = pinsFile
        /\ pinFaults > 0 => pinFaults' > 0
    <2>1. PICK pins \in SUBSET Cids : pins = client'.pins
      BY <1>2
    <2> QED BY <1>0, <2>1, PinsAreSaved
  <1>8. PinsAreTracked'
    <2>1. KeptLast' = KeptLast \cup {cid}
      BY <1>1, <1>3 DEF KeptLast
    <2>2. pinFaults' = 0 => pinsFile' = KeptLast' /\ client'.pins = KeptLast'
      BY <1>0, <1>2, <1>7, <2>1 DEF PinInv, PinsAreTracked
    <2>3. \A d \in client'.pins : lastDone'[d] = "kept" \/ (d \in pinsFile' /\ pinFaults' > 0)
      <3> SUFFICES ASSUME NEW d \in client'.pins, d # cid PROVE lastDone'[d] = "kept" \/ (d \in pinsFile' /\ pinFaults' > 0)
        BY <1>3
      <3>1. d \in client.pins /\ d \in Cids
        BY <1>2
      <3>2. lastDone[d] = "kept" \/ (d \in pinsFile /\ pinFaults > 0)
        BY <3>1 DEF PinInv, PinsAreTracked
      <3> QED BY <1>3, <1>7, <3>1, <3>2
    <2> QED BY <1>0, <1>2, <1>6, <2>2, <2>3 DEF PinsAreTracked
  <1>9. ledgerEvents' \in 0..MostPins /\ ledgerFile' \in 0..MostPins /\ acknowledged' \in 0..MostPins /\ LedgerIsCounted'
    <2>1. /\ ledgerEvents \in Nat /\ ledgerFile \in Nat /\ acknowledged \in Nat /\ SaveEvery \in Nat \ {0} /\ MostPins \in Nat
          /\ ledgerFile \in 0..MostPins
      BY <1>0, PinKnown
    <2>2. /\ ledgerEvents = acknowledged /\ ledgerEvents <= Cardinality(AnsweredAsks)
          /\ ledgerFile % SaveEvery = 0 /\ ledgerFile <= ledgerEvents /\ ledgerEvents - ledgerFile < SaveEvery
      BY DEF PinInv, LedgerIsCounted
    <2>3. ledgerEvents' = ledgerEvents + 1 /\ acknowledged' = acknowledged + 1 /\ ledgerEvents' <= Cardinality(AnsweredAsks')
      BY <1>0, <1>6, <2>1, <2>2 DEF Charged
    <2>4. ledgerEvents' \in 0..MostPins /\ acknowledged' \in 0..MostPins /\ ledgerEvents' = acknowledged'
      BY <1>6, <2>1, <2>2, <2>3
    <2>5. CASE (ledgerEvents + 1) % SaveEvery = 0
      <3>1. ledgerFile' = ledgerEvents'
        BY <1>0, <2>3, <2>5 DEF Charged
      <3> QED BY <2>1, <2>3, <2>4, <2>5, <3>1 DEF LedgerIsCounted
    <2>6. CASE (ledgerEvents + 1) % SaveEvery # 0
      <3>1. ledgerFile' = ledgerFile
        BY <1>0, <2>6 DEF Charged
      <3>2. ledgerEvents + 1 # ledgerFile + SaveEvery
        BY <2>1, <2>2, <2>6, Multiples
      <3>3. ledgerEvents' - ledgerFile < SaveEvery /\ ledgerFile <= ledgerEvents'
        BY <2>1, <2>2, <2>3, <3>2
      <3> QED BY <2>1, <2>2, <2>3, <2>4, <3>1, <3>3 DEF LedgerIsCounted
    <2> QED BY <2>5, <2>6
  <1>10. PinTypeOK'
    BY <1>0, <1>2, <1>3, <1>4, <1>6, <1>7, <1>9 DEF PinTypeOK, PinCallKind, PinClient
  <1> QED BY <1>8, <1>9, <1>10 DEF PinInv

LEMMA PinRemoved ==
  ASSUME PinInv, NEW c \in PinCalls, Removed(c) PROVE PinInv'
  <1> DEFINE cid == pinCall[c].cid
  <1>0. /\ PinTypeOK /\ pinCall[c].stage \in {"done", "failed"} /\ client.enabled /\ UNCHANGED <<daemonPins, stats, ledgerEvents, ledgerFile, acknowledged>>
        /\ client' = [client EXCEPT !.pins = @ \ {cid}] /\ SavePins(client'.pins) /\ PinOver(c)
        /\ lastDone' = [lastDone EXCEPT ![cid] = "removed"]
    BY DEF PinInv, PinsAreTracked, Removed
  <1>1. cid \in Cids /\ pinCall[c] \in PinCallKind
    BY <1>0, PinKnown DEF PinCallKind
  <1>2. client' \in PinClient /\ client'.pins = client.pins \ {cid} /\ client'.enabled = client.enabled /\ client'.pins \in SUBSET Cids
    BY <1>0, <1>1, PinKnown DEF PinClient
  <1>3. lastDone' \in [Cids -> {"none", "kept", "removed"}] /\ lastDone'[cid] = "removed" /\ \A d \in Cids \ {cid} : lastDone'[d] = lastDone[d]
    BY <1>0, <1>1, PinKnown
  <1>4a. \A x \in PinCallKind : [x EXCEPT !.stage = "over"] \in PinCallKind /\ [x EXCEPT !.stage = "over"].stage = "over"
    BY DEF PinCallKind
  <1>5. PICK to \in PinCallKind : to = [pinCall[c] EXCEPT !.stage = "over"] /\ to.stage = "over"
    BY <1>1, <1>4a
  <1>6. /\ pinCall' \in [PinCalls -> PinCallKind]
        /\ \A d \in PinCalls : pinCall'[d].stage \in {"asked", "done", "failed"} => client'.enabled
        /\ Cardinality(AnsweredAsks) \in Nat /\ Cardinality(AnsweredAsks') = Cardinality(AnsweredAsks) + 1 /\ Cardinality(AnsweredAsks') <= MostPins
    <2>1. pinCall' = [pinCall EXCEPT ![c] = to] /\ to.stage \notin {"asked", "done", "failed"} /\ pinCall[c].stage # "over"
      BY <1>0, <1>5 DEF PinOver
    <2> QED BY <1>0, <1>2, <1>5, <2>1, OnePinMoves
  <1> HIDE DEF cid
  <1>7. /\ pinsFile' \in SUBSET Cids /\ pinFaults' \in 0..MaxPinFaults /\ pinFaults <= pinFaults'
        /\ pinFaults' = 0 => pinFaults = 0 /\ pinsFile' = client'.pins
        /\ pinsFile' = client'.pins \/ pinsFile' = pinsFile
        /\ pinFaults > 0 => pinFaults' > 0
    <2>1. PICK pins \in SUBSET Cids : pins = client'.pins
      BY <1>2
    <2> QED BY <1>0, <2>1, PinsAreSaved
  <1>8. PinsAreTracked'
    <2>1. KeptLast' = KeptLast \ {cid}
      BY <1>1, <1>3 DEF KeptLast
    <2>2. pinFaults' = 0 => pinsFile' = KeptLast' /\ client'.pins = KeptLast'
      BY <1>0, <1>2, <1>7, <2>1 DEF PinInv, PinsAreTracked
    <2>3. \A d \in client'.pins : lastDone'[d] = "kept" \/ (d \in pinsFile' /\ pinFaults' > 0)
      <3> SUFFICES ASSUME NEW d \in client'.pins PROVE lastDone'[d] = "kept" \/ (d \in pinsFile' /\ pinFaults' > 0)
        OBVIOUS
      <3>1. d \in client.pins /\ d \in Cids /\ d # cid
        BY <1>2
      <3>2. lastDone[d] = "kept" \/ (d \in pinsFile /\ pinFaults > 0)
        BY <3>1 DEF PinInv, PinsAreTracked
      <3> QED BY <1>3, <1>7, <3>1, <3>2
    <2> QED BY <1>0, <1>2, <1>6, <2>2, <2>3 DEF PinsAreTracked
  <1>9. LedgerIsCounted'
    <2>1. ledgerEvents \in Nat /\ ledgerEvents <= Cardinality(AnsweredAsks)
      BY <1>0, PinKnown DEF PinInv, LedgerIsCounted
    <2>2. ledgerEvents <= Cardinality(AnsweredAsks')
      BY <1>6, <2>1
    <2> QED BY <1>0, <2>2 DEF PinInv, LedgerIsCounted
  <1>10. PinTypeOK'
    BY <1>0, <1>2, <1>3, <1>6, <1>7 DEF PinTypeOK, PinCallKind, PinClient
  <1> QED BY <1>8, <1>9, <1>10 DEF PinInv

(* Asking, the daemon's answer and one that is not heard move a request alone.  *)
LEMMA RequestsMove ==
  ASSUME PinInv, NEW c \in PinCalls, NEW to \in PinCallKind, pinCall' = [pinCall EXCEPT ![c] = to],
         pinCall[c].stage # "over", to.stage \in {"asked", "done", "failed"} => client.enabled,
         UNCHANGED <<client, pinsFile, stats, lastDone, ledgerEvents, ledgerFile, acknowledged>>,
         daemonPins' \in SUBSET Cids, NoPinFault \/ PinFault
  PROVE  PinInv'
  <1>0. PinTypeOK /\ client'.enabled = client.enabled
    BY DEF PinInv
  <1>1. /\ pinCall' \in [PinCalls -> PinCallKind]
        /\ \A d \in PinCalls : pinCall'[d].stage \in {"asked", "done", "failed"} => client'.enabled
        /\ Cardinality(AnsweredAsks) \in Nat /\ Cardinality(AnsweredAsks') \in Nat /\ Cardinality(AnsweredAsks') >= Cardinality(AnsweredAsks)
    BY <1>0, OnePinMoves
  <1>2. pinFaults' \in 0..MaxPinFaults /\ (pinFaults' = 0 => pinFaults = 0) /\ (pinFaults > 0 => pinFaults' > 0)
    BY <1>0, PinKnown DEF NoPinFault, PinFault
  <1>3. PinTypeOK'
    BY <1>0, <1>1, <1>2 DEF PinTypeOK, PinCallKind
  <1>4. PinsAreTracked'
    BY <1>1, <1>2 DEF PinInv, PinsAreTracked, KeptLast
  <1>5. LedgerIsCounted'
    <2>1. ledgerEvents \in Nat /\ ledgerEvents <= Cardinality(AnsweredAsks)
      BY <1>0, PinKnown DEF PinInv, LedgerIsCounted
    <2>2. ledgerEvents <= Cardinality(AnsweredAsks')
      BY <1>1, <2>1
    <2> QED BY <2>2 DEF PinInv, LedgerIsCounted
  <1> QED BY <1>3, <1>4, <1>5 DEF PinInv

LEMMA IpfsStarts == ASSUME PinInv, StartIpfs PROVE PinInv'
  <1>0. /\ PinTypeOK /\ client' = [enabled |-> TRUE, pins |-> pinsFile] /\ ledgerEvents' = ledgerFile /\ ledgerEvents = ledgerFile
        /\ UNCHANGED <<daemonPins, pinsFile, pinCall, stats, lastDone, ledgerFile, acknowledged, pinFaults>>
    BY DEF PinInv, PinsAreTracked, StartIpfs, LedgerLoaded
  <1>1. client' \in PinClient /\ client'.enabled = TRUE /\ client'.pins = pinsFile
    BY <1>0, PinKnown DEF PinClient
  <1>2. PinTypeOK'
    BY <1>0, <1>1 DEF PinTypeOK, PinClient
  <1>3. PinsAreTracked'
    <2>1. pinFaults \in Nat /\ (pinFaults = 0 => pinsFile = KeptLast) /\ KeptLast' = KeptLast
      BY <1>0, PinKnown DEF PinInv, PinsAreTracked, KeptLast
    <2>2. \A c \in pinsFile : lastDone[c] = "kept" \/ pinFaults > 0
      BY <2>1 DEF KeptLast
    <2> QED BY <1>0, <1>1, <2>1, <2>2 DEF PinsAreTracked
  <1>4. LedgerIsCounted'
    BY <1>0 DEF PinInv, LedgerIsCounted, AnsweredAsks
  <1> QED BY <1>2, <1>3, <1>4 DEF PinInv

LEMMA IpfsStops == ASSUME PinInv, StopIpfs PROVE PinInv'
  <1>0. /\ PinTypeOK /\ client' = [enabled |-> FALSE, pins |-> {}] /\ ledgerEvents' = ledgerFile /\ acknowledged' = ledgerFile /\ stats' = {}
        /\ UNCHANGED <<daemonPins, pinsFile, lastDone, ledgerFile>> /\ PinFault
        /\ pinCall' = [c \in PinCalls |-> IF pinCall[c].stage = "new" THEN pinCall[c] ELSE [pinCall[c] EXCEPT !.stage = "over"]]
    BY DEF PinInv, StopIpfs, LedgerLoaded
  <1>1. client' \in PinClient /\ client'.enabled = FALSE /\ client'.pins = {}
    BY <1>0 DEF PinClient
  <1>2. /\ pinCall' \in [PinCalls -> PinCallKind]
        /\ \A c \in PinCalls : pinCall'[c].stage = "new" \/ pinCall'[c].stage = "over"
        /\ \A c \in PinCalls : pinCall[c].stage # "new" => pinCall'[c].stage = "over"
    <2>1. \A x \in PinCallKind : [x EXCEPT !.stage = "over"] \in PinCallKind /\ [x EXCEPT !.stage = "over"].stage = "over"
      BY DEF PinCallKind
    <2>2. pinCall \in [PinCalls -> PinCallKind]
      BY <1>0, PinKnown
    <2> QED BY <1>0, <2>1, <2>2
  <1>3. pinFaults' \in 0..MaxPinFaults /\ pinFaults' > 0
    BY <1>0, PinKnown DEF PinFault
  <1>4. PinTypeOK'
    BY <1>0, <1>1, <1>2, <1>3, PinKnown DEF PinTypeOK, PinClient, PinCallKind
  <1>5. PinsAreTracked'
    <2>1. \A c \in PinCalls : pinCall'[c].stage \notin {"asked", "done", "failed"}
      BY <1>2
    <2> QED BY <1>0, <1>1, <1>3, <2>1 DEF PinsAreTracked
  <1>6. LedgerIsCounted'
    <2>1. AnsweredAsks \in SUBSET PinCalls /\ AnsweredAsks' \in SUBSET PinCalls /\ AnsweredAsks \subseteq AnsweredAsks'
      BY <1>2 DEF AnsweredAsks
    <2>2. Cardinality(AnsweredAsks) <= Cardinality(AnsweredAsks') /\ Cardinality(AnsweredAsks) \in Nat /\ Cardinality(AnsweredAsks') \in Nat
      BY <2>1, AnsweredSets, FS_Subset
    <2>3. /\ ledgerFile \in Nat /\ ledgerEvents \in Nat /\ SaveEvery \in Nat \ {0} /\ ledgerFile % SaveEvery = 0
          /\ ledgerFile <= ledgerEvents /\ ledgerEvents <= Cardinality(AnsweredAsks)
      BY <1>0, PinKnown DEF PinInv, LedgerIsCounted
    <2>4. ledgerFile <= Cardinality(AnsweredAsks') /\ ledgerFile - ledgerFile < SaveEvery /\ ledgerFile <= ledgerFile
      BY <2>2, <2>3
    <2> QED BY <1>0, <2>3, <2>4 DEF LedgerIsCounted
  <1> QED BY <1>4, <1>5, <1>6 DEF PinInv

LEMMA PinIsSized == ASSUME PinInv, NEW cid \in Cids, Sized(cid) PROVE PinInv'
  <1>0. /\ PinTypeOK /\ stats' = stats \ {cid} /\ UNCHANGED <<daemonPins, client, pinCall, lastDone, ledgerEvents, ledgerFile, acknowledged>>
    BY DEF PinInv, Sized
  <1>1. /\ pinsFile' \in SUBSET Cids /\ pinFaults' \in 0..MaxPinFaults
        /\ pinFaults' = 0 => pinFaults = 0 /\ (pinsFile' = client.pins \/ pinsFile' = pinsFile)
        /\ cid \in client.pins => (pinFaults' = 0 => pinsFile' = client.pins)
        /\ pinsFile' = client.pins \/ pinsFile' = pinsFile
        /\ pinFaults > 0 => pinFaults' > 0
    <2>1. CASE cid \in client.pins /\ SavePins(client.pins)
      <3>1. PICK pins \in SUBSET Cids : pins = client.pins
        BY <1>0, PinKnown
      <3> QED BY <2>1, <3>1, PinsAreSaved
    <2>2. CASE cid \notin client.pins /\ UNCHANGED pinsFile /\ NoPinFault
      BY <1>0, <2>2, PinKnown DEF NoPinFault
    <2> QED BY <2>1, <2>2 DEF Sized
  <1>2. PinTypeOK'
    BY <1>0, <1>1 DEF PinTypeOK
  <1>3. PinsAreTracked'
    <2>1. KeptLast' = KeptLast
      BY <1>0 DEF KeptLast
    <2>2. pinFaults' = 0 => pinsFile' = KeptLast /\ (client.enabled => client.pins = KeptLast)
      <3> SUFFICES ASSUME pinFaults' = 0 PROVE pinsFile' = KeptLast /\ (client.enabled => client.pins = KeptLast)
        OBVIOUS
      <3>1. pinsFile = KeptLast /\ (client.enabled => client.pins = KeptLast) /\ (~client.enabled => client.pins = {})
        BY <1>1 DEF PinInv, PinsAreTracked
      <3>2. CASE client.enabled
        BY <1>1, <3>1, <3>2
      <3>3. CASE ~client.enabled
        <4>1. UNCHANGED pinsFile
          BY <3>1, <3>3 DEF Sized
        <4> QED BY <3>1, <3>3, <4>1
      <3> QED BY <3>2, <3>3
    <2>3. \A d \in client.pins : lastDone[d] = "kept" \/ (d \in pinsFile' /\ pinFaults' > 0)
      <3> SUFFICES ASSUME NEW d \in client.pins PROVE lastDone[d] = "kept" \/ (d \in pinsFile' /\ pinFaults' > 0)
        OBVIOUS
      <3>1. lastDone[d] = "kept" \/ (d \in pinsFile /\ pinFaults > 0)
        BY DEF PinInv, PinsAreTracked
      <3> QED BY <1>1, <3>1
    <2> QED BY <1>0, <2>1, <2>2, <2>3 DEF PinInv, PinsAreTracked
  <1>4. LedgerIsCounted'
    BY <1>0 DEF PinInv, LedgerIsCounted, AnsweredAsks
  <1> QED BY <1>2, <1>3, <1>4 DEF PinInv

LEMMA PinsKept == PinInv /\ [PinNext]_pinVars => PinInv'
  <1> SUFFICES ASSUME PinInv, [PinNext]_pinVars PROVE PinInv'
    OBVIOUS
  <1>0. /\ PinTypeOK /\ pinCall \in [PinCalls -> PinCallKind]
    BY PinKnown DEF PinInv
  <1>s. \A x \in PinCallKind, s \in {"done", "failed", "over"} : [x EXCEPT !.stage = s] \in PinCallKind /\ [x EXCEPT !.stage = s].stage = s
    BY DEF PinCallKind
  <1>1. CASE UNCHANGED pinVars
    BY <1>1 DEF pinVars, PinInv, PinTypeOK, PinsAreTracked, LedgerIsCounted, KeptLast, AnsweredAsks
  <1>2. ASSUME NEW c \in PinCalls, DaemonDoes(c) PROVE PinInv'
    <2>1. /\ pinCall[c].stage = "asked" /\ client.enabled /\ pinCall[c].cid \in Cids
          /\ UNCHANGED <<client, pinsFile, stats, lastDone, ledgerEvents, ledgerFile, acknowledged>>
      BY <1>0, <1>2 DEF DaemonDoes, PinInv, PinsAreTracked, PinCallKind
    <2>2. daemonPins' \in SUBSET Cids /\ (NoPinFault \/ PinFault)
      BY <1>0, <1>2, <2>1, PinKnown DEF DaemonDoes
    <2>3. PICK to \in PinCallKind : pinCall' = [pinCall EXCEPT ![c] = to]
      BY <1>0, <1>2, <1>s DEF DaemonDoes
    <2> QED BY <2>1, <2>2, <2>3, RequestsMove
  <1>3. ASSUME NEW c \in PinCalls, Unheard(c) PROVE PinInv'
    <2>1. /\ pinCall[c].stage \in {"asked", "done", "failed"} /\ client.enabled
          /\ UNCHANGED <<daemonPins, client, pinsFile, stats, lastDone, ledgerEvents, ledgerFile, acknowledged>>
      BY <1>3 DEF Unheard, PinInv, PinsAreTracked
    <2>2. daemonPins' \in SUBSET Cids /\ (NoPinFault \/ PinFault) /\ pinCall[c].stage # "over"
      BY <1>0, <1>3, <2>1, PinKnown DEF Unheard
    <2>3. PICK to \in PinCallKind : pinCall' = [pinCall EXCEPT ![c] = to]
      BY <1>0, <1>3, <1>s DEF Unheard, PinOver
    <2> QED BY <2>1, <2>2, <2>3, RequestsMove
  <1>4. ASSUME NEW c \in PinCalls, NEW kind \in PinKinds, NEW cid \in Cids, AskIpfs(c, kind, cid) PROVE PinInv'
    <2>1. /\ pinCall[c].stage = "new" /\ client.enabled
          /\ UNCHANGED <<daemonPins, client, pinsFile, stats, lastDone, ledgerEvents, ledgerFile, acknowledged, pinFaults>>
      BY <1>4 DEF AskIpfs
    <2>2. daemonPins' \in SUBSET Cids /\ NoPinFault /\ pinCall[c].stage # "over"
      BY <1>0, <2>1, PinKnown DEF NoPinFault
    <2>3. PICK to \in PinCallKind : pinCall' = [pinCall EXCEPT ![c] = to]
      BY <1>4 DEF AskIpfs, PinCallKind
    <2> QED BY <2>1, <2>2, <2>3, RequestsMove
  <1> QED BY <1>1, <1>2, <1>3, <1>4, PinKept, PinRemoved, IpfsStarts, IpfsStops, PinIsSized DEF PinNext

-----------------------------------------------------------------------------
(* The chain nodes of an operator (naas).  A fee that was settled is unsettled  *)
(* again only with a batch worth a cent, so it is never thrown away as worthless; *)
(* requestCount counts calls that were charged and answered.                    *)
Unsettled == purse.pending \cup purse.batch
PurseIsKept ==
    /\ purse.recorded \subseteq purse.pending \cup purse.batch \cup purse.worthless \cup SettledFees
    /\ Unsettled \subseteq purse.recorded /\ purse.worthless \subseteq purse.recorded
    /\ purse.pending \cap purse.batch = {} /\ purse.worthless \cap Unsettled = {} /\ purse.worthless \cap SettledFees = {}
    /\ purse.pending \cap SettledFees # {} => WorthOfAll(purse.pending) >= 100
    /\ purse.batch # {} => WorthOfAll(purse.batch) >= 100
    /\ \A e \in Fees : settled[e] <= naasFaults + 1 /\ (e \in Unsettled => settled[e] <= naasFaults)
AnsweredPaid == {c \in RpcCalls : rpcStage[c] = "answered" /\ c \in charged}
CallsArePaid ==
    /\ served \subseteq charged
    /\ \A c \in RpcCalls : rpcStage[c] = "paid" => c \in charged
    /\ earnedCalls <= Cardinality(AnsweredPaid)
RolesFit == \A profile \in Profiles : 10 * RamOf(Assigned(profile)) <= 7 * profile.ram
Purses == [recorded : SUBSET Fees, pending : SUBSET Fees, batch : SUBSET Fees, worthless : SUBSET Fees]
NaasKnown ==
    /\ manager \in [phase : {"off", "launching", "on"}, roles : SUBSET RoleIds, left : SUBSET RoleIds]
    /\ containers \subseteq RoleIds /\ proxyUp \in BOOLEAN /\ flywheelUp \in BOOLEAN
    /\ rpcStage \in [RpcCalls -> RpcStages] /\ charged \subseteq RpcCalls /\ served \subseteq RpcCalls
    /\ earnedCalls \in Nat /\ naasFaults \in 0..MaxNaasFaults
NaasInv == /\ NaasKnown /\ purse \in Purses /\ settled \in [Fees -> Nat]
           /\ PurseIsKept /\ CallsArePaid /\ PortsApart

(* RoleAssigner.assign, role by role.                                           *)
BareRoom(profile) == [ram |-> 7 * profile.ram, disk |-> 8 * profile.disk, roles |-> {}]
Rooms(room, n, profile) == room = [i \in 0..n |-> IF i = 0 THEN BareRoom(profile) ELSE Take(profile, room[i - 1], i)]

LEMMA RoomsExist ==
  ASSUME NEW profile, NEW n \in Nat
  PROVE  \E room : Rooms(room, n, profile)
  <1> DEFINE Bad == {j \in Nat : ~ \E room : Rooms(room, j, profile)}
  <1> SUFFICES ASSUME Bad # {} PROVE FALSE
    OBVIOUS
  <1>1. PICK j \in Bad : \A i \in Bad : j <= i
    <2>1. Bad \subseteq Nat
      OBVIOUS
    <2> HIDE DEF Bad
    <2> QED BY <2>1, LeastNatural
  <1>2. CASE j = 0
    <2> DEFINE f == [i \in 0..0 |-> BareRoom(profile)]
    <2>1. f = [i \in 0..0 |-> IF i = 0 THEN BareRoom(profile) ELSE Take(profile, f[i - 1], i)]
      OBVIOUS
    <2>2. Rooms(f, 0, profile)
      BY <2>1 DEF Rooms
    <2> QED BY <1>2, <2>2
  <1>3. CASE j # 0
    <2>1. j \in Nat /\ j - 1 \in Nat /\ ~(j <= j - 1)
      BY <1>3
    <2>2. j - 1 \notin Bad
      BY <1>1, <2>1
    <2>3. PICK g : Rooms(g, j - 1, profile)
      BY <2>1, <2>2
    <2> DEFINE Then(i) == Take(profile, g[i - 1], i)
               f == [i \in 0..j |-> IF i = 0 THEN BareRoom(profile) ELSE Then(i)]
    <2>4. \A i \in 0..(j - 1) : g[i] = IF i = 0 THEN BareRoom(profile) ELSE Then(i)
      BY <2>3 DEF Rooms
    <2>5. \A i \in 0..(j - 1) : i \in 0..j
      BY <2>1
    <2>6. \A i \in 0..(j - 1) : f[i] = g[i]
      BY <2>4, <2>5
    <2>7. \A i \in 0..j : i # 0 => i - 1 \in 0..(j - 1)
      BY <2>1
    <2>8. \A i \in 0..j : i # 0 => Then(i) = Take(profile, f[i - 1], i)
      BY <2>6, <2>7
    <2>9. f = [i \in 0..j |-> IF i = 0 THEN BareRoom(profile) ELSE Take(profile, f[i - 1], i)]
      <3>1. \A i \in 0..j : f[i] = IF i = 0 THEN BareRoom(profile) ELSE Take(profile, f[i - 1], i)
        BY <2>8
      <3>2. f = [i \in 0..j |-> f[i]]
        OBVIOUS
      <3> HIDE DEF f
      <3> QED BY <3>1, <3>2, Zenon
    <2>10. Rooms(f, j, profile)
      BY <2>9 DEF Rooms
    <2> QED BY <2>10
  <1> QED BY <1>2, <1>3

LEMMA RolesFitTheRoom ==
  ASSUME NEW profile \in Profiles
  PROVE  Assigned(profile) \subseteq RoleIds /\ RamOf(Assigned(profile)) \in Nat /\ 10 * RamOf(Assigned(profile)) <= 7 * profile.ram
  <1> DEFINE N == Len(RoleCatalog)
             f == CHOOSE room : Rooms(room, N, profile)
             ramOf == [i \in RoleIds |-> RoleCatalog[i].ram]
             Sound(k) == /\ f[k].ram \in Nat /\ f[k].disk \in Nat /\ f[k].roles \subseteq 1..k
                         /\ f[k].ram + 10 * Total(ramOf, f[k].roles) = 7 * profile.ram
             Bad == {k \in 0..N : ~Sound(k)}
  <1>1. /\ N \in Nat /\ RoleIds = 1..N
        /\ \A i \in 1..N : RoleCatalog[i].ram \in Nat /\ RoleCatalog[i].disk \in Nat
        /\ profile.ram \in Nat /\ profile.disk \in Nat
    <2>1. PICK T : T = [cpu : Nat, ram : Nat, disk : Nat, port : Nat]
      OBVIOUS
    <2>2. RoleCatalog \in Seq(T)
      BY <2>1, NaasAssumption
    <2>3. N \in Nat /\ RoleIds = 1..N /\ \A i \in 1..N : RoleCatalog[i] \in T
      BY <2>2 DEF RoleIds
    <2>4. profile \in [cpu : Nat, ram : Nat, disk : Nat]
      BY NaasAssumption
    <2> QED BY <2>1, <2>3, <2>4
  <1>2. Assigned(profile) = f[N].roles
    BY DEF Assigned, Rooms, BareRoom
  <1>3. Rooms(f, N, profile)
    BY <1>1, RoomsExist
  <1> HIDE DEF f
  <1>4. f[0] = BareRoom(profile) /\ \A i \in 1..N : f[i] = Take(profile, f[i - 1], i)
    BY <1>1, <1>3 DEF Rooms
  <1>5. \A S \in SUBSET (1..N) : Amounts(ramOf, S) /\ Total(ramOf, S) \in Nat
    <2> TAKE S \in SUBSET (1..N)
    <2>1. IsFiniteSet(1..N)
      BY <1>1, FS_Interval
    <2>2. IsFiniteSet(S)
      BY <2>1, FS_Subset
    <2>3. Amounts(ramOf, S)
      BY <1>1, <2>2 DEF Amounts
    <2> QED BY <2>3, SumIsNat
  <1>6. Sound(0)
    <2>1. f[0].ram = 7 * profile.ram /\ f[0].disk = 8 * profile.disk /\ f[0].roles = {}
      BY <1>4 DEF BareRoom
    <2>2. Total(ramOf, {}) = 0
      BY SumOfNone
    <2> HIDE DEF ramOf
    <2> QED BY <1>1, <2>1, <2>2
  <1>7. ASSUME NEW k \in 1..N, Sound(k - 1) PROVE Sound(k)
    <2>1. PICK old : old = f[k - 1]
      OBVIOUS
    <2>2. PICK role : role = RoleCatalog[k]
      OBVIOUS
    <2>3. /\ old.ram \in Nat /\ old.disk \in Nat /\ old.roles \subseteq 1..(k - 1)
          /\ role.ram \in Nat /\ role.disk \in Nat
          /\ k - 1 \in Nat /\ k \notin 1..(k - 1) /\ 1..(k - 1) \subseteq 1..k /\ 1..k \subseteq 1..N
      BY <1>1, <1>7, <2>1, <2>2
    <2>3a. old.ram + 10 * Total(ramOf, old.roles) = 7 * profile.ram
      BY <1>7, <2>1
    <2>4. CASE RoleFits(role, profile, old)
      <3>1. f[k] = [ram |-> old.ram - 10 * role.ram, disk |-> old.disk - 10 * role.disk, roles |-> old.roles \cup {k}]
        BY <1>4, <2>1, <2>2, <2>4 DEF Take
      <3>2. 10 * role.ram <= old.ram /\ 10 * role.disk <= old.disk
        BY <2>4 DEF RoleFits
      <3>3. Total(ramOf, old.roles \cup {k}) = Total(ramOf, old.roles) + role.ram
        <4>1. k \notin old.roles /\ old.roles \cup {k} \in SUBSET (1..N)
          BY <2>3
        <4>2. Amounts(ramOf, old.roles \cup {k})
          BY <1>5, <4>1
        <4>3. ramOf[k] = role.ram
          BY <1>1, <2>2
        <4> HIDE DEF ramOf
        <4>4. Total(ramOf, old.roles \cup {k}) = Total(ramOf, old.roles) + ramOf[k]
          BY <4>1, <4>2, SumAdds
        <4> QED BY <4>3, <4>4
      <3>4. Total(ramOf, old.roles) \in Nat
        BY <1>5, <2>3
      <3>5. f[k].ram = old.ram - 10 * role.ram /\ f[k].disk = old.disk - 10 * role.disk /\ f[k].roles = old.roles \cup {k}
        BY <3>1
      <3>6. f[k].roles \subseteq 1..k
        BY <2>3, <3>5
      <3> HIDE DEF ramOf
      <3>7. f[k].ram \in Nat /\ f[k].disk \in Nat
        BY <2>3, <3>2, <3>5
      <3>8. f[k].ram + 10 * Total(ramOf, f[k].roles) = 7 * profile.ram
        BY <1>1, <2>3, <2>3a, <3>3, <3>4, <3>5, SMTT(30)
      <3> QED BY <3>6, <3>7, <3>8
    <2>5. CASE ~RoleFits(role, profile, old)
      <3>1. f[k] = old
        BY <1>4, <2>1, <2>2, <2>5 DEF Take
      <3> HIDE DEF ramOf
      <3> QED BY <2>3, <2>3a, <3>1
    <2> QED BY <2>4, <2>5
  <1>8. Bad = {}
    <2> SUFFICES ASSUME Bad # {} PROVE FALSE
      OBVIOUS
    <2>1. PICK k \in Bad : \A i \in Bad : k <= i
      <3>1. Bad \subseteq Nat
        BY <1>1
      <3> HIDE DEF Bad
      <3> QED BY <3>1, LeastNatural
    <2>2. k \in 0..N /\ ~Sound(k)
      OBVIOUS
    <2>3. k # 0
      BY <1>6, <2>2
    <2> HIDE DEF Sound
    <2>4. k \in 1..N /\ k - 1 \in 0..N /\ ~(k <= k - 1)
      BY <1>1, <2>2, <2>3
    <2>5. Sound(k - 1)
      BY <2>1, <2>4
    <2> QED BY <1>7, <2>2, <2>4, <2>5
  <1>9. Sound(N)
    <2>1. N \in 0..N
      BY <1>1
    <2> HIDE DEF Sound
    <2> QED BY <1>8, <2>1
  <1>10. RamOf(Assigned(profile)) = Total(ramOf, f[N].roles)
    BY <1>2 DEF RamOf, Total
  <1>11. Total(ramOf, f[N].roles) \in Nat /\ f[N].roles \subseteq RoleIds /\ f[N].ram \in Nat
    BY <1>1, <1>5, <1>9
  <1> HIDE DEF ramOf
  <1>12. f[N].ram + 10 * Total(ramOf, f[N].roles) = 7 * profile.ram
    BY <1>9
  <1> QED BY <1>1, <1>2, <1>10, <1>11, <1>12

-----------------------------------------------------------------------------
(* What fees are worth together.                                                *)
LEMMA WorthIsNat ==
  ASSUME NEW S \in SUBSET Fees
  PROVE  Amounts(WorthOf, S) /\ WorthOfAll(S) \in Nat /\ WorthOfAll(S) = Total(WorthOf, S)
  <1>1. IsFiniteSet(S)
    BY NaasAssumption, FS_Subset
  <1>2. Amounts(WorthOf, S)
    BY <1>1, NaasAssumption DEF Amounts
  <1>3. WorthOfAll(S) = Total(WorthOf, S)
    BY DEF WorthOfAll, Total
  <1> QED BY <1>2, <1>3, SumIsNat

LEMMA MoreIsWorthMore ==
  ASSUME NEW S \in SUBSET Fees, NEW R \in SUBSET Fees, S \cap R = {}
  PROVE  WorthOfAll(S \cup R) >= WorthOfAll(S)
  <1>1. PICK all : all = S \cup R
    OBVIOUS
  <1>2. all \in SUBSET Fees
    BY <1>1
  <1>3. Amounts(WorthOf, S \cup R) /\ WorthOfAll(S \cup R) = Total(WorthOf, S \cup R)
    BY <1>1, <1>2, WorthIsNat
  <1>4. Total(WorthOf, S \cup R) = Total(WorthOf, S) + Total(WorthOf, R)
    BY <1>3, SumOfUnion
  <1>5. WorthOfAll(S) = Total(WorthOf, S) /\ Total(WorthOf, S) \in Nat
    BY WorthIsNat
  <1>6. Total(WorthOf, R) \in Nat
    BY WorthIsNat
  <1> QED BY <1>3, <1>4, <1>5, <1>6

(* A worthless batch is of fees that were never settled.                        *)
LEMMA SettlingKeeps ==
  ASSUME NaasInv, purse' = Settling, settled' = settled, naasFaults' = naasFaults
  PROVE  purse' \in Purses /\ PurseIsKept'
  <1>1. purse \in Purses /\ PurseIsKept /\ settled \in [Fees -> Nat]
    BY DEF NaasInv
  <1>2. SettledFees' = SettledFees
    BY DEF SettledFees
  <1>3. CASE purse.pending = {} \/ purse.batch # {}
    <2>1. purse' = purse
      BY <1>3 DEF Settling
    <2>2. Unsettled' = Unsettled
      BY <2>1 DEF Unsettled
    <2> QED BY <1>1, <1>2, <2>1, <2>2 DEF PurseIsKept, WorthOfAll
  <1>4. CASE purse.pending # {} /\ purse.batch = {}
    <2>1. purse.pending \in SUBSET Fees /\ WorthOfAll(purse.pending) \in Nat /\ WorthOfAll({}) \in Nat
      <3>1. purse.pending \in SUBSET Fees /\ {} \in SUBSET Fees
        BY <1>1 DEF Purses
      <3> QED BY <3>1, WorthIsNat
    <2>2. CASE WorthOfAll(purse.pending) < 100
      <3>1. purse' = [purse EXCEPT !.pending = {}, !.worthless = purse.worthless \cup purse.pending]
        BY <1>4, <2>2 DEF Settling
      <3>2. /\ purse' \in Purses /\ purse'.recorded = purse.recorded /\ purse'.pending = {} /\ purse'.batch = {}
            /\ purse'.worthless = purse.worthless \cup purse.pending
        BY <1>1, <1>4, <3>1 DEF Purses
      <3>3. purse.pending \cap SettledFees = {}
        BY <1>1, <2>1, <2>2 DEF PurseIsKept
      <3>4. Unsettled' = {} /\ purse.pending \subseteq Unsettled
        BY <3>2 DEF Unsettled
      <3>5. purse'.recorded \subseteq purse'.pending \cup purse'.batch \cup purse'.worthless \cup SettledFees'
        BY <1>1, <1>2, <1>4, <3>2 DEF PurseIsKept
      <3>6. Unsettled' \subseteq purse'.recorded /\ purse'.worthless \subseteq purse'.recorded
        BY <1>1, <3>2, <3>4 DEF PurseIsKept
      <3>7. purse'.pending \cap purse'.batch = {} /\ purse'.worthless \cap Unsettled' = {} /\ purse'.worthless \cap SettledFees' = {}
        BY <1>1, <1>2, <3>2, <3>3, <3>4 DEF PurseIsKept
      <3>8. \A e \in Fees : settled'[e] <= naasFaults' + 1 /\ (e \in Unsettled' => settled'[e] <= naasFaults')
        BY <1>1, <3>4 DEF PurseIsKept
      <3> QED BY <3>2, <3>5, <3>6, <3>7, <3>8 DEF PurseIsKept
    <2>3. CASE ~(WorthOfAll(purse.pending) < 100)
      <3>1. purse' = [purse EXCEPT !.pending = {}, !.batch = purse.pending]
        BY <1>4, <2>3 DEF Settling
      <3>2. /\ purse' \in Purses /\ purse'.recorded = purse.recorded /\ purse'.pending = {} /\ purse'.batch = purse.pending
            /\ purse'.worthless = purse.worthless
        BY <1>1, <3>1 DEF Purses
      <3>3. WorthOfAll(purse'.batch) >= 100
        BY <2>1, <2>3, <3>2
      <3>4. Unsettled' = Unsettled
        BY <1>4, <3>2 DEF Unsettled
      <3>5. WorthOfAll(purse.batch)' >= 100
        BY <3>3 DEF WorthOfAll
      <3> QED BY <1>1, <1>2, <1>4, <3>2, <3>4, <3>5 DEF PurseIsKept
    <2> QED BY <2>2, <2>3
  <1> QED BY <1>3, <1>4

LEMMA FeeIsRecorded ==
  ASSUME NaasInv, NEW e \in Fees, RecordFee(e)
  PROVE  purse' \in Purses /\ PurseIsKept'
  <1>1. purse \in Purses /\ PurseIsKept /\ settled \in [Fees -> Nat] /\ naasFaults \in Nat
    BY NaasAssumption DEF NaasInv, NaasKnown
  <1>2. SettledFees' = SettledFees /\ settled' = settled /\ naasFaults' = naasFaults
    BY DEF SettledFees, RecordFee
  <1>3. e \notin purse.recorded /\ e \notin SettledFees
    BY DEF RecordFee
  <1>4. purse' = [purse EXCEPT !.recorded = purse.recorded \cup {e}, !.pending = purse.pending \cup {e}]
    BY DEF RecordFee
  <1>5. /\ purse' \in Purses /\ purse'.recorded = purse.recorded \cup {e} /\ purse'.pending = purse.pending \cup {e}
        /\ purse'.batch = purse.batch /\ purse'.worthless = purse.worthless
    BY <1>1, <1>4 DEF Purses
  <1>6. Unsettled' = Unsettled \cup {e} /\ e \notin Unsettled
    BY <1>1, <1>3, <1>5 DEF Unsettled, PurseIsKept
  <1>7. settled[e] = 0
    BY <1>1, <1>3 DEF SettledFees
  <1>8. purse'.pending \cap SettledFees # {} => WorthOfAll(purse'.pending) >= 100
    <2> SUFFICES ASSUME purse'.pending \cap SettledFees # {} PROVE WorthOfAll(purse'.pending) >= 100
      OBVIOUS
    <2>1. purse.pending \cap SettledFees # {}
      BY <1>3, <1>5
    <2>2. WorthOfAll(purse.pending) >= 100
      BY <1>1, <2>1 DEF PurseIsKept
    <2>3. PICK S, R : S = purse.pending /\ R = {e}
      OBVIOUS
    <2>4. S \in SUBSET Fees /\ R \in SUBSET Fees /\ S \cap R = {} /\ S \cup R \in SUBSET Fees
      BY <1>1, <1>6, <2>3 DEF Purses, Unsettled
    <2>5. WorthOfAll(S \cup R) >= WorthOfAll(S)
      BY <2>4, MoreIsWorthMore
    <2>6. WorthOfAll(S \cup R) \in Nat
      BY <2>4, WorthIsNat
    <2>7. WorthOfAll(S) \in Nat
      BY <2>4, WorthIsNat
    <2> QED BY <1>5, <2>2, <2>3, <2>5, <2>6, <2>7
  <1>9. PurseIsKept'
    <2>1. purse'.recorded \subseteq purse'.pending \cup purse'.batch \cup purse'.worthless \cup SettledFees'
      BY <1>1, <1>2, <1>5 DEF PurseIsKept
    <2>2. Unsettled' \subseteq purse'.recorded /\ purse'.worthless \subseteq purse'.recorded
      BY <1>1, <1>5, <1>6 DEF PurseIsKept
    <2>3. purse'.pending \cap purse'.batch = {} /\ purse'.worthless \cap Unsettled' = {} /\ purse'.worthless \cap SettledFees' = {}
      BY <1>1, <1>2, <1>3, <1>5, <1>6 DEF PurseIsKept, Unsettled
    <2>4. purse'.pending \cap SettledFees' # {} => WorthOfAll(purse.pending)' >= 100
      BY <1>2, <1>8 DEF WorthOfAll
    <2>5. purse'.batch # {} => WorthOfAll(purse.batch)' >= 100
      BY <1>1, <1>5 DEF PurseIsKept, WorthOfAll
    <2>6. \A d \in Fees : settled'[d] <= naasFaults' + 1 /\ (d \in Unsettled' => settled'[d] <= naasFaults')
      BY <1>1, <1>2, <1>6, <1>7 DEF PurseIsKept
    <2> QED BY <2>1, <2>2, <2>3, <2>4, <2>5, <2>6 DEF PurseIsKept
  <1> QED BY <1>5, <1>9

(* Settling is counted, fee by fee.                                             *)
LEMMA PaidCounts ==
  ASSUME settled \in [Fees -> Nat], NEW S \in SUBSET Fees, Paid(S)
  PROVE  /\ settled' \in [Fees -> Nat] /\ SettledFees' = SettledFees \cup S
         /\ \A e \in Fees : settled'[e] = IF e \in S THEN settled[e] + 1 ELSE settled[e]
  <1>1. \A e \in Fees : settled'[e] = IF e \in S THEN settled[e] + 1 ELSE settled[e]
    <2> TAKE e \in Fees
    <2>1. settled'[e] = settled[e] + (IF e \in S THEN 1 ELSE 0) /\ settled[e] \in Nat
      BY DEF Paid
    <2> QED BY <2>1
  <1>2. settled' \in [Fees -> Nat]
    <2>1. settled' = [e \in Fees |-> settled'[e]]
      BY DEF Paid
    <2>2. \A e \in Fees : settled'[e] \in Nat
      BY <1>1
    <2> QED BY <2>1, <2>2
  <1>3. \A e \in Fees : settled'[e] > 0 <=> settled[e] > 0 \/ e \in S
    <2> TAKE e \in Fees
    <2>1. settled[e] \in Nat
      OBVIOUS
    <2> QED BY <1>1, <2>1
  <1> QED BY <1>1, <1>2, <1>3 DEF SettledFees

LEMMA SettlementKeeps ==
  ASSUME NaasInv, SettlementAnswered
  PROVE  purse' \in Purses /\ settled' \in [Fees -> Nat] /\ PurseIsKept'
  <1>1. purse \in Purses /\ PurseIsKept /\ settled \in [Fees -> Nat] /\ naasFaults \in Nat /\ purse.batch \in SUBSET Fees
    BY NaasAssumption DEF NaasInv, NaasKnown, Purses
  <1>2. \A e \in Fees : settled[e] \in Nat /\ settled[e] <= naasFaults + 1 /\ (e \in Unsettled => settled[e] <= naasFaults)
    BY <1>1 DEF PurseIsKept
  <1>3. CASE Paid(purse.batch) /\ purse' = [purse EXCEPT !.batch = {}] /\ NoNaasFault
    <2>1. /\ settled' \in [Fees -> Nat] /\ SettledFees' = SettledFees \cup purse.batch
          /\ \A e \in Fees : settled'[e] = IF e \in purse.batch THEN settled[e] + 1 ELSE settled[e]
      BY <1>1, <1>3, PaidCounts
    <2>2. /\ purse' \in Purses /\ purse'.recorded = purse.recorded /\ purse'.pending = purse.pending
          /\ purse'.batch = {} /\ purse'.worthless = purse.worthless
      BY <1>1, <1>3 DEF Purses
    <2>3. Unsettled' = purse.pending /\ Unsettled = purse.pending \cup purse.batch
      BY <2>2 DEF Unsettled
    <2>4. naasFaults' = naasFaults
      BY <1>3 DEF NoNaasFault
    <2>5. \A e \in Fees : settled'[e] <= naasFaults' + 1 /\ (e \in Unsettled' => settled'[e] <= naasFaults')
      <3> TAKE e \in Fees
      <3>1. CASE e \in purse.batch
        <4>1. e \in Unsettled /\ e \notin Unsettled' /\ settled'[e] = settled[e] + 1
          BY <1>1, <2>1, <2>3, <3>1 DEF PurseIsKept
        <4> QED BY <1>1, <1>2, <2>4, <4>1
      <3>2. CASE e \notin purse.batch
        <4>1. settled'[e] = settled[e] /\ (e \in Unsettled' => e \in Unsettled)
          BY <2>1, <2>3, <3>2
        <4> QED BY <1>2, <2>4, <4>1
      <3> QED BY <3>1, <3>2
    <2>6. purse'.pending \cap SettledFees' # {} => WorthOfAll(purse.pending)' >= 100
      <3>1. purse.pending \cap SettledFees' = purse.pending \cap SettledFees
        BY <1>1, <2>1 DEF PurseIsKept
      <3> QED BY <1>1, <2>2, <3>1 DEF PurseIsKept, WorthOfAll
    <2>7. PurseIsKept'
      <3>1. purse'.recorded \subseteq purse'.pending \cup purse'.batch \cup purse'.worthless \cup SettledFees'
        BY <1>1, <2>1, <2>2 DEF PurseIsKept
      <3>2. Unsettled' \subseteq purse'.recorded /\ purse'.worthless \subseteq purse'.recorded
        BY <1>1, <2>2, <2>3 DEF PurseIsKept
      <3>3. purse'.pending \cap purse'.batch = {} /\ purse'.worthless \cap Unsettled' = {} /\ purse'.worthless \cap SettledFees' = {}
        BY <1>1, <2>1, <2>2, <2>3 DEF PurseIsKept
      <3> QED BY <2>2, <2>5, <2>6, <3>1, <3>2, <3>3 DEF PurseIsKept
    <2> QED BY <2>1, <2>2, <2>7
  <1>4. CASE Requeued /\ NaasFault /\ (UNCHANGED settled \/ Paid(purse.batch))
    <2>1. /\ settled' \in [Fees -> Nat] /\ SettledFees \subseteq SettledFees' /\ SettledFees' \subseteq SettledFees \cup purse.batch
          /\ \A e \in Fees : settled'[e] = settled[e] \/ (settled'[e] = settled[e] + 1 /\ e \in purse.batch)
      <3>1. CASE UNCHANGED settled
        BY <1>1, <3>1 DEF SettledFees
      <3>2. CASE Paid(purse.batch)
        <4>1. /\ settled' \in [Fees -> Nat] /\ SettledFees' = SettledFees \cup purse.batch
              /\ \A e \in Fees : settled'[e] = IF e \in purse.batch THEN settled[e] + 1 ELSE settled[e]
          BY <1>1, <3>2, PaidCounts
        <4> QED BY <4>1
      <3> QED BY <1>4, <3>1, <3>2
    <2>2. /\ purse' \in Purses /\ purse'.recorded = purse.recorded /\ purse'.pending = purse.pending \cup purse.batch
          /\ purse'.batch = {} /\ purse'.worthless = purse.worthless
      <3>1. purse' = [purse EXCEPT !.pending = purse.pending \cup purse.batch, !.batch = {}]
        BY <1>4 DEF Requeued
      <3> QED BY <1>1, <3>1 DEF Purses
    <2>3. Unsettled' = Unsettled /\ Unsettled = purse.pending \cup purse.batch
      BY <2>2 DEF Unsettled
    <2>4. naasFaults' = naasFaults + 1
      BY <1>4 DEF NaasFault
    <2>5. \A e \in Fees : settled'[e] <= naasFaults' + 1 /\ (e \in Unsettled' => settled'[e] <= naasFaults')
      <3> TAKE e \in Fees
      <3>1. settled'[e] = settled[e] \/ (settled'[e] = settled[e] + 1 /\ e \in Unsettled)
        BY <2>1, <2>3
      <3> QED BY <1>1, <1>2, <2>3, <2>4, <3>1
    <2>6. WorthOfAll(purse.pending)' >= 100
      <3>1. WorthOfAll(purse.batch) >= 100
        BY <1>1 DEF PurseIsKept, SettlementAnswered
      <3>2. PICK S, R : S = purse.batch /\ R = purse.pending
        OBVIOUS
      <3>3. S \in SUBSET Fees /\ R \in SUBSET Fees /\ S \cap R = {} /\ S \cup R \in SUBSET Fees
        BY <1>1, <3>2 DEF Purses, PurseIsKept
      <3>4. WorthOfAll(S \cup R) >= WorthOfAll(S)
        BY <3>3, MoreIsWorthMore
      <3>5. WorthOfAll(S \cup R) \in Nat
        BY <3>3, WorthIsNat
      <3>6. WorthOfAll(S) \in Nat
        BY <3>3, WorthIsNat
      <3>7. WorthOfAll(S \cup R) >= 100
        BY <3>1, <3>2, <3>4, <3>5, <3>6
      <3>8. purse'.pending = S \cup R
        BY <2>2, <3>2
      <3> QED BY <3>7, <3>8 DEF WorthOfAll
    <2>7. PurseIsKept'
      <3>1. purse'.recorded \subseteq purse'.pending \cup purse'.batch \cup purse'.worthless \cup SettledFees'
        BY <1>1, <2>1, <2>2 DEF PurseIsKept
      <3>2. Unsettled' \subseteq purse'.recorded /\ purse'.worthless \subseteq purse'.recorded
        BY <1>1, <2>2, <2>3 DEF PurseIsKept
      <3>3. purse'.pending \cap purse'.batch = {} /\ purse'.worthless \cap Unsettled' = {} /\ purse'.worthless \cap SettledFees' = {}
        BY <1>1, <2>1, <2>2, <2>3 DEF PurseIsKept
      <3> QED BY <2>2, <2>5, <2>6, <3>1, <3>2, <3>3 DEF PurseIsKept
    <2> QED BY <2>1, <2>2, <2>7
  <1> QED BY <1>3, <1>4 DEF SettlementAnswered

-----------------------------------------------------------------------------
(* The calls.                                                                   *)
LEMMA AnsweredAreFew ==
  ASSUME CallsArePaid, charged \subseteq RpcCalls, earnedCalls \in Nat
  PROVE  /\ IsFiniteSet(AnsweredPaid) /\ IsFiniteSet(charged) /\ Cardinality(charged) \in Nat /\ Cardinality(AnsweredPaid) \in Nat
         /\ earnedCalls <= Cardinality(charged) /\ earnedCalls <= Cardinality(RpcCalls) /\ Cardinality(RpcCalls) \in Nat
  <1>1. AnsweredPaid \subseteq charged
    BY DEF AnsweredPaid
  <1>2. IsFiniteSet(charged) /\ Cardinality(charged) <= Cardinality(RpcCalls) /\ Cardinality(RpcCalls) \in Nat
    BY NaasAssumption, FS_Subset, FS_CardinalityType
  <1>3. IsFiniteSet(AnsweredPaid) /\ Cardinality(AnsweredPaid) <= Cardinality(charged)
    BY <1>1, <1>2, FS_Subset
  <1>4. Cardinality(charged) \in Nat /\ Cardinality(AnsweredPaid) \in Nat
    BY <1>2, <1>3, FS_CardinalityType
  <1>5. earnedCalls <= Cardinality(AnsweredPaid)
    BY DEF CallsArePaid
  <1> QED BY <1>2, <1>3, <1>4, <1>5

\* More calls are answered and paid, and no more counted.
LEMMA MoreAnswered ==
  ASSUME CallsArePaid, charged \subseteq RpcCalls, earnedCalls \in Nat,
         charged' \subseteq RpcCalls, AnsweredPaid \subseteq AnsweredPaid', earnedCalls' = earnedCalls
  PROVE  earnedCalls' <= Cardinality(AnsweredPaid)'
  <1>1. AnsweredPaid' \subseteq RpcCalls
    BY DEF AnsweredPaid
  <1>2. PICK later : later = AnsweredPaid'
    OBVIOUS
  <1>3. IsFiniteSet(later)
    BY <1>1, <1>2, NaasAssumption, FS_Subset
  <1>4. Cardinality(AnsweredPaid) <= Cardinality(later)
    BY <1>2, <1>3, FS_Subset
  <1>5. Cardinality(later) \in Nat
    BY <1>3, FS_CardinalityType
  <1>6. earnedCalls <= Cardinality(AnsweredPaid) /\ Cardinality(AnsweredPaid) \in Nat
    BY AnsweredAreFew DEF CallsArePaid
  <1>7. earnedCalls <= Cardinality(later)
    BY <1>4, <1>5, <1>6
  <1> QED BY <1>2, <1>7

LEMMA CallsChange ==
  ASSUME NaasInv, NEW c \in RpcCalls, AskRpc(c) \/ Charge(c) \/ Forward(c)
  PROVE  /\ CallsArePaid' /\ rpcStage' \in [RpcCalls -> RpcStages] /\ charged' \subseteq RpcCalls /\ served' \subseteq RpcCalls
         /\ earnedCalls' \in Nat
  <1>1. /\ CallsArePaid /\ rpcStage \in [RpcCalls -> RpcStages] /\ charged \subseteq RpcCalls /\ served \subseteq RpcCalls
        /\ earnedCalls \in Nat
    BY DEF NaasInv, NaasKnown
  <1>2. \A next \in RpcStages : RpcTo(c, next) =>
           /\ rpcStage' \in [RpcCalls -> RpcStages] /\ rpcStage'[c] = next
           /\ \A d \in RpcCalls \ {c} : rpcStage'[d] = rpcStage[d]
    BY <1>1 DEF RpcTo
  <1>3. {"new", "charging", "paid", "answered"} \subseteq RpcStages
    BY DEF RpcStages
  <1>4. CASE AskRpc(c)
    <2>1. /\ rpcStage' \in [RpcCalls -> RpcStages] /\ rpcStage'[c] = "charging" /\ rpcStage[c] = "new"
          /\ \A d \in RpcCalls \ {c} : rpcStage'[d] = rpcStage[d]
      BY <1>2, <1>3, <1>4 DEF AskRpc
    <2>2. charged' = charged /\ served' = served /\ earnedCalls' = earnedCalls
      BY <1>4 DEF AskRpc
    <2>3. AnsweredPaid \subseteq AnsweredPaid'
      BY <2>1, <2>2 DEF AnsweredPaid
    <2>4. earnedCalls' <= Cardinality(AnsweredPaid)'
      BY <1>1, <2>2, <2>3, MoreAnswered
    <2>5. \A d \in RpcCalls : rpcStage'[d] = "paid" => d \in charged'
      BY <1>1, <2>1, <2>2 DEF CallsArePaid
    <2> QED BY <1>1, <2>1, <2>2, <2>4, <2>5 DEF CallsArePaid
  <1>5. CASE Charge(c)
    <2>1. PICK to \in {"paid", "answered"} : RpcTo(c, to) /\ (to = "paid" => c \in charged')
      BY <1>5 DEF Charge
    <2>2. (charged' = charged \/ charged' = charged \cup {c}) /\ rpcStage[c] = "charging" /\ served' = served /\ earnedCalls' = earnedCalls
      BY <1>5 DEF Charge
    <2>3. /\ rpcStage' \in [RpcCalls -> RpcStages] /\ rpcStage'[c] = to
          /\ \A d \in RpcCalls \ {c} : rpcStage'[d] = rpcStage[d]
      BY <1>2, <1>3, <2>1
    <2>4. AnsweredPaid \subseteq AnsweredPaid' /\ charged' \subseteq RpcCalls /\ charged \subseteq charged'
      BY <1>1, <2>2, <2>3 DEF AnsweredPaid
    <2>5. earnedCalls' <= Cardinality(AnsweredPaid)'
      BY <1>1, <2>2, <2>4, MoreAnswered
    <2>6. \A d \in RpcCalls : rpcStage'[d] = "paid" => d \in charged'
      BY <1>1, <2>1, <2>3, <2>4 DEF CallsArePaid
    <2> QED BY <1>1, <2>2, <2>3, <2>4, <2>5, <2>6 DEF CallsArePaid
  <1>6. CASE Forward(c)
    <2>1. rpcStage[c] = "paid" /\ c \in charged /\ charged' = charged /\ earnedCalls' = earnedCalls + 1 /\ (served' = served \/ served' = served \cup {c})
      BY <1>1, <1>6 DEF Forward, CallsArePaid
    <2>2. /\ rpcStage' \in [RpcCalls -> RpcStages] /\ rpcStage'[c] = "answered"
          /\ \A d \in RpcCalls \ {c} : rpcStage'[d] = rpcStage[d]
      BY <1>2, <1>3, <1>6 DEF Forward
    <2>3. AnsweredPaid' = AnsweredPaid \cup {c} /\ c \notin AnsweredPaid
      BY <2>1, <2>2 DEF AnsweredPaid
    <2>4. earnedCalls' <= Cardinality(AnsweredPaid)'
      <3>1. IsFiniteSet(AnsweredPaid) /\ Cardinality(AnsweredPaid) \in Nat /\ earnedCalls <= Cardinality(AnsweredPaid)
        BY <1>1, AnsweredAreFew DEF CallsArePaid
      <3>2. Cardinality(AnsweredPaid \cup {c}) = Cardinality(AnsweredPaid) + 1
        BY <2>3, <3>1, FS_AddElement
      <3>3. Cardinality(AnsweredPaid)' = Cardinality(AnsweredPaid) + 1
        BY <2>3, <3>2
      <3> QED BY <1>1, <2>1, <3>1, <3>3
    <2>5. \A d \in RpcCalls : rpcStage'[d] = "paid" => d \in charged'
      BY <1>1, <2>1, <2>2 DEF CallsArePaid
    <2>6. served' \subseteq charged' /\ served' \subseteq RpcCalls
      BY <1>1, <2>1 DEF CallsArePaid
    <2> QED BY <1>1, <2>1, <2>2, <2>4, <2>5, <2>6 DEF CallsArePaid
  <1> QED BY <1>4, <1>5, <1>6

LEMMA NaasBegins == NaasInit => NaasInv
  <1> SUFFICES ASSUME NaasInit PROVE NaasInv
    OBVIOUS
  <1>1. /\ manager = [phase |-> "off", roles |-> {}, left |-> {}] /\ containers = {} /\ proxyUp = FALSE /\ flywheelUp = FALSE
        /\ purse = NoFees /\ settled = [e \in Fees |-> 0] /\ rpcStage = [c \in RpcCalls |-> "new"]
        /\ charged = {} /\ served = {} /\ earnedCalls = 0 /\ naasFaults = 0
    BY DEF NaasInit
  <1>2. NaasKnown
    <2>1. manager \in [phase : {"off", "launching", "on"}, roles : SUBSET RoleIds, left : SUBSET RoleIds]
      BY <1>1
    <2>2. rpcStage \in [RpcCalls -> RpcStages]
      BY <1>1 DEF RpcStages
    <2>3. naasFaults \in 0..MaxNaasFaults /\ earnedCalls \in Nat
      BY <1>1, NaasAssumption
    <2> QED BY <1>1, <2>1, <2>2, <2>3 DEF NaasKnown
  <1>3. purse \in Purses /\ purse.recorded = {} /\ purse.pending = {} /\ purse.batch = {} /\ purse.worthless = {}
    BY <1>1 DEF NoFees, Purses
  <1>4. settled \in [Fees -> Nat] /\ SettledFees = {} /\ Unsettled = {}
    BY <1>1, <1>3 DEF SettledFees, Unsettled
  <1>5. PurseIsKept
    BY <1>1, <1>3, <1>4 DEF PurseIsKept
  <1>6. AnsweredPaid = {} /\ Cardinality(AnsweredPaid) = 0
    <2>1. AnsweredPaid = {}
      BY <1>1 DEF AnsweredPaid
    <2> QED BY <2>1, FS_EmptySet
  <1>7. CallsArePaid
    BY <1>1, <1>6 DEF CallsArePaid
  <1> QED BY <1>1, <1>2, <1>3, <1>4, <1>5, <1>7 DEF NaasInv, PortsApart

(* What a step leaves alone.                                                    *)
LEMMA PurseStays ==
  ASSUME NaasInv, UNCHANGED <<purse, settled>>, naasFaults' \in {naasFaults, naasFaults + 1}
  PROVE  purse' \in Purses /\ settled' \in [Fees -> Nat] /\ PurseIsKept'
  <1>1. purse \in Purses /\ PurseIsKept /\ settled \in [Fees -> Nat] /\ naasFaults \in Nat
    BY NaasAssumption DEF NaasInv, NaasKnown
  <1>2. SettledFees' = SettledFees /\ Unsettled' = Unsettled
    BY DEF SettledFees, Unsettled
  <1>3. \A e \in Fees : settled'[e] <= naasFaults' + 1 /\ (e \in Unsettled' => settled'[e] <= naasFaults')
    <2>1. \A e \in Fees : settled[e] \in Nat /\ settled[e] <= naasFaults + 1 /\ (e \in Unsettled => settled[e] <= naasFaults)
      BY <1>1 DEF PurseIsKept
    <2>2. CASE naasFaults' = naasFaults
      BY <1>2, <2>1, <2>2
    <2>3. CASE naasFaults' = naasFaults + 1
      <3> TAKE e \in Fees
      <3>1. settled[e] \in Nat /\ settled[e] <= naasFaults + 1
        BY <2>1
      <3>2. settled[e] <= (naasFaults + 1) + 1
        BY <1>1, <3>1
      <3> QED BY <1>2, <2>3, <3>1, <3>2
    <2> QED BY <2>2, <2>3
  <1> QED BY <1>1, <1>2, <1>3 DEF PurseIsKept, WorthOfAll

LEMMA CallsStay ==
  ASSUME NaasInv, UNCHANGED <<rpcStage, charged, served, earnedCalls>>
  PROVE  /\ CallsArePaid' /\ rpcStage' \in [RpcCalls -> RpcStages] /\ charged' \subseteq RpcCalls /\ served' \subseteq RpcCalls
         /\ earnedCalls' \in Nat
  <1>1. AnsweredPaid' = AnsweredPaid
    BY DEF AnsweredPaid
  <1> QED BY <1>1 DEF NaasInv, NaasKnown, CallsArePaid

LEMMA NaasKept == NaasInv /\ [NaasNext]_naasVars => NaasInv'
  <1> SUFFICES ASSUME NaasInv, [NaasNext]_naasVars PROVE NaasInv'
    OBVIOUS
  <1> DEFINE CallsFine == /\ CallsArePaid' /\ rpcStage' \in [RpcCalls -> RpcStages] /\ charged' \subseteq RpcCalls /\ served' \subseteq RpcCalls
                          /\ earnedCalls' \in Nat
             PurseFine == purse' \in Purses /\ settled' \in [Fees -> Nat] /\ PurseIsKept'
             RestFine == /\ manager' \in [phase : {"off", "launching", "on"}, roles : SUBSET RoleIds, left : SUBSET RoleIds]
                         /\ containers' \subseteq RoleIds /\ proxyUp' \in BOOLEAN /\ flywheelUp' \in BOOLEAN
                         /\ naasFaults' \in 0..MaxNaasFaults /\ PortsApart'
  <1>1. /\ manager \in [phase : {"off", "launching", "on"}, roles : SUBSET RoleIds, left : SUBSET RoleIds]
        /\ containers \subseteq RoleIds /\ proxyUp \in BOOLEAN /\ flywheelUp \in BOOLEAN
        /\ naasFaults \in 0..MaxNaasFaults /\ naasFaults \in Nat /\ MaxNaasFaults \in Nat /\ PortsApart
    BY NaasAssumption DEF NaasInv, NaasKnown
  <1>2. SUFFICES CallsFine /\ PurseFine /\ RestFine
    BY DEF NaasInv, NaasKnown
  <1>3. NaasFault => naasFaults' = naasFaults + 1 /\ naasFaults' \in 0..MaxNaasFaults
    BY <1>1 DEF NaasFault
  <1>4. ASSUME UNCHANGED <<manager, containers, proxyUp, flywheelUp>>, naasFaults' \in 0..MaxNaasFaults PROVE RestFine
    BY <1>1, <1>4 DEF PortsApart
  <1>5. CASE UNCHANGED naasVars
    BY <1>1, <1>4, <1>5, PurseStays, CallsStay DEF naasVars
  <1>6. ASSUME NEW profile \in Profiles, StartNaas(profile) PROVE CallsFine /\ PurseFine /\ RestFine
    <2>1. Assigned(profile) \subseteq RoleIds
      BY RolesFitTheRoom
    <2>2. manager' = [phase |-> "launching", roles |-> Assigned(profile), left |-> Assigned(profile)]
      BY <1>6 DEF StartNaas
    <2>3. manager' \in [phase : {"off", "launching", "on"}, roles : SUBSET RoleIds, left : SUBSET RoleIds]
      BY <2>1, <2>2
    <2> QED BY <1>1, <1>6, <2>3, PurseStays, CallsStay DEF StartNaas, PortsApart
  <1>7. CASE LaunchRole
    <2>1. PICK i : /\ i = CHOOSE k \in manager.left : \A j \in manager.left : k <= j
                   /\ manager' = [manager EXCEPT !.left = manager.left \ {i}]
                   /\ \/ containers' = (IF \A j \in containers : RoleCatalog[j].port # RoleCatalog[i].port THEN containers \cup {i} ELSE containers) /\ NoNaasFault
                      \/ i \notin containers /\ UNCHANGED containers /\ NaasFault
      BY <1>7 DEF LaunchRole
    <2>2. manager' \in [phase : {"off", "launching", "on"}, roles : SUBSET RoleIds, left : SUBSET RoleIds]
      BY <1>1, <2>1
    <2>3. i \in RoleIds
      <3>1. RoleIds \subseteq Nat
        BY NaasAssumption DEF RoleIds
      <3>2. PICK S : S = manager.left /\ S \subseteq RoleIds /\ S # {}
        BY <1>1, <1>7 DEF LaunchRole
      <3>3. \E k \in S : \A j \in S : k <= j
        <4>1. S \subseteq Nat
          BY <3>1, <3>2
        <4> QED BY <3>2, <4>1, LeastNatural
      <3> QED BY <2>1, <3>2, <3>3
    <2>4. containers' \subseteq RoleIds /\ PortsApart'
      <3>1. CASE containers' = containers
        BY <1>1, <3>1 DEF PortsApart
      <3>2. CASE containers' = containers \cup {i} /\ \A j \in containers : RoleCatalog[j].port # RoleCatalog[i].port
        BY <1>1, <2>3, <3>2 DEF PortsApart
      <3> QED BY <2>1, <3>1, <3>2
    <2>5. naasFaults' \in 0..MaxNaasFaults /\ naasFaults' \in {naasFaults, naasFaults + 1}
      BY <1>1, <1>3, <2>1 DEF NoNaasFault
    <2> QED BY <1>1, <1>7, <2>2, <2>4, <2>5, PurseStays, CallsStay DEF LaunchRole
  <1>8. CASE ServicesUp
    <2>1. manager' \in [phase : {"off", "launching", "on"}, roles : SUBSET RoleIds, left : SUBSET RoleIds]
      BY <1>1, <1>8 DEF ServicesUp
    <2>2. PurseFine
      BY <1>8, SettlingKeeps DEF ServicesUp, NaasInv
    <2> QED BY <1>1, <1>8, <2>1, <2>2, CallsStay DEF ServicesUp, PortsApart
  <1>9. CASE StopNaas
    BY <1>1, <1>3, <1>9, PurseStays, CallsStay DEF StopNaas, PortsApart
  <1>10. CASE ExitNaas
    <2>1. manager' \in [phase : {"off", "launching", "on"}, roles : SUBSET RoleIds, left : SUBSET RoleIds]
      BY <1>10 DEF ExitNaas
    <2>2. RestFine
      BY <1>1, <1>3, <1>10, <2>1 DEF ExitNaas, PortsApart
    <2>3. PurseFine
      <3>1. purse' = NoFees /\ settled' = settled /\ naasFaults' = naasFaults + 1
        BY <1>3, <1>10 DEF ExitNaas
      <3>2. purse' \in Purses /\ purse'.recorded = {} /\ purse'.pending = {} /\ purse'.batch = {} /\ purse'.worthless = {}
        BY <3>1 DEF NoFees, Purses
      <3>3. Unsettled' = {}
        BY <3>2 DEF Unsettled
      <3>4. settled \in [Fees -> Nat] /\ \A e \in Fees : settled[e] <= naasFaults + 1
        BY DEF NaasInv, PurseIsKept
      <3>5. \A e \in Fees : settled'[e] <= naasFaults' + 1
        <4> TAKE e \in Fees
        <4>1. settled[e] \in Nat /\ settled[e] <= naasFaults + 1
          BY <3>4
        <4> QED BY <1>1, <3>1, <4>1
      <3> QED BY <3>1, <3>2, <3>3, <3>4, <3>5 DEF PurseIsKept
    <2>4. CallsFine
      <3>1. /\ rpcStage' = [c \in RpcCalls |-> IF rpcStage[c] = "new" THEN "new" ELSE "answered"]
            /\ charged' = charged /\ served' = served /\ earnedCalls' = 0
        BY <1>10 DEF ExitNaas
      <3>2. CallsArePaid /\ charged \subseteq RpcCalls /\ served \subseteq RpcCalls
        BY DEF NaasInv, NaasKnown
      <3>3. rpcStage' \in [RpcCalls -> RpcStages] /\ \A c \in RpcCalls : rpcStage'[c] # "paid"
        BY <3>1 DEF RpcStages
      <3>4. Cardinality(AnsweredPaid)' \in Nat
        <4>1. PICK S : S = AnsweredPaid'
          OBVIOUS
        <4>2. S \subseteq RpcCalls
          BY <4>1 DEF AnsweredPaid
        <4>3. Cardinality(S) \in Nat
          BY <4>2, NaasAssumption, FS_Subset, FS_CardinalityType
        <4> QED BY <4>1, <4>3
      <3>5. earnedCalls' <= Cardinality(AnsweredPaid)'
        BY <3>1, <3>4
      <3> QED BY <3>1, <3>2, <3>3, <3>5 DEF CallsArePaid
    <2> QED BY <2>2, <2>3, <2>4
  <1>11. CASE SettleTick
    BY <1>1, <1>4, <1>11, SettlingKeeps, CallsStay DEF SettleTick, NaasInv
  <1>12. CASE SettlementAnswered
    <2>1. naasFaults' \in 0..MaxNaasFaults
      BY <1>1, <1>3, <1>12 DEF SettlementAnswered, NoNaasFault
    <2> QED BY <1>4, <1>12, <2>1, SettlementKeeps, CallsStay DEF SettlementAnswered
  <1>13. ASSUME NEW e \in Fees, RecordFee(e) PROVE CallsFine /\ PurseFine /\ RestFine
    <2>1. settled' = settled
      BY <1>13 DEF RecordFee
    <2> QED BY <1>1, <1>4, <1>13, <2>1, FeeIsRecorded, CallsStay DEF RecordFee, NaasInv
  <1>14. ASSUME NEW c \in RpcCalls, AskRpc(c) \/ Charge(c) \/ Forward(c) PROVE CallsFine /\ PurseFine /\ RestFine
    <2>1. CallsFine
      BY <1>14, CallsChange
    <2>2. UNCHANGED <<manager, containers, proxyUp, flywheelUp, purse, settled>>
      BY <1>14 DEF AskRpc, Charge, Forward
    <2>3. naasFaults' \in 0..MaxNaasFaults /\ naasFaults' \in {naasFaults, naasFaults + 1}
      BY <1>1, <1>3, <1>14 DEF AskRpc, Charge, Forward, NoNaasFault
    <2> QED BY <1>4, <2>1, <2>2, <2>3, PurseStays
  <1> HIDE DEF CallsFine, PurseFine, RestFine
  <1> QED BY <1>5, <1>6, <1>7, <1>8, <1>9, <1>10, <1>11, <1>12, <1>13, <1>14 DEF NaasNext

LEMMA NaasMeans ==
  ASSUME NaasInv
  PROVE  NaasTypeOK /\ FeesBalance
  <1>1. NaasKnown /\ purse \in Purses /\ settled \in [Fees -> Nat] /\ PurseIsKept /\ CallsArePaid /\ PortsApart
    BY DEF NaasInv
  <1>2. settled \in [Fees -> 0..MaxNaasFaults + 1]
    <2>1. naasFaults \in 0..MaxNaasFaults /\ MaxNaasFaults \in Nat
      BY <1>1, NaasAssumption DEF NaasKnown
    <2>2. \A e \in Fees : settled[e] \in 0..MaxNaasFaults + 1
      <3> TAKE e \in Fees
      <3>1. settled[e] \in Nat /\ settled[e] <= naasFaults + 1
        BY <1>1 DEF PurseIsKept
      <3> QED BY <2>1, <3>1
    <2> QED BY <1>1, <2>2
  <1>3. earnedCalls <= Cardinality(charged) /\ earnedCalls \in 0..Cardinality(RpcCalls)
    BY <1>1, AnsweredAreFew DEF NaasKnown
  <1>4. NaasTypeOK
    BY <1>1, <1>2, <1>3 DEF NaasTypeOK, NaasKnown, Purses
  <1>5. \A profile \in Profiles : 10 * RamOf(Assigned(profile)) <= 7 * profile.ram
    BY RolesFitTheRoom
  <1>6. FeesBalance
    BY <1>1, <1>3, <1>5 DEF FeesBalance, PurseIsKept, CallsArePaid
  <1> QED BY <1>4, <1>6

-----------------------------------------------------------------------------
(* What the node earns and reports (revenue/engine.ts).  An event is in the     *)
(* queue, in one batch, or done with; a settlement cuts a batch off the queue   *)
(* and one that fails puts it back, so no event is in two places.               *)
Distinct(s) == \A i, j \in DOMAIN s : s[i] = s[j] => i = j
Apart(queue, out, over, n) ==
    /\ queue \in Seq(1..n) /\ Distinct(queue)
    /\ \A b \in out : b \in Seq(1..n) /\ b # << >> /\ Distinct(b)
    /\ \A b \in out : Range(b) \cap Range(queue) = {} /\ Range(b) \cap over = {}
    /\ \A b, c \in out : b # c => Range(b) \cap Range(c) = {}
    /\ Range(queue) \cap over = {} /\ over \subseteq 1..n
    /\ \A e \in 1..n : e \in Range(queue) \/ e \in over \/ \E b \in out : e \in Range(b)
Finished == settledEvents \cup refused
EventRecord == [stream : Streams, amount : Nat \ {0}]
Worth == [e \in EventNumbers |-> events[e].amount]
EventsApart == Apart(waiting, batches, Finished, Len(events)) /\ settledEvents \cap refused = {}
EventsTyped == /\ rate \in Nat /\ rate \in Rates \cup {DefaultRate} /\ events \in Seq(EventRecord) /\ Len(events) <= MaxEarned
               /\ lost \subseteq EventNumbers /\ hasWallet \in BOOLEAN /\ engineOn \in BOOLEAN
EventsSummed == pendingSum = Total(Worth, EventNumbers \ settledEvents) /\ settledSum = Total(Worth, settledEvents)
EventsBooked == /\ booked \in [1..MaxEarned -> Nat]
                /\ \A e \in 1..MaxEarned : /\ booked[e] >= 1 => e \in settledEvents \cup lost
                                           /\ booked[e] > 1 => e \in lost
                /\ \A e \in settledEvents : booked[e] >= 1
EngineInv == EventsApart /\ EventsTyped /\ EventsSummed /\ EventsBooked

LEMMA InRange == \A s, e : e \in Range(s) <=> \E i \in DOMAIN s : s[i] = e
  BY DEF Range

LEMMA SeqIsFinite == ASSUME NEW S, NEW s \in Seq(S) PROVE Len(s) \in Nat /\ DOMAIN s = 1..Len(s) /\ IsFiniteSet(DOMAIN s) /\ Range(s) \subseteq S
  <1>1. Len(s) \in Nat /\ DOMAIN s = 1..Len(s) /\ \A i \in 1..Len(s) : s[i] \in S
    OBVIOUS
  <1>2. IsFiniteSet(1..Len(s))
    BY <1>1, FS_Interval
  <1> QED BY <1>1, <1>2 DEF Range

LEMMA EventsKnown ==
  ASSUME EventsTyped
  PROVE  /\ Len(events) \in Nat /\ EventNumbers = 1..Len(events) /\ IsFiniteSet(EventNumbers) /\ MaxEarned \in Nat
         /\ EventNumbers \subseteq 1..MaxEarned /\ Amounts(Worth, EventNumbers)
         /\ \A S \in SUBSET EventNumbers : Amounts(Worth, S) /\ Total(Worth, S) \in Nat
  <1>1. Len(events) \in Nat /\ EventNumbers = 1..Len(events) /\ IsFiniteSet(EventNumbers)
    BY SeqIsFinite DEF EventsTyped, EventNumbers
  <1>2. MaxEarned \in Nat
    BY EngineAssumption
  <1>3. EventNumbers \subseteq 1..MaxEarned
    BY <1>1, <1>2 DEF EventsTyped
  <1>4. \A e \in EventNumbers : Worth[e] \in Nat
    <2> TAKE e \in EventNumbers
    <2>1. events[e] \in EventRecord
      BY <1>1 DEF EventsTyped
    <2> QED BY <2>1 DEF Worth, EventRecord
  <1>5. \A S \in SUBSET EventNumbers : Amounts(Worth, S)
    BY <1>1, <1>4, FS_Subset DEF Amounts
  <1>6. \A S \in SUBSET EventNumbers : Total(Worth, S) \in Nat
    <2> TAKE S \in SUBSET EventNumbers
    <2>1. PICK f : f = Worth
      OBVIOUS
    <2>2. Amounts(f, S)
      BY <1>5, <2>1
    <2>3. Total(f, S) \in Nat
      BY <2>2, SumIsNat
    <2> QED BY <2>1, <2>3
  <1> QED BY <1>1, <1>2, <1>3, <1>5, <1>6

LEMMA EngineMeans == EngineInv => EngineTypeOK /\ EarningsAddUp
  <1> SUFFICES ASSUME EngineInv PROVE EngineTypeOK /\ EarningsAddUp
    OBVIOUS
  <1>1. EventsApart /\ EventsTyped /\ EventsSummed /\ EventsBooked
    BY DEF EngineInv
  <1>2. /\ Len(events) \in Nat /\ EventNumbers = 1..Len(events) /\ EventNumbers \subseteq 1..MaxEarned
        /\ \A S \in SUBSET EventNumbers : Total(Worth, S) \in Nat
    BY <1>1, EventsKnown
  <1>3. /\ waiting \in Seq(EventNumbers) /\ Distinct(waiting)
        /\ \A b \in batches : b \in Seq(EventNumbers) /\ b # << >>
        /\ \A b \in batches : Range(b) \cap Range(waiting) = {} /\ Range(b) \cap Finished = {}
        /\ \A b, c \in batches : b # c => Range(b) \cap Range(c) = {}
        /\ Range(waiting) \cap Finished = {} /\ Finished \subseteq EventNumbers
        /\ \A e \in EventNumbers : e \in Range(waiting) \/ e \in Finished \/ \E b \in batches : e \in Range(b)
    BY <1>1, <1>2 DEF EventsApart, Apart
  <1>4. pendingSum \in Nat /\ settledSum \in Nat
    BY <1>1, <1>2, <1>3 DEF EventsSummed, Finished
  <1>5. EngineTypeOK
    BY <1>1, <1>3, <1>4 DEF EngineTypeOK, EventsTyped, EventRecord, EventsBooked, Finished
  <1>6. ASSUME NEW e \in EventNumbers
        PROVE  Cardinality({i \in DOMAIN waiting : waiting[i] = e}) + Cardinality({b \in batches : e \in Range(b)})
                 + (IF e \in settledEvents THEN 1 ELSE 0) + (IF e \in refused THEN 1 ELSE 0) = 1
    <2> DEFINE W == {i \in DOMAIN waiting : waiting[i] = e}
               B == {b \in batches : e \in Range(b)}
    <2>1. CASE e \in Range(waiting)
      <3>1. PICK i \in DOMAIN waiting : waiting[i] = e
        BY <2>1, InRange
      <3>2. W = {i}
        BY <1>3, <3>1 DEF Distinct
      <3>3. B = {} /\ e \notin settledEvents /\ e \notin refused
        BY <1>3, <2>1 DEF Finished
      <3>4. Cardinality(W) = 1 /\ Cardinality(B) = 0
        BY <3>2, <3>3, FS_Singleton, FS_EmptySet
      <3> QED BY <3>3, <3>4
    <2>2. CASE e \notin Range(waiting)
      <3>1. W = {}
        BY <2>2, InRange
      <3>2. Cardinality(W) = 0
        BY <3>1, FS_EmptySet
      <3>3. CASE e \in Finished
        <4>1. B = {}
          BY <1>3, <3>3
        <4>2. Cardinality(B) = 0
          BY <4>1, FS_EmptySet
        <4>3. (e \in settledEvents /\ e \notin refused) \/ (e \notin settledEvents /\ e \in refused)
          BY <1>1, <3>3 DEF Finished, EventsApart
        <4> QED BY <3>2, <4>2, <4>3
      <3>4. CASE e \notin Finished
        <4>1. PICK b \in batches : e \in Range(b)
          BY <1>3, <2>2, <3>4
        <4>2. B = {b}
          BY <1>3, <4>1
        <4>3. Cardinality(B) = 1
          BY <4>2, FS_Singleton
        <4> QED BY <3>2, <3>4, <4>3 DEF Finished
      <3> QED BY <3>3, <3>4
    <2> QED BY <2>1, <2>2
  <1>7. pendingSum = AmountOf(EventNumbers \ settledEvents) /\ settledSum = AmountOf(settledEvents)
    BY <1>1 DEF EventsSummed, AmountOf, Worth, Total
  <1>8. \A e \in EventNumbers : booked[e] > 1 => e \in lost
    BY <1>1, <1>2 DEF EventsBooked
  <1> QED BY <1>1, <1>5, <1>6, <1>7, <1>8 DEF EarningsAddUp, EventsBooked

LEMMA EngineBegins == EngineInit => EngineInv
  <1> SUFFICES ASSUME EngineInit PROVE EngineInv
    OBVIOUS
  <1>1. /\ rate = DefaultRate /\ events = << >> /\ waiting = << >> /\ batches = {} /\ settledEvents = {} /\ refused = {} /\ lost = {}
        /\ pendingSum = 0 /\ settledSum = 0 /\ booked = [e \in 1..MaxEarned |-> 0] /\ hasWallet \in BOOLEAN /\ engineOn = TRUE
    BY DEF EngineInit
  <1>2. Len(<< >>) = 0 /\ 1..0 = {} /\ DOMAIN << >> = {} /\ \A S : << >> \in Seq(S)
    OBVIOUS
  <1>3. EventNumbers = {} /\ MaxEarned \in Nat /\ DefaultRate \in Nat
    BY <1>1, <1>2, EngineAssumption DEF EventNumbers
  <1>4. EventsTyped
    BY <1>1, <1>2, <1>3 DEF EventsTyped
  <1>5. EventsSummed
    <2>1. EventNumbers \ settledEvents = {} /\ settledEvents = {}
      BY <1>1, <1>3
    <2> QED BY <1>1, <2>1, SumOfNone DEF EventsSummed
  <1>6. EventsBooked
    BY <1>1 DEF EventsBooked
  <1>7. EventsApart
    <2>1. Range(<< >>) = {} /\ Distinct(<< >>)
      BY <1>2 DEF Range, Distinct
    <2>2. Finished = {} /\ Len(events) = 0
      BY <1>1, <1>2 DEF Finished
    <2> QED BY <1>1, <1>2, <2>1, <2>2 DEF EventsApart, Apart
  <1> QED BY <1>4, <1>5, <1>6, <1>7 DEF EngineInv

-----------------------------------------------------------------------------
(* What the steps do to the places of events.                                   *)
CutsInto(q, h, t, m) ==
    /\ h = SubSeq(q, 1, Ceil(BatchSize, Len(q))) /\ t = SubSeq(q, BatchSize + 1, Len(q))
    /\ DOMAIN h = 1..m /\ m <= Len(q) /\ Len(q) \in Nat /\ DOMAIN t = 1..(Len(q) - m)
    /\ \A i \in 1..m : h[i] = q[i]
    /\ \A i \in 1..(Len(q) - m) : t[i] = q[i + m]
LEMMA QueueCut ==
  ASSUME NEW S, NEW q \in Seq(S), q # << >>
  PROVE  \E h, t \in Seq(S), m \in Nat \ {0} : CutsInto(q, h, t, m)
  <1>1. BatchSize \in Nat \ {0} /\ Len(q) \in Nat \ {0}
    BY EngineAssumption
  <1>2. PICK m \in Nat \ {0} : m = Ceil(BatchSize, Len(q)) /\ m <= Len(q) /\ (m = BatchSize \/ (m = Len(q) /\ Len(q) < BatchSize))
    BY <1>1 DEF Ceil
  <1>3. PICK h : h = SubSeq(q, 1, m)
    OBVIOUS
  <1>4. h \in Seq(S) /\ DOMAIN h = 1..m /\ \A i \in 1..m : h[i] = q[i]
    <2>1. h = [i \in 1..(1 + m - 1) |-> q[i + 1 - 1]]
      BY <1>1, <1>2, <1>3
    <2>2. h = [i \in 1..m |-> q[i]]
      BY <1>2, <2>1
    <2>3. \A i \in 1..m : q[i] \in S
      BY <1>1, <1>2
    <2> QED BY <2>2, <2>3
  <1>5. PICK t : t = SubSeq(q, BatchSize + 1, Len(q))
    OBVIOUS
  <1>6. t \in Seq(S) /\ DOMAIN t = 1..(Len(q) - m) /\ \A i \in 1..(Len(q) - m) : t[i] = q[i + m]
    <2>1. CASE m = BatchSize
      <3>1. PICK n \in Nat : n = Len(q)
        BY <1>1
      <3>2. t = [i \in 1..(1 + n - (m + 1)) |-> q[i + (m + 1) - 1]]
        BY <1>1, <1>2, <1>5, <2>1, <3>1
      <3>3. 1 + n - (m + 1) = n - m /\ \A i \in 1..(n - m) : i + (m + 1) - 1 = i + m
        BY <1>2, <3>1
      <3>4. t = [i \in 1..(n - m) |-> q[i + m]]
        BY <3>2, <3>3
      <3>5. \A i \in 1..(n - m) : q[i + m] \in S
        BY <1>1, <1>2, <3>1
      <3>6. n - m \in Nat
        BY <1>2, <3>1
      <3> QED BY <3>1, <3>4, <3>5, <3>6
    <2>2. CASE m = Len(q) /\ Len(q) < BatchSize
      <3>1. t = << >>
        BY <1>1, <1>5, <2>2
      <3>2. 1..(Len(q) - m) = {}
        BY <1>1, <2>2
      <3> QED BY <3>1, <3>2
    <2> QED BY <1>2, <2>1, <2>2
  <1>7. CutsInto(q, h, t, m)
    BY <1>1, <1>2, <1>3, <1>4, <1>5, <1>6 DEF CutsInto
  <1> QED BY <1>4, <1>6, <1>7

(* A queue is cut in two; its pieces, read apart.                               *)
LEMMA CutApart ==
  ASSUME NEW q, NEW h, NEW t, NEW N \in Nat, NEW m \in Nat, m <= N,
         DOMAIN q = 1..N, DOMAIN h = 1..m, DOMAIN t = 1..(N - m), Distinct(q),
         \A i \in 1..m : h[i] = q[i], \A i \in 1..(N - m) : t[i] = q[i + m]
  PROVE  Distinct(h) /\ Distinct(t) /\ Range(h) \cap Range(t) = {}
  <1>1. \A i \in 1..m : i \in 1..N
    OBVIOUS
  <1>2. \A i \in 1..(N - m) : i + m \in 1..N /\ i + m \notin 1..m
    OBVIOUS
  <1>3. \A i, j \in 1..N : q[i] = q[j] => i = j
    BY DEF Distinct
  <1>4. Distinct(h)
    BY <1>1, <1>3 DEF Distinct
  <1>5. Distinct(t)
    <2> SUFFICES ASSUME NEW i \in 1..(N - m), NEW j \in 1..(N - m), t[i] = t[j] PROVE i = j
      BY DEF Distinct
    <2>1. q[i + m] = q[j + m]
      OBVIOUS
    <2>2. i + m = j + m
      BY <1>2, <1>3, <2>1
    <2> QED BY <2>2
  <1>6. Range(h) \cap Range(t) = {}
    <2> SUFFICES ASSUME NEW i \in 1..m, NEW j \in 1..(N - m), h[i] = t[j] PROVE FALSE
      BY DEF Range
    <2>1. q[i] = q[j + m]
      OBVIOUS
    <2>2. i = j + m
      BY <1>1, <1>2, <1>3, <2>1
    <2> QED BY <1>2, <2>2
  <1> QED BY <1>4, <1>5, <1>6

LEMMA BatchCut ==
  ASSUME NEW q, NEW out, NEW over, NEW n \in Nat, Apart(q, out, over, n), q # << >>
  PROVE  Apart(SubSeq(q, BatchSize + 1, Len(q)), out \cup {SubSeq(q, 1, Ceil(BatchSize, Len(q)))}, over, n)
  <1>1. q \in Seq(1..n) /\ Distinct(q)
    BY DEF Apart
  <1>2. PICK S : S = 1..n
    OBVIOUS
  <1>2a. \E h, t \in Seq(S), m \in Nat \ {0} : CutsInto(q, h, t, m)
    <2>1. q \in Seq(S) /\ q # << >>
      BY <1>1, <1>2
    <2> QED BY <2>1, QueueCut, Zenon
  <1>3. PICK h, t \in Seq(S), m \in Nat \ {0} : CutsInto(q, h, t, m)
    BY <1>2a
  <1> USE DEF CutsInto
  <1>3a. PICK N \in Nat : N = Len(q)
    BY <1>3
  <1>4. DOMAIN q = 1..N /\ DOMAIN h = 1..m /\ DOMAIN t = 1..(N - m) /\ m <= N
    BY <1>1, <1>3, <1>3a
  <1>5. Distinct(h) /\ Distinct(t) /\ Range(h) \cap Range(t) = {} /\ h # << >>
    <2>1. (\A i \in 1..m : h[i] = q[i]) /\ (\A i \in 1..(N - m) : t[i] = q[i + m])
      BY <1>3, <1>3a
    <2>2. Distinct(h) /\ Distinct(t) /\ Range(h) \cap Range(t) = {}
      BY <1>1, <1>4, <2>1, CutApart
    <2>3. 1 \in DOMAIN h
      BY <1>4
    <2> QED BY <2>2, <2>3
  <1>6. Range(h) \subseteq Range(q) /\ Range(t) \subseteq Range(q) /\ Range(q) \subseteq Range(h) \cup Range(t)
    <2>1. \A i \in 1..m : i \in 1..N
      BY <1>4
    <2>2. \A i \in 1..(N - m) : i + m \in 1..N
      BY <1>4
    <2>3. Range(h) \subseteq Range(q) /\ Range(t) \subseteq Range(q)
      <3>1. \A i \in 1..m : h[i] = q[i] /\ i \in DOMAIN q
        BY <1>3, <1>4, <2>1
      <3>2. \A i \in 1..(N - m) : t[i] = q[i + m] /\ i + m \in DOMAIN q
        BY <1>3, <1>3a, <1>4, <2>2
      <3> QED BY <1>4, <3>1, <3>2 DEF Range
    <2>5. Range(q) \subseteq Range(h) \cup Range(t)
      <3> SUFFICES ASSUME NEW k \in 1..N PROVE q[k] \in Range(h) \cup Range(t)
        BY <1>4 DEF Range
      <3>1. CASE k \in 1..m
        BY <1>3, <3>1 DEF Range
      <3>2. CASE k \notin 1..m
        <4>1. k - m \in 1..(N - m) /\ (k - m) + m = k
          BY <1>4, <3>2
        <4>2. t[k - m] = q[k]
          BY <1>3, <1>3a, <4>1
        <4> QED BY <1>4, <4>1, <4>2 DEF Range
      <3> QED BY <3>1, <3>2
    <2> QED BY <2>3, <2>5
  <1>7. PICK all : all = out \cup {h}
    OBVIOUS
  <1>8. \A b \in all : b \in Seq(1..n) /\ b # << >> /\ Distinct(b)
    <2>1. h \in Seq(1..n)
      BY <1>2, <1>3
    <2> QED BY <1>5, <1>7, <2>1 DEF Apart
  <1>9. \A b \in all : Range(b) \cap Range(t) = {} /\ Range(b) \cap over = {}
    BY <1>5, <1>6, <1>7 DEF Apart
  <1>10. \A b, c \in all : b # c => Range(b) \cap Range(c) = {}
    <2>1. \A b \in out : Range(b) \cap Range(h) = {}
      BY <1>6 DEF Apart
    <2> QED BY <1>7, <2>1 DEF Apart
  <1>11. \A e \in 1..n : e \in Range(t) \/ e \in over \/ \E b \in all : e \in Range(b)
    BY <1>6, <1>7 DEF Apart
  <1>12. Range(t) \cap over = {} /\ over \subseteq 1..n
    BY <1>6 DEF Apart
  <1>13. Apart(t, all, over, n)
    <2>1. t \in Seq(1..n)
      BY <1>2, <1>3
    <2> QED BY <1>5, <1>8, <1>9, <1>10, <1>11, <1>12, <2>1 DEF Apart
  <1> QED BY <1>3, <1>7, <1>13

LEMMA BatchBack ==
  ASSUME NEW q, NEW out, NEW over, NEW n \in Nat, Apart(q, out, over, n), NEW b \in out
  PROVE  Apart(b \o q, out \ {b}, over, n)
  <1>1. /\ q \in Seq(1..n) /\ Distinct(q) /\ b \in Seq(1..n) /\ Distinct(b) /\ Range(b) \cap Range(q) = {}
    BY DEF Apart
  <1>2. PICK all : all = b \o q
    OBVIOUS
  <1>3. /\ all \in Seq(1..n) /\ Len(b) \in Nat /\ Len(q) \in Nat /\ DOMAIN b = 1..Len(b) /\ DOMAIN q = 1..Len(q)
        /\ DOMAIN all = 1..(Len(b) + Len(q))
        /\ \A i \in 1..Len(b) : all[i] = b[i]
        /\ \A i \in Len(b) + 1..Len(b) + Len(q) : all[i] = q[i - Len(b)]
    BY <1>1, <1>2
  <1>4. \A i \in DOMAIN all : (i \in DOMAIN b /\ all[i] = b[i]) \/ (i \notin DOMAIN b /\ i - Len(b) \in DOMAIN q /\ all[i] = q[i - Len(b)])
    <2> TAKE i \in DOMAIN all
    <2>1. CASE i \in 1..Len(b)
      BY <1>3, <2>1
    <2>2. CASE i \notin 1..Len(b)
      <3>1. i \in Len(b) + 1..Len(b) + Len(q) /\ i - Len(b) \in 1..Len(q)
        BY <1>3, <2>2
      <3> QED BY <1>3, <2>2, <3>1
    <2> QED BY <2>1, <2>2
  <1>5. Range(all) = Range(b) \cup Range(q)
    <2>1. Range(all) \subseteq Range(b) \cup Range(q)
      BY <1>4 DEF Range
    <2>2. Range(b) \subseteq Range(all)
      <3>1. \A i \in 1..Len(b) : i \in 1..(Len(b) + Len(q))
        BY <1>3
      <3> QED BY <1>3, <3>1 DEF Range
    <2>3. Range(q) \subseteq Range(all)
      <3> SUFFICES ASSUME NEW k \in 1..Len(q) PROVE q[k] \in Range(all)
        BY <1>3 DEF Range
      <3>1. k + Len(b) \in Len(b) + 1..Len(b) + Len(q) /\ (k + Len(b)) - Len(b) = k /\ k + Len(b) \in 1..(Len(b) + Len(q))
        BY <1>3
      <3>2. all[k + Len(b)] = q[k]
        BY <1>3, <3>1
      <3> QED BY <1>3, <3>1, <3>2 DEF Range
    <2> QED BY <2>1, <2>2, <2>3
  <1>6. Distinct(all)
    <2> SUFFICES ASSUME NEW i \in DOMAIN all, NEW j \in DOMAIN all, all[i] = all[j] PROVE i = j
      BY DEF Distinct
    <2>1. \A k \in DOMAIN b : b[k] \in Range(b)
      BY DEF Range
    <2>2. \A k \in DOMAIN q : q[k] \in Range(q)
      BY DEF Range
    <2>3. CASE i \in DOMAIN b /\ j \in DOMAIN b
      BY <1>1, <1>4, <2>3 DEF Distinct
    <2>4. CASE i \notin DOMAIN b /\ j \notin DOMAIN b
      <3>1. i - Len(b) = j - Len(b)
        BY <1>1, <1>4, <2>4 DEF Distinct
      <3> QED BY <1>3, <3>1
    <2>5. CASE i \in DOMAIN b /\ j \notin DOMAIN b
      BY <1>1, <1>4, <2>1, <2>2, <2>5
    <2>6. CASE i \notin DOMAIN b /\ j \in DOMAIN b
      BY <1>1, <1>4, <2>1, <2>2, <2>6
    <2> QED BY <2>3, <2>4, <2>5, <2>6
  <1>7. PICK others : others = out \ {b}
    OBVIOUS
  <1>8. Apart(all, others, over, n)
    <2>1. \A c \in others : c \in Seq(1..n) /\ c # << >> /\ Distinct(c)
      BY <1>7 DEF Apart
    <2>2. \A c \in others : Range(c) \cap Range(all) = {} /\ Range(c) \cap over = {}
      <3>1. \A c \in others : Range(c) \cap Range(b) = {} /\ Range(c) \cap Range(q) = {} /\ Range(c) \cap over = {}
        BY <1>7 DEF Apart
      <3> QED BY <1>5, <3>1
    <2>3. \A c, d \in others : c # d => Range(c) \cap Range(d) = {}
      BY <1>7 DEF Apart
    <2>4. Range(all) \cap over = {} /\ over \subseteq 1..n
      BY <1>5 DEF Apart
    <2>5. \A e \in 1..n : e \in Range(all) \/ e \in over \/ \E c \in others : e \in Range(c)
      BY <1>5, <1>7 DEF Apart
    <2> QED BY <1>3, <1>6, <2>1, <2>2, <2>3, <2>4, <2>5 DEF Apart
  <1> QED BY <1>2, <1>7, <1>8

LEMMA BatchOver ==
  ASSUME NEW q, NEW out, NEW over, NEW n \in Nat, Apart(q, out, over, n), NEW b \in out
  PROVE  Apart(q, out \ {b}, over \cup Range(b), n) /\ Range(b) \cap over = {} /\ Range(b) \subseteq 1..n
  <1>1. b \in Seq(1..n) /\ Range(b) \cap over = {} /\ Range(b) \cap Range(q) = {}
    BY DEF Apart
  <1>2. Range(b) \subseteq 1..n
    BY <1>1, SeqIsFinite
  <1>3. PICK others, done : others = out \ {b} /\ done = over \cup Range(b)
    OBVIOUS
  <1>4. \A c \in others : Range(c) \cap Range(q) = {} /\ Range(c) \cap done = {}
    <2>1. \A c \in others : Range(c) \cap Range(b) = {} /\ Range(c) \cap Range(q) = {} /\ Range(c) \cap over = {}
      BY <1>3 DEF Apart
    <2> QED BY <1>3, <2>1
  <1>5. Range(q) \cap done = {} /\ done \subseteq 1..n
    BY <1>1, <1>2, <1>3 DEF Apart
  <1>6. \A e \in 1..n : e \in Range(q) \/ e \in done \/ \E c \in others : e \in Range(c)
    BY <1>3 DEF Apart
  <1>7. \A c \in others : c \in Seq(1..n) /\ c # << >> /\ Distinct(c)
    BY <1>3 DEF Apart
  <1>8. \A c, d \in others : c # d => Range(c) \cap Range(d) = {}
    BY <1>3 DEF Apart
  <1>9. q \in Seq(1..n) /\ Distinct(q)
    BY DEF Apart
  <1> QED BY <1>1, <1>2, <1>3, <1>4, <1>5, <1>6, <1>7, <1>8, <1>9 DEF Apart

LEMMA EventAdded ==
  ASSUME NEW q, NEW out, NEW over, NEW n \in Nat, Apart(q, out, over, n)
  PROVE  Apart(Append(q, n + 1), out, over, n + 1) /\ Append(q, n + 1) # << >>
  <1>1. q \in Seq(1..n) /\ Distinct(q) /\ over \subseteq 1..n
    BY DEF Apart
  <1>2. 1..n \subseteq 1..(n + 1) /\ n + 1 \in 1..(n + 1) /\ n + 1 \notin 1..n /\ 1..(n + 1) = (1..n) \cup {n + 1}
    OBVIOUS
  <1>3. \A s : s \in Seq(1..n) => s \in Seq(1..(n + 1)) /\ Range(s) \subseteq 1..n
    BY <1>2, SeqIsFinite
  <1>4. PICK all : all = Append(q, n + 1)
    OBVIOUS
  <1>5. /\ all \in Seq(1..(n + 1)) /\ all # << >> /\ Len(q) \in Nat /\ DOMAIN q = 1..Len(q) /\ DOMAIN all = 1..(Len(q) + 1)
        /\ \A i \in 1..Len(q) : all[i] = q[i] /\ q[i] \in 1..n
        /\ all[Len(q) + 1] = n + 1
    BY <1>1, <1>2, <1>3, <1>4
  <1>6. 1..(Len(q) + 1) = (1..Len(q)) \cup {Len(q) + 1}
    BY <1>5
  <1>7. Range(all) = Range(q) \cup {n + 1}
    BY <1>5, <1>6 DEF Range
  <1>8. Distinct(all)
    BY <1>1, <1>2, <1>5, <1>6 DEF Distinct
  <1>9. \A b \in out : b \in Seq(1..(n + 1)) /\ b # << >> /\ Distinct(b) /\ Range(b) \subseteq 1..n
    BY <1>3 DEF Apart
  <1>10. \A b \in out : Range(b) \cap Range(all) = {} /\ Range(b) \cap over = {}
    <2>1. \A b \in out : Range(b) \cap Range(q) = {} /\ Range(b) \cap over = {}
      BY DEF Apart
    <2> QED BY <1>2, <1>7, <1>9, <2>1
  <1>11. Range(all) \cap over = {} /\ over \subseteq 1..(n + 1)
    BY <1>1, <1>2, <1>7 DEF Apart
  <1>12. \A e \in 1..(n + 1) : e \in Range(all) \/ e \in over \/ \E b \in out : e \in Range(b)
    BY <1>2, <1>7 DEF Apart
  <1>13. \A b, c \in out : b # c => Range(b) \cap Range(c) = {}
    BY DEF Apart
  <1> QED BY <1>4, <1>5, <1>8, <1>9, <1>10, <1>11, <1>12, <1>13 DEF Apart

LEMMA QueueSettled ==
  ASSUME NEW q, NEW over, NEW n \in Nat, Apart(q, batches, over, n), Settle(q)
  PROVE  Apart(waiting', batches', over, n)
  <1>1. CASE q = << >> \/ ~hasWallet
    BY <1>1 DEF Settle
  <1>2. CASE ~(q = << >> \/ ~hasWallet)
    <2>1. waiting' = SubSeq(q, BatchSize + 1, Len(q)) /\ batches' = batches \cup {SubSeq(q, 1, Ceil(BatchSize, Len(q)))}
      BY <1>2 DEF Settle
    <2> QED BY <1>2, <2>1, BatchCut
  <1> QED BY <1>1, <1>2

-----------------------------------------------------------------------------
LEMMA EventRecorded ==
  ASSUME EngineInv, NEW s \in Streams, NEW kind \in 1..MaxWork, RecordEvent(s, kind)
  PROVE  EngineInv'
  <1> DEFINE n == Len(events)
             w == rate * kind
  <1>1. EventsApart /\ EventsTyped /\ EventsSummed /\ EventsBooked /\ n \in Nat /\ MaxEarned \in Nat /\ MaxWork \in Nat
    BY EventsKnown, EngineAssumption DEF EngineInv
  <1>2. rate \in Nat /\ rate > 0 /\ kind \in Nat /\ kind > 0 /\ n < MaxEarned
    BY <1>1 DEF RecordEvent, EventsTyped
  <1>3. w \in Nat \ {0}
    BY <1>2
  <1>4. events' = Append(events, [stream |-> s, amount |-> w]) /\ pendingSum' = pendingSum + w
        /\ UNCHANGED <<rate, settledEvents, refused, settledSum, booked, lost, hasWallet, engineOn>>
    BY DEF RecordEvent
  <1> HIDE DEF w
  <1>5. [stream |-> s, amount |-> w] \in EventRecord /\ [stream |-> s, amount |-> w].amount = w
    BY <1>3 DEF EventRecord
  <1>6. PICK new \in EventRecord : new = [stream |-> s, amount |-> w] /\ new.amount = w
    BY <1>5
  <1>7. /\ events' \in Seq(EventRecord) /\ Len(events') = n + 1 /\ events'[n + 1] = new
        /\ \A e \in 1..n : events'[e] = events[e]
        /\ DOMAIN events = 1..n /\ DOMAIN events' = 1..(n + 1)
    BY <1>1, <1>4, <1>6 DEF EventsTyped
  <1>8. EventNumbers = 1..n /\ EventNumbers' = 1..(n + 1) /\ 1..(n + 1) = (1..n) \cup {n + 1} /\ n + 1 \notin 1..n
    BY <1>1, <1>7 DEF EventNumbers
  <1>9. EventsTyped'
    <2>1. lost' \subseteq EventNumbers'
      BY <1>1, <1>4, <1>8 DEF EventsTyped
    <2>2. Len(events') <= MaxEarned
      BY <1>1, <1>2, <1>7
    <2> QED BY <1>1, <1>4, <1>7, <2>1, <2>2 DEF EventsTyped
  <1>10. EventsApart'
    <2>1. Finished' = Finished /\ Apart(waiting, batches, Finished, n)
      BY <1>1, <1>4 DEF Finished, EventsApart
    <2>2. PICK over, q : over = Finished /\ q = Append(waiting, n + 1)
      OBVIOUS
    <2>3. Apart(q, batches, over, n + 1)
      BY <1>1, <2>1, <2>2, EventAdded
    <2>4. IF Len(q) >= BatchSize THEN Settle(q) ELSE waiting' = q /\ UNCHANGED batches
      BY <2>2 DEF RecordEvent
    <2>5. Apart(waiting', batches', over, n + 1)
      <3>1. n + 1 \in Nat
        BY <1>1
      <3> HIDE DEF n
      <3>2. PICK m \in Nat : m = n + 1
        BY <3>1
      <3>3. Apart(q, batches, over, m)
        BY <2>3, <3>2
      <3>4. Apart(waiting', batches', over, m)
        BY <2>4, <3>3, QueueSettled
      <3> QED BY <3>2, <3>4
    <2> QED BY <1>1, <1>4, <1>7, <2>1, <2>2, <2>5 DEF EventsApart
  <1>11. EventsSummed'
    <2>1. settledEvents \subseteq 1..n
      BY <1>1 DEF EventsApart, Apart, Finished
    <2>2. PICK f, g, S, P : f = Worth /\ g = Worth' /\ S = settledEvents /\ P = (1..n) \ settledEvents
      OBVIOUS
    <2>3. \A e \in 1..n : g[e] = f[e] /\ f[e] \in Nat
      <3>1. \A e \in 1..n : f[e] = events[e].amount /\ f[e] \in Nat
        BY <1>1, <1>8, <2>2, EventsKnown DEF Worth, Amounts
      <3>2. \A e \in 1..n : g[e] = events'[e].amount
        BY <1>8, <2>2 DEF Worth
      <3> QED BY <1>7, <3>1, <3>2
    <2>4. g[n + 1] = w
      BY <1>6, <1>7, <1>8, <2>2 DEF Worth
    <2>5. IsFiniteSet(S) /\ IsFiniteSet(P) /\ S \subseteq 1..n /\ P \subseteq 1..n
      BY <1>1, <1>8, <2>1, <2>2, EventsKnown, FS_Subset
    <2>6. Total(g, S) = Total(f, S) /\ Total(g, P) = Total(f, P)
      BY <2>3, <2>5, SumOfSame
    <2>7. PICK k : k = n + 1
      OBVIOUS
    <2>8. k \notin P /\ Amounts(g, P \cup {k}) /\ g[k] = w
      <3>1. IsFiniteSet(P \cup {k})
        BY <2>5, FS_AddElement
      <3>2. \A e \in P \cup {k} : g[e] \in Nat
        BY <1>3, <2>3, <2>4, <2>5, <2>7
      <3> QED BY <1>8, <2>4, <2>5, <2>7, <3>1, <3>2 DEF Amounts
    <2>9. Total(g, P \cup {k}) = Total(g, P) + w
      BY <2>8, SumAdds
    <2>10. (EventNumbers \ settledEvents)' = P \cup {k}
      BY <1>4, <1>8, <2>1, <2>2, <2>7
    <2>11. pendingSum = Total(f, P) /\ settledSum = Total(f, S)
      BY <1>1, <1>8, <2>2 DEF EventsSummed
    <2>12. Total(Worth, settledEvents)' = Total(g, S) /\ Total(Worth, EventNumbers \ settledEvents)' = Total(g, P \cup {k})
      BY <1>4, <2>2, <2>10 DEF Total
    <2>13. settledSum' = Total(Worth, settledEvents)'
      BY <1>4, <2>6, <2>11, <2>12
    <2>14. pendingSum' = Total(Worth, EventNumbers \ settledEvents)'
      BY <1>4, <2>6, <2>9, <2>11, <2>12
    <2> QED BY <2>13, <2>14 DEF EventsSummed
  <1>12. EventsBooked'
    BY <1>1, <1>4 DEF EventsBooked
  <1> QED BY <1>9, <1>10, <1>11, <1>12 DEF EngineInv

(* A settlement begins, or one ends without being booked here: the events and   *)
(* what is said of them stay.                                                   *)
LEMMA OnlyPlacesChange ==
  ASSUME EngineInv, Apart(waiting', batches', Finished', Len(events)), (settledEvents \cap refused = {})',
         UNCHANGED <<rate, events, settledEvents, pendingSum, settledSum, booked, lost>>, hasWallet' \in BOOLEAN, engineOn' \in BOOLEAN
  PROVE  EngineInv'
  <1>1. EventsApart'
    BY DEF EventsApart
  <1>2. EventNumbers' = EventNumbers /\ Worth' = Worth
    BY DEF EventNumbers, Worth
  <1>3. EventsTyped' /\ EventsBooked'
    BY <1>2 DEF EngineInv, EventsTyped, EventsBooked
  <1>4. Total(Worth, settledEvents)' = Total(Worth, settledEvents) /\ Total(Worth, EventNumbers \ settledEvents)' = Total(Worth, EventNumbers \ settledEvents)
    BY <1>2 DEF Total
  <1>5. EventsSummed'
    BY <1>4 DEF EngineInv, EventsSummed
  <1> QED BY <1>1, <1>3, <1>5 DEF EngineInv

LEMMA BatchKnown ==
  ASSUME EngineInv, NEW b \in batches
  PROVE  /\ Range(b) \subseteq EventNumbers /\ Range(b) \cap Finished = {} /\ Range(b) \subseteq 1..MaxEarned
         /\ Amount(b) = Total(Worth, Range(b)) /\ Amount(b) \in Nat
  <1>1. EventsApart /\ EventsTyped
    BY DEF EngineInv
  <1>2. b \in Seq(EventNumbers) /\ Distinct(b) /\ Range(b) \cap Finished = {}
    BY <1>1, EventsKnown DEF EventsApart, Apart
  <1>3. IsFiniteSet(DOMAIN b) /\ Range(b) \subseteq EventNumbers
    BY <1>2, SeqIsFinite
  <1>4. PICK f, g, D : f = [i \in DOMAIN b |-> events[b[i]].amount] /\ g = Worth /\ D = DOMAIN b
    OBVIOUS
  <1>5. \A i \in D : f[i] = g[b[i]] /\ f[i] \in Nat
    <2> TAKE i \in D
    <2>1. b[i] \in EventNumbers
      BY <1>2, <1>4
    <2>2. f[i] = events[b[i]].amount /\ g[b[i]] = events[b[i]].amount
      BY <1>4, <2>1 DEF Worth
    <2>3. g[b[i]] \in Nat
      BY <1>1, <1>4, <2>1, EventsKnown DEF Amounts
    <2> QED BY <2>2, <2>3
  <1>6. IsFiniteSet(D) /\ \A i, j \in D : b[i] = b[j] => i = j
    BY <1>2, <1>3, <1>4 DEF Distinct
  <1>7. Total(f, D) = Total(g, {b[i] : i \in D})
    BY <1>5, <1>6, SumOfImage
  <1>8. {b[i] : i \in D} = Range(b)
    BY <1>4 DEF Range
  <1>9. Amount(b) = Total(f, D)
    BY <1>4 DEF Amount, Total
  <1>10. Amount(b) = Total(Worth, Range(b))
    BY <1>4, <1>7, <1>8, <1>9
  <1> QED BY <1>1, <1>2, <1>3, <1>10, EventsKnown

LEMMA BatchIsSettled ==
  ASSUME EngineInv, NEW b \in batches, BatchAccepted(b)
  PROVE  EngineInv'
  <1>1. EventsApart /\ EventsTyped /\ EventsSummed /\ EventsBooked
    BY DEF EngineInv
  <1>2. /\ booked' = Book(b) /\ batches' = batches \ {b} /\ settledEvents' = settledEvents \cup Range(b)
        /\ pendingSum' = pendingSum - Amount(b) /\ settledSum' = settledSum + Amount(b)
        /\ UNCHANGED <<rate, events, waiting, refused, lost, hasWallet, engineOn>>
    BY DEF BatchAccepted
  <1>3. /\ Range(b) \subseteq EventNumbers /\ Range(b) \cap Finished = {} /\ Range(b) \subseteq 1..MaxEarned
        /\ Amount(b) = Total(Worth, Range(b)) /\ Amount(b) \in Nat
    BY BatchKnown
  <1>4. EventNumbers' = EventNumbers /\ Worth' = Worth
    BY <1>2 DEF EventNumbers, Worth
  <1>5. EventsTyped'
    BY <1>1, <1>2, <1>4 DEF EventsTyped
  <1>6. EventsApart'
    <2>1. Len(events) \in Nat
      BY <1>1, EventsKnown
    <2>2. PICK n, over : n \in Nat /\ n = Len(events) /\ over = Finished
      BY <2>1
    <2>3. Apart(waiting, batches \ {b}, over \cup Range(b), n)
      BY <1>1, <2>2, BatchOver DEF EventsApart
    <2>4. Finished' = over \cup Range(b)
      BY <1>2, <2>2 DEF Finished
    <2>5. (settledEvents \cap refused = {})'
      BY <1>1, <1>2, <1>3 DEF Finished, EventsApart
    <2> QED BY <1>2, <2>2, <2>3, <2>4, <2>5 DEF EventsApart
  <1>7. EventsSummed'
    <2>1. PICK f, S, R, P : f = Worth /\ S = settledEvents /\ R = Range(b) /\ P = EventNumbers \ (S \cup R)
      OBVIOUS
    <2>2. S \subseteq EventNumbers /\ R \subseteq EventNumbers /\ S \cap R = {}
      BY <1>1, <1>3, <2>1, EventsKnown DEF EventsApart, Apart, Finished
    <2>3. P \cup R = EventNumbers \ S /\ P \cap R = {} /\ P \cup R \subseteq EventNumbers /\ S \cup R \subseteq EventNumbers /\ P \subseteq EventNumbers
      BY <2>1, <2>2
    <2>4. Amounts(f, P \cup R) /\ Amounts(f, S \cup R)
      BY <1>1, <2>1, <2>3, EventsKnown
    <2>5. /\ Total(f, P \cup R) = Total(f, P) + Total(f, R) /\ Total(f, S \cup R) = Total(f, S) + Total(f, R)
          /\ Total(f, P) \in Nat /\ Total(f, R) \in Nat /\ Total(f, S) \in Nat
      BY <2>2, <2>3, <2>4, SumOfUnion
    <2>6. pendingSum = Total(f, P \cup R) /\ settledSum = Total(f, S) /\ Amount(b) = Total(f, R)
      BY <1>1, <1>3, <2>1, <2>3 DEF EventsSummed
    <2>7. pendingSum' = Total(f, P) /\ settledSum' = Total(f, S \cup R)
      BY <1>2, <2>5, <2>6
    <2>8. settledEvents' = S \cup R /\ (EventNumbers \ settledEvents)' = P
      BY <1>2, <1>4, <2>1
    <2>9. Total(Worth, settledEvents)' = Total(f, S \cup R) /\ Total(Worth, EventNumbers \ settledEvents)' = Total(f, P)
      BY <1>4, <2>1, <2>8 DEF Total
    <2> QED BY <2>7, <2>9 DEF EventsSummed
  <1>8. EventsBooked'
    <2>1. /\ booked \in [1..MaxEarned -> Nat]
          /\ \A e \in 1..MaxEarned : /\ booked[e] >= 1 => e \in settledEvents \cup lost
                                     /\ booked[e] > 1 => e \in lost
          /\ \A e \in settledEvents : booked[e] >= 1
      BY <1>1 DEF EventsBooked
    <2>2. booked' \in [1..MaxEarned -> Nat] /\ \A e \in 1..MaxEarned : booked'[e] = IF e \in Range(b) THEN booked[e] + 1 ELSE booked[e]
      BY <1>2, <2>1 DEF Book
    <2>3. Range(b) \cap settledEvents = {}
      BY <1>3 DEF Finished
    <2>4. settledEvents \subseteq 1..MaxEarned
      BY <1>1, EventsKnown DEF EventsApart, Apart, Finished
    <2>5. ASSUME NEW e \in 1..MaxEarned
          PROVE  (booked'[e] >= 1 => e \in settledEvents' \cup lost') /\ (booked'[e] > 1 => e \in lost') /\ (e \in settledEvents' => booked'[e] >= 1)
      <3>1. booked[e] \in Nat
        BY <2>1
      <3>2. CASE e \in Range(b)
        BY <1>2, <2>1, <2>2, <2>3, <3>1, <3>2
      <3>3. CASE e \notin Range(b)
        BY <1>2, <2>1, <2>2, <3>1, <3>3
      <3> QED BY <3>2, <3>3
    <2>6. settledEvents' \subseteq 1..MaxEarned
      BY <1>2, <1>3, <2>4
    <2> QED BY <2>2, <2>5, <2>6 DEF EventsBooked
  <1> QED BY <1>5, <1>6, <1>7, <1>8 DEF EngineInv

LEMMA PutBackIsApart ==
  ASSUME EngineInv, NEW b \in batches, PutBack(b), UNCHANGED <<settledEvents, refused>>
  PROVE  Apart(waiting', batches', Finished', Len(events)) /\ (settledEvents \cap refused = {})'
  <1>1. EventsApart /\ EventsTyped
    BY DEF EngineInv
  <1>2. PICK n, over : n \in Nat /\ n = Len(events) /\ over = Finished
    BY <1>1, EventsKnown
  <1>3. Apart(b \o waiting, batches \ {b}, over, n)
    BY <1>1, <1>2, BatchBack DEF EventsApart
  <1>4. Finished' = Finished /\ waiting' = b \o waiting /\ batches' = batches \ {b}
    BY DEF Finished, PutBack
  <1> QED BY <1>1, <1>2, <1>3, <1>4 DEF EventsApart

LEMMA ReplyNotHeard ==
  ASSUME EngineInv, NEW b \in batches, ReplyIsLost(b)
  PROVE  EngineInv'
  <1>1. EventsApart /\ EventsTyped /\ EventsSummed /\ EventsBooked
    BY DEF EngineInv
  <1>2. /\ booked' = Book(b) /\ lost' = lost \cup Range(b) /\ PutBack(b)
        /\ UNCHANGED <<rate, events, settledEvents, refused, pendingSum, settledSum, hasWallet, engineOn>>
    BY DEF ReplyIsLost
  <1>3. Range(b) \subseteq EventNumbers /\ Range(b) \subseteq 1..MaxEarned
    BY BatchKnown
  <1>4. EventNumbers' = EventNumbers /\ Worth' = Worth
    BY <1>2 DEF EventNumbers, Worth
  <1>5. EventsTyped'
    BY <1>1, <1>2, <1>3, <1>4 DEF EventsTyped
  <1>6. EventsApart'
    BY <1>2, PutBackIsApart DEF EventsApart
  <1>7. EventsSummed'
    <2>1. Total(Worth, settledEvents)' = Total(Worth, settledEvents) /\ Total(Worth, EventNumbers \ settledEvents)' = Total(Worth, EventNumbers \ settledEvents)
      BY <1>2, <1>4 DEF Total
    <2> QED BY <1>1, <1>2, <2>1 DEF EventsSummed
  <1>8. EventsBooked'
    <2>1. /\ booked \in [1..MaxEarned -> Nat]
          /\ \A e \in 1..MaxEarned : /\ booked[e] >= 1 => e \in settledEvents \cup lost
                                     /\ booked[e] > 1 => e \in lost
          /\ \A e \in settledEvents : booked[e] >= 1
      BY <1>1 DEF EventsBooked
    <2>2. booked' \in [1..MaxEarned -> Nat] /\ \A e \in 1..MaxEarned : booked'[e] = IF e \in Range(b) THEN booked[e] + 1 ELSE booked[e]
      BY <1>2, <2>1 DEF Book
    <2>3. settledEvents \subseteq 1..MaxEarned
      BY <1>1, EventsKnown DEF EventsApart, Apart, Finished
    <2>4. ASSUME NEW e \in 1..MaxEarned
          PROVE  (booked'[e] >= 1 => e \in settledEvents' \cup lost') /\ (booked'[e] > 1 => e \in lost') /\ (e \in settledEvents' => booked'[e] >= 1)
      <3>1. booked[e] \in Nat
        BY <2>1
      <3>2. CASE e \in Range(b)
        BY <1>2, <2>1, <2>2, <3>1, <3>2
      <3>3. CASE e \notin Range(b)
        BY <1>2, <2>1, <2>2, <3>1, <3>3
      <3> QED BY <3>2, <3>3
    <2> QED BY <1>2, <2>2, <2>3, <2>4 DEF EventsBooked
  <1> QED BY <1>5, <1>6, <1>7, <1>8 DEF EngineInv

LEMMA EngineKept == EngineInv /\ [EngineNext]_engineVars => EngineInv'
  <1> SUFFICES ASSUME EngineInv, [EngineNext]_engineVars PROVE EngineInv'
    OBVIOUS
  <1>0. EventsApart /\ EventsTyped /\ hasWallet \in BOOLEAN /\ engineOn \in BOOLEAN /\ Len(events) \in Nat
    BY EventsKnown DEF EngineInv, EventsTyped
  <1>1. CASE SettlePending \/ StopEngine
    <2>1. /\ UNCHANGED <<rate, events, settledEvents, refused, pendingSum, settledSum, booked, lost, hasWallet>>
          /\ engineOn' \in BOOLEAN /\ Settle(waiting)
      BY <1>0, <1>1 DEF SettlePending, StopEngine
    <2>2. PICK n, over, q : n \in Nat /\ n = Len(events) /\ over = Finished /\ q = waiting
      BY <1>0
    <2>3. Apart(waiting', batches', over, n)
      BY <1>0, <2>1, <2>2, QueueSettled DEF EventsApart
    <2>4. Finished' = Finished /\ (settledEvents \cap refused = {})'
      BY <1>0, <2>1 DEF Finished, EventsApart
    <2> QED BY <1>0, <2>1, <2>2, <2>3, <2>4, OnlyPlacesChange
  <1>2. ASSUME UNCHANGED <<waiting, batches, settledEvents, refused, events>>
        PROVE  Apart(waiting', batches', Finished', Len(events)) /\ (settledEvents \cap refused = {})'
    BY <1>0, <1>2 DEF EventsApart, Finished
  <1>3. CASE SetWallet \/ UNCHANGED engineVars
    <2>1. UNCHANGED <<rate, events, waiting, batches, settledEvents, refused, pendingSum, settledSum, booked, lost, engineOn>>
      BY <1>3 DEF SetWallet, engineVars
    <2>2. hasWallet' \in BOOLEAN
      BY <1>0, <1>3 DEF SetWallet, engineVars
    <2> QED BY <1>0, <1>2, <2>1, <2>2, OnlyPlacesChange
  <1>4. ASSUME NEW r \in Rates, FetchRates(r) PROVE EngineInv'
    <2>1. /\ UNCHANGED <<events, waiting, batches, settledEvents, refused, pendingSum, settledSum, booked, lost, hasWallet, engineOn>>
          /\ rate' \in Nat /\ rate' \in Rates \cup {DefaultRate}
      BY <1>4, EngineAssumption DEF FetchRates
    <2>2. EventNumbers' = EventNumbers /\ Worth' = Worth
      BY <2>1 DEF EventNumbers, Worth
    <2>3. EventsTyped' /\ EventsBooked' /\ EventsApart'
      BY <1>2, <2>1, <2>2 DEF EngineInv, EventsTyped, EventsBooked, EventsApart
    <2>4. EventsSummed'
      BY <2>1, <2>2 DEF EngineInv, EventsSummed, Total
    <2> QED BY <2>3, <2>4 DEF EngineInv
  <1>5. ASSUME NEW b \in batches, BatchRefused(b) PROVE EngineInv'
    <2>1. /\ batches' = batches \ {b} /\ refused' = refused \cup Range(b)
          /\ UNCHANGED <<rate, events, waiting, settledEvents, pendingSum, settledSum, booked, lost, hasWallet, engineOn>>
      BY <1>5 DEF BatchRefused
    <2>2. PICK n, over : n \in Nat /\ n = Len(events) /\ over = Finished
      BY <1>0
    <2>3. Apart(waiting, batches \ {b}, over \cup Range(b), n)
      BY <1>0, <2>2, BatchOver DEF EventsApart
    <2>4. Finished' = over \cup Range(b) /\ (settledEvents \cap refused = {})'
      BY <1>0, <2>1, <2>2, BatchKnown DEF Finished, EventsApart
    <2> QED BY <1>0, <2>1, <2>2, <2>3, <2>4, OnlyPlacesChange
  <1>6. ASSUME NEW b \in batches, SettlementFails(b) PROVE EngineInv'
    <2>1. PutBack(b) /\ UNCHANGED <<rate, events, settledEvents, refused, pendingSum, settledSum, booked, lost, hasWallet, engineOn>>
      BY <1>6 DEF SettlementFails
    <2> QED BY <1>0, <2>1, PutBackIsApart, OnlyPlacesChange
  <1> QED BY <1>1, <1>3, <1>4, <1>5, <1>6, EventRecorded, BatchIsSettled, ReplyNotHeard DEF EngineNext

-----------------------------------------------------------------------------
(* Requests of other nodes (network/resources.ts).  What the meter was paid for *)
(* a query is written beside it when it is completed, and never again.          *)
Queries == {r \in ShareRequests : RequestType(r) = "query" /\ request[r] = "completed"}
Meter == [queries : Nat, earned : Nat]
SharingInv == ResourceTypeOK /\ metered \in Meter /\ SharingIsMetered

LEMMA SharingKnown ==
  ASSUME SharingInv
  PROVE  /\ request \in [ShareRequests -> {"new", "processing", "completed", "failed"}]
         /\ activeRequests \in [Ids -> ShareRequests \cup {NoRequest}]
         /\ price \in Nat /\ metered.queries \in Nat /\ metered.earned \in Nat
         /\ paidFor \in [ShareRequests -> Prices \cup {0}] /\ \A r \in ShareRequests : paidFor[r] \in Nat
         /\ metered.queries = Cardinality(Queries) /\ metered.earned = Total(paidFor, Queries)
         /\ \A i \in Ids : activeRequests[i] # NoRequest => request[activeRequests[i]] = "processing" /\ RequestId(activeRequests[i]) = i
         /\ \A r \in ShareRequests : request[r] = "processing" /\ activeRequests[RequestId(r)] = NoRequest =>
               \E other \in ShareRequests \ {r} : RequestId(other) = RequestId(r) /\ request[other] \in {"completed", "failed"}
  <1>1. ResourceTypeOK /\ metered \in Meter /\ SharingIsMetered
    BY DEF SharingInv
  <1>2. paidFor \in [ShareRequests -> Prices \cup {0}] /\ \A r \in ShareRequests : paidFor[r] \in Nat
    <2>1. paidFor \in [ShareRequests -> Prices \cup {0}]
      BY <1>1 DEF ResourceTypeOK
    <2>2. Prices \cup {0} \subseteq Nat
      BY SharingAssumption
    <2> QED BY <2>1, <2>2
  <1>3. price \in Nat /\ metered.queries \in Nat /\ metered.earned \in Nat
    BY <1>1, SharingAssumption DEF ResourceTypeOK, Meter
  <1>4. metered.queries = Cardinality(Queries) /\ metered.earned = Total(paidFor, Queries)
    BY <1>1 DEF SharingIsMetered, Queries, Total
  <1> QED BY <1>1, <1>2, <1>3, <1>4 DEF ResourceTypeOK, SharingIsMetered

LEMMA SharingMeans ==
  ASSUME ResourceTypeOK, metered \in Meter,
         metered.queries = Cardinality(Queries), metered.earned = Total(paidFor, Queries),
         \A i \in Ids : activeRequests[i] # NoRequest => request[activeRequests[i]] = "processing" /\ RequestId(activeRequests[i]) = i,
         \A r \in ShareRequests : request[r] = "processing" /\ activeRequests[RequestId(r)] = NoRequest =>
               \E other \in ShareRequests \ {r} : RequestId(other) = RequestId(r) /\ request[other] \in {"completed", "failed"}
  PROVE  SharingInv
  BY DEF SharingInv, SharingIsMetered, Queries, Total

LEMMA QueriesAreFew ==
  IsFiniteSet(Queries) /\ Cardinality(Queries) \in 0..Cardinality(ShareRequests) /\ Cardinality(ShareRequests) \in Nat
  <1>1. Queries \subseteq ShareRequests
    BY DEF Queries
  <1> QED BY <1>1, SharingAssumption, FS_Subset, FS_CardinalityType

LEMMA SharingBegins == ResourceInit => SharingInv
  <1> SUFFICES ASSUME ResourceInit PROVE SharingInv
    OBVIOUS
  <1>1. Queries = {}
    BY DEF ResourceInit, Queries
  <1>2. Cardinality(Queries) = 0 /\ Total(paidFor, Queries) = 0
    BY <1>1, FS_EmptySet, SumOfNone
  <1>3. Cardinality(ShareRequests) \in Nat
    BY SharingAssumption, FS_CardinalityType
  <1>4. metered \in Meter /\ metered.queries = 0 /\ metered.earned = 0
    BY DEF ResourceInit, Meter
  <1>5. ResourceTypeOK
    <2>1. /\ request \in [ShareRequests -> {"new", "processing", "completed", "failed"}]
          /\ activeRequests \in [Ids -> ShareRequests \cup {NoRequest}]
      BY DEF ResourceInit
    <2>2. paidFor \in [ShareRequests -> Prices \cup {0}]
      BY DEF ResourceInit
    <2>3. metered.queries \in 0..Cardinality(ShareRequests) /\ metered.earned \in Nat /\ publishing \in 0..1
      BY <1>3, <1>4 DEF ResourceInit
    <2> QED BY <2>1, <2>2, <2>3 DEF ResourceInit, ResourceTypeOK
  <1> QED BY <1>2, <1>4, <1>5, SharingMeans DEF ResourceInit

(* What does not touch the requests.                                            *)
LEMMA SharingStays ==
  ASSUME SharingInv, UNCHANGED <<request, activeRequests, metered, paidFor>>,
         price' \in Prices, publishing' \in 0..1, timersOn' \in BOOLEAN
  PROVE  SharingInv'
  <1>1. ResourceTypeOK' /\ (metered \in Meter)'
    BY DEF SharingInv, ResourceTypeOK, Meter
  <1>2. SharingIsMetered'
    BY DEF SharingInv, SharingIsMetered
  <1> QED BY <1>1, <1>2 DEF SharingInv

LEMMA RequestTaken ==
  ASSUME SharingInv, NEW r \in ShareRequests, HandleRequest(r)
  PROVE  SharingInv'
  <1>1. RequestId(r) \in Ids
    BY DEF Ids
  <1>2. /\ request' \in [ShareRequests -> {"new", "processing", "completed", "failed"}] /\ request[r] = "new" /\ request'[r] = "processing"
        /\ \A s \in ShareRequests : s # r => request'[s] = request[s]
    BY SharingKnown DEF HandleRequest
  <1>3. /\ activeRequests' \in [Ids -> ShareRequests \cup {NoRequest}] /\ activeRequests'[RequestId(r)] = r
        /\ \A i \in Ids : i # RequestId(r) => activeRequests'[i] = activeRequests[i]
    BY <1>1, SharingKnown DEF HandleRequest
  <1>4. Queries' = Queries
    BY <1>2 DEF Queries
  <1>5. ResourceTypeOK' /\ (metered \in Meter)'
    BY <1>2, <1>3 DEF HandleRequest, SharingInv, ResourceTypeOK
  <1>6. (metered.queries = Cardinality(Queries) /\ metered.earned = Total(paidFor, Queries))'
    <2>1. metered' = metered /\ paidFor' = paidFor
      BY DEF HandleRequest
    <2>2. Total(paidFor, Queries)' = Total(paidFor, Queries)
      BY <1>4, <2>1 DEF Total
    <2> QED BY <1>4, <2>1, <2>2, SharingKnown
  <1>7. \A i \in Ids : activeRequests'[i] # NoRequest => request'[activeRequests'[i]] = "processing" /\ RequestId(activeRequests'[i]) = i
    <2> TAKE i \in Ids
    <2>1. CASE i = RequestId(r)
      BY <1>2, <1>3, <2>1
    <2>2. CASE i # RequestId(r)
      <3>1. activeRequests'[i] = activeRequests[i] /\ activeRequests[i] \in ShareRequests \cup {NoRequest}
        BY <1>3, <2>2, SharingKnown
      <3>2. activeRequests[i] # NoRequest => request[activeRequests[i]] = "processing" /\ RequestId(activeRequests[i]) = i
        BY SharingKnown
      <3> QED BY <1>2, <3>1, <3>2
    <2> QED BY <2>1, <2>2
  <1>8. \A s \in ShareRequests : request'[s] = "processing" /\ activeRequests'[RequestId(s)] = NoRequest =>
               \E other \in ShareRequests \ {s} : RequestId(other) = RequestId(s) /\ request'[other] \in {"completed", "failed"}
    <2> SUFFICES ASSUME NEW s \in ShareRequests, request'[s] = "processing", activeRequests'[RequestId(s)] = NoRequest
                 PROVE  \E other \in ShareRequests \ {s} : RequestId(other) = RequestId(s) /\ request'[other] \in {"completed", "failed"}
      OBVIOUS
    <2>1. RequestId(s) # RequestId(r) /\ RequestId(s) \in Ids
      BY <1>3, SharingAssumption DEF Ids
    <2>2. request[s] = "processing" /\ activeRequests[RequestId(s)] = NoRequest
      BY <1>2, <1>3, <2>1
    <2>3. PICK other \in ShareRequests \ {s} : RequestId(other) = RequestId(s) /\ request[other] \in {"completed", "failed"}
      BY <2>2, SharingKnown
    <2> QED BY <1>2, <2>3
  <1> QED BY <1>5, <1>6, <1>7, <1>8 DEF SharingInv, SharingIsMetered, Queries, Total

LEMMA RequestFinished ==
  ASSUME SharingInv, NEW r \in ShareRequests, NEW status \in {"completed", "failed"}, Finish(r, status)
  PROVE  /\ request' \in [ShareRequests -> {"new", "processing", "completed", "failed"}] /\ request[r] = "processing" /\ request'[r] = status
         /\ \A s \in ShareRequests : s # r => request'[s] = request[s]
         /\ activeRequests' \in [Ids -> ShareRequests \cup {NoRequest}]
         /\ \A i \in Ids : activeRequests'[i] # NoRequest => request'[activeRequests'[i]] = "processing" /\ RequestId(activeRequests'[i]) = i
         /\ \A s \in ShareRequests : request'[s] = "processing" /\ activeRequests'[RequestId(s)] = NoRequest =>
               \E other \in ShareRequests \ {s} : RequestId(other) = RequestId(s) /\ request'[other] \in {"completed", "failed"}
  <1>1. RequestId(r) \in Ids
    BY DEF Ids
  <1>2. /\ request' \in [ShareRequests -> {"new", "processing", "completed", "failed"}] /\ request[r] = "processing" /\ request'[r] = status
        /\ \A s \in ShareRequests : s # r => request'[s] = request[s]
    BY SharingKnown DEF Finish
  <1>3. /\ activeRequests' \in [Ids -> ShareRequests \cup {NoRequest}] /\ activeRequests'[RequestId(r)] = NoRequest
        /\ \A i \in Ids : i # RequestId(r) => activeRequests'[i] = activeRequests[i]
    BY <1>1, SharingKnown DEF Finish
  <1>7. \A i \in Ids : activeRequests'[i] # NoRequest => request'[activeRequests'[i]] = "processing" /\ RequestId(activeRequests'[i]) = i
    <2> SUFFICES ASSUME NEW i \in Ids, activeRequests'[i] # NoRequest
                 PROVE  request'[activeRequests'[i]] = "processing" /\ RequestId(activeRequests'[i]) = i
      OBVIOUS
    <2>1. i # RequestId(r) /\ activeRequests'[i] = activeRequests[i] /\ activeRequests[i] \in ShareRequests
      BY <1>3, SharingKnown
    <2>2. request[activeRequests[i]] = "processing" /\ RequestId(activeRequests[i]) = i
      BY <2>1, SharingKnown
    <2> QED BY <1>2, <2>1, <2>2
  <1>8. \A s \in ShareRequests : request'[s] = "processing" /\ activeRequests'[RequestId(s)] = NoRequest =>
               \E other \in ShareRequests \ {s} : RequestId(other) = RequestId(s) /\ request'[other] \in {"completed", "failed"}
    <2> SUFFICES ASSUME NEW s \in ShareRequests, request'[s] = "processing", activeRequests'[RequestId(s)] = NoRequest
                 PROVE  \E other \in ShareRequests \ {s} : RequestId(other) = RequestId(s) /\ request'[other] \in {"completed", "failed"}
      OBVIOUS
    <2>0. s # r /\ request[s] = "processing" /\ RequestId(s) \in Ids
      BY <1>2 DEF Ids
    <2>1. CASE RequestId(s) = RequestId(r)
      BY <1>2, <2>0, <2>1
    <2>2. CASE RequestId(s) # RequestId(r)
      <3>1. activeRequests[RequestId(s)] = NoRequest
        BY <1>3, <2>0, <2>2
      <3>2. PICK other \in ShareRequests \ {s} : RequestId(other) = RequestId(s) /\ request[other] \in {"completed", "failed"}
        BY <2>0, <3>1, SharingKnown
      <3> QED BY <1>2, <3>2
    <2> QED BY <2>1, <2>2
  <1> QED BY <1>2, <1>3, <1>7, <1>8

(* A finished request that was no query, or failed.                             *)
LEMMA RequestUnpaid ==
  ASSUME SharingInv, NEW r \in ShareRequests, NEW status \in {"completed", "failed"}, Finish(r, status),
         UNCHANGED <<metered, paidFor>>, RequestType(r) # "query" \/ status = "failed"
  PROVE  SharingInv'
  <1>1. Queries' = Queries
    BY RequestFinished DEF Queries
  <1>2. Total(paidFor, Queries)' = Total(paidFor, Queries)
    BY <1>1 DEF Total
  <1>3. ResourceTypeOK' /\ (metered \in Meter)'
    BY RequestFinished DEF Finish, SharingInv, ResourceTypeOK
  <1>4. (metered.queries = Cardinality(Queries) /\ metered.earned = Total(paidFor, Queries))'
    BY <1>1, <1>2, SharingKnown
  <1> QED BY <1>3, <1>4, RequestFinished DEF SharingInv, SharingIsMetered, Queries, Total

LEMMA RequestPaid ==
  ASSUME SharingInv, NEW r \in ShareRequests, Finish(r, "completed"), RequestType(r) = "query",
         metered' = [queries |-> metered.queries + 1, earned |-> metered.earned + price], paidFor' = [paidFor EXCEPT ![r] = price]
  PROVE  SharingInv'
  <1>0. ResourceTypeOK /\ price \in Prices /\ price \in Nat /\ price' = price
    BY SharingKnown DEF Finish, SharingInv, ResourceTypeOK
  <1>1. Queries' = Queries \cup {r} /\ r \notin Queries
    BY RequestFinished DEF Queries
  <1>2. paidFor' \in [ShareRequests -> Prices \cup {0}] /\ paidFor'[r] = price /\ \A s \in ShareRequests : s # r => paidFor'[s] = paidFor[s]
    BY <1>0, SharingKnown
  <1>3. IsFiniteSet(Queries) /\ IsFiniteSet(Queries \cup {r}) /\ Cardinality(Queries \cup {r}) = Cardinality(Queries) + 1
    BY <1>1, QueriesAreFew, FS_AddElement
  <1>4. metered' \in Meter /\ metered'.queries = metered.queries + 1 /\ metered'.earned = metered.earned + price
    BY <1>0, SharingKnown DEF Meter
  <1>5. Total(paidFor, Queries)' = Total(paidFor, Queries) + price
    <2>1. PICK f : f = paidFor'
      OBVIOUS
    <2>2. PICK S : S = Queries
      OBVIOUS
    <2>3. /\ S \cup {r} \subseteq ShareRequests /\ IsFiniteSet(S \cup {r}) /\ r \notin S
          /\ \A s \in S : f[s] = paidFor[s] /\ f[s] \in Nat
          /\ f[r] = price
      BY <1>0, <1>1, <1>2, <1>3, <2>1, <2>2, SharingKnown DEF Queries
    <2>4. Amounts(f, S \cup {r})
      BY <1>0, <2>3 DEF Amounts
    <2>5. Total(f, S \cup {r}) = Total(f, S) + price
      BY <2>3, <2>4, SumAdds
    <2>6. PICK g : g = paidFor
      OBVIOUS
    <2>7. Total(f, S) = Total(g, S)
      BY <1>3, <2>2, <2>3, <2>6, SumOfSame
    <2> QED BY <1>1, <2>1, <2>2, <2>5, <2>6, <2>7 DEF Total
  <1>6. Cardinality(Queries') \in 0..Cardinality(ShareRequests)
    <2>1. Queries' \subseteq ShareRequests
      BY <1>1 DEF Queries
    <2> QED BY <2>1, SharingAssumption, FS_Subset, FS_CardinalityType
  <1>7. metered'.queries = Cardinality(Queries') /\ metered'.earned = Total(paidFor, Queries)'
    BY <1>1, <1>3, <1>4, <1>5, SharingKnown
  <1>8. metered'.queries \in 0..Cardinality(ShareRequests) /\ metered'.earned \in Nat
    BY <1>4, <1>6, <1>7 DEF Meter
  <1>9. ResourceTypeOK' /\ (metered \in Meter)'
    BY <1>0, <1>2, <1>4, <1>8, RequestFinished DEF Finish, SharingInv, ResourceTypeOK
  <1> QED BY <1>7, <1>9, RequestFinished DEF SharingInv, SharingIsMetered, Queries, Total

LEMMA SharingKept == SharingInv /\ [ResourceNext]_resourceVars => SharingInv'
  <1> SUFFICES ASSUME SharingInv, [ResourceNext]_resourceVars PROVE SharingInv'
    OBVIOUS
  <1>0. price \in Prices /\ publishing \in 0..1 /\ timersOn \in BOOLEAN
    BY DEF SharingInv, ResourceTypeOK
  <1>1. CASE PublishResources \/ Published \/ StopSharing
    <2>1. UNCHANGED <<request, activeRequests, metered, paidFor>> /\ price' = price
      BY <1>1 DEF PublishResources, Published, StopSharing
    <2>2. publishing' \in 0..1
      BY <1>0, <1>1 DEF PublishResources, Published, StopSharing
    <2>3. timersOn' \in BOOLEAN
      <3>1. CASE PublishResources \/ StopSharing
        BY <3>1 DEF PublishResources, StopSharing
      <3>2. CASE Published
        BY <1>0, <3>2 DEF Published
      <3> QED BY <1>1, <3>1, <3>2
    <2> QED BY <1>0, <2>1, <2>2, <2>3, SharingStays
  <1>2. ASSUME NEW p \in Prices, UpdatePricing(p) PROVE SharingInv'
    BY <1>0, <1>2, SharingStays DEF UpdatePricing
  <1>3. ASSUME NEW r \in ShareRequests, CompleteRequest(r) PROVE SharingInv'
    <2>1. CASE RequestType(r) = "query"
      BY <1>3, <2>1, RequestPaid DEF CompleteRequest
    <2>2. CASE RequestType(r) # "query"
      BY <1>3, <2>2, RequestUnpaid DEF CompleteRequest
    <2> QED BY <2>1, <2>2
  <1>4. ASSUME NEW r \in ShareRequests, RequestFails(r) PROVE SharingInv'
    BY <1>4, RequestUnpaid DEF RequestFails
  <1>5. CASE UNCHANGED resourceVars
    BY <1>0, <1>5, SharingStays DEF resourceVars
  <1> QED BY <1>1, <1>2, <1>3, <1>4, <1>5, RequestTaken DEF ResourceNext

-----------------------------------------------------------------------------
(* The book of the stake (blockchain/token.ts).  What it says and what the      *)
(* platform holds differ by the calls that are booked, by what was not told and *)
(* by what was cut off at 0, and every step moves two of them together.         *)
TransactionKinds == {"stake", "unstake", "earn"}
CallStates == {"new", "asking", "sent", "booked", "refused", "done"}
StakeInv == LedgerTypeOK /\ StakeIsHeld

LEMMA HistoryIsCut ==
  ASSUME NEW S, NEW s \in Seq(S), NEW n \in Nat
  PROVE  /\ SubSeq(s, 1, IF Len(s) < n THEN Len(s) ELSE n) \in Seq(S)
         /\ Len(SubSeq(s, 1, IF Len(s) < n THEN Len(s) ELSE n)) <= n
  <1> DEFINE m == IF Len(s) < n THEN Len(s) ELSE n
  <1>1. m \in 0..Len(s) /\ m <= n
    OBVIOUS
  <1> HIDE DEF m
  <1>2. SubSeq(s, 1, m) = [i \in 1..(1 + m - 1) |-> s[i + 1 - 1]]
    BY <1>1
  <1>3. SubSeq(s, 1, m) = [i \in 1..m |-> s[i]]
    BY <1>1, <1>2
  <1>4. \A i \in 1..m : s[i] \in S
    BY <1>1
  <1>5. [i \in 1..m |-> s[i]] \in Seq(S) /\ Len([i \in 1..m |-> s[i]]) = m
    BY <1>1, <1>4
  <1> QED BY <1>1, <1>3, <1>5 DEF m

LEMMA TransactionAdded ==
  ASSUME NEW S, NEW s \in Seq(S), NEW t \in S
  PROVE  <<t>> \o s \in Seq(S) /\ Len(<<t>> \o s) = Len(s) + 1
  OBVIOUS

LEMMA StakeKnown ==
  ASSUME LedgerTypeOK
  PROVE  /\ Owned \in Nat /\ Staked \in Nat /\ MaxHistory \in Nat /\ MaxHistoryEver \in Nat /\ Cardinality(Calls) \in Nat
         /\ staked \in Nat /\ stakeFile \in Nat /\ balance \in -1..Owned + Staked + Cardinality(Calls)
         /\ transactions \in Seq(TransactionKinds) /\ historyFile \in Seq(TransactionKinds)
         /\ call \in [Calls -> CallStates]
         /\ free \in Nat /\ stakedThere \in Nat /\ untold \in Int /\ clamped \in Nat
  BY LedgerAssumption, FS_CardinalityType DEF LedgerTypeOK, TransactionKinds, CallStates

LEMMA ChangeIsOne == \A c \in Calls : Change(c) \in {1, -1} /\ Change(c) \in Int
  BY DEF Change

LEMMA ToComeIsInt == ToCome \in Int
  <1>1. IsFiniteSet({c \in BookedCalls : Change(c) = 1}) /\ IsFiniteSet({c \in BookedCalls : Change(c) = -1})
    <2>1. {c \in BookedCalls : Change(c) = 1} \subseteq Calls /\ {c \in BookedCalls : Change(c) = -1} \subseteq Calls
      BY DEF BookedCalls
    <2> QED BY <2>1, LedgerAssumption, FS_Subset
  <1> QED BY <1>1, FS_CardinalityType DEF ToCome

(* A call that moves takes its change with it.                                  *)
LEMMA CallMoved ==
  ASSUME LedgerTypeOK, NEW c \in Calls, NEW to \in CallStates, call' = [call EXCEPT ![c] = to]
  PROVE  /\ call' \in [Calls -> CallStates] /\ ToCome' \in Int
         /\ call[c] # "booked" /\ to # "booked" => ToCome' = ToCome
         /\ call[c] # "booked" /\ to = "booked" => ToCome' = ToCome + Change(c)
         /\ call[c] = "booked" /\ to # "booked" => ToCome' = ToCome - Change(c)
  <1> DEFINE A == {d \in BookedCalls : Change(d) = 1}
             B == {d \in BookedCalls : Change(d) = -1}
             As == {d \in Calls : call'[d] = "booked" /\ Change(d) = 1}
             Bs == {d \in Calls : call'[d] = "booked" /\ Change(d) = -1}
  <1>1. call' \in [Calls -> CallStates] /\ call'[c] = to /\ \A d \in Calls : d # c => call'[d] = call[d]
    BY StakeKnown
  <1>2. BookedCalls' = {d \in Calls : call'[d] = "booked"}
    BY DEF BookedCalls
  <1>3. A \subseteq Calls /\ B \subseteq Calls /\ As \subseteq Calls /\ Bs \subseteq Calls
    BY DEF BookedCalls
  <1>4. /\ IsFiniteSet(A) /\ IsFiniteSet(B) /\ IsFiniteSet(As) /\ IsFiniteSet(Bs)
        /\ Cardinality(A) \in Nat /\ Cardinality(B) \in Nat /\ Cardinality(As) \in Nat /\ Cardinality(Bs) \in Nat
    BY <1>3, LedgerAssumption, FS_Subset, FS_CardinalityType
  <1>5. ToCome = Cardinality(A) - Cardinality(B) /\ ToCome' = Cardinality(As) - Cardinality(Bs)
    <2>1. ToCome = Cardinality(A) - Cardinality(B)
      BY DEF ToCome
    <2>2. ToCome' = Cardinality({d \in BookedCalls' : Change(d) = 1}) - Cardinality({d \in BookedCalls' : Change(d) = -1})
      BY DEF ToCome, Change
    <2>3. {d \in BookedCalls' : Change(d) = 1} = As /\ {d \in BookedCalls' : Change(d) = -1} = Bs
      BY <1>2
    <2> QED BY <2>1, <2>2, <2>3
  <1>5a. ToCome' \in Int
    <2> HIDE DEF As, Bs
    <2> QED BY <1>4, <1>5
  <1>6. CASE call[c] # "booked" /\ to # "booked"
    <2>1. As = A /\ Bs = B
      BY <1>1, <1>6 DEF BookedCalls
    <2>2. ToCome' = ToCome
      BY <1>5, <2>1
    <2> QED BY <1>1, <1>5a, <1>6, <2>2
  <1>7. CASE call[c] # "booked" /\ to = "booked"
    <2>1. c \notin A /\ c \notin B
      BY <1>7 DEF BookedCalls
    <2>2. CASE Change(c) = 1
      <3>1. As = A \cup {c} /\ Bs = B
        BY <1>1, <1>7, <2>2 DEF BookedCalls
      <3>2. Cardinality(As) = Cardinality(A) + 1
        <4> HIDE DEF A, As
        <4> QED BY <1>4, <2>1, <3>1, FS_AddElement
      <3>3. ToCome' = ToCome + Change(c)
        <4> HIDE DEF A, B, As, Bs
        <4> QED BY <1>4, <1>5, <2>2, <3>1, <3>2
      <3> QED BY <1>1, <1>5a, <1>7, <3>3
    <2>3. CASE Change(c) = -1
      <3>1. Bs = B \cup {c} /\ As = A
        BY <1>1, <1>7, <2>3 DEF BookedCalls
      <3>2. Cardinality(Bs) = Cardinality(B) + 1
        <4> HIDE DEF B, Bs
        <4> QED BY <1>4, <2>1, <3>1, FS_AddElement
      <3>3. ToCome' = ToCome + Change(c)
        <4> HIDE DEF A, B, As, Bs
        <4> QED BY <1>4, <1>5, <2>3, <3>1, <3>2
      <3> QED BY <1>1, <1>5a, <1>7, <3>3
    <2> QED BY <2>2, <2>3, ChangeIsOne
  <1>8. CASE call[c] = "booked" /\ to # "booked"
    <2>1. c \notin As /\ c \notin Bs
      BY <1>1, <1>8
    <2>2. CASE Change(c) = 1
      <3>1. A = As \cup {c} /\ Bs = B
        BY <1>1, <1>8, <2>2 DEF BookedCalls
      <3>2. Cardinality(A) = Cardinality(As) + 1
        <4> HIDE DEF A, As
        <4> QED BY <1>4, <2>1, <3>1, FS_AddElement
      <3>3. ToCome' = ToCome - Change(c)
        <4> HIDE DEF A, B, As, Bs
        <4> QED BY <1>4, <1>5, <2>2, <3>1, <3>2
      <3> QED BY <1>1, <1>5a, <1>8, <3>3
    <2>3. CASE Change(c) = -1
      <3>1. B = Bs \cup {c} /\ As = A
        BY <1>1, <1>8, <2>3 DEF BookedCalls
      <3>2. Cardinality(B) = Cardinality(Bs) + 1
        <4> HIDE DEF B, Bs
        <4> QED BY <1>4, <2>1, <3>1, FS_AddElement
      <3>3. ToCome' = ToCome - Change(c)
        <4> HIDE DEF A, B, As, Bs
        <4> QED BY <1>4, <1>5, <2>3, <3>1, <3>2
      <3> QED BY <1>1, <1>5a, <1>8, <3>3
    <2> QED BY <2>2, <2>3, ChangeIsOne
  <1>9. CASE call[c] = "booked" /\ to = "booked"
    BY <1>1, <1>5a, <1>9
  <1> QED BY <1>6, <1>7, <1>8, <1>9

LEMMA SinceWhenPositive ==
  ASSUME NEW n \in Nat, NEW from, from = (n > 0)
  PROVE  from \in BOOLEAN /\ (from <=> n > 0)
  <1>1. CASE n > 0
    <2>1. from = TRUE
      BY <1>1
    <2> QED BY <1>1, <2>1
  <1>2. CASE ~(n > 0)
    <2>1. (n > 0) = FALSE
      BY <1>2
    <2>2. from = FALSE
      BY <2>1
    <2> QED BY <1>2, <2>2
  <1> QED BY <1>1, <1>2

LEMMA StakeBegins == LedgerInit => StakeInv
  <1> SUFFICES ASSUME LedgerInit PROVE StakeInv
    OBVIOUS
  <1>1. {Owned, Staked, MaxHistory, MaxHistoryEver, Cardinality(Calls)} \subseteq Nat
    BY LedgerAssumption, FS_CardinalityType
  <1>2. ToCome = 0
    <2>1. {c \in BookedCalls : Change(c) = 1} = {} /\ {c \in BookedCalls : Change(c) = -1} = {}
      BY DEF LedgerInit, BookedCalls
    <2> QED BY <2>1, FS_EmptySet DEF ToCome
  <1>3. << >> \in Seq({"stake", "unstake", "earn"}) /\ Len(<< >>) = 0
    OBVIOUS
  <1>4. stakedSince \in BOOLEAN /\ (stakedSince <=> staked > 0) /\ hasAddress \in BOOLEAN
    <2>1. staked = Staked /\ stakedSince = (Staked > 0) /\ hasAddress \in BOOLEAN
      BY DEF LedgerInit
    <2>2. PICK n, from : n \in Nat /\ n = staked /\ from = stakedSince
      BY <1>1, <2>1
    <2> QED BY <2>1, <2>2, SinceWhenPositive
  <1>5. /\ staked = Staked /\ stakeFile = Staked /\ balance = -1 /\ transactions = << >> /\ historyFile = << >>
        /\ free = Owned /\ stakedThere = Staked /\ untold = 0 /\ clamped = 0
        /\ call \in [Calls -> {"new", "asking", "sent", "booked", "refused", "done"}]
    BY DEF LedgerInit
  <1>6. balance \in -1..Owned + Staked + Cardinality(Calls)
    BY <1>1, <1>5
  <1>7. LedgerTypeOK
    BY <1>1, <1>3, <1>4, <1>5, <1>6 DEF LedgerTypeOK
  <1>8. staked = stakedThere - ToCome - untold + clamped /\ free + stakedThere = Owned + Staked /\ Len(historyFile) <= MaxHistory
    BY <1>1, <1>2, <1>3, <1>5
  <1> QED BY <1>4, <1>7, <1>8 DEF StakeInv, StakeIsHeld

(* The parts of the invariant.                                                  *)
StakeTyped == stakedSince \in BOOLEAN /\ staked \in Nat /\ stakeFile \in Nat
HistoryTyped == transactions \in Seq({"stake", "unstake", "earn"}) /\ historyFile \in Seq({"stake", "unstake", "earn"})
                /\ Len(historyFile) <= MaxHistory
CallsTyped == /\ balance \in -1..Owned + Staked + Cardinality(Calls)
              /\ call \in [Calls -> {"new", "asking", "sent", "booked", "refused", "done"}]
PlatformTyped == /\ free \in Nat /\ stakedThere \in Nat /\ untold \in Int /\ clamped \in Nat
                 /\ free + stakedThere = Owned + Staked

LEMMA StakeParts ==
  StakeInv <=> /\ hasAddress \in BOOLEAN /\ StakeTyped /\ HistoryTyped /\ CallsTyped /\ PlatformTyped
               /\ (stakedSince <=> staked > 0)
               /\ staked = stakedThere - ToCome - untold + clamped
  BY DEF StakeInv, LedgerTypeOK, StakeIsHeld, StakeTyped, HistoryTyped, CallsTyped, PlatformTyped

LEMMA StakePartsNext ==
  StakeInv' <=> /\ hasAddress' \in BOOLEAN /\ StakeTyped' /\ HistoryTyped' /\ CallsTyped' /\ PlatformTyped'
                /\ (stakedSince' <=> staked' > 0)
                /\ staked' = stakedThere' - ToCome' - untold' + clamped'
  BY DEF StakeInv, LedgerTypeOK, StakeIsHeld, StakeTyped, HistoryTyped, CallsTyped, PlatformTyped

LEMMA BookUntouched ==
  ASSUME StakeInv, UNCHANGED book, UNCHANGED hasAddress
  PROVE  hasAddress' \in BOOLEAN /\ StakeTyped' /\ HistoryTyped' /\ staked' = staked /\ (stakedSince' <=> staked' > 0)
  <1>1. UNCHANGED <<staked, stakedSince, stakeFile, transactions, historyFile>>
    BY DEF book
  <1>2. StakeTyped' /\ HistoryTyped'
    BY <1>1, StakeParts DEF StakeTyped, HistoryTyped
  <1> QED BY <1>1, <1>2, StakeParts

LEMMA PlatformUntouched ==
  ASSUME StakeInv, UNCHANGED platform
  PROVE  PlatformTyped' /\ UNCHANGED <<free, stakedThere, untold, clamped>>
  BY StakeParts DEF platform, PlatformTyped

LEMMA HistoryWritten ==
  ASSUME StakeInv, transactions' \in Seq({"stake", "unstake", "earn"}), SavesHistory
  PROVE  HistoryTyped'
  <1>1. MaxHistory \in Nat /\ HistoryTyped
    BY StakeParts, LedgerAssumption
  <1>2. PICK s \in Seq({"stake", "unstake", "earn"}) : s = transactions'
    OBVIOUS
  <1>3. historyFile' = historyFile \/ historyFile' = SubSeq(s, 1, IF Len(s) < MaxHistory THEN Len(s) ELSE MaxHistory)
    BY <1>2 DEF SavesHistory, FileWritten
  <1> QED BY <1>1, <1>2, <1>3, HistoryIsCut DEF HistoryTyped

LEMMA BalanceInRange ==
  ASSUME StakeInv
  PROVE  free \in -1..Owned + Staked + Cardinality(Calls) /\ balance \in -1..Owned + Staked + Cardinality(Calls)
         /\ -1 \in -1..Owned + Staked + Cardinality(Calls)
  <1>1. LedgerTypeOK
    BY DEF StakeInv
  <1>2. Owned \in Nat /\ Staked \in Nat /\ Cardinality(Calls) \in Nat
    BY <1>1, StakeKnown
  <1>3. free \in Nat /\ stakedThere \in Nat /\ free + stakedThere = Owned + Staked
    BY StakeParts DEF PlatformTyped
  <1>4. balance \in -1..Owned + Staked + Cardinality(Calls)
    BY <1>1, StakeKnown
  <1>5. free \in -1..Owned + Staked + Cardinality(Calls) /\ -1 \in -1..Owned + Staked + Cardinality(Calls)
    BY <1>2, <1>3
  <1> QED BY <1>4, <1>5

LEMMA CallAsked ==
  ASSUME StakeInv, NEW c \in Calls, NEW to \in CallStates, call' = [call EXCEPT ![c] = to], call[c] # "booked", to # "booked",
         UNCHANGED hasAddress, UNCHANGED book, UNCHANGED platform, balance' \in {balance, free}
  PROVE  StakeInv'
  <1>1. LedgerTypeOK
    BY DEF StakeInv
  <1>2. call' \in [Calls -> CallStates] /\ ToCome' = ToCome
    BY <1>1, CallMoved
  <1>3. balance' \in -1..Owned + Staked + Cardinality(Calls)
    BY BalanceInRange
  <1>4. CallsTyped'
    BY <1>2, <1>3 DEF CallsTyped, CallStates
  <1> QED BY <1>2, <1>4, BookUntouched, PlatformUntouched, StakeParts, StakePartsNext

LEMMA StakeBooked ==
  ASSUME StakeInv, NEW c \in Calls, PlatformBooks(c)
  PROVE  StakeInv'
  <1>0. LedgerTypeOK
    BY DEF StakeInv
  <1> DEFINE able == IF CallKind(c) = "stake" THEN free >= 1 ELSE stakedThere >= 1
  <1>1. /\ call[c] = "sent" /\ call' = [call EXCEPT ![c] = IF able THEN "booked" ELSE "refused"]
        /\ free' = IF able THEN free - Change(c) ELSE free
        /\ stakedThere' = IF able THEN stakedThere + Change(c) ELSE stakedThere
        /\ UNCHANGED <<hasAddress, balance, untold, clamped>> /\ UNCHANGED book
    BY DEF PlatformBooks
  <1>2. free \in Nat /\ stakedThere \in Nat /\ free + stakedThere = Owned + Staked /\ Change(c) \in Int
    BY StakeParts, ChangeIsOne DEF PlatformTyped
  <1>3. CASE able
    <2>1. call' = [call EXCEPT ![c] = "booked"] /\ free' = free - Change(c) /\ stakedThere' = stakedThere + Change(c)
      BY <1>1, <1>3
    <2>2. free' \in Nat /\ stakedThere' \in Nat /\ free' + stakedThere' = Owned + Staked
      <3>1. CASE CallKind(c) = "stake"
        BY <1>2, <1>3, <2>1, <3>1, LedgerAssumption DEF Change
      <3>2. CASE CallKind(c) # "stake"
        BY <1>2, <1>3, <2>1, <3>2, LedgerAssumption DEF Change
      <3> QED BY <3>1, <3>2
    <2>3. call' \in [Calls -> CallStates] /\ ToCome' = ToCome + Change(c) /\ "booked" \in CallStates
      <3>1. "booked" \in CallStates
        BY DEF CallStates
      <3> QED BY <1>0, <1>1, <2>1, <3>1, CallMoved
    <2>4. PlatformTyped' /\ CallsTyped'
      BY <1>1, <2>2, <2>3, StakeParts DEF PlatformTyped, CallsTyped, CallStates
    <2>5. staked' = stakedThere' - ToCome' - untold' + clamped'
      <3>1. staked' = staked /\ untold' = untold /\ clamped' = clamped
        BY <1>1 DEF book
      <3>2. staked = stakedThere - ToCome - untold + clamped /\ staked \in Nat /\ untold \in Int /\ clamped \in Nat
        BY <1>0, StakeKnown, StakeParts
      <3> QED BY <1>2, <2>1, <2>3, <3>1, <3>2, ToComeIsInt
    <2> QED BY <1>1, <2>4, <2>5, BookUntouched, StakePartsNext
  <1>4. CASE ~able
    <2>1. call' = [call EXCEPT ![c] = "refused"] /\ free' = free /\ stakedThere' = stakedThere
      BY <1>1, <1>4
    <2>2. UNCHANGED platform /\ "refused" \in CallStates
      BY <1>1, <2>1 DEF platform, CallStates
    <2> QED BY <1>1, <2>1, <2>2, CallAsked
  <1> QED BY <1>3, <1>4

LEMMA StakeTold ==
  ASSUME StakeInv, NEW c \in Calls, ReplyCame(c)
  PROVE  StakeInv'
  <1>0. LedgerTypeOK
    BY DEF StakeInv
  <1>1. call' \in [Calls -> CallStates] /\ ToCome' = ToCome - Change(c) /\ Change(c) \in {1, -1}
    <2>1. call[c] = "booked" /\ call' = [call EXCEPT ![c] = "done"] /\ "done" \in CallStates
      BY DEF ReplyCame, CallStates
    <2> QED BY <1>0, <2>1, CallMoved, ChangeIsOne
  <1>2. CallsTyped'
    BY <1>1, StakeParts DEF ReplyCame, CallsTyped, CallStates
  <1>3. HistoryTyped'
    <2>1. CallKind(c) \in {"stake", "unstake", "earn"} /\ transactions \in Seq({"stake", "unstake", "earn"})
      BY StakeParts, LedgerAssumption DEF HistoryTyped
    <2>2. transactions' \in Seq({"stake", "unstake", "earn"})
      BY <2>1, TransactionAdded DEF ReplyCame, Record
    <2> QED BY <2>2, HistoryWritten DEF ReplyCame
  <1>4. staked \in Nat /\ clamped \in Nat /\ staked' = NewStake(c) /\ NewStake(c) \in Nat /\ stakedThere \in Nat /\ untold \in Int
    <2>1. staked \in Nat /\ clamped \in Nat /\ stakedThere \in Nat /\ untold \in Int
      BY <1>0, StakeKnown
    <2>2. NewStake(c) \in Nat
      BY <1>1, <2>1 DEF NewStake
    <2>3. staked' = NewStake(c)
      BY DEF ReplyCame
    <2> QED BY <2>1, <2>2, <2>3
  <1>5. PlatformTyped'
    <2>1. clamped' \in Nat
      BY <1>1, <1>4 DEF ReplyCame
    <2> QED BY <2>1, StakeParts DEF PlatformTyped, ReplyCame
  <1>6. StakeTyped' /\ (stakedSince' <=> staked' > 0) /\ hasAddress' \in BOOLEAN
    <2>1. stakeFile' = staked' \/ stakeFile' = stakeFile
      BY DEF ReplyCame, FileWritten
    <2>2. stakeFile' \in Nat /\ staked' \in Nat
      BY <1>4, <2>1, StakeParts DEF StakeTyped
    <2>3. stakedSince' = (staked' > 0) /\ hasAddress' = hasAddress
      BY <1>4 DEF ReplyCame
    <2>4. stakedSince' \in BOOLEAN /\ (stakedSince' <=> staked' > 0)
      <3>1. PICK n, from : n \in Nat /\ n = staked' /\ from = stakedSince'
        BY <2>2
      <3> QED BY <2>3, <3>1, SinceWhenPositive
    <2> QED BY <2>2, <2>3, <2>4, StakeParts DEF StakeTyped
  <1>7. staked' = stakedThere' - ToCome' - untold' + clamped'
    <2>1. stakedThere' = stakedThere /\ untold' = untold /\ staked = stakedThere - ToCome - untold + clamped
      BY StakeParts DEF ReplyCame
    <2>2. CASE staked + Change(c) < 0
      <3>1. staked' = 0 /\ clamped' = clamped + 1
        BY <1>4, <2>2 DEF ReplyCame, NewStake
      <3> QED BY <1>1, <1>4, <2>1, <2>2, <3>1, ToComeIsInt
    <2>3. CASE ~(staked + Change(c) < 0)
      <3>1. staked' = staked + Change(c) /\ clamped' = clamped
        BY <1>4, <2>3 DEF ReplyCame, NewStake
      <3> QED BY <1>1, <1>4, <2>1, <2>3, <3>1, ToComeIsInt
    <2> QED BY <2>2, <2>3
  <1> QED BY <1>2, <1>3, <1>5, <1>6, <1>7, StakePartsNext

LEMMA StakeUnheard ==
  ASSUME StakeInv, NEW c \in Calls, CallFails(c)
  PROVE  StakeInv'
  <1>0. LedgerTypeOK /\ "done" \in CallStates
    BY DEF StakeInv, CallStates
  <1>1. UNCHANGED <<hasAddress, balance, free, stakedThere, clamped>> /\ UNCHANGED book /\ call' = [call EXCEPT ![c] = "done"]
    BY DEF CallFails
  <1>2. CASE call[c] = "booked"
    <2>1. call' \in [Calls -> CallStates] /\ ToCome' = ToCome - Change(c) /\ Change(c) \in Int
      BY <1>0, <1>1, <1>2, CallMoved, ChangeIsOne
    <2>2. untold' = untold + Change(c) /\ untold \in Int
      BY <1>0, <1>2, StakeKnown DEF CallFails
    <2>3. PlatformTyped' /\ CallsTyped'
      BY <1>1, <2>1, <2>2, StakeParts DEF PlatformTyped, CallsTyped, CallStates
    <2>4. staked' = stakedThere' - ToCome' - untold' + clamped'
      <3>1. staked' = staked /\ stakedThere' = stakedThere /\ clamped' = clamped
        BY <1>1 DEF book
      <3>2. staked = stakedThere - ToCome - untold + clamped /\ staked \in Nat /\ stakedThere \in Nat /\ clamped \in Nat
        BY <1>0, StakeKnown, StakeParts
      <3> QED BY <2>1, <2>2, <3>1, <3>2, ToComeIsInt
    <2> QED BY <1>1, <2>3, <2>4, BookUntouched, StakePartsNext
  <1>3. CASE call[c] # "booked"
    <2>1. untold' = untold
      BY <1>3 DEF CallFails
    <2>2. UNCHANGED platform
      BY <1>1, <2>1 DEF platform
    <2> QED BY <1>0, <1>1, <1>3, <2>2, CallAsked
  <1> QED BY <1>2, <1>3

LEMMA StakeForgotten ==
  ASSUME StakeInv, LedgerRestarts
  PROVE  StakeInv'
  <1>0. LedgerTypeOK
    BY DEF StakeInv
  <1>1. call' \in [Calls -> CallStates] /\ ToCome' = 0
    <2>1. call' = [c \in Calls |-> IF call[c] = "new" THEN "new" ELSE "done"]
      BY DEF LedgerRestarts
    <2>2. call' \in [Calls -> CallStates] /\ \A c \in Calls : call'[c] # "booked"
      BY <2>1 DEF CallStates
    <2>3. BookedCalls' = {}
      BY <2>2 DEF BookedCalls
    <2>4. {c \in BookedCalls' : Change(c) = 1} = {} /\ {c \in BookedCalls' : Change(c) = -1} = {}
      BY <2>3
    <2>5. ToCome' = Cardinality({c \in BookedCalls' : Change(c) = 1}) - Cardinality({c \in BookedCalls' : Change(c) = -1})
      BY DEF ToCome, Change
    <2> QED BY <2>2, <2>4, <2>5, FS_EmptySet
  <1>2. balance' \in -1..Owned + Staked + Cardinality(Calls)
    BY BalanceInRange DEF LedgerRestarts
  <1>3. CallsTyped' /\ HistoryTyped'
    BY <1>1, <1>2, StakeParts DEF LedgerRestarts, CallsTyped, CallStates, HistoryTyped
  <1>4. stakeFile \in Nat /\ staked \in Nat /\ untold \in Int /\ stakedThere \in Nat /\ clamped \in Nat
    BY <1>0, StakeKnown
  <1>5. StakeTyped' /\ (stakedSince' <=> staked' > 0) /\ hasAddress' \in BOOLEAN
    <2>1. stakedSince' = (stakeFile > 0) /\ staked' = stakeFile /\ stakeFile' = stakeFile /\ hasAddress' = hasAddress
      BY DEF LedgerRestarts
    <2>2. stakedSince' \in BOOLEAN /\ (stakedSince' <=> staked' > 0)
      <3>1. PICK n, from : n \in Nat /\ n = staked' /\ from = stakedSince'
        BY <1>4, <2>1
      <3> QED BY <2>1, <3>1, SinceWhenPositive
    <2> QED BY <1>4, <2>1, <2>2, StakeParts DEF StakeTyped
  <1>6. untold' = untold + (staked - stakeFile) + ToCome /\ staked' = stakeFile /\ UNCHANGED <<free, stakedThere, clamped>>
    BY DEF LedgerRestarts
  <1>7. PlatformTyped'
    <2>1. untold' \in Int
      BY <1>4, <1>6, ToComeIsInt
    <2> QED BY <1>6, <2>1, StakeParts DEF PlatformTyped
  <1>8. staked' = stakedThere' - ToCome' - untold' + clamped'
    BY <1>1, <1>4, <1>6, StakeParts, ToComeIsInt
  <1> QED BY <1>3, <1>5, <1>7, <1>8, StakePartsNext

LEMMA StakeKept == StakeInv /\ [LedgerNext]_ledgerVars => StakeInv'
  <1> SUFFICES ASSUME StakeInv, [LedgerNext]_ledgerVars PROVE StakeInv'
    OBVIOUS
  <1>0. LedgerTypeOK
    BY DEF StakeInv
  <1>1. ASSUME hasAddress' = hasAddress, call' = call, UNCHANGED book, UNCHANGED platform, balance' \in {balance, free}
        PROVE  StakeInv'
    <2>1. ToCome' = ToCome
      BY <1>1 DEF ToCome, BookedCalls, Change
    <2>2. balance' \in -1..Owned + Staked + Cardinality(Calls)
      BY <1>1, BalanceInRange
    <2>3. CallsTyped'
      BY <1>1, <2>2, StakeParts DEF CallsTyped
    <2> QED BY <1>1, <2>1, <2>3, BookUntouched, PlatformUntouched, StakeParts, StakePartsNext
  <1>2. CASE RefreshBalance
    BY <1>1, <1>2 DEF RefreshBalance
  <1>3. CASE RecordEarned
    <2>1. PICK s \in Seq({"stake", "unstake", "earn"}) : s = <<"earn">> \o transactions
      BY StakeParts, TransactionAdded DEF HistoryTyped
    <2>2. transactions' = SubSeq(s, 1, IF Len(s) < MaxHistory THEN Len(s) ELSE MaxHistory) /\ MaxHistory \in Nat
      BY <1>3, <2>1, LedgerAssumption DEF RecordEarned
    <2>3. HistoryTyped'
      BY <1>3, <2>2, HistoryIsCut, HistoryWritten DEF RecordEarned
    <2>4. UNCHANGED <<hasAddress, staked, stakedSince, stakeFile, balance, call>> /\ UNCHANGED platform
      BY <1>3 DEF RecordEarned
    <2>5. StakeTyped' /\ CallsTyped' /\ ToCome' = ToCome
      BY <2>4, StakeParts DEF StakeTyped, CallsTyped, ToCome, BookedCalls, Change
    <2> QED BY <2>3, <2>4, <2>5, PlatformUntouched, StakeParts, StakePartsNext
  <1>4. ASSUME NEW c \in Calls, StakeAsked(c) PROVE StakeInv'
    <2>1. PICK to \in {"done", "sent", "asking"} : call' = [call EXCEPT ![c] = to]
      BY <1>4 DEF StakeAsked
    <2>2. to \in CallStates /\ to # "booked" /\ call[c] # "booked"
      BY <1>4 DEF StakeAsked, CallStates
    <2> QED BY <1>4, <2>1, <2>2, CallAsked DEF StakeAsked
  <1>5. ASSUME NEW c \in Calls, BalanceCame(c) PROVE StakeInv'
    <2>1. PICK to \in {"done", "sent"} : call' = [call EXCEPT ![c] = to]
      BY <1>5 DEF BalanceCame
    <2>2. to \in CallStates /\ to # "booked" /\ call[c] # "booked"
      BY <1>5 DEF BalanceCame, CallStates
    <2> QED BY <1>5, <2>1, <2>2, CallAsked DEF BalanceCame
  <1>6. CASE UNCHANGED ledgerVars
    BY <1>1, <1>6 DEF ledgerVars, book, platform
  <1> QED BY <1>2, <1>3, <1>4, <1>5, <1>6, StakeBooked, StakeTold, StakeUnheard, StakeForgotten DEF LedgerNext

-----------------------------------------------------------------------------
(* The books of the gateway (gateway/server.ts): validators and their stakers,  *)
(* bounties, the rewards of nodes.  A bounty that is open was claimed by nobody *)
(* and a claim closes it, so what is submitted and approved is one node's.      *)
Validator == [active : BOOLEAN, stakedTotal : 0..MaxStaked, stakers : [Holders -> 0..MaxStaked]]
Bounty == [status : {"none", "open", "in_progress", "completed", "rejected", "expired"}, creator : Holders, late : BOOLEAN,
           assignees : Seq(Holders), submissions : Seq(Holders)]
Earned(a) == [k \in Bounties |-> PaidFor(k, a)]
BountySound(bounty, paid) ==
    /\ Len(bounty.assignees) <= 1
    /\ bounty.status # "none" => bounty.creator \notin Range(bounty.assignees)
    /\ Range(bounty.submissions) \subseteq Range(bounty.assignees) /\ Range(paid) \subseteq Range(bounty.assignees)
    /\ bounty.status \in {"none", "open", "expired"} => bounty.assignees = << >>
    /\ bounty.status = "completed" => paid # << >>
StakesInv == /\ walletBalance \in 0..2 /\ enterpriseContracts \in 0..MaxPosts
             /\ validatorRegistry \in [Holders -> Validator]
             /\ \A v \in Holders : validatorRegistry[v].stakedTotal = Total(validatorRegistry[v].stakers, Holders)
RewardsInv == /\ nodeRewards \in [Holders -> Nat] /\ claimed \in [Holders -> Nat] /\ approvals \in [Bounties -> Seq(Holders)]
              /\ \A a \in Holders : nodeRewards[a] + claimed[a] = PerNode * Total(Earned(a), Bounties)
BountiesInv == bountyTasks \in [Bounties -> Bounty] /\ \A k \in Bounties : BountySound(bountyTasks[k], approvals[k])
PremiumInv == StakesInv /\ RewardsInv /\ BountiesInv

LEMMA ListGrows ==
  ASSUME NEW S, NEW s \in Seq(S), NEW a \in S
  PROVE  /\ Append(s, a) \in Seq(S) /\ Len(Append(s, a)) = Len(s) + 1 /\ Append(s, a) # << >>
         /\ Range(Append(s, a)) = Range(s) \cup {a} /\ Range(s) \subseteq S
  <1>1. /\ Append(s, a) \in Seq(S) /\ Len(Append(s, a)) = Len(s) + 1 /\ Len(s) \in Nat
        /\ \A i \in 1..Len(s) : Append(s, a)[i] = s[i] /\ s[i] \in S
        /\ Append(s, a)[Len(s) + 1] = a
        /\ DOMAIN s = 1..Len(s) /\ DOMAIN Append(s, a) = 1..Len(s) + 1
    OBVIOUS
  <1>2. 1..Len(s) + 1 = 1..Len(s) \cup {Len(s) + 1}
    BY <1>1
  <1>3. Range(Append(s, a)) = Range(s) \cup {a} /\ Range(s) \subseteq S
    BY <1>1, <1>2 DEF Range
  <1> QED BY <1>1, <1>3

LEMMA NothingListed == Range(<< >>) = {} /\ \A S : << >> \in Seq(S) /\ Len(<< >>) = 0
  BY DEF Range

LEMMA PremiumMeans == PremiumInv => PremiumTypeOK /\ BooksAddUp
  <1> SUFFICES ASSUME PremiumInv PROVE PremiumTypeOK /\ BooksAddUp
    OBVIOUS
  <1>1. \A k \in Bounties : bountyTasks[k] \in Bounty /\ BountySound(bountyTasks[k], approvals[k])
    BY DEF PremiumInv, BountiesInv
  <1>2. \A k \in Bounties : /\ bountyTasks[k].creator \in Holders /\ bountyTasks[k].late \in BOOLEAN
                            /\ bountyTasks[k].assignees \in Seq(Holders) /\ bountyTasks[k].submissions \in Seq(Holders)
                            /\ bountyTasks[k].status \in {"none", "open", "in_progress", "completed", "rejected", "expired"}
    BY <1>1 DEF Bounty
  <1>3. PremiumTypeOK
    BY <1>2 DEF PremiumInv, StakesInv, RewardsInv, PremiumTypeOK, Validator
  <1>4. \A v \in ActiveValidators : validatorRegistry[v].stakedTotal = SumFunctionOnSet(validatorRegistry[v].stakers, Holders)
    BY DEF PremiumInv, StakesInv, ActiveValidators, Total
  <1>5. \A a \in Holders : nodeRewards[a] + claimed[a] = PerNode * SumFunctionOnSet([k \in Bounties |-> PaidFor(k, a)], Bounties)
    BY DEF PremiumInv, RewardsInv, Earned, Total
  <1>6. \A k \in Posted : /\ Len(bountyTasks[k].assignees) <= 1 /\ bountyTasks[k].creator \notin Range(bountyTasks[k].assignees)
                          /\ Range(bountyTasks[k].submissions) \cup Range(approvals[k]) \subseteq Range(bountyTasks[k].assignees)
                          /\ bountyTasks[k].status \in {"open", "expired"} => bountyTasks[k].assignees = << >>
                          /\ bountyTasks[k].status = "completed" => approvals[k] # << >>
    BY <1>1 DEF Posted, BountySound
  <1> QED BY <1>3, <1>4, <1>5, <1>6 DEF BooksAddUp

LEMMA NobodyStaked == Unstaked \in [Holders -> 0..MaxStaked] /\ Unstaked \in [Holders -> Nat] /\ Total(Unstaked, Holders) = 0
  <1>1. MaxStaked \in Nat /\ IsFiniteSet(Holders)
    BY PremiumAssumption
  <1>2. PICK f : f = Unstaked
    OBVIOUS
  <1>3. f \in [Holders -> 0..MaxStaked] /\ f \in [Holders -> Nat] /\ \A a \in Holders : f[a] = 0
    BY <1>1, <1>2 DEF Unstaked
  <1> QED BY <1>1, <1>2, <1>3, SumOfZeros

LEMMA PremiumBegins == PremiumInit => PremiumInv
  <1> SUFFICES ASSUME PremiumInit PROVE PremiumInv
    OBVIOUS
  <1>1. MaxStaked \in Nat /\ MaxPosts \in Nat /\ PerNode \in Nat /\ IsFiniteSet(Bounties) /\ NodeAddress \in Holders
    BY PremiumAssumption
  <1>2. StakesInv
    <2>1. [active |-> FALSE, stakedTotal |-> 0, stakers |-> Unstaked] \in Validator
      BY <1>1, NobodyStaked DEF Validator
    <2>2. validatorRegistry = [v \in Holders |-> [active |-> FALSE, stakedTotal |-> 0, stakers |-> Unstaked]]
      BY DEF PremiumInit
    <2>3. walletBalance \in 0..2 /\ enterpriseContracts \in 0..MaxPosts
      BY <1>1 DEF PremiumInit
    <2> QED BY <2>1, <2>2, <2>3, NobodyStaked DEF StakesInv
  <1>3. RewardsInv
    <2>1. nodeRewards = Unstaked /\ claimed = Unstaked /\ approvals = [k \in Bounties |-> << >>]
      BY DEF PremiumInit
    <2>2. \A k \in Bounties, a \in Holders : PaidFor(k, a) = 0
      <3> TAKE k \in Bounties, a \in Holders
      <3>1. {i \in DOMAIN approvals[k] : approvals[k][i] = a} = {}
        BY <2>1
      <3> QED BY <3>1, FS_EmptySet DEF PaidFor
    <2>3. ASSUME NEW a \in Holders PROVE nodeRewards[a] + claimed[a] = PerNode * Total(Earned(a), Bounties)
      <3>1. PICK f : f = Earned(a)
        OBVIOUS
      <3>2. \A k \in Bounties : f[k] = 0
        BY <2>2, <3>1 DEF Earned
      <3>3. Total(Earned(a), Bounties) = 0
        BY <1>1, <3>1, <3>2, SumOfZeros
      <3>4. nodeRewards[a] = 0 /\ claimed[a] = 0
        BY <2>1 DEF Unstaked
      <3> QED BY <1>1, <3>3, <3>4
    <2> QED BY <2>1, <2>3, NobodyStaked, NothingListed DEF RewardsInv
  <1>4. BountiesInv
    <2>1. [status |-> "none", creator |-> NodeAddress, late |-> FALSE, assignees |-> << >>, submissions |-> << >>] \in Bounty
      BY <1>1, NothingListed DEF Bounty
    <2>2. BountySound([status |-> "none", creator |-> NodeAddress, late |-> FALSE, assignees |-> << >>, submissions |-> << >>], << >>)
      BY NothingListed DEF BountySound
    <2> QED BY <2>1, <2>2 DEF PremiumInit, BountiesInv
  <1> QED BY <1>2, <1>3, <1>4 DEF PremiumInv

(* Only the parts a handler writes need an argument.                            *)
LEMMA StakesRest == StakesInv /\ UNCHANGED stakeBooks => StakesInv'
  BY DEF StakesInv, stakeBooks
LEMMA RewardsRest == RewardsInv /\ UNCHANGED <<nodeRewards, approvals, claimed>> => RewardsInv'
  <1> SUFFICES ASSUME RewardsInv, UNCHANGED <<nodeRewards, approvals, claimed>> PROVE RewardsInv'
    OBVIOUS
  <1>1. \A a \in Holders : Total(Earned(a), Bounties)' = Total(Earned(a), Bounties)
    BY DEF Total, Earned, PaidFor
  <1> QED BY <1>1 DEF RewardsInv
LEMMA BountiesRest == BountiesInv /\ UNCHANGED <<bountyTasks, approvals>> => BountiesInv'
  BY DEF BountiesInv

(* One record of the registry changes, and its total with it.                   *)
LEMMA RecordBalances ==
  ASSUME StakesInv, NEW v \in Holders, NEW record \in Validator, validatorRegistry' = [validatorRegistry EXCEPT ![v] = record],
         record.stakedTotal = Total(record.stakers, Holders), UNCHANGED <<walletBalance, enterpriseContracts>>
  PROVE  StakesInv'
  <1>1. validatorRegistry \in [Holders -> Validator]
    BY DEF StakesInv
  <1>2. validatorRegistry' \in [Holders -> Validator] /\ validatorRegistry'[v] = record /\ \A w \in Holders : w # v => validatorRegistry'[w] = validatorRegistry[w]
    BY <1>1
  <1>3. \A w \in Holders : validatorRegistry'[w].stakedTotal = Total(validatorRegistry'[w].stakers, Holders)
    BY <1>2 DEF StakesInv
  <1> QED BY <1>2, <1>3 DEF StakesInv

LEMMA StakersSum ==
  ASSUME NEW f \in [Holders -> Nat], NEW a \in Holders, NEW n \in Nat
  PROVE  /\ Total([f EXCEPT ![a] = n], Holders) = (Total(f, Holders) - f[a]) + n
         /\ n <= Total([f EXCEPT ![a] = n], Holders) /\ Total(f, Holders) \in Nat
  <1>1. IsFiniteSet(Holders)
    BY PremiumAssumption
  <1>2. PICK g : g = [f EXCEPT ![a] = n]
    OBVIOUS
  <1>3. g[a] = n /\ \A b \in Holders : b # a => g[b] = f[b]
    BY <1>2
  <1>4. Amounts(f, Holders) /\ Amounts(g, Holders)
    BY <1>1, <1>3 DEF Amounts
  <1>5. Total(g, Holders) = (Total(f, Holders) - f[a]) + g[a] /\ Total(f, Holders) \in Nat
    <2>1. PICK e, S : e = f /\ S = Holders
      OBVIOUS
    <2>2. a \in S /\ Amounts(e, S) /\ g[a] \in Nat /\ \A s \in S : s # a => g[s] = e[s]
      BY <1>3, <1>4, <2>1
    <2>3. Total(g, S) = (Total(e, S) - e[a]) + g[a] /\ Total(e, S) \in Nat
      BY <2>2, SumChanges
    <2> QED BY <2>1, <2>3
  <1>6. Total(g, Holders) = Total(g, Holders \ {a}) + g[a] /\ Total(g, Holders \ {a}) \in Nat
    BY <1>4, SumWithout
  <1> QED BY <1>2, <1>3, <1>5, <1>6

LEMMA StakeMoves ==
  ASSUME StakesInv, NEW a \in Holders, NEW v \in Holders, NEW amount \in Nat, NEW total \in 0..MaxStaked,
         total = (validatorRegistry[v].stakedTotal - validatorRegistry[v].stakers[a]) + amount,
         validatorRegistry' = [validatorRegistry EXCEPT ![v] = [active |-> validatorRegistry[v].active, stakedTotal |-> total,
                                                                stakers |-> [validatorRegistry[v].stakers EXCEPT ![a] = amount]]],
         UNCHANGED <<walletBalance, enterpriseContracts>>
  PROVE  StakesInv'
  <1>1. MaxStaked \in Nat /\ IsFiniteSet(Holders)
    BY PremiumAssumption
  <1>2. PICK r \in Validator : r = validatorRegistry[v]
    BY DEF StakesInv
  <1>3. PICK f \in [Holders -> 0..MaxStaked] : f = r.stakers
    BY <1>2 DEF Validator
  <1>4. PICK g : g = [f EXCEPT ![a] = amount]
    OBVIOUS
  <1>5. g[a] = amount /\ \A b \in Holders : b # a => g[b] = f[b]
    BY <1>3, <1>4
  <1>6. Amounts(f, Holders)
    BY <1>1, <1>3 DEF Amounts
  <1>7. Total(g, Holders) = (Total(f, Holders) - f[a]) + amount /\ amount <= Total(g, Holders)
    <2>1. f \in [Holders -> Nat]
      BY <1>1, <1>3
    <2> QED BY <1>4, <2>1, StakersSum
  <1>8. total = Total(g, Holders)
    BY <1>2, <1>3, <1>7 DEF StakesInv
  <1>9. g \in [Holders -> 0..MaxStaked]
    <2>1. amount \in 0..MaxStaked
      BY <1>1, <1>7, <1>8
    <2> QED BY <1>3, <1>4, <2>1
  <1> DEFINE record == [active |-> r.active, stakedTotal |-> total, stakers |-> g]
  <1>10. record \in Validator /\ record.stakedTotal = total /\ record.stakers = g
    BY <1>2, <1>9 DEF Validator
  <1>12. validatorRegistry' = [validatorRegistry EXCEPT ![v] = record]
    BY <1>2, <1>3, <1>4
  <1> HIDE DEF record
  <1>13. PICK q \in Validator : q = record
    BY <1>10
  <1> QED BY <1>8, <1>10, <1>12, <1>13, RecordBalances

LEMMA OneStakeChanges ==
  ASSUME StakesInv, NEW a \in Holders, NEW v \in Holders
  PROVE  /\ validatorRegistry[v] \in Validator /\ validatorRegistry[v].stakedTotal \in 0..MaxStaked /\ MaxStaked \in Nat
         /\ validatorRegistry[v].stakers[a] \in 0..MaxStaked /\ validatorRegistry[v].stakers[a] <= validatorRegistry[v].stakedTotal
  <1>1. MaxStaked \in Nat /\ IsFiniteSet(Holders)
    BY PremiumAssumption
  <1>2. PICK r \in Validator : r = validatorRegistry[v]
    BY DEF StakesInv
  <1>3. PICK f \in [Holders -> 0..MaxStaked] : f = r.stakers
    BY <1>2 DEF Validator
  <1>4. Amounts(f, Holders)
    BY <1>1, <1>3 DEF Amounts
  <1>5. Total(f, Holders) = Total(f, Holders \ {a}) + f[a] /\ Total(f, Holders \ {a}) \in Nat /\ f[a] \in Nat
    BY <1>4, SumWithout
  <1>6. r.stakedTotal = Total(f, Holders) /\ r.stakedTotal \in 0..MaxStaked
    BY <1>2, <1>3 DEF StakesInv, Validator
  <1> QED BY <1>1, <1>2, <1>3, <1>5, <1>6

LEMMA StakePlaced ==
  ASSUME PremiumInv, NEW a \in Holders, NEW v \in Holders, NEW n \in 0..MaxStaked, Stake(a, v, n) PROVE PremiumInv'
  <1>1. StakesInv /\ RewardsInv /\ BountiesInv
    BY DEF PremiumInv
  <1>2. PICK r \in Validator : r = validatorRegistry[v]
    BY <1>1, OneStakeChanges
  <1>3. r.stakedTotal \in 0..MaxStaked /\ MaxStaked \in Nat /\ r.stakers[a] \in 0..MaxStaked /\ r.stakers[a] <= r.stakedTotal
    BY <1>1, <1>2, OneStakeChanges
  <1>4. PICK total \in 0..MaxStaked, mine \in Nat : total = r.stakedTotal + n /\ mine = r.stakers[a] + n
    <2>1. r.stakedTotal + n <= MaxStaked
      BY <1>2 DEF Stake
    <2>2. r.stakedTotal + n \in 0..MaxStaked /\ r.stakers[a] + n \in Nat
      BY <1>3, <2>1
    <2> QED BY <2>2
  <1>5. total = (r.stakedTotal - r.stakers[a]) + mine
    BY <1>3, <1>4
  <1>6. validatorRegistry' = [validatorRegistry EXCEPT ![v] = [active |-> r.active, stakedTotal |-> total, stakers |-> [r.stakers EXCEPT ![a] = mine]]]
    <2>1. validatorRegistry' = [validatorRegistry EXCEPT ![v].stakers[a] = @ + n, ![v].stakedTotal = @ + n] /\ validatorRegistry \in [Holders -> Validator]
      BY <1>1 DEF Stake, StakesInv
    <2>2. PICK f \in [Holders -> 0..MaxStaked] : f = r.stakers /\ r = [active |-> r.active, stakedTotal |-> r.stakedTotal, stakers |-> f]
      BY DEF Validator
    <2>3. validatorRegistry'[v] = [active |-> r.active, stakedTotal |-> r.stakedTotal + n, stakers |-> [f EXCEPT ![a] = f[a] + n]]
      BY <1>2, <2>1, <2>2
    <2>4. \A w \in Holders : w # v => validatorRegistry'[w] = validatorRegistry[w]
      BY <2>1
    <2>5. validatorRegistry' = [w \in Holders |-> validatorRegistry'[w]]
      BY <2>1
    <2> QED BY <1>4, <2>1, <2>2, <2>3, <2>4, <2>5
  <1>7. StakesInv'
    <2>1. /\ validatorRegistry' = [validatorRegistry EXCEPT ![v] = [active |-> validatorRegistry[v].active, stakedTotal |-> total,
                                                                   stakers |-> [validatorRegistry[v].stakers EXCEPT ![a] = mine]]]
          /\ total = (validatorRegistry[v].stakedTotal - validatorRegistry[v].stakers[a]) + mine
      BY <1>2, <1>5, <1>6
    <2>2. UNCHANGED <<walletBalance, enterpriseContracts>>
      BY DEF Stake
    <2> QED BY <1>1, <2>1, <2>2, StakeMoves
  <1> QED BY <1>1, <1>7, RewardsRest, BountiesRest DEF PremiumInv, Stake, taskBooks

LEMMA StakeTaken ==
  ASSUME PremiumInv, NEW a \in Holders, NEW v \in Holders, NEW n \in 0..MaxStaked, Unstake(a, v, n) PROVE PremiumInv'
  <1>1. StakesInv /\ RewardsInv /\ BountiesInv
    BY DEF PremiumInv
  <1>2. PICK r \in Validator : r = validatorRegistry[v]
    BY <1>1, OneStakeChanges
  <1>3. r.stakedTotal \in 0..MaxStaked /\ MaxStaked \in Nat /\ r.stakers[a] \in 0..MaxStaked /\ r.stakers[a] <= r.stakedTotal
    BY <1>1, <1>2, OneStakeChanges
  <1>4. PICK taken \in Nat : taken = Unstakes(a, v, n) /\ taken <= r.stakers[a]
    BY <1>2, <1>3 DEF Unstakes
  <1>5. PICK total \in 0..MaxStaked, mine \in Nat : total = r.stakedTotal - taken /\ mine = r.stakers[a] - taken
    BY <1>3, <1>4
  <1>6. total = (r.stakedTotal - r.stakers[a]) + mine
    BY <1>3, <1>4, <1>5
  <1>7. mine = IF taken > r.stakers[a] THEN 0 ELSE r.stakers[a] - taken
    BY <1>3, <1>4, <1>5
  <1>8. validatorRegistry' = [validatorRegistry EXCEPT ![v] = [active |-> r.active, stakedTotal |-> total, stakers |-> [r.stakers EXCEPT ![a] = mine]]]
    BY <1>1, <1>2, <1>4, <1>5, <1>7 DEF Unstake, StakesInv, Validator
  <1>9. StakesInv'
    BY <1>1, <1>2, <1>6, <1>8, StakeMoves DEF Unstake
  <1> QED BY <1>1, <1>9, RewardsRest, BountiesRest DEF PremiumInv, Unstake, taskBooks

LEMMA ValidatorRegistered ==
  ASSUME PremiumInv, NEW v \in Holders, RegisterValidator(v) PROVE PremiumInv'
  <1>1. StakesInv /\ RewardsInv /\ BountiesInv /\ MaxStaked \in Nat
    BY PremiumAssumption DEF PremiumInv
  <1>2. PICK record \in Validator : record = [active |-> TRUE, stakedTotal |-> 0, stakers |-> Unstaked]
    <2>1. [active |-> TRUE, stakedTotal |-> 0, stakers |-> Unstaked] \in Validator
      BY <1>1, NobodyStaked DEF Validator
    <2> QED BY <2>1
  <1>3. record.stakedTotal = Total(record.stakers, Holders)
    BY <1>2, NobodyStaked
  <1>4. StakesInv'
    BY <1>1, <1>2, <1>3, RecordBalances DEF RegisterValidator
  <1> QED BY <1>1, <1>4, RewardsRest, BountiesRest DEF PremiumInv, RegisterValidator, taskBooks

(* One task changes; who was rewarded for it, at most by an approval.           *)
LEMMA TaskChanges ==
  ASSUME BountiesInv, NEW k \in Bounties, NEW bounty \in Bounty, bountyTasks' = [bountyTasks EXCEPT ![k] = bounty],
         BountySound(bounty, approvals'[k]), \A j \in Bounties : j # k => approvals'[j] = approvals[j]
  PROVE  BountiesInv'
  <1>1. bountyTasks' \in [Bounties -> Bounty] /\ bountyTasks'[k] = bounty /\ \A j \in Bounties : j # k => bountyTasks'[j] = bountyTasks[j]
    BY DEF BountiesInv
  <1>2. \A j \in Bounties : BountySound(bountyTasks'[j], approvals'[j])
    BY <1>1 DEF BountiesInv
  <1> QED BY <1>1, <1>2 DEF BountiesInv

LEMMA TaskKnown ==
  ASSUME BountiesInv, NEW k \in Bounties
  PROVE  bountyTasks[k] \in Bounty /\ BountySound(bountyTasks[k], approvals[k])
  BY DEF BountiesInv

(* Only the status, the deadline or the creator of a task change.               *)
LEMMA StatusChanges ==
  ASSUME NEW bounty \in Bounty, NEW paid, BountySound(bounty, paid), NEW other \in Bounty,
         other.assignees = bounty.assignees, other.submissions = bounty.submissions,
         other.status # "none" => other.creator \notin Range(other.assignees),
         other.status \in {"none", "open", "expired"} => other.assignees = << >>,
         other.status = "completed" => paid # << >>
  PROVE  BountySound(other, paid)
  BY DEF BountySound

LEMMA PremiumStatus ==
  ASSUME PremiumInv, NEW k \in Bounties, NEW other \in Bounty, bountyTasks' = [bountyTasks EXCEPT ![k] = other],
         other.assignees = bountyTasks[k].assignees, other.submissions = bountyTasks[k].submissions,
         other.status # "none" => other.creator \notin Range(other.assignees),
         other.status \in {"none", "open", "expired"} => other.assignees = << >>,
         other.status = "completed" => approvals[k] # << >>,
         UNCHANGED <<nodeRewards, approvals, claimed>>, UNCHANGED stakeBooks
  PROVE  PremiumInv'
  <1>1. StakesInv /\ RewardsInv /\ BountiesInv
    BY DEF PremiumInv
  <1>2. PICK bounty, paid : bounty \in Bounty /\ bounty = bountyTasks[k] /\ paid = approvals[k] /\ BountySound(bounty, paid)
    BY <1>1, TaskKnown
  <1>3. BountySound(other, paid)
    BY <1>2, StatusChanges
  <1>4. BountiesInv'
    BY <1>1, <1>2, <1>3, TaskChanges
  <1> QED BY <1>1, <1>4, StakesRest, RewardsRest DEF PremiumInv

LEMMA TaskCreated ==
  ASSUME PremiumInv, NEW a \in Holders, NEW k \in Bounties, Create(a, k) PROVE PremiumInv'
  <1>1. bountyTasks[k] \in Bounty /\ BountySound(bountyTasks[k], approvals[k])
    BY TaskKnown DEF PremiumInv
  <1>2. PICK bounty \in Bounty : bounty = bountyTasks[k] /\ bounty.status = "none" /\ bounty.assignees = << >>
    BY <1>1 DEF Create, Posted, BountySound
  <1>3. PICK other \in Bounty : other = [bounty EXCEPT !.status = "open", !.creator = a]
    BY <1>2 DEF Bounty
  <1>4. other.assignees = << >> /\ other.submissions = bounty.submissions /\ other.status = "open"
    BY <1>2, <1>3 DEF Bounty
  <1>5. bountyTasks' = [bountyTasks EXCEPT ![k] = other]
    BY <1>2, <1>3 DEF Create
  <1> QED BY <1>2, <1>4, <1>5, PremiumStatus, NothingListed, ZenonT(60) DEF Create

LEMMA TaskLate ==
  ASSUME PremiumInv, NEW k \in Bounties, DeadlinePasses(k) PROVE PremiumInv'
  <1>1. bountyTasks[k] \in Bounty /\ BountySound(bountyTasks[k], approvals[k])
    BY TaskKnown DEF PremiumInv
  <1>2. PICK bounty \in Bounty : bounty = bountyTasks[k]
    BY <1>1
  <1>3. PICK other \in Bounty : other = [bounty EXCEPT !.late = TRUE]
    BY <1>2 DEF Bounty
  <1>4. other.assignees = bounty.assignees /\ other.submissions = bounty.submissions /\ other.status = bounty.status /\ other.creator = bounty.creator
    BY <1>2, <1>3 DEF Bounty
  <1>5. bountyTasks' = [bountyTasks EXCEPT ![k] = other]
    BY <1>2, <1>3 DEF DeadlinePasses
  <1>6. /\ other.status # "none" => other.creator \notin Range(other.assignees)
        /\ other.status \in {"none", "open", "expired"} => other.assignees = << >>
        /\ other.status = "completed" => approvals[k] # << >>
    BY <1>1, <1>2, <1>4 DEF BountySound
  <1> QED BY <1>2, <1>4, <1>5, <1>6, PremiumStatus DEF DeadlinePasses

LEMMA TaskRejected ==
  ASSUME PremiumInv, NEW k \in Bounties, NEW sums, Reject(k, sums) PROVE PremiumInv'
  <1>1. bountyTasks[k] \in Bounty /\ BountySound(bountyTasks[k], approvals[k]) /\ bountyTasks[k].status # "none"
    BY TaskKnown DEF PremiumInv, Reject, Posted
  <1>2. PICK bounty \in Bounty : bounty = bountyTasks[k]
    BY <1>1
  <1>3. PICK other \in Bounty : other = [bounty EXCEPT !.status = "rejected"]
    BY <1>2 DEF Bounty
  <1>4. other.assignees = bounty.assignees /\ other.submissions = bounty.submissions /\ other.status = "rejected" /\ other.creator = bounty.creator
    BY <1>2, <1>3 DEF Bounty
  <1>5. bountyTasks' = [bountyTasks EXCEPT ![k] = other]
    BY <1>2, <1>3 DEF Reject
  <1> QED BY <1>1, <1>2, <1>4, <1>5, PremiumStatus DEF Reject, BountySound

LEMMA TasksListed ==
  ASSUME PremiumInv, NEW wanted \in SUBSET Bounties, List(wanted) PROVE PremiumInv'
  <1>1. StakesInv /\ RewardsInv /\ BountiesInv
    BY DEF PremiumInv
  <1>2. UNCHANGED <<nodeRewards, approvals, claimed>> /\ UNCHANGED stakeBooks
    BY DEF List
  <1>3. ASSUME NEW k \in Bounties PROVE bountyTasks'[k] \in Bounty /\ BountySound(bountyTasks'[k], approvals[k])
    <2>1. bountyTasks[k] \in Bounty /\ BountySound(bountyTasks[k], approvals[k])
      BY <1>1, TaskKnown
    <2>2. bountyTasks'[k] = IF k \in wanted /\ Expires(bountyTasks[k]) THEN [bountyTasks[k] EXCEPT !.status = "expired"] ELSE bountyTasks[k]
      BY DEF List
    <2>3. CASE k \in wanted /\ Expires(bountyTasks[k])
      <3>1. PICK bounty, paid : bounty \in Bounty /\ bounty = bountyTasks[k] /\ paid = approvals[k] /\ bounty.status = "open" /\ BountySound(bounty, paid)
        BY <2>1, <2>3 DEF Expires
      <3>2. PICK other \in Bounty : other = [bounty EXCEPT !.status = "expired"]
        BY <3>1 DEF Bounty
      <3>3. other.assignees = bounty.assignees /\ other.submissions = bounty.submissions /\ other.status = "expired" /\ other.creator = bounty.creator
        BY <3>1, <3>2 DEF Bounty
      <3>4. BountySound(other, paid)
        <4>1. bounty.assignees = << >> /\ bounty.creator \notin Range(bounty.assignees)
          BY <3>1 DEF BountySound
        <4> QED BY <3>1, <3>3, <4>1, StatusChanges
      <3> QED BY <2>2, <2>3, <3>1, <3>2, <3>4
    <2>4. CASE ~(k \in wanted /\ Expires(bountyTasks[k]))
      BY <2>1, <2>2, <2>4
    <2> QED BY <2>3, <2>4
  <1>4. BountiesInv'
    <2>1. bountyTasks' \in [Bounties -> Bounty]
      BY <1>3 DEF List
    <2> QED BY <1>2, <1>3, <2>1 DEF BountiesInv
  <1> QED BY <1>1, <1>2, <1>4, StakesRest, RewardsRest DEF PremiumInv

LEMMA TaskClaimed ==
  ASSUME PremiumInv, NEW a \in Holders, NEW k \in Bounties, ClaimTask(a, k) PROVE PremiumInv'
  <1>1. StakesInv /\ RewardsInv /\ BountiesInv /\ UNCHANGED <<nodeRewards, approvals, claimed>> /\ UNCHANGED stakeBooks
    BY DEF PremiumInv, ClaimTask
  <1>2. PICK bounty, paid : /\ bounty \in Bounty
                            /\ bounty = bountyTasks[k] /\ paid = approvals[k] /\ BountySound(bounty, paid)
                            /\ bounty.status = "open" /\ bounty.creator # a
    BY <1>1, TaskKnown DEF ClaimTask
  <1>3. PICK list \in Seq(Holders) : list = Append(bounty.assignees, a) /\ Len(list) = 1 /\ Range(list) = {a}
    <2>1. bounty.assignees = << >> /\ bounty.assignees \in Seq(Holders)
      BY <1>2 DEF BountySound, Bounty
    <2>2. Append(<< >>, a) = <<a>> /\ <<a>> \in Seq(Holders) /\ Len(<<a>>) = 1
      OBVIOUS
    <2>3. Range(<<a>>) = {a}
      BY DEF Range
    <2> QED BY <2>1, <2>2, <2>3
  <1>4. PICK other \in Bounty : other = [bounty EXCEPT !.assignees = list, !.status = "in_progress"]
    BY <1>2, <1>3 DEF Bounty
  <1>5. other.assignees = list /\ other.submissions = bounty.submissions /\ other.status = "in_progress" /\ other.creator = bounty.creator
    BY <1>2, <1>4 DEF Bounty
  <1>6. BountySound(other, paid)
    <2>1. Range(bounty.submissions) = {} /\ Range(paid) = {}
      BY <1>2, NothingListed DEF BountySound
    <2> QED BY <1>2, <1>3, <1>5, <2>1 DEF BountySound
  <1>7. bountyTasks' = [bountyTasks EXCEPT ![k] = other]
    BY <1>2, <1>3, <1>4, <1>1 DEF ClaimTask, Assign, BountiesInv, Bounty
  <1>8. BountiesInv'
    BY <1>1, <1>2, <1>6, <1>7, TaskChanges
  <1> QED BY <1>1, <1>8, StakesRest, RewardsRest DEF PremiumInv

LEMMA TaskSubmitted ==
  ASSUME PremiumInv, NEW a \in Holders, NEW k \in Bounties, Submit(a, k) PROVE PremiumInv'
  <1>1. StakesInv /\ RewardsInv /\ BountiesInv /\ UNCHANGED <<nodeRewards, approvals, claimed>> /\ UNCHANGED stakeBooks
    BY DEF PremiumInv, Submit
  <1>2. PICK bounty, paid : bounty \in Bounty /\ bounty = bountyTasks[k] /\ paid = approvals[k] /\ BountySound(bounty, paid) /\ a \in Range(bounty.assignees)
    BY <1>1, TaskKnown DEF Submit
  <1>3. PICK list \in Seq(Holders) : list = Append(bounty.submissions, a) /\ Range(list) = Range(bounty.submissions) \cup {a}
    <2>1. PICK s \in Seq(Holders) : s = bounty.submissions
      BY <1>2 DEF Bounty
    <2>2. Append(s, a) \in Seq(Holders) /\ Range(Append(s, a)) = Range(s) \cup {a}
      BY <2>1, ListGrows
    <2> QED BY <2>1, <2>2
  <1>4. PICK other \in Bounty : other = [bounty EXCEPT !.submissions = list]
    BY <1>2, <1>3 DEF Bounty
  <1>5. other.assignees = bounty.assignees /\ other.submissions = list /\ other.status = bounty.status /\ other.creator = bounty.creator
    BY <1>2, <1>4 DEF Bounty
  <1>6. BountySound(other, paid)
    BY <1>2, <1>3, <1>5 DEF BountySound
  <1>7. bountyTasks' = [bountyTasks EXCEPT ![k] = other]
    BY <1>2, <1>3, <1>4, <1>1 DEF Submit, BountiesInv, Bounty
  <1>8. BountiesInv'
    BY <1>1, <1>2, <1>6, <1>7, TaskChanges
  <1> QED BY <1>1, <1>8, StakesRest, RewardsRest DEF PremiumInv

(* A list that is longer by one names one more time who is added.               *)
Places(s, b) == {i \in DOMAIN s : s[i] = b}
LEMMA TimesNamed ==
  ASSUME NEW s \in Seq(Holders), NEW a \in Holders, NEW b \in Holders
  PROVE  /\ Cardinality(Places(s, b)) \in Nat
         /\ Cardinality(Places(Append(s, a), b)) = Cardinality(Places(s, b)) + IF b = a THEN 1 ELSE 0
  <1> DEFINE A == {i \in 1..Len(s) : s[i] = b}
             B == {i \in 1..Len(s) + 1 : Append(s, a)[i] = b}
  <1>1. /\ Len(s) \in Nat /\ DOMAIN s = 1..Len(s) /\ DOMAIN Append(s, a) = 1..Len(s) + 1
        /\ Append(s, a)[Len(s) + 1] = a /\ \A i \in 1..Len(s) : Append(s, a)[i] = s[i]
    OBVIOUS
  <1>2. IsFiniteSet(A) /\ Cardinality(A) \in Nat
    <2>1. IsFiniteSet(1..Len(s)) /\ A \subseteq 1..Len(s)
      BY <1>1, FS_Interval
    <2> QED BY <2>1, FS_Subset, FS_CardinalityType
  <1>3. Len(s) + 1 \notin A /\ B = IF b = a THEN A \cup {Len(s) + 1} ELSE A
    BY <1>1
  <1> HIDE DEF A, B
  <1>4. Cardinality(B) = Cardinality(A) + IF b = a THEN 1 ELSE 0
    <2>1. PICK n : n = Len(s) + 1
      OBVIOUS
    <2>2. n \notin A /\ B = IF b = a THEN A \cup {n} ELSE A
      BY <1>3, <2>1
    <2>3. Cardinality(A \cup {n}) = Cardinality(A) + 1
      BY <1>2, <2>2, FS_AddElement
    <2> QED BY <1>2, <2>2, <2>3
  <1>5. A = Places(s, b) /\ B = Places(Append(s, a), b)
    BY <1>1 DEF A, B, Places
  <1> QED BY <1>2, <1>4, <1>5

LEMMA PaidForPlaces == \A k, a : PaidFor(k, a) = Cardinality(Places(approvals[k], a)) /\ PaidFor(k, a)' = Cardinality(Places(approvals'[k], a))
  BY DEF PaidFor, Places

LEMMA Doled == ASSUME NEW n \in Nat, NEW d \in Nat PROVE d * (n + 1) = (d * n) + d /\ d * n \in Nat
  OBVIOUS

LEMMA RewardPaid ==
  ASSUME RewardsInv, NEW k \in Bounties, NEW node \in Holders, DistributeTokens(node), UNCHANGED claimed,
         approvals' = [approvals EXCEPT ![k] = Append(@, node)]
  PROVE  RewardsInv'
  <1>1. PerNode \in Nat /\ IsFiniteSet(Bounties)
    BY PremiumAssumption
  <1>2. nodeRewards \in [Holders -> Nat] /\ claimed \in [Holders -> Nat] /\ approvals \in [Bounties -> Seq(Holders)]
    BY DEF RewardsInv
  <1>3. /\ nodeRewards' \in [Holders -> Nat] /\ nodeRewards'[node] = nodeRewards[node] + PerNode
        /\ \A a \in Holders : a # node => nodeRewards'[a] = nodeRewards[a]
    BY <1>1, <1>2 DEF DistributeTokens
  <1>4. approvals' \in [Bounties -> Seq(Holders)] /\ approvals'[k] = Append(approvals[k], node) /\ \A j \in Bounties : j # k => approvals'[j] = approvals[j]
    BY <1>2, ListGrows
  <1>5. ASSUME NEW a \in Holders PROVE nodeRewards'[a] + claimed'[a] = PerNode * Total(Earned(a), Bounties)'
    <2>1. \A j \in Bounties : PaidFor(j, a) \in Nat
      <3> TAKE j \in Bounties
      <3>1. PICK s \in Seq(Holders) : s = approvals[j]
        BY <1>2
      <3>2. Cardinality(Places(s, a)) \in Nat
        BY <3>1, TimesNamed
      <3> QED BY <3>1, <3>2, PaidForPlaces
    <2>2. PaidFor(k, a)' = PaidFor(k, a) + IF a = node THEN 1 ELSE 0
      <3>1. PICK s \in Seq(Holders) : s = approvals[k]
        BY <1>2
      <3>2. Cardinality(Places(Append(s, node), a)) = Cardinality(Places(s, a)) + IF a = node THEN 1 ELSE 0
        BY <3>1, TimesNamed
      <3> QED BY <1>4, <3>1, <3>2, PaidForPlaces
    <2>3. \A j \in Bounties : j # k => PaidFor(j, a)' = PaidFor(j, a)
      BY <1>4, PaidForPlaces
    <2>4. PICK f : f = Earned(a)
      OBVIOUS
    <2>5. PICK g : g = Earned(a)'
      OBVIOUS
    <2>6. \A j \in Bounties : f[j] = PaidFor(j, a) /\ f[j] \in Nat /\ g[j] = PaidFor(j, a)'
      BY <2>1, <2>4, <2>5 DEF Earned
    <2>7. Amounts(f, Bounties) /\ g[k] \in Nat /\ g[k] = f[k] + (IF a = node THEN 1 ELSE 0) /\ \A j \in Bounties : j # k => g[j] = f[j]
      BY <1>1, <2>2, <2>3, <2>6 DEF Amounts
    <2>8. Total(f, Bounties) \in Nat /\ Total(g, Bounties) = (Total(f, Bounties) - f[k]) + g[k] /\ f[k] \in Nat
      BY <2>7, SumChanges
    <2>9. Total(Earned(a), Bounties) = Total(f, Bounties) /\ Total(Earned(a), Bounties)' = Total(g, Bounties)
      BY <2>4, <2>5 DEF Total
    <2>10. nodeRewards[a] + claimed[a] = PerNode * Total(f, Bounties) /\ nodeRewards[a] \in Nat /\ claimed[a] \in Nat /\ claimed'[a] = claimed[a]
      BY <1>2, <2>9 DEF RewardsInv
    <2>11. CASE a = node
      <3>1. Total(g, Bounties) = Total(f, Bounties) + 1
        BY <2>7, <2>8, <2>11
      <3>2. PerNode * Total(g, Bounties) = (PerNode * Total(f, Bounties)) + PerNode /\ PerNode * Total(f, Bounties) \in Nat
        BY <1>1, <2>8, <3>1, Doled
      <3> QED BY <1>1, <1>3, <2>9, <2>10, <2>11, <3>2
    <2>12. CASE a # node
      <3>1. Total(g, Bounties) = Total(f, Bounties)
        BY <2>7, <2>8, <2>12
      <3> QED BY <1>3, <2>9, <2>10, <2>12, <3>1
    <2> QED BY <2>11, <2>12
  <1>6. claimed' \in [Holders -> Nat]
    BY <1>2
  <1> QED BY <1>3, <1>4, <1>5, <1>6 DEF RewardsInv

LEMMA TaskApproved ==
  ASSUME PremiumInv, NEW k \in Bounties, NEW i, Approve(k, i) PROVE PremiumInv'
  <1>1. StakesInv /\ RewardsInv /\ BountiesInv /\ approvals \in [Bounties -> Seq(Holders)] /\ UNCHANGED claimed /\ UNCHANGED stakeBooks
    BY DEF PremiumInv, RewardsInv, Approve
  <1>2. PICK bounty \in Bounty, paid \in Seq(Holders) : bounty = bountyTasks[k] /\ paid = approvals[k] /\ BountySound(bounty, paid) /\ bounty.status # "none"
    BY <1>1, TaskKnown DEF Approve, Posted
  <1>3. PICK node \in Holders : node = bounty.submissions[i] /\ node \in Range(bounty.submissions)
    <2>1. i \in DOMAIN bounty.submissions /\ bounty.submissions \in Seq(Holders)
      BY <1>2 DEF Approve, Bounty
    <2>2. bounty.submissions[i] \in Range(bounty.submissions) /\ bounty.submissions[i] \in Holders
      BY <2>1 DEF Range
    <2> QED BY <2>2
  <1>4. DistributeTokens(node) /\ approvals' = [approvals EXCEPT ![k] = Append(@, node)] /\ bountyTasks' = [bountyTasks EXCEPT ![k].status = "completed"]
    BY <1>2, <1>3 DEF Approve
  <1>5. RewardsInv'
    BY <1>1, <1>4, RewardPaid
  <1>6. PICK list \in Seq(Holders) : list = Append(paid, node) /\ list # << >> /\ Range(list) = Range(paid) \cup {node}
    <2>1. Append(paid, node) \in Seq(Holders) /\ Append(paid, node) # << >> /\ Range(Append(paid, node)) = Range(paid) \cup {node}
      BY <1>2, <1>3, ListGrows
    <2> QED BY <2>1
  <1>7. approvals'[k] = list /\ \A j \in Bounties : j # k => approvals'[j] = approvals[j]
    BY <1>1, <1>2, <1>4, <1>6
  <1>8. PICK other \in Bounty : other = [bounty EXCEPT !.status = "completed"]
    BY <1>2 DEF Bounty
  <1>9. other.assignees = bounty.assignees /\ other.submissions = bounty.submissions /\ other.status = "completed" /\ other.creator = bounty.creator
    BY <1>2, <1>8 DEF Bounty
  <1>10. BountySound(other, list)
    BY <1>2, <1>3, <1>6, <1>9 DEF BountySound
  <1>11. bountyTasks' = [bountyTasks EXCEPT ![k] = other]
    BY <1>2, <1>4, <1>8
  <1>12. BountiesInv'
    BY <1>1, <1>7, <1>10, <1>11, TaskChanges
  <1> QED BY <1>1, <1>5, <1>12, StakesRest DEF PremiumInv

LEMMA RewardsClaimed ==
  ASSUME PremiumInv, NEW a \in Holders, ClaimRewards(a) PROVE PremiumInv'
  <1>1. StakesInv /\ RewardsInv /\ BountiesInv /\ UNCHANGED stakeBooks /\ UNCHANGED <<bountyTasks, approvals>>
    BY DEF PremiumInv, ClaimRewards
  <1>2. nodeRewards \in [Holders -> Nat] /\ claimed \in [Holders -> Nat]
    BY <1>1 DEF RewardsInv
  <1>3. /\ nodeRewards' \in [Holders -> Nat] /\ nodeRewards'[a] = 0 /\ \A b \in Holders : b # a => nodeRewards'[b] = nodeRewards[b]
        /\ claimed' \in [Holders -> Nat] /\ claimed'[a] = claimed[a] + nodeRewards[a] /\ \A b \in Holders : b # a => claimed'[b] = claimed[b]
    BY <1>2 DEF ClaimRewards
  <1>4. \A b \in Holders : nodeRewards'[b] + claimed'[b] = nodeRewards[b] + claimed[b]
    <2> TAKE b \in Holders
    <2>1. CASE b = a
      BY <1>2, <1>3, <2>1
    <2>2. CASE b # a
      BY <1>3, <2>2
    <2> QED BY <2>1, <2>2
  <1>5. \A b \in Holders : Total(Earned(b), Bounties)' = Total(Earned(b), Bounties)
    BY <1>1 DEF Total, Earned, PaidFor
  <1>6. RewardsInv'
    BY <1>1, <1>3, <1>4, <1>5 DEF RewardsInv
  <1> QED BY <1>1, <1>6, StakesRest, BountiesRest DEF PremiumInv

LEMMA PremiumKept == PremiumInv /\ [PremiumNext]_premiumVars => PremiumInv'
  <1> SUFFICES ASSUME PremiumInv, [PremiumNext]_premiumVars PROVE PremiumInv'
    OBVIOUS
  <1>0. StakesInv /\ RewardsInv /\ BountiesInv
    BY DEF PremiumInv
  <1>1. CASE BalanceChanges
    <2>1. StakesInv'
      BY <1>0, <1>1 DEF BalanceChanges, StakesInv
    <2> QED BY <1>0, <1>1, <2>1, RewardsRest, BountiesRest DEF BalanceChanges, PremiumInv, taskBooks
  <1>2. ASSUME NEW a \in Holders, Provision(a) PROVE PremiumInv'
    <2>1. enterpriseContracts \in 0..MaxPosts /\ MaxPosts \in Nat /\ UNCHANGED <<walletBalance, validatorRegistry>>
      BY <1>0, <1>2, PremiumAssumption DEF Provision, StakesInv
    <2>2. enterpriseContracts' \in 0..MaxPosts
      BY <1>2, <2>1 DEF Provision
    <2>3. StakesInv'
      BY <1>0, <2>1, <2>2 DEF StakesInv
    <2> QED BY <1>0, <1>2, <2>3, RewardsRest, BountiesRest DEF Provision, PremiumInv, taskBooks
  <1>3. CASE UNCHANGED premiumVars
    BY <1>0, <1>3, StakesRest, RewardsRest, BountiesRest DEF premiumVars, stakeBooks, PremiumInv
  <1> QED BY <1>1, <1>2, <1>3, ValidatorRegistered, RewardsClaimed, StakePlaced, StakeTaken, TaskCreated, TaskClaimed,
             TaskSubmitted, TasksListed, TaskLate, TaskApproved, TaskRejected DEF PremiumNext

-----------------------------------------------------------------------------
(* The skills (skills/marketplace.ts): what is fetched from the network is not  *)
(* a local path, so that only a repository's page is ever taken for a skill.    *)
FetchedIsRemote == \A i \in Imports : importStep[i] \in {"raw", "clone", "generic"} => Source(i) # "local"
SkillInv == SkillTypeOK /\ FetchedIsRemote /\ SkillsAreWhole

SkillCard == [by : Origins \cup {"none"}, page : BOOLEAN]
SkillSteps == {"new", "raw", "clone", "generic", "skill", "null"}

LEMMA SkillsBegin == SkillInit => SkillInv
  BY SkillAssumption DEF SkillInit, SkillInv, SkillTypeOK, FetchedIsRemote, SkillsAreWhole, ListInstalled, NoSkillMd, Origins

(* What is written of a skill leaves the others alone.                          *)
LEMMA SkillIsWritten ==
  ASSUME SkillInv, NEW i \in Imports, NEW md \in SkillCard, md # NoSkillMd,
         skillMd' = [skillMd EXCEPT ![SkillName(i)] = md],
         metaJson' \in [SkillNames -> Origins \cup {"none"}], torn' \in SUBSET SkillNames,
         rest' \in SUBSET SkillNames, importStep' \in [Imports -> SkillSteps],
         \A n \in SkillNames \ {SkillName(i)} : metaJson'[n] = metaJson[n] /\ (n \in torn' <=> n \in torn),
         \/ metaJson'[SkillName(i)] = md.by /\ md.by # "none"
         \/ metaJson'[SkillName(i)] # "none" /\ SkillName(i) \in torn'
         \/ metaJson'[SkillName(i)] = metaJson[SkillName(i)] /\ SkillName(i) \in torn',
         \A j \in Imports : importStep'[j] = "skill" => importStep[j] = "skill" \/ metaJson'[SkillName(j)] # "none",
         \A j \in Imports : importStep'[j] \in {"raw", "clone", "generic"} => importStep[j] = importStep'[j],
         md.page => md.by \in {"tree", "repo"}
  PROVE  SkillInv'
  <1> DEFINE k == SkillName(i)
  <1>1. k \in SkillNames /\ skillMd \in [SkillNames -> SkillCard] /\ metaJson \in [SkillNames -> Origins \cup {"none"}]
    BY SkillAssumption DEF SkillInv, SkillTypeOK, SkillCard
  <1>2. skillMd' \in [SkillNames -> SkillCard] /\ skillMd'[k] = md /\ \A n \in SkillNames \ {k} : skillMd'[n] = skillMd[n]
    BY <1>1
  <1> HIDE DEF k
  <1>3. SkillTypeOK'
    BY <1>2 DEF SkillTypeOK, SkillCard, SkillSteps
  <1>4. FetchedIsRemote'
    BY DEF SkillInv, FetchedIsRemote
  <1>5. \A n \in SkillNames : metaJson'[n] # "none" => skillMd'[n] # NoSkillMd /\ (skillMd'[n].by # metaJson'[n] => n \in torn')
    BY <1>1, <1>2 DEF SkillInv, SkillsAreWhole, ListInstalled, k
  <1>6. \A n \in SkillNames \ torn' : skillMd'[n] # NoSkillMd <=> metaJson'[n] # "none"
    BY <1>1, <1>2 DEF SkillInv, SkillsAreWhole, ListInstalled, k
  <1>7. \A j \in Imports : importStep'[j] = "skill" => metaJson'[SkillName(j)] # "none"
    <2> SUFFICES ASSUME NEW j \in Imports, importStep'[j] = "skill" PROVE metaJson'[SkillName(j)] # "none"
      OBVIOUS
    <2>1. CASE metaJson'[SkillName(j)] # "none"
      BY <2>1
    <2>2. CASE importStep[j] = "skill"
      <3>1. metaJson[SkillName(j)] # "none" /\ SkillName(j) \in SkillNames
        BY <2>2, SkillAssumption DEF SkillInv, SkillsAreWhole, ListInstalled
      <3> QED BY <1>1, <3>1 DEF k
    <2> QED BY <2>1, <2>2
  <1>8. \A n \in SkillNames : skillMd'[n].page => skillMd'[n].by \in {"tree", "repo"}
    BY <1>1, <1>2 DEF SkillInv, SkillsAreWhole
  <1> QED BY <1>3, <1>4, <1>5, <1>6, <1>7, <1>8, SkillAssumption DEF SkillInv, SkillsAreWhole, ListInstalled

LEMMA StoredSkill ==
  ASSUME SkillInv, NEW i \in Imports, NEW page \in BOOLEAN, StoreSkill(i, page), rest' \in SUBSET SkillNames,
         page => Source(i) \in {"tree", "repo"}
  PROVE  SkillInv'
  <1> DEFINE n == SkillName(i)
             md == [by |-> Source(i), page |-> page]
  <1>0. n \in SkillNames /\ Source(i) \in Origins
    BY SkillAssumption
  <1>1. /\ metaJson \in [SkillNames -> Origins \cup {"none"}] /\ importStep \in [Imports -> SkillSteps] /\ torn \subseteq SkillNames
    BY DEF SkillInv, SkillTypeOK, SkillSteps
  <1>2. md \in SkillCard /\ md # NoSkillMd /\ md.by = Source(i) /\ md.page = page /\ Source(i) # "none"
    BY <1>0 DEF SkillCard, NoSkillMd, Origins
  <1>3. skillMd' = [skillMd EXCEPT ![n] = md]
    BY DEF StoreSkill
  <1>4. CASE metaJson' = [metaJson EXCEPT ![n] = Source(i)] /\ ImportGoes(i, "skill") /\ torn' = torn \ {n}
    <2>1. /\ metaJson' \in [SkillNames -> Origins \cup {"none"}] /\ metaJson'[n] = Source(i)
          /\ \A m \in SkillNames \ {n} : metaJson'[m] = metaJson[m]
      BY <1>0, <1>1, <1>4
    <2>2. torn' \in SUBSET SkillNames /\ \A m \in SkillNames \ {n} : m \in torn' <=> m \in torn
      BY <1>1, <1>4
    <2>3. importStep' \in [Imports -> SkillSteps] /\ importStep'[i] = "skill" /\ \A j \in Imports \ {i} : importStep'[j] = importStep[j]
      BY <1>1, <1>4 DEF ImportGoes, SkillSteps
    <2>4. \A j \in Imports : importStep'[j] = "skill" => importStep[j] = "skill" \/ metaJson'[SkillName(j)] # "none"
      BY <2>1, <2>3, <1>2
    <2>5. \A j \in Imports : importStep'[j] \in {"raw", "clone", "generic"} => importStep[j] = importStep'[j]
      BY <2>3
    <2> HIDE DEF md
    <2> QED BY <1>2, <1>3, <2>1, <2>2, <2>3, <2>4, <2>5, SkillIsWritten
  <1>5. CASE /\ UNCHANGED metaJson /\ torn' = torn \cup {n}
             /\ importStep' = [j \in Imports |-> IF importStep[j] \in {"raw", "clone", "generic"} THEN "null" ELSE importStep[j]]
    <2>1. torn' \in SUBSET SkillNames /\ n \in torn' /\ \A m \in SkillNames \ {n} : m \in torn' <=> m \in torn
      BY <1>0, <1>1, <1>5
    <2>2. importStep' \in [Imports -> SkillSteps] /\ \A j \in Imports : importStep'[j] \notin {"raw", "clone", "generic"}
                /\ (importStep'[j] = "skill" => importStep[j] = "skill")
      BY <1>1, <1>5 DEF SkillSteps
    <2> HIDE DEF md
    <2> QED BY <1>1, <1>2, <1>3, <1>5, <2>1, <2>2, SkillIsWritten
  <1> QED BY <1>4, <1>5 DEF StoreSkill

LEMMA ImportMoves ==
  ASSUME SkillInv, NEW i \in Imports, NEW to \in SkillSteps \ {"skill"}, ImportGoes(i, to),
         UNCHANGED <<skillMd, metaJson, torn>>, rest' \in SUBSET SkillNames,
         to \in {"raw", "clone", "generic"} => Source(i) # "local"
  PROVE  SkillInv'
  <1>1. importStep' \in [Imports -> SkillSteps] /\ importStep'[i] = to /\ \A j \in Imports \ {i} : importStep'[j] = importStep[j]
    BY DEF SkillInv, SkillTypeOK, SkillSteps, ImportGoes
  <1>2. SkillTypeOK' /\ FetchedIsRemote'
    BY <1>1 DEF SkillInv, SkillTypeOK, SkillSteps, FetchedIsRemote
  <1>3. SkillsAreWhole'
    BY <1>1 DEF SkillInv, SkillsAreWhole, ListInstalled
  <1> QED BY <1>2, <1>3 DEF SkillInv

LEMMA SkillCopied == ASSUME SkillInv, NEW i \in Imports, ImportFromLocal(i) PROVE SkillInv'
  <1> DEFINE n == SkillName(i)
  <1>0. n \in SkillNames /\ rest' \in SUBSET SkillNames /\ Source(i) = "local"
    BY SkillAssumption DEF ImportFromLocal, SkillInv, SkillTypeOK
  <1>1. /\ metaJson \in [SkillNames -> Origins \cup {"none"}] /\ importStep \in [Imports -> SkillSteps] /\ torn \subseteq SkillNames
        /\ skillMd \in [SkillNames -> SkillCard]
    BY DEF SkillInv, SkillTypeOK, SkillSteps, SkillCard
  <1>2. PICK md : /\ md \in SkillCard /\ (md = skillMd[n] \/ (md.by = "local" /\ md.page = FALSE /\ md # NoSkillMd)) /\ CopyResult(i, md)
    <2>1. [by |-> "local", page |-> FALSE] \in SkillCard /\ [by |-> "local", page |-> FALSE] # NoSkillMd /\ skillMd[n] \in SkillCard
      BY <1>0, <1>1 DEF SkillCard, Origins, NoSkillMd
    <2> QED BY <2>1 DEF ImportFromLocal
  <1>3. md.page => md.by \in {"tree", "repo"}
    BY <1>0, <1>2 DEF SkillInv, SkillsAreWhole
  <1>4. CASE md # NoSkillMd
    <2>1. /\ metaJson' \in [SkillNames -> Origins \cup {"none"}] /\ metaJson'[n] = "local"
          /\ \A m \in SkillNames \ {n} : metaJson'[m] = metaJson[m]
      BY <1>0, <1>1, <1>2, <1>4 DEF CopyResult, HasSkill, Origins
    <2>2. torn' \in SUBSET SkillNames /\ (\A m \in SkillNames \ {n} : m \in torn' <=> m \in torn) /\ (md.by # "local" => n \in torn')
      BY <1>0, <1>1, <1>2, <1>4 DEF CopyResult, HasSkill
    <2>3. importStep' \in [Imports -> SkillSteps] /\ importStep'[i] = "skill" /\ \A j \in Imports \ {i} : importStep'[j] = importStep[j]
      BY <1>1, <1>2, <1>4 DEF CopyResult, HasSkill, ImportGoes, SkillSteps
    <2>4. skillMd' = [skillMd EXCEPT ![n] = md]
      BY <1>2 DEF CopyResult
    <2>5. \A j \in Imports : importStep'[j] = "skill" => importStep[j] = "skill" \/ metaJson'[SkillName(j)] # "none"
      BY <2>1, <2>3
    <2>6. \A j \in Imports : importStep'[j] \in {"raw", "clone", "generic"} => importStep[j] = importStep'[j]
      BY <2>3
    <2>7. \/ metaJson'[n] = md.by /\ md.by # "none"
          \/ metaJson'[n] # "none" /\ n \in torn'
      BY <2>1, <2>2
    <2> QED BY <1>0, <1>2, <1>3, <1>4, <2>1, <2>2, <2>3, <2>4, <2>5, <2>6, <2>7, SkillIsWritten
  <1>5. CASE md = NoSkillMd
    <2>1. md = skillMd[n]
      BY <1>2, <1>5
    <2>2. UNCHANGED <<skillMd, metaJson, torn>> /\ ImportGoes(i, "null")
      BY <1>0, <1>1, <1>2, <1>5, <2>1 DEF CopyResult, HasSkill
    <2> QED BY <1>0, <2>2, ImportMoves DEF SkillSteps
  <1> QED BY <1>4, <1>5

LEMMA SkillsKept == SkillInv /\ [SkillNext]_skillVars => SkillInv'
  <1> SUFFICES ASSUME SkillInv, [SkillNext]_skillVars PROVE SkillInv'
    OBVIOUS
  <1>1. CASE UNCHANGED skillVars
    BY <1>1 DEF skillVars, SkillInv, SkillTypeOK, FetchedIsRemote, SkillsAreWhole, ListInstalled
  <1>2. ASSUME NEW i \in Imports, ImportFromUrl(i) PROVE SkillInv'
    BY <1>2, ImportMoves DEF ImportFromUrl, SkillSteps, SkillInv, SkillTypeOK
  <1>3. ASSUME NEW i \in Imports, RawAnswers(i) PROVE SkillInv'
    <2>1. rest' \in SUBSET SkillNames /\ Source(i) # "local"
      BY <1>3 DEF RawAnswers, SkillInv, SkillTypeOK, FetchedIsRemote
    <2> QED BY <1>3, <2>1, StoredSkill, ImportMoves DEF RawAnswers, SkillSteps
  <1>4. ASSUME NEW i \in Imports, GitClone(i) PROVE SkillInv'
    <2>1. rest' \in SUBSET SkillNames /\ Source(i) # "local"
      BY <1>4, SkillAssumption DEF GitClone, Cloned, SkillInv, SkillTypeOK, FetchedIsRemote
    <2>2. StoreSkill(i, FALSE) \/ (ImportGoes(i, "generic") /\ UNCHANGED <<skillMd, metaJson, torn>>)
      BY <1>4 DEF GitClone, Cloned
    <2> QED BY <2>1, <2>2, StoredSkill, ImportMoves DEF SkillSteps
  <1>5. ASSUME NEW i \in Imports, GenericFetch(i) PROVE SkillInv'
    <2>1. rest' \in SUBSET SkillNames /\ Source(i) # "local" /\ Source(i) \in Origins
      BY <1>5, SkillAssumption DEF GenericFetch, SkillInv, SkillTypeOK, FetchedIsRemote
    <2>2. CASE ImportGoes(i, "null") /\ UNCHANGED <<skillMd, metaJson, torn>>
      BY <2>1, <2>2, ImportMoves DEF SkillSteps
    <2>3. CASE StoreSkill(i, Source(i) # "web")
      <3>1. PICK page \in BOOLEAN : page = (Source(i) # "web")
        OBVIOUS
      <3>2. StoreSkill(i, page) /\ (page => Source(i) \in {"tree", "repo"})
        BY <2>1, <2>3, <3>1 DEF Origins
      <3> QED BY <2>1, <3>2, StoredSkill
    <2> QED BY <1>5, <2>2, <2>3 DEF GenericFetch
  <1>6. ASSUME NEW i \in Imports, ImportFromLocal(i) PROVE SkillInv'
    BY <1>6, SkillCopied
  <1> QED BY <1>1, <1>2, <1>3, <1>4, <1>5, <1>6 DEF SkillNext

-----------------------------------------------------------------------------
(* The bridge (blockchain/bridge.ts): a chain is asked only after the platform  *)
(* was silent, and any transaction is looked for on TON alone.                  *)
AskedInSilence == \A t \in BridgeTasks : /\ bridgeStep[t] \in {"direct", "any"} => verdict[t] = "silent"
                                         /\ bridgeStep[t] = "any" => chain[t] = "TON"
BridgeInv == BridgeTypeOK /\ AskedInSilence /\ ApprovedIsThere

LEMMA BridgeBegins == BridgeInit => BridgeInv
  BY DEF BridgeInit, BridgeInv, BridgeTypeOK, AskedInSilence, ApprovedIsThere, Shown

LEMMA BridgeKept == BridgeInv /\ [BridgeNext]_bridgeVars => BridgeInv'
  <1> SUFFICES ASSUME BridgeInv, [BridgeNext]_bridgeVars PROVE BridgeInv'
    OBVIOUS
  <1> USE DEF BridgeInv, BridgeTypeOK, AskedInSilence, ApprovedIsThere
  <1>1. CASE UNCHANGED bridgeVars
    BY <1>1 DEF bridgeVars
  <1>2. ASSUME NEW t \in BridgeTasks, ChainMoves(t) PROVE BridgeInv'
    <2>1. onChain' \in [BridgeTasks -> Shown] /\ (\A u \in BridgeTasks \ {t} : onChain'[u] = onChain[u]) /\ onChain[t] \in {"absent", "pending"}
      BY <1>2 DEF ChainMoves, Shown
    <2> QED BY <1>2, <2>1 DEF ChainMoves
  <1>3. ASSUME NEW t \in BridgeTasks, ProcessBridgeTask(t) PROVE BridgeInv'
    BY <1>3 DEF ProcessBridgeTask, BridgeGoes
  <1>4. ASSUME NEW t \in BridgeTasks, ValidateLock(t) PROVE BridgeInv'
    BY <1>4 DEF ValidateLock, BridgeGoes
  <1>5. ASSUME NEW t \in BridgeTasks, VerifyDirectOnChain(t) PROVE BridgeInv'
    <2>1. seen' \in [BridgeTasks -> SUBSET Shown]
      BY <1>5 DEF VerifyDirectOnChain, Look
    <2> QED BY <1>5, <2>1 DEF VerifyDirectOnChain, BridgeGoes, Look, FoundOn, FoundOnSolana, FoundOnXRPL
  <1>6. ASSUME NEW t \in BridgeTasks, VerifyTONAny(t) PROVE BridgeInv'
    <2>1. seen' \in [BridgeTasks -> SUBSET Shown]
      BY <1>6 DEF VerifyTONAny, Look
    <2> QED BY <1>6, <2>1 DEF VerifyTONAny, BridgeGoes, Look
  <1>7. ASSUME NEW t \in BridgeTasks, SignVerification(t) PROVE BridgeInv'
    BY <1>7 DEF SignVerification, BridgeGoes
  <1> QED BY <1>1, <1>2, <1>3, <1>4, <1>5, <1>6, <1>7 DEF BridgeNext

-----------------------------------------------------------------------------
(* The answers a quorum pays (QuorumCoordinator), for every set of executors,   *)
(* answers and thresholds above one, and that it implements QuorumAgreement.    *)
Past == {"listening", "accepted", "expired", "failed"}

(* A signature that is under way was made by an executor that had computed the  *)
(* answer it is over.                                                           *)
MailIsHonest == \A a \in mail : a.hash = answer[a.signer] /\ stage[a.signer] \in Past

(* Nobody has started before the originator hands the task out.                 *)
NotDispatched == stage[Originator] = "computing" => \A n \in Executors \ {Originator} : stage[n] = "idle"

(* Who signed for me computed my answer.                                        *)
SignersAgree == \A n \in Executors : \A m \in collected[n] : answer[m] = answer[n] /\ stage[m] \in Past

EnoughSigned == \A n \in Executors : stage[n] = "accepted" => Cardinality(collected[n]) >= QuorumThreshold

(* The inductive invariant.                                                     *)
QuorumInv == QuorumTypeOK /\ MailIsHonest /\ NotDispatched /\ SignersAgree /\ EnoughSigned

(* Nothing is delivered that was not sent.                                      *)
LEMMA DeliverableIsSent == ASSUME NEW msgs PROVE Deliverable(msgs) \subseteq msgs
BY DEF Deliverable

(* What an executor sends is signed with its own answer.                        *)
LEMMA BroadcastIsSigned ==
    ASSUME QuorumTypeOK, NEW n \in Executors, NEW w \in Executors
    PROVE  /\ Broadcast(n, w) \subseteq Attestation
           /\ \A a \in Broadcast(n, w) : a.signer = n /\ a.hash = answer[n]
<1> SUFFICES ASSUME NEW a \in Broadcast(n, w)
             PROVE  a \in Attestation /\ a.signer = n /\ a.hash = answer[n]
    OBVIOUS
<1>1. PICK m \in Connected(n) : a = [worker |-> w, signer |-> n, hash |-> answer[n], to |-> m]
    BY DEF Broadcast
<1>2. m \in Executors /\ answer[n] \in Hashes
    BY DEF Connected, QuorumTypeOK
<1> QED BY <1>1, <1>2 DEF Attestation

LEMMA QuorumStarts == QuorumInit => QuorumInv
<1> SUFFICES ASSUME QuorumInit PROVE QuorumInv
    OBVIOUS
<1>1. QuorumTypeOK
    BY QuorumAssumption DEF QuorumInit, QuorumTypeOK
<1>2. MailIsHonest /\ NotDispatched /\ SignersAgree /\ EnoughSigned
    BY QuorumAssumption DEF QuorumInit, MailIsHonest, NotDispatched, SignersAgree, EnoughSigned, Past
<1> QED BY <1>1, <1>2 DEF QuorumInv

(* The executors that were past their computation stay so, and what they        *)
(* computed stays: the parts of the invariant that a step does not touch.       *)
LEMMA PastIsKept ==
    ASSUME QuorumInv, NEW n \in Executors, NEW s \in Past,
           stage' = [stage EXCEPT ![n] = s], stage[n] # "idle", stage[n] # "failed",
           answer' = answer
    PROVE  /\ stage' \in [Executors -> {"idle", "computing", "listening", "accepted", "expired", "failed"}]
           /\ \A m \in Executors : stage[m] \in Past => stage'[m] \in Past
           /\ stage'[n] = s /\ \A m \in Executors \ {n} : stage'[m] = stage[m]
BY DEF QuorumInv, QuorumTypeOK, Past

(* An executor that goes on to s, past its computation, and sends what is       *)
(* signed with its own answer.                                                  *)
LEMMA MoveKeeps ==
    ASSUME QuorumInv, NEW n \in Executors, NEW s \in Past,
           stage' = [stage EXCEPT ![n] = s], stage[n] # "idle", stage[n] # "failed",
           answer' = answer, cut' = cut,
           n # Originator \/ stage[n] # "computing",
           NEW mailed \in SUBSET Attestation, \A a \in mailed : a.signer = n /\ a.hash = answer[n],
           mail' \subseteq mail \cup mailed
    PROVE  /\ stage' \in [Executors -> {"idle", "computing", "listening", "accepted", "expired", "failed"}]
           /\ answer' \in [Executors -> Hashes]
           /\ cut' \subseteq SUBSET Executors /\ mail' \subseteq Attestation
           /\ MailIsHonest' /\ NotDispatched'
<1>1. /\ stage' \in [Executors -> {"idle", "computing", "listening", "accepted", "expired", "failed"}]
      /\ \A m \in Executors : stage[m] \in Past => stage'[m] \in Past
      /\ stage'[n] = s /\ \A m \in Executors \ {n} : stage'[m] = stage[m]
    BY PastIsKept
<1>2. /\ answer' \in [Executors -> Hashes]
      /\ cut' \subseteq SUBSET Executors /\ mail' \subseteq Attestation
    BY DEF QuorumInv, QuorumTypeOK
<1>3. MailIsHonest'
  <2> SUFFICES ASSUME NEW a \in mail' PROVE a.hash = answer[a.signer] /\ stage'[a.signer] \in Past
      BY DEF MailIsHonest
  <2>1. CASE a \in mail
    <3>1. a.signer \in Executors
        BY <1>2, <2>1 DEF Attestation
    <3> QED BY <1>1, <2>1, <3>1 DEF QuorumInv, MailIsHonest
  <2>2. CASE a \in mailed
      BY <1>1, <2>2
  <2> QED BY <2>1, <2>2
<1>4. NotDispatched'
    BY <1>1, QuorumAssumption DEF QuorumInv, NotDispatched, Past
<1> QED BY <1>1, <1>2, <1>3, <1>4

LEMMA FinishComputeKeeps == ASSUME QuorumInv, NEW n \in Executors, FinishCompute(n) PROVE QuorumInv'
<1> DEFINE mailed == Broadcast(n, n)
<1>1. mailed \in SUBSET Attestation /\ \A a \in mailed : a.signer = n /\ a.hash = answer[n]
    BY BroadcastIsSigned DEF QuorumInv
<1>2. mail' \subseteq mail \cup mailed
    BY DeliverableIsSent DEF FinishCompute
<1>3. /\ stage' \in [Executors -> {"idle", "computing", "listening", "accepted", "expired", "failed"}]
      /\ answer' \in [Executors -> Hashes]
      /\ cut' \subseteq SUBSET Executors /\ mail' \subseteq Attestation
      /\ MailIsHonest' /\ NotDispatched'
  <2> HIDE DEF mailed
  <2> QED BY <1>1, <1>2, MoveKeeps DEF FinishCompute, Past
<1>4. /\ \A m \in Executors : stage[m] \in Past => stage'[m] \in Past
      /\ stage'[n] = "listening" /\ \A m \in Executors \ {n} : stage'[m] = stage[m]
    BY PastIsKept DEF FinishCompute, Past
<1>5. collected' \in [Executors -> SUBSET Executors] /\ endorsed' \in [Executors -> SUBSET Executors]
    BY DEF FinishCompute, QuorumInv, QuorumTypeOK
<1>6. SignersAgree'
    BY <1>4 DEF FinishCompute, QuorumInv, QuorumTypeOK, SignersAgree, Past
<1>7. EnoughSigned'
    BY <1>4 DEF FinishCompute, QuorumInv, QuorumTypeOK, EnoughSigned
<1> QED BY <1>3, <1>5, <1>6, <1>7 DEF QuorumInv, QuorumTypeOK

(* FailCompute and Expire.                                                      *)
LEMMA StopKeeps ==
    ASSUME QuorumInv, NEW n \in Executors, FailCompute(n) \/ Expire(n) PROVE QuorumInv'
<1>1. PICK s \in {"failed", "expired"} : stage' = [stage EXCEPT ![n] = s]
    BY DEF FailCompute, Expire
<1>2. /\ stage[n] # "idle" /\ stage[n] # "failed" /\ (n # Originator \/ stage[n] # "computing")
      /\ UNCHANGED <<answer, collected, endorsed, cut>> /\ mail' \subseteq mail \cup {}
    BY DeliverableIsSent DEF FailCompute, Expire
<1>3. /\ stage' \in [Executors -> {"idle", "computing", "listening", "accepted", "expired", "failed"}]
      /\ answer' \in [Executors -> Hashes]
      /\ cut' \subseteq SUBSET Executors /\ mail' \subseteq Attestation
      /\ MailIsHonest' /\ NotDispatched'
  <2> DEFINE mailed == {}
  <2>1. mailed \in SUBSET Attestation /\ \A a \in mailed : a.signer = n /\ a.hash = answer[n]
      OBVIOUS
  <2>2. mail' \subseteq mail \cup mailed
      BY <1>2
  <2> HIDE DEF mailed
  <2> QED BY <1>1, <1>2, <2>1, <2>2, MoveKeeps DEF Past
<1>4. /\ \A m \in Executors : stage[m] \in Past => stage'[m] \in Past
      /\ stage'[n] = s /\ \A m \in Executors \ {n} : stage'[m] = stage[m]
    BY <1>1, <1>2, PastIsKept DEF Past
<1>5. SignersAgree' /\ EnoughSigned'
    BY <1>1, <1>2, <1>4 DEF QuorumInv, QuorumTypeOK, SignersAgree, EnoughSigned
<1> QED BY <1>2, <1>3, <1>5 DEF QuorumInv, QuorumTypeOK

(* The hand-out: nobody had started, so no signature was under way or counted.  *)
LEMMA DispatchKeeps == ASSUME QuorumInv, Dispatch PROVE QuorumInv'
<1>1. /\ Originator \in Executors /\ stage[Originator] = "computing"
      /\ \A n \in Executors : stage[n] \notin Past /\ collected[n] = {}
      /\ mail = {}
  <2>1. \A n \in Executors : stage[n] \notin Past
      BY DEF Dispatch, QuorumInv, NotDispatched, Past
  <2>2. \A n \in Executors : collected[n] = {}
      BY <2>1 DEF QuorumInv, QuorumTypeOK, SignersAgree
  <2>3. mail = {}
      BY <2>1 DEF QuorumInv, QuorumTypeOK, MailIsHonest, Attestation
  <2> QED BY <2>1, <2>2, <2>3, QuorumAssumption DEF Dispatch
<1>2. /\ stage' \in [Executors -> {"idle", "computing", "listening", "accepted", "expired", "failed"}]
      /\ stage'[Originator] = "listening"
      /\ \A n \in Executors \ {Originator} : stage'[n] \notin Past
  <2>1. \A n \in Executors : stage'[n] = CASE n = Originator -> "listening"
                                          [] n \in Connected(Originator) -> "computing"
                                          [] OTHER -> stage[n]
      BY DEF Dispatch
  <2>2. stage'[Originator] = "listening"
      BY <1>1, <2>1 DEF Connected
  <2>3. \A n \in Executors \ {Originator} : stage'[n] \in {"computing", stage[n]}
      BY <2>1
  <2>4. stage' = [n \in Executors |-> stage'[n]]
      BY DEF Dispatch
  <2> QED BY <1>1, <2>2, <2>3, <2>4 DEF QuorumInv, QuorumTypeOK, Past
<1>3. collected'[Originator] = {Originator} /\ \A n \in Executors \ {Originator} : collected'[n] = {}
    BY <1>1 DEF Dispatch, QuorumInv, QuorumTypeOK
<1>4. \A a \in mail' : a \in Attestation /\ a.signer = Originator /\ a.hash = answer[Originator]
    BY <1>1, DeliverableIsSent, BroadcastIsSigned DEF Dispatch, QuorumInv
<1>5. QuorumTypeOK'
    BY <1>1, <1>2, <1>4 DEF Dispatch, QuorumInv, QuorumTypeOK
<1>6. MailIsHonest'
    BY <1>2, <1>4 DEF Dispatch, MailIsHonest, Past
<1>7. NotDispatched'
    BY <1>2 DEF NotDispatched
<1>8. SignersAgree' /\ EnoughSigned'
    BY <1>1, <1>2, <1>3 DEF SignersAgree, EnoughSigned, Past, Dispatch
<1> QED BY <1>5, <1>6, <1>7, <1>8 DEF QuorumInv

(* A signature that counts is over my answer, which its signer computed.        *)
LEMMA CountKeeps == ASSUME QuorumInv, NEW a \in mail, Count(a) PROVE QuorumInv'
<1> DEFINE n == a.to
           signers == IF Matches(a) THEN collected[n] \cup {a.signer} ELSE collected[n]
           s == IF Cardinality(signers) >= QuorumThreshold THEN "accepted" ELSE "listening"
<1>1. /\ n \in Executors /\ a.signer \in Executors
      /\ stage[n] = "listening" /\ stage' = [stage EXCEPT ![n] = s]
      /\ collected' = [collected EXCEPT ![n] = signers]
      /\ UNCHANGED <<answer, endorsed, cut>> /\ mail' \subseteq mail \cup {}
    BY DeliverableIsSent DEF Count, QuorumInv, QuorumTypeOK, Attestation
<1>2. signers \in SUBSET Executors /\ \A m \in signers : answer[m] = answer[n] /\ stage[m] \in Past
    BY <1>1 DEF Matches, QuorumInv, QuorumTypeOK, SignersAgree, MailIsHonest
<1>3. s \in Past /\ (s = "accepted" => Cardinality(signers) >= QuorumThreshold)
    BY DEF Past
<1> HIDE DEF n, signers, s
<1>4. /\ stage' \in [Executors -> {"idle", "computing", "listening", "accepted", "expired", "failed"}]
      /\ answer' \in [Executors -> Hashes]
      /\ cut' \subseteq SUBSET Executors /\ mail' \subseteq Attestation
      /\ MailIsHonest' /\ NotDispatched'
  <2> DEFINE mailed == {}
  <2>1. mailed \in SUBSET Attestation /\ \A b \in mailed : b.signer = n /\ b.hash = answer[n]
      OBVIOUS
  <2>2. mail' \subseteq mail \cup mailed
      BY <1>1
  <2> HIDE DEF mailed
  <2> QED BY <1>1, <1>3, <2>1, <2>2, MoveKeeps
<1>5. /\ \A m \in Executors : stage[m] \in Past => stage'[m] \in Past
      /\ stage'[n] = s /\ \A m \in Executors \ {n} : stage'[m] = stage[m]
    BY <1>1, <1>3, PastIsKept
<1>6. collected' \in [Executors -> SUBSET Executors] /\ collected'[n] = signers
      /\ \A m \in Executors \ {n} : collected'[m] = collected[m]
    BY <1>1, <1>2 DEF QuorumInv, QuorumTypeOK
<1>7. SignersAgree' /\ EnoughSigned'
    BY <1>1, <1>2, <1>3, <1>5, <1>6 DEF QuorumInv, QuorumTypeOK, SignersAgree, EnoughSigned
<1>8. endorsed' \in [Executors -> SUBSET Executors]
    BY <1>1 DEF QuorumInv, QuorumTypeOK
<1> QED BY <1>4, <1>6, <1>7, <1>8 DEF QuorumInv, QuorumTypeOK

(* A vouch is over the answer of who vouches.                                   *)
LEMMA EndorseKeeps == ASSUME QuorumInv, NEW a \in mail, Endorse(a) PROVE QuorumInv'
<1> DEFINE n == a.to
<1>1. n \in Executors /\ a.worker \in Executors /\ stage[n] = "listening"
    BY DEF Endorse, QuorumInv, QuorumTypeOK, Attestation
<1>2. /\ stage' = [stage EXCEPT ![n] = "listening"]
      /\ UNCHANGED <<answer, collected, cut, stage>>
      /\ endorsed' \in [Executors -> SUBSET Executors]
    BY <1>1 DEF Endorse, QuorumInv, QuorumTypeOK
<1>3. /\ stage' \in [Executors -> {"idle", "computing", "listening", "accepted", "expired", "failed"}]
      /\ answer' \in [Executors -> Hashes]
      /\ cut' \subseteq SUBSET Executors /\ mail' \subseteq Attestation
      /\ MailIsHonest' /\ NotDispatched'
  <2> DEFINE mailed == Broadcast(n, a.worker)
  <2>1. mailed \in SUBSET Attestation /\ \A b \in mailed : b.signer = n /\ b.hash = answer[n]
      BY <1>1, BroadcastIsSigned DEF QuorumInv
  <2>2. mail' \subseteq mail \cup mailed
      BY DeliverableIsSent DEF Endorse
  <2> HIDE DEF mailed, n
  <2> QED BY <1>1, <1>2, <2>1, <2>2, MoveKeeps DEF Past
<1>4. SignersAgree' /\ EnoughSigned'
    BY <1>2 DEF QuorumInv, SignersAgree, EnoughSigned
<1> QED BY <1>2, <1>3, <1>4 DEF QuorumInv, QuorumTypeOK

LEMMA LossKeeps ==
    ASSUME QuorumInv, (\E a \in mail : ArriveEarly(a)) \/ (\E n, m \in Executors : Disconnect(n, m))
    PROVE  QuorumInv'
<1>1. UNCHANGED <<stage, answer, collected, endorsed>> /\ mail' \subseteq mail /\ cut' \subseteq SUBSET Executors
    BY DEF ArriveEarly, Disconnect, QuorumInv, QuorumTypeOK
<1> QED BY <1>1 DEF QuorumInv, QuorumTypeOK, MailIsHonest, NotDispatched, SignersAgree, EnoughSigned

LEMMA QuorumKept == QuorumInv /\ [QuorumNext]_quorumVars => QuorumInv'
<1> SUFFICES ASSUME QuorumInv, [QuorumNext]_quorumVars PROVE QuorumInv'
    OBVIOUS
<1>1. CASE Dispatch
    BY <1>1, DispatchKeeps
<1>2. CASE \E n \in Executors : FinishCompute(n) \/ FailCompute(n) \/ Expire(n)
    BY <1>2, FinishComputeKeeps, StopKeeps
<1>3. CASE \E a \in mail : Count(a) \/ Endorse(a)
    BY <1>3, CountKeeps, EndorseKeeps
<1>4. CASE (\E a \in mail : ArriveEarly(a)) \/ (\E n, m \in Executors : Disconnect(n, m))
    BY <1>4, LossKeeps
<1>5. CASE UNCHANGED quorumVars
    BY <1>5 DEF quorumVars, QuorumInv, QuorumTypeOK, MailIsHonest, NotDispatched, SignersAgree, EnoughSigned
<1> QED BY <1>1, <1>2, <1>3, <1>4, <1>5 DEF QuorumNext

LEMMA QuorumStays == QuorumSpec => []QuorumInv
BY QuorumStarts, QuorumKept, PTL DEF QuorumSpec
-----------------------------------------------------------------------------
(* Every variable of the coordinators keeps its type.                           *)
THEOREM QuorumIsTyped == QuorumSpec => []QuorumTypeOK
BY QuorumStays, PTL DEF QuorumInv

LEMMA ProofsAgree == QuorumInv => ProofIsAgreement
BY DEF QuorumInv, QuorumTypeOK, SignersAgree, EnoughSigned, ProofIsAgreement, Past

(* A proof that awaitQuorum accepts holds enough distinct signers, and each of  *)
(* them computed its answer, whatever was lost, reordered or late.              *)
THEOREM ProofsAreAgreements == QuorumSpec => []ProofIsAgreement
BY QuorumStays, ProofsAgree, PTL

(* Two majorities meet.                                                         *)
LEMMA MajoritiesMeet ==
    ASSUME QuorumInv, NEW n \in Executors, NEW m \in Executors,
           2 * QuorumThreshold > Cardinality(Executors),
           stage[n] = "accepted", stage[m] = "accepted"
    PROVE  answer[n] = answer[m]
<1> SUFFICES ASSUME answer[n] # answer[m] PROVE FALSE
    OBVIOUS
<1>1. collected[n] \subseteq Executors /\ collected[m] \subseteq Executors
    BY DEF QuorumInv, QuorumTypeOK
<1>2. collected[n] \cap collected[m] = {}
    BY DEF QuorumInv, SignersAgree
<1>3. /\ IsFiniteSet(collected[n]) /\ IsFiniteSet(collected[m])
      /\ Cardinality(collected[n]) \in Nat /\ Cardinality(collected[m]) \in Nat
    BY <1>1, QuorumAssumption, FS_Subset, FS_CardinalityType
<1>4. Cardinality(collected[n] \cup collected[m]) = Cardinality(collected[n]) + Cardinality(collected[m])
  <2>1. Cardinality(collected[n] \cap collected[m]) = 0
      BY <1>2, FS_EmptySet
  <2>2. Cardinality(collected[n] \cup collected[m])
          = Cardinality(collected[n]) + Cardinality(collected[m]) - Cardinality(collected[n] \cap collected[m])
      BY <1>3, FS_Union
  <2> QED BY <1>3, <2>1, <2>2
<1>5. Cardinality(collected[n] \cup collected[m]) <= Cardinality(Executors)
    BY <1>1, QuorumAssumption, FS_Subset
<1>6. Cardinality(Executors) \in Nat
    BY QuorumAssumption, FS_CardinalityType
<1> QED BY <1>3, <1>4, <1>5, <1>6, QuorumAssumption DEF QuorumInv, EnoughSigned

LEMMA AcceptedAgree == QuorumInv => OneAnswerPaid
BY MajoritiesMeet DEF OneAnswerPaid

(* With a majority threshold two executors never both get paid for different    *)
(* answers.                                                                     *)
THEOREM OneAnswerIsPaid == QuorumSpec => []OneAnswerPaid
BY QuorumStays, AcceptedAgree, PTL

-----------------------------------------------------------------------------
(* The abstract specification counts as this one does.                          *)
LEMMA SameCardinality == \A S : Agreement!Cardinality(S) = Cardinality(S)
BY DEF Agreement!Cardinality, Cardinality

Accepted == {n \in Executors : stage[n] = "accepted"}

(* A step settles one executor, whose signers are executors with its answer, or *)
(* nobody.                                                                      *)
LEMMA StepAgrees ==
    ASSUME QuorumInv, [QuorumNext]_quorumVars
    PROVE  [Agreement!AgreementNext]_<<answer, Accepted>>
<1>1. CASE \E a \in mail : Count(a)
  <2> PICK a \in mail : Count(a)
      BY <1>1
  <2> DEFINE n == a.to
             signers == IF Matches(a) THEN collected[n] \cup {a.signer} ELSE collected[n]
  <2>1. n \in Executors /\ a.signer \in Executors /\ stage[n] = "listening" /\ answer' = answer
      BY DEF Count, QuorumInv, QuorumTypeOK, Attestation
  <2>2. signers \subseteq {m \in Executors : answer[m] = answer[n]}
      BY <2>1 DEF Matches, QuorumInv, QuorumTypeOK, SignersAgree, MailIsHonest
  <2>3. CASE Cardinality(signers) >= QuorumThreshold
    <3>1. Accepted' = Accepted \cup {n} /\ n \notin Accepted
        BY <2>1, <2>3 DEF Count, QuorumInv, QuorumTypeOK, Accepted
    <3>2. Cardinality({m \in Executors : answer[m] = answer[n]}) >= QuorumThreshold
      <4> DEFINE agreeing == {m \in Executors : answer[m] = answer[n]}
      <4>1. IsFiniteSet(agreeing) /\ agreeing \subseteq Executors
          BY QuorumAssumption, FS_Subset
      <4>2. Cardinality(signers) <= Cardinality(agreeing) /\ Cardinality(agreeing) \in Nat
            /\ Cardinality(signers) \in Nat
        <5> HIDE DEF signers, agreeing
        <5> QED BY <2>2, <4>1, FS_Subset, FS_CardinalityType DEF agreeing
      <4> HIDE DEF signers, agreeing
      <4> QED BY <2>3, <4>2, QuorumAssumption DEF agreeing
    <3>3. Agreement!Cardinality({m \in Executors : answer[m] = answer[n]}) >= QuorumThreshold
        BY <3>2, SameCardinality
    <3> QED BY <2>1, <3>1, <3>3 DEF Agreement!AgreementNext, Agreement!Settle, Agreement!Agreeing, Accepted
  <2>4. CASE ~(Cardinality(signers) >= QuorumThreshold)
      BY <2>1, <2>4 DEF Count, Accepted
  <2> QED BY <2>3, <2>4
<1>2. CASE \E n \in Executors : FinishCompute(n) \/ FailCompute(n) \/ Expire(n)
    BY <1>2 DEF FinishCompute, FailCompute, Expire, QuorumInv, QuorumTypeOK, Accepted
<1>3. CASE Dispatch
  <2>1. \A n \in Executors : stage[n] \notin Past
      BY <1>3 DEF Dispatch, QuorumInv, NotDispatched, Past
  <2>2. \A n \in Executors : stage'[n] # "accepted"
      BY <1>3, <2>1 DEF Dispatch, Past
  <2> QED BY <1>3, <2>1, <2>2 DEF Dispatch, Accepted, Past
<1>4. CASE \/ \E a \in mail : Endorse(a) \/ ArriveEarly(a)
           \/ \E n, m \in Executors : Disconnect(n, m)
           \/ UNCHANGED quorumVars
    BY <1>4 DEF Endorse, ArriveEarly, Disconnect, quorumVars, Accepted
<1> QED BY <1>1, <1>2, <1>3, <1>4 DEF QuorumNext

LEMMA InitAgrees == QuorumInit => Agreement!AgreementInit
BY DEF QuorumInit, Agreement!AgreementInit

(* The coordinators implement the agreement: whoever accepts a proof does so    *)
(* once, for good, and because enough executors hold its answer.                *)
THEOREM ImplementsTheAgreement == QuorumSpec => ImplementsAgreement
<1>1. QuorumInv /\ [QuorumNext]_quorumVars => [Agreement!AgreementNext]_<<answer, Accepted>>
    BY StepAgrees
<1> QED BY <1>1, InitAgrees, QuorumStays, PTL DEF QuorumSpec, ImplementsAgreement, Agreement!AgreementSpec, Accepted
=============================================================================
