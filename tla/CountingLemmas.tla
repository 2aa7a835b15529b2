--------------------------- MODULE CountingLemmas ---------------------------
(***************************************************************************)
(* Facts about natural numbers and finite sets that the proofs share: the  *)
(* least of a set of numbers, functions that are defined step by step, and *)
(* ranks in a finite order.                                                *)
(***************************************************************************)
EXTENDS Integers, Sequences, FiniteSets, Functions, FiniteSetTheorems,
        WellFoundedInduction, TLAPS

LEMMA Least ==
  ASSUME NEW S \in SUBSET Nat, S # {}
  PROVE  \E n \in S : \A m \in S : n <= m
<1> DEFINE less == {r \in Nat \X Nat : r[1] < r[2]}
<1>1. OpToRel(<, Nat) = less
  BY DEF OpToRel
<1>2. IsWellFoundedOn(less, Nat)
  BY <1>1, NatLessThanWellFounded, Zenon
<1> HIDE DEF less
<1>3. PICK n \in S : \A m \in S : ~(<<m, n>> \in less)
  BY <1>2, WFMin
<1>4. \A m \in S : m \in Nat /\ n \in Nat /\ ~(m < n)
  BY <1>3 DEF less
<1> QED
  BY <1>4

\* What holds of 0 and passes from a number to the next holds up to n.
LEMMA UpTo ==
  ASSUME NEW n \in Nat, NEW P \in SUBSET Nat,
         0 \in P, \A k \in 1 .. n : k - 1 \in P => k \in P
  PROVE  \A k \in 0 .. n : k \in P
<1> SUFFICES ASSUME (0 .. n) \ P # {} PROVE FALSE
  OBVIOUS
<1>1. PICK m \in (0 .. n) \ P : \A k \in (0 .. n) \ P : m <= k
  <2>1. (0 .. n) \ P \in SUBSET Nat
    OBVIOUS
  <2> QED BY <2>1, Least
<1>2. m \in 1 .. n /\ m - 1 \in P
  BY <1>1
<1> QED
  BY <1>1, <1>2

\* f is given at 0 and, at k, from its value at k - 1.
Stepwise(f, n, S, first, step) ==
  /\ f \in [0 .. n -> S] /\ f[0] = first
  /\ \A k \in 1 .. n : f[k] = step[k][f[k-1]]

LEMMA StepwiseExists ==
  ASSUME NEW n \in Nat, NEW S, NEW first \in S, NEW step \in [1 .. n -> [S -> S]]
  PROVE  \E f : Stepwise(f, n, S, first, step)
<1> DEFINE Good(f, m) == /\ f \in [0 .. m -> S] /\ f[0] = first
                         /\ \A k \in 1 .. m : f[k] = step[k][f[k-1]]
           P == {m \in 0 .. n : \E f : Good(f, m)}
<1>1. 0 \in P
  <2>1. Good([k \in 0 .. 0 |-> first], 0)
    OBVIOUS
  <2>2. 0 \in 0 .. n /\ \E f : Good(f, 0)
    <3> HIDE DEF Good
    <3> QED BY <2>1
  <2> QED BY <2>2
<1>2. ASSUME NEW m \in 1 .. n, m - 1 \in P PROVE m \in P
  <2>1. PICK f : Good(f, m - 1)
    BY <1>2
  <2> DEFINE g == [k \in 0 .. m |-> IF k = m THEN step[m][f[m-1]] ELSE f[k]]
  <2> HIDE DEF P
  <2>2. f[m-1] \in S /\ \A k \in 0 .. m - 1 : f[k] \in S
    BY <2>1
  <2>3. step[m][f[m-1]] \in S
    BY <2>2
  <2>4. g \in [0 .. m -> S] /\ g[0] = first
    BY <2>1, <2>2, <2>3
  <2>5. ASSUME NEW k \in 1 .. m PROVE g[k] = step[k][g[k-1]]
    <3>1. CASE k = m
      <4>1. g[m] = step[m][f[m-1]] /\ g[m-1] = f[m-1]
        OBVIOUS
      <4> HIDE DEF g
      <4> QED BY <3>1, <4>1
    <3>2. CASE k # m
      <4>1. k \in 1 .. m - 1 /\ k - 1 \in 0 .. m /\ k - 1 # m
        BY <3>2
      <4> QED BY <4>1, <3>2, <2>1
    <3> QED BY <3>1, <3>2
  <2>6. Good(g, m)
    BY <2>4, <2>5
  <2>7. m \in 0 .. n /\ \E f_1 : Good(f_1, m)
    <3> HIDE DEF Good, g
    <3> QED BY <2>6
  <2> QED BY <2>7 DEF P
<1>3. n \in P
  <2>1. \A k \in 1 .. n : k - 1 \in P => k \in P
    BY <1>2
  <2>2. P \in SUBSET Nat
    OBVIOUS
  <2> HIDE DEF P
  <2>3. \A k \in 0 .. n : k \in P
    BY <1>1, <2>1, <2>2, UpTo
  <2> QED BY <2>3
<1>4. PICK f : Good(f, n)
  BY <1>3
<1> QED
  BY <1>4 DEF Stepwise

\* A total order on S: before[a] is what comes before a.
TotalOrder(S, before) ==
  /\ before \in [S -> SUBSET S]
  /\ \A a \in S : a \notin before[a]
  /\ \A a \in S : \A b \in before[a] : before[b] \subseteq before[a]
  /\ \A a, b \in S : a = b \/ a \in before[b] \/ b \in before[a]

\* The ranks 0, 1, 2, ... of the members of S, each of one of them.
RankedBy(S, before) ==
  /\ Cardinality(S) \in Nat
  /\ \A a \in S : Cardinality(before[a]) \in 0 .. Cardinality(S) - 1
  /\ \A a, b \in S : Cardinality(before[a]) = Cardinality(before[b]) => a = b
  /\ \A k \in 0 .. Cardinality(S) - 1 : \E a \in S : Cardinality(before[a]) = k

LEMMA Ranks ==
  ASSUME NEW S, IsFiniteSet(S), NEW before, TotalOrder(S, before)
  PROVE  RankedBy(S, before)
<1> DEFINE n == Cardinality(S)
<1> USE DEF TotalOrder
<1>1. n \in Nat
  BY FS_CardinalityType
<1>2. \A a \in S : IsFiniteSet(before[a]) /\ Cardinality(before[a]) \in Nat
  BY FS_Subset, FS_CardinalityType
<1>3. ASSUME NEW a \in S PROVE Cardinality(before[a]) \in 0 .. n - 1
  <2>1. before[a] \in SUBSET (S \ {a})
    OBVIOUS
  <2>2. IsFiniteSet(S \ {a}) /\ Cardinality(S \ {a}) = n - 1
    BY FS_RemoveElement
  <2>3. Cardinality(before[a]) <= n - 1
    BY <2>1, <2>2, FS_Subset
  <2> QED BY <1>1, <1>2, <2>3
<1>4. ASSUME NEW a \in S, NEW b \in before[a]
      PROVE  Cardinality(before[b]) < Cardinality(before[a])
  <2>1. b \in S
    OBVIOUS
  <2>2. before[b] \in SUBSET (before[a] \ {b})
    BY <2>1
  <2>3. IsFiniteSet(before[a] \ {b})
        /\ Cardinality(before[a] \ {b}) = Cardinality(before[a]) - 1
    BY <1>2, FS_RemoveElement
  <2>4. Cardinality(before[b]) <= Cardinality(before[a]) - 1
    BY <2>2, <2>3, FS_Subset
  <2> QED BY <1>2, <2>1, <2>4
<1>5. \A a, b \in S : Cardinality(before[a]) = Cardinality(before[b]) => a = b
  BY <1>2, <1>4
<1>6. \A k \in 0 .. n - 1 : \E a \in S : Cardinality(before[a]) = k
  <2> DEFINE rank == [a \in S |-> Cardinality(before[a])]
  <2>1. rank \in [S -> 0 .. n - 1]
    BY <1>3
  <2>2. rank \in Injection(S, 0 .. n - 1)
    BY <2>1, <1>5 DEF Injection, IsInjective
  <2>3. IsFiniteSet(0 .. n - 1) /\ Cardinality(0 .. n - 1) = n
    <3>1. IsFiniteSet(0 .. n - 1)
          /\ Cardinality(0 .. n - 1) = IF 0 > n - 1 THEN 0 ELSE n - 1 - 0 + 1
      BY <1>1, FS_Interval
    <3> QED BY <3>1, <1>1
  <2>4. rank \in Surjection(S, 0 .. n - 1)
    BY <2>2, <2>3, FS_Injection
  <2> QED BY <2>4 DEF Surjection
<1> QED
  BY <1>1, <1>3, <1>5, <1>6 DEF RankedBy

\* The i-th of a set of numbers is the one that i - 1 of them are less than.
LEMMA Positions ==
  ASSUME NEW ks \in SUBSET Nat, IsFiniteSet(ks)
  PROVE  \A i \in 0 .. Cardinality(ks) - 1 :
           \E a \in ks : Cardinality({j \in ks : j < a}) = i
<1> DEFINE below == [k \in ks |-> {j \in ks : j < k}]
           m == Cardinality(ks)
<1>0. IsFiniteSet(ks)
  OBVIOUS
<1>1. \A a \in ks : below[a] = {j \in ks : j < a}
  OBVIOUS
<1>2. TotalOrder(ks, below)
  <2>1. /\ below \in [ks -> SUBSET ks]
        /\ \A a \in ks : \A b : b \in below[a] <=> b \in ks /\ b < a
        /\ \A a \in ks : a \in Nat
    OBVIOUS
  <2> HIDE DEF below
  <2>2. \A a \in ks : a \notin below[a]
    BY <2>1
  <2>3. \A a \in ks : \A b \in below[a] : below[b] \subseteq below[a]
    <3> SUFFICES ASSUME NEW a \in ks, NEW b \in below[a], NEW c \in below[b]
                 PROVE  c \in below[a]
      OBVIOUS
    <3>1. b \in ks /\ b < a /\ c \in ks /\ c < b
      BY <2>1
    <3> QED BY <3>1, <2>1
  <2>4. \A a, b \in ks : a = b \/ a \in below[b] \/ b \in below[a]
    BY <2>1
  <2> QED BY <2>1, <2>2, <2>3, <2>4 DEF TotalOrder
<1> HIDE DEF below, m
<1>3. \A k \in 0 .. m - 1 : \E a \in ks : Cardinality(below[a]) = k
  <2>1. RankedBy(ks, below)
    BY <1>0, <1>2, Ranks
  <2> QED BY <2>1 DEF RankedBy, m
<1> QED
  BY <1>1, <1>3 DEF m
=============================================================================
