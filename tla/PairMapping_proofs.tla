------------------------- MODULE PairMapping_proofs -------------------------
(***************************************************************************)
(* The pair algorithm on a mesh of any even height, for any applications,  *)
(* any run times and any temperatures: what make_pairs and                 *)
(* find_compact_mapping return, that an application is on the chip with    *)
(* all its tasks or not at all, on cores that were free and cold, and that *)
(* no core ever runs two tasks at once.                                    *)
(***************************************************************************)
EXTENDS PairMapping, SequenceTheorems, CountingLemmas

\* What PairAssumption says of one application.
IsApp(app) ==
  /\ app.tasks \in Seq(Nat) /\ Len(app.tasks) > 0
  /\ app.volume \in Seq(Nat) /\ Len(app.volume) = Len(app.edges)
  /\ app.edges \in Seq((DOMAIN app.tasks) \X (DOMAIN app.tasks))
  /\ \A e \in DOMAIN app.edges : app.edges[e][1] # app.edges[e][2]

LEMMA EveryApp ==
  ASSUME NEW a \in DOMAIN Apps
  PROVE  IsApp(Apps[a]) /\ a \in Nat \ {0} /\ a <= Len(Apps) /\ Len(Apps) \in Nat
<1>1. IsApp(Apps[a])
  BY PairAssumption, Zenon DEF IsApp
<1>2. DOMAIN Apps = 1 .. Len(Apps) /\ Len(Apps) \in Nat
  BY PairAssumption, Zenon
<1> QED
  BY <1>1, <1>2

-----------------------------------------------------------------------------
(* make_pairs.                                                             *)

\* A function on 1 .. n is a sequence of length n.
LEMMA Sequence ==
  ASSUME NEW n \in Nat, NEW S, NEW f \in [1 .. n -> S]
  PROVE  f \in Seq(S) /\ Len(f) = n /\ DOMAIN f = 1 .. n
<1>1. f \in Seq(S)
  BY SeqDef
<1>2. Len(f) \in Nat /\ DOMAIN f = 1 .. Len(f)
  BY <1>1, LenProperties
<1> QED
  BY <1>1, <1>2

\* The indices in "of", each once.
LEMMA DescendingLists ==
  ASSUME NEW s \in Seq(Nat), NEW of \in SUBSET DOMAIN s
  PROVE  LET d == Descending(s, of)
             n == Cardinality(of)
         IN /\ n \in Nat /\ d \in [1 .. n -> of]
            /\ \A k, l \in 1 .. n : d[k] = d[l] => k = l
            /\ \A a \in of : \E k \in 1 .. n : d[k] = a
<1> DEFINE n == Cardinality(of)
           before == [a \in of |-> Before(s, of, a)]
           at(k, a) == Cardinality(Before(s, of, a)) = k - 1
           d == Descending(s, of)
<1>1. \A a \in of : a \in Nat /\ s[a] \in Nat
  <2>1. DOMAIN s = 1 .. Len(s) /\ Len(s) \in Nat /\ s \in [1 .. Len(s) -> Nat]
    BY LenProperties
  <2> QED BY <2>1
<1>2. IsFiniteSet(of)
  <2>1. DOMAIN s = 1 .. Len(s) /\ Len(s) \in Nat
    BY LenProperties
  <2>2. IsFiniteSet(1 .. Len(s))
    BY <2>1, FS_Interval
  <2> QED BY <2>1, <2>2, FS_Subset
<1>3. before \in [of -> SUBSET of]
  BY DEF Before
<1>4. \A a \in of : a \notin before[a]
  BY <1>1 DEF Before
<1>5. \A a \in of : \A b \in before[a] : before[b] \subseteq before[a]
  <2> SUFFICES ASSUME NEW a \in of, NEW b \in before[a], NEW c \in before[b]
               PROVE  c \in before[a]
    OBVIOUS
  <2>1. b \in of /\ c \in of
    BY <1>3
  <2>2. /\ s[b] > s[a] \/ (s[b] = s[a] /\ b > a)
        /\ s[c] > s[b] \/ (s[c] = s[b] /\ c > b)
    BY <2>1 DEF Before
  <2>3. s[c] > s[a] \/ (s[c] = s[a] /\ c > a)
    BY <2>1, <2>2, <1>1
  <2> QED BY <2>1, <2>3 DEF Before
<1>6. \A a, b \in of : a = b \/ a \in before[b] \/ b \in before[a]
  <2> SUFFICES ASSUME NEW a \in of, NEW b \in of, a # b
               PROVE  a \in before[b] \/ b \in before[a]
    OBVIOUS
  <2>1. \/ s[a] > s[b] \/ (s[a] = s[b] /\ a > b)
        \/ s[b] > s[a] \/ (s[b] = s[a] /\ b > a)
    BY <1>1
  <2> QED BY <2>1 DEF Before
<1>7. /\ n \in Nat
      /\ \A a \in of : Cardinality(before[a]) \in 0 .. n - 1
      /\ \A a, b \in of : Cardinality(before[a]) = Cardinality(before[b]) => a = b
      /\ \A k \in 0 .. n - 1 : \E a \in of : Cardinality(before[a]) = k
  <2> HIDE DEF before
  <2>1. TotalOrder(of, before)
    BY <1>3, <1>4, <1>5, <1>6 DEF TotalOrder
  <2>2. RankedBy(of, before)
    BY <1>2, <2>1, Ranks
  <2> QED BY <2>2 DEF RankedBy
<1>8. /\ \A a \in of : Cardinality(Before(s, of, a)) \in 0 .. n - 1
      /\ \A k \in 0 .. n - 1 : \E a \in of : Cardinality(Before(s, of, a)) = k
      /\ \A a, b \in of : Cardinality(Before(s, of, a)) = Cardinality(Before(s, of, b)) => a = b
  BY <1>7
<1> HIDE DEF before
<1>9. ASSUME NEW k \in 1 .. n PROVE d[k] \in of /\ at(k, d[k])
  <2>1. k - 1 \in 0 .. n - 1
    BY <1>7
  <2>2. \E a \in of : at(k, a)
    BY <2>1, <1>8
  <2>3. d[k] = CHOOSE a \in of : at(k, a)
    BY DEF Descending
  <2> HIDE DEF at, d
  <2> QED BY <2>2, <2>3
<1>10. d \in [1 .. n -> of]
  <2>1. d = [k \in 1 .. n |-> d[k]]
    BY DEF Descending
  <2> HIDE DEF d
  <2> QED BY <2>1, <1>9
<1>11. \A k, l \in 1 .. n : d[k] = d[l] => k = l
  <2> SUFFICES ASSUME NEW k \in 1 .. n, NEW l \in 1 .. n, d[k] = d[l] PROVE k = l
    OBVIOUS
  <2> HIDE DEF d
  <2>1. Cardinality(Before(s, of, d[k])) = k - 1
        /\ Cardinality(Before(s, of, d[l])) = l - 1
    BY <1>9
  <2> QED BY <2>1, <1>7
<1>12. ASSUME NEW a \in of PROVE \E k \in 1 .. n : d[k] = a
  <2> DEFINE k == Cardinality(Before(s, of, a)) + 1
  <2>1. k \in 1 .. n /\ Cardinality(Before(s, of, a)) = k - 1
    <3>1. Cardinality(Before(s, of, a)) \in 0 .. n - 1 /\ n \in Nat
      BY <1>8, <1>7
    <3> HIDE DEF n
    <3> QED BY <3>1
  <2> HIDE DEF k, d
  <2>2. d[k] \in of /\ Cardinality(Before(s, of, d[k])) = k - 1
    BY <2>1, <1>9
  <2>3. d[k] = a
    BY <2>1, <2>2, <1>8
  <2> QED BY <2>1, <2>3
<1> QED
  BY <1>7, <1>10, <1>11, <1>12

Tasks(app) == DOMAIN app.tasks

LEMMA AppTasks ==
  ASSUME NEW app, IsApp(app)
  PROVE  /\ Len(app.tasks) \in Nat \ {0} /\ Tasks(app) = 1 .. Len(app.tasks)
         /\ \A t \in Tasks(app) : t \in Nat /\ t # None /\ app.tasks[t] \in Nat
         /\ \A e \in DOMAIN app.edges :
              app.edges[e] \in Tasks(app) \X Tasks(app)
              /\ app.edges[e][1] # app.edges[e][2]
         /\ DOMAIN app.edges = DOMAIN app.volume
<1>1. Len(app.tasks) \in Nat /\ Tasks(app) = 1 .. Len(app.tasks)
      /\ app.tasks \in [1 .. Len(app.tasks) -> Nat]
  BY LenProperties DEF IsApp, Tasks
<1>2. /\ DOMAIN app.edges = 1 .. Len(app.edges)
      /\ app.edges \in [1 .. Len(app.edges) -> Tasks(app) \X Tasks(app)]
  BY LenProperties DEF IsApp, Tasks
<1>3. DOMAIN app.volume = 1 .. Len(app.volume)
  BY LenProperties DEF IsApp
<1>4. Len(app.tasks) > 0 /\ Len(app.volume) = Len(app.edges)
      /\ \A e \in DOMAIN app.edges : app.edges[e][1] # app.edges[e][2]
  BY DEF IsApp
<1> QED
  BY <1>1, <1>2, <1>3, <1>4 DEF None

\* No task has two places in the pairs.
Apart(pairs) ==
  \A i, j \in DOMAIN pairs : \A h, g \in {1, 2} :
    pairs[i][h] # None /\ pairs[i][h] = pairs[j][g] => i = j /\ h = g

Pairings(tasks) == {p \in Seq(tasks \X tasks) : Apart(p)}

LEMMA InPairs ==
  ASSUME NEW tasks, NEW p \in Seq(tasks \X tasks), NEW t
  PROVE  t \in In(p) <=> \E i \in DOMAIN p : \E h \in {1, 2} : p[i][h] = t
<1>1. \A i \in DOMAIN p : ToSet(p[i]) = {p[i][1], p[i][2]}
  <2> SUFFICES ASSUME NEW i \in DOMAIN p PROVE ToSet(p[i]) = {p[i][1], p[i][2]}
    OBVIOUS
  <2>1. p[i] \in tasks \X tasks
    BY LenProperties
  <2>2. p[i] = <<p[i][1], p[i][2]>> /\ DOMAIN p[i] = {1, 2}
    BY <2>1
  <2> QED BY <2>2 DEF ToSet
<1>2. In(p) = UNION {ToSet(p[i]) : i \in DOMAIN p}
  BY DEF In, ToSet
<1> QED
  BY <1>1, <1>2

\* A pair is only added if both of its tasks are free.
LEMMA PairedApart ==
  ASSUME NEW tasks \in SUBSET (Nat \ {0}), NEW p \in Pairings(tasks),
         NEW e \in tasks \X tasks, e[1] # e[2]
  PROVE  Paired(p, e) \in Pairings(tasks)
<1>1. p \in Seq(tasks \X tasks) /\ Apart(p)
  BY DEF Pairings
<1>2. CASE ToSet(e) \cap In(p) # {}
  BY <1>2 DEF Paired
<1>3. CASE ToSet(e) \cap In(p) = {}
  <2> DEFINE q == Append(p, e)
  <2>1. /\ q \in Seq(tasks \X tasks) /\ Len(p) \in Nat
        /\ DOMAIN p = 1 .. Len(p) /\ DOMAIN q = 1 .. Len(p) + 1
        /\ \A i \in 1 .. Len(p) : q[i] = p[i]
        /\ q[Len(p) + 1] = e
    BY <1>1, LenProperties, AppendProperties
  <2>2. \A h \in {1, 2} : e[h] \notin In(p)
    <3>1. e = <<e[1], e[2]>> /\ DOMAIN e = {1, 2}
      OBVIOUS
    <3> QED BY <3>1, <1>3 DEF ToSet
  <2>3. \A i \in DOMAIN p : \A h, g \in {1, 2} : p[i][h] # e[g]
    BY <2>2, <1>1, InPairs
  <2>4. Apart(q)
    <3> SUFFICES ASSUME NEW i \in DOMAIN q, NEW j \in DOMAIN q,
                        NEW h \in {1, 2}, NEW g \in {1, 2},
                        q[i][h] # None, q[i][h] = q[j][g]
                 PROVE  i = j /\ h = g
      BY DEF Apart
    <3> HIDE DEF q
    <3>1. CASE i \in DOMAIN p /\ j \in DOMAIN p
      BY <3>1, <2>1, <1>1 DEF Apart
    <3>2. CASE i \in DOMAIN p /\ j \notin DOMAIN p
      BY <3>2, <2>1, <2>3
    <3>3. CASE i \notin DOMAIN p /\ j \in DOMAIN p
      BY <3>3, <2>1, <2>3
    <3>4. CASE i \notin DOMAIN p /\ j \notin DOMAIN p
      <4>1. i = Len(p) + 1 /\ j = Len(p) + 1
        BY <3>4, <2>1
      <4> QED BY <4>1, <2>1
    <3> QED BY <3>1, <3>2, <3>3, <3>4
  <2>5. Paired(p, e) = q
    BY <1>3 DEF Paired
  <2> QED BY <2>1, <2>4, <2>5 DEF Pairings
<1> QED
  BY <1>2, <1>3

\* The greedy pairing never takes a task twice.
LEMMA GreedyApart ==
  ASSUME NEW app, IsApp(app)
  PROVE  Greedy(app) \in Pairings(Tasks(app))
<1> DEFINE heavy == Descending(app.volume, DOMAIN app.edges)
           n == Len(heavy)
           S == Pairings(Tasks(app))
           Rec(f) == f = [k \in 0 .. n |->
                            IF k = 0 THEN << >>
                            ELSE Paired(f[k-1], app.edges[heavy[k]])]
           step == [k \in 1 .. n |-> [x \in S |-> Paired(x, app.edges[heavy[k]])]]
           g == CHOOSE f : Rec(f)
<1>1. n \in Nat /\ \A k \in 1 .. n : heavy[k] \in DOMAIN app.edges
  <2>1. app.volume \in Seq(Nat) /\ DOMAIN app.edges \in SUBSET DOMAIN app.volume
    BY AppTasks DEF IsApp
  <2>2. PICK m \in Nat : heavy \in [1 .. m -> DOMAIN app.edges]
    BY <2>1, DescendingLists
  <2> HIDE DEF heavy
  <2>3. Len(heavy) = m
    BY <2>2, Sequence
  <2> QED BY <2>2, <2>3
<1>2. \A k \in 1 .. n : /\ app.edges[heavy[k]] \in Tasks(app) \X Tasks(app)
                        /\ app.edges[heavy[k]][1] # app.edges[heavy[k]][2]
  BY <1>1, AppTasks
<1>3. Tasks(app) \in SUBSET (Nat \ {0})
  BY AppTasks DEF None
<1>4. \A x \in S : \A k \in 1 .. n : Paired(x, app.edges[heavy[k]]) \in S
  BY <1>2, <1>3, PairedApart
<1>5. << >> \in S
  <2>1. << >> \in Seq(Tasks(app) \X Tasks(app)) /\ DOMAIN << >> = {}
    BY EmptySeq
  <2> QED BY <2>1 DEF Pairings, Apart
<1> HIDE DEF heavy, S, n
<1>6. step \in [1 .. n -> [S -> S]]
  BY <1>4
<1>7. PICK f : Stepwise(f, n, S, << >>, step)
  <2>1. n \in Nat
    BY <1>1
  <2> HIDE DEF step, g, Rec
  <2> QED BY <2>1, <1>5, <1>6, StepwiseExists
<1>8. Rec(f)
  <2>1. ASSUME NEW k \in 0 .. n
        PROVE  f[k] = IF k = 0 THEN << >> ELSE Paired(f[k-1], app.edges[heavy[k]])
    <3>1. CASE k = 0
      BY <3>1, <1>7 DEF Stepwise
    <3>2. CASE k # 0
      <4>1. k - 1 \in 0 .. n /\ k \in 1 .. n
        BY <3>2, <1>1
      <4>2. f[k-1] \in S
        BY <4>1, <1>7 DEF Stepwise
      <4>3. f[k] = step[k][f[k-1]]
        <5> HIDE DEF step
        <5> QED BY <4>1, <1>7 DEF Stepwise
      <4> QED BY <4>1, <4>2, <4>3, <3>2
    <3> QED BY <3>1, <3>2
  <2>2. f = [k \in 0 .. n |-> f[k]]
    BY <1>7 DEF Stepwise
  <2> QED BY <2>1, <2>2
<1>9. Rec(g)
  <2> HIDE DEF Rec
  <2> QED BY <1>8
<1>10. \A k \in 0 .. n : g[k] \in S
  <2> DEFINE P == {k \in 0 .. n : g[k] \in S}
  <2>1. \A k \in 0 .. n : g[k] = IF k = 0 THEN << >>
                                ELSE Paired(g[k-1], app.edges[heavy[k]])
    <3> HIDE DEF g
    <3> QED BY <1>9
  <2> HIDE DEF g
  <2>2. 0 \in P
    BY <2>1, <1>1, <1>5
  <2>3. \A k \in 1 .. n : k - 1 \in P => k \in P
    BY <2>1, <1>4
  <2>4. P \in SUBSET Nat
    BY <1>1
  <2>5. \A k \in 0 .. n : k \in P
    <3> HIDE DEF P
    <3> QED BY <1>1, <2>2, <2>3, <2>4, UpTo
  <2> QED BY <2>5
<1>11. Greedy(app) = g[n]
  BY DEF Greedy, n, heavy
<1> QED
  BY <1>1, <1>10, <1>11 DEF S

LEMMA LeftoverLists ==
  ASSUME NEW app, IsApp(app)
  PROVE  \E m \in Nat :
           /\ Leftover(app) \in [1 .. m -> Tasks(app) \ In(Greedy(app))]
           /\ Len(Leftover(app)) = m
           /\ \A k, l \in 1 .. m : Leftover(app)[k] = Leftover(app)[l] => k = l
           /\ \A t \in Tasks(app) \ In(Greedy(app)) :
                \E k \in 1 .. m : Leftover(app)[k] = t
<1> DEFINE of == Tasks(app) \ In(Greedy(app))
           R == Leftover(app)
<1>1. app.tasks \in Seq(Nat) /\ of \in SUBSET DOMAIN app.tasks
  BY DEF IsApp, Tasks
<1>2. R = Descending(app.tasks, of)
  BY DEF Leftover, Tasks
<1> HIDE DEF R, of
<1>3. PICK m \in Nat : /\ R \in [1 .. m -> of]
                       /\ \A k, l \in 1 .. m : R[k] = R[l] => k = l
                       /\ \A t \in of : \E k \in 1 .. m : R[k] = t
  <2> DEFINE d == Descending(app.tasks, of)
             c == Cardinality(of)
  <2>1. /\ c \in Nat /\ d \in [1 .. c -> of]
        /\ \A k, l \in 1 .. c : d[k] = d[l] => k = l
        /\ \A t \in of : \E k \in 1 .. c : d[k] = t
    BY <1>1, DescendingLists
  <2>2. R = d
    BY <1>2
  <2> HIDE DEF d, c
  <2> QED BY <2>1, <2>2
<1>4. Len(R) = m
  BY <1>3, Sequence
<1> QED
  BY <1>3, <1>4 DEF R, of

\* The m tasks of r in twos: place h of pair k is number 2k - 2 + h.
TwosOf(w, r, m, tasks) ==
  LET n == (m + 1) \div 2
  IN /\ n \in Nat /\ w \in [1 .. n -> tasks \X (tasks \cup {None})]
     /\ \A k \in 1 .. n : \A h \in {1, 2} :
          w[k][h] # None => 2*k - 2 + h \in 1 .. m /\ w[k][h] = r[2*k - 2 + h]
     /\ \A l \in 1 .. m : \E k \in 1 .. n : \E h \in {1, 2} : w[k][h] = r[l]

LEMMA InTwosPlaces ==
  ASSUME NEW tasks \in SUBSET (Nat \ {0}), NEW m \in Nat,
         NEW r \in [1 .. m -> tasks], Len(r) = m
  PROVE  TwosOf(InTwos(r), r, m, tasks)
<1> DEFINE w == InTwos(r)
           n == (m + 1) \div 2
<1>1. n \in Nat /\ 2 * n <= m + 1 /\ m <= 2 * n
  OBVIOUS
<1>2. w = [k \in 1 .. n |->
             <<r[2*k - 1], IF 2*k <= m THEN r[2*k] ELSE None>>]
  BY DEF InTwos
<1> HIDE DEF n, w
<1>3. \A k \in 1 .. n : 2*k - 1 \in 1 .. m /\ (2*k <= m => 2*k \in 1 .. m)
  BY <1>1
<1>4. w \in [1 .. n -> tasks \X (tasks \cup {None})]
  BY <1>2, <1>3
<1>5. ASSUME NEW k \in 1 .. n, NEW h \in {1, 2}, w[k][h] # None
      PROVE  2*k - 2 + h \in 1 .. m /\ w[k][h] = r[2*k - 2 + h]
  <2>1. w[k] = <<r[2*k - 1], IF 2*k <= m THEN r[2*k] ELSE None>>
    BY <1>2
  <2>2. CASE h = 1
    <3>1. 2*k - 2 + h = 2*k - 1
      BY <2>2, <1>1
    <3>2. w[k][1] = r[2*k - 1]
      BY <2>1
    <3> QED BY <3>1, <3>2, <2>2, <1>3
  <2>3. CASE h = 2
    <3>1. 2*k - 2 + h = 2*k
      BY <2>3, <1>1
    <3>2. w[k][2] = IF 2*k <= m THEN r[2*k] ELSE None
      BY <2>1
    <3>3. 2*k <= m /\ w[k][2] = r[2*k]
      BY <3>2, <1>5, <2>3
    <3> QED BY <3>1, <3>3, <2>3, <1>3
  <2> QED BY <2>2, <2>3
<1>6. ASSUME NEW l \in 1 .. m
      PROVE  \E k \in 1 .. n : \E h \in {1, 2} : w[k][h] = r[l]
  <2>1. PICK k \in Int : l = 2*k \/ l = 2*k - 1
    <3> DEFINE j == (l + 1) \div 2
    <3>1. j \in Int /\ (l = 2*j \/ l = 2*j - 1)
      OBVIOUS
    <3> HIDE DEF j
    <3> QED BY <3>1
  <2>2. k \in 1 .. n
    BY <2>1, <1>1
  <2>3. w[k] = <<r[2*k - 1], IF 2*k <= m THEN r[2*k] ELSE None>>
    BY <2>2, <1>2
  <2>4. CASE l = 2*k
    <3>1. 2*k <= m /\ w[k][2] = r[2*k]
      BY <2>3, <2>4
    <3> QED BY <3>1, <2>2, <2>4
  <2>5. CASE l = 2*k - 1
    <3>1. w[k][1] = r[2*k - 1]
      BY <2>3
    <3> QED BY <3>1, <2>2, <2>5
  <2> QED BY <2>1, <2>4, <2>5
<1> QED
  BY <1>1, <1>4, <1>5, <1>6, Zenon DEF TwosOf, w, n

\* make_pairs gives every task exactly one place.
LEMMA MakePairsPlaces ==
  ASSUME NEW app, IsApp(app)
  PROVE  /\ MakePairs(app) \in Seq(Tasks(app) \X (Tasks(app) \cup {None}))
         /\ Apart(MakePairs(app))
         /\ \A t \in Tasks(app) : \E i \in DOMAIN MakePairs(app) : \E h \in {1, 2} :
              MakePairs(app)[i][h] = t
<1> DEFINE T == Tasks(app)
           G == Greedy(app)
           R == Leftover(app)
           P == MakePairs(app)
<1>1. T \in SUBSET (Nat \ {0}) /\ \A t \in T : t # None
  BY AppTasks DEF None
<1>2. G \in Seq(T \X T) /\ Apart(G)
  BY GreedyApart DEF Pairings
<1>3. PICK m \in Nat :
        /\ R \in [1 .. m -> T \ In(G)] /\ Len(R) = m
        /\ \A k, l \in 1 .. m : R[k] = R[l] => k = l
        /\ \A t \in T \ In(G) : \E k \in 1 .. m : R[k] = t
  BY LeftoverLists
<1> DEFINE w == InTwos(R)
           n == (m + 1) \div 2
<1> HIDE DEF T, G, R
<1>4. /\ n \in Nat /\ w \in [1 .. n -> T \X (T \cup {None})]
      /\ \A k \in 1 .. n : \A h \in {1, 2} :
           w[k][h] # None => 2*k - 2 + h \in 1 .. m /\ w[k][h] = R[2*k - 2 + h]
      /\ \A l \in 1 .. m : \E k \in 1 .. n : \E h \in {1, 2} : w[k][h] = R[l]
  <2>1. R \in [1 .. m -> T]
    BY <1>3
  <2>2. Len(R) = m /\ T \in SUBSET (Nat \ {0})
    BY <1>1, <1>3
  <2>3. TwosOf(InTwos(R), R, m, T)
    BY <2>1, <2>2, InTwosPlaces
  <2> QED BY <2>3, Zenon DEF TwosOf
<1>5. P = G \o w
  BY DEF MakePairs, G, R
<1> HIDE DEF w, n, P
<1>6. /\ w \in Seq(T \X (T \cup {None})) /\ Len(w) = n
      /\ G \in Seq(T \X (T \cup {None})) /\ Len(G) \in Nat /\ DOMAIN G = 1 .. Len(G)
  <2>1. G \in Seq(T \X (T \cup {None}))
    <3>1. T \X T \subseteq T \X (T \cup {None})
      OBVIOUS
    <3> QED BY <3>1, <1>2, SeqMonotonic
  <2> QED BY <2>1, <1>4, Sequence, LenProperties
<1>7. /\ P \in Seq(T \X (T \cup {None})) /\ DOMAIN P = 1 .. Len(G) + n
      /\ \A i \in 1 .. Len(G) + n : P[i] = IF i <= Len(G) THEN G[i] ELSE w[i - Len(G)]
  BY <1>5, <1>6, ConcatProperties, LenProperties
<1>8. \A t : t \in In(G) <=> \E i \in DOMAIN G : \E h \in {1, 2} : G[i][h] = t
  BY <1>2, InPairs
<1>9. \A k \in 1 .. n : \A h \in {1, 2} : w[k][h] # None => w[k][h] \notin In(G)
  BY <1>3, <1>4
<1>10. Apart(P)
  <2> SUFFICES ASSUME NEW i \in DOMAIN P, NEW j \in DOMAIN P,
                      NEW h \in {1, 2}, NEW g \in {1, 2},
                      P[i][h] # None, P[i][h] = P[j][g]
               PROVE  i = j /\ h = g
    BY DEF Apart
  <2>1. CASE i <= Len(G) /\ j <= Len(G)
    <3>1. i \in DOMAIN G /\ j \in DOMAIN G /\ P[i] = G[i] /\ P[j] = G[j]
      BY <2>1, <1>4, <1>6, <1>7
    <3> QED BY <3>1, <1>2 DEF Apart
  <2>2. CASE i <= Len(G) /\ ~(j <= Len(G))
    <3>1. i \in DOMAIN G /\ P[i] = G[i] /\ j - Len(G) \in 1 .. n /\ P[j] = w[j - Len(G)]
      BY <2>2, <1>4, <1>6, <1>7
    <3> QED BY <3>1, <1>8, <1>9
  <2>3. CASE ~(i <= Len(G)) /\ j <= Len(G)
    <3>1. j \in DOMAIN G /\ P[j] = G[j] /\ i - Len(G) \in 1 .. n /\ P[i] = w[i - Len(G)]
      BY <2>3, <1>4, <1>6, <1>7
    <3> QED BY <3>1, <1>8, <1>9
  <2>4. CASE ~(i <= Len(G)) /\ ~(j <= Len(G))
    <3> DEFINE k == i - Len(G)
               l == j - Len(G)
    <3>1. k \in 1 .. n /\ l \in 1 .. n /\ P[i] = w[k] /\ P[j] = w[l]
      BY <2>4, <1>4, <1>6, <1>7
    <3> HIDE DEF k, l
    <3>2. /\ 2*k - 2 + h \in 1 .. m /\ w[k][h] = R[2*k - 2 + h]
          /\ 2*l - 2 + g \in 1 .. m /\ w[l][g] = R[2*l - 2 + g]
      BY <3>1, <1>4
    <3>3. 2*k - 2 + h = 2*l - 2 + g
      BY <3>1, <3>2, <1>3
    <3>4. k = l /\ h = g
      BY <3>3, <3>1, <1>4
    <3> QED BY <3>4, <1>6, <1>7 DEF k, l
  <2> QED BY <2>1, <2>2, <2>3, <2>4
<1>11. ASSUME NEW t \in T
       PROVE  \E i \in DOMAIN P : \E h \in {1, 2} : P[i][h] = t
  <2>1. CASE t \in In(G)
    <3>1. PICK i \in DOMAIN G : \E h \in {1, 2} : G[i][h] = t
      BY <2>1, <1>8
    <3>2. i \in DOMAIN P /\ P[i] = G[i]
      BY <3>1, <1>4, <1>6, <1>7
    <3> QED BY <3>1, <3>2
  <2>2. CASE t \notin In(G)
    <3>1. PICK l \in 1 .. m : R[l] = t
      BY <2>2, <1>3
    <3>2. PICK k \in 1 .. n : \E h \in {1, 2} : w[k][h] = t
      BY <3>1, <1>4
    <3>3. Len(G) + k \in DOMAIN P /\ P[Len(G) + k] = w[k]
      <4> DEFINE j == Len(G) + k
      <4>1. j \in 1 .. Len(G) + n /\ ~(j <= Len(G)) /\ j - Len(G) = k
        BY <3>2, <1>4, <1>6
      <4> HIDE DEF j
      <4>2. j \in DOMAIN P /\ P[j] = w[k]
        BY <4>1, <1>7
      <4> QED BY <4>2 DEF j
    <3> QED BY <3>2, <3>3
  <2> QED BY <2>1, <2>2
<1> QED
  BY <1>7, <1>10, <1>11 DEF P, T

\* The pairs of application a, in some order.
OrderOf(a, order) ==
  LET T == Tasks(Apps[a])
      n == Len(Pairs[a])
  IN /\ n \in Nat \ {0}
     /\ order \in [1 .. n -> T \X (T \cup {None})] /\ DOMAIN order = 1 .. n
     /\ Apart(order)
     /\ \A t \in T : \E i \in 1 .. n : \E h \in {1, 2} : order[i][h] = t
     /\ \A p \in ToSet(Pairs[a]) : \E i \in 1 .. n : order[i] = p

LEMMA OrdersAreOrders ==
  ASSUME NEW a \in DOMAIN Apps, NEW order \in Orders(a)
  PROVE  OrderOf(a, order) /\ Len(order) = Len(Pairs[a])
<1> DEFINE T == Tasks(Apps[a])
           P == Pairs[a]
           n == Len(P)
           V == ToSet(P)
<1>1. /\ P \in Seq(T \X (T \cup {None})) /\ Apart(P)
      /\ \A t \in T : \E i \in DOMAIN P : \E h \in {1, 2} : P[i][h] = t
  <2>1. P = MakePairs(Apps[a])
    BY DEF Pairs
  <2>2. IsApp(Apps[a])
    BY EveryApp
  <2> DEFINE M == MakePairs(Apps[a])
  <2>3. /\ M \in Seq(T \X (T \cup {None})) /\ Apart(M)
        /\ \A t \in T : \E i \in DOMAIN M : \E h \in {1, 2} : M[i][h] = t
    BY <2>2, MakePairsPlaces
  <2> HIDE DEF P, M
  <2>4. P = M
    BY <2>1 DEF M
  <2> QED BY <2>3, <2>4
<1>2. \A t \in T : t # None
  BY EveryApp, AppTasks
<1>3. order \in Orders(a)
  OBVIOUS
<1>4. T # {}
  <2>1. T = 1 .. Len(Apps[a].tasks) /\ Len(Apps[a].tasks) \in Nat \ {0}
    BY EveryApp, AppTasks
  <2> QED BY <2>1
<1> HIDE DEF T, P
<1>5. n \in Nat \ {0} /\ DOMAIN P = 1 .. n /\ P \in [1 .. n -> T \X (T \cup {None})]
  <2>1. n \in Nat /\ DOMAIN P = 1 .. n /\ P \in [1 .. n -> T \X (T \cup {None})]
    BY <1>1, LenProperties
  <2>2. DOMAIN P # {}
    BY <1>1, <1>4
  <2> QED BY <2>1, <2>2
<1>6. \A i \in 1 .. n : P[i][1] \in T /\ P[i][1] # None
  BY <1>5, <1>2
<1>7. \A i, j \in 1 .. n : P[i] = P[j] => i = j
  BY <1>1, <1>5, <1>6 DEF Apart
<1>8. V = {P[i] : i \in 1 .. n} /\ \A v \in V : v \in T \X (T \cup {None})
  BY <1>5 DEF ToSet
<1> HIDE DEF V, n
<1>9. IsFiniteSet(V) /\ Cardinality(V) = n /\ IsFiniteSet(1 .. n) /\ Cardinality(1 .. n) = n
  <2>1. P \in Bijection(1 .. n, V)
    BY <1>5, <1>7, <1>8 DEF Bijection, Injection, Surjection, IsInjective
  <2>2. IsFiniteSet(1 .. n) /\ Cardinality(1 .. n) = n
    BY <1>5, FS_Interval
  <2>3. ExistsBijection(1 .. n, V)
    BY <2>1 DEF ExistsBijection
  <2> QED BY <2>2, <2>3, FS_Bijection
<1>10. order \in [1 .. n -> V] /\ \A i, j \in 1 .. n : i # j => order[i] # order[j]
  <2>1. Orders(a) = SetToSeqs(V)
    BY DEF Orders, V, P
  <2> QED BY <2>1, <1>3, <1>9 DEF SetToSeqs
<1>11. \A v \in V : \E i \in 1 .. n : order[i] = v
  <2>1. order \in Injection(1 .. n, V)
    BY <1>10 DEF Injection, IsInjective
  <2>2. order \in Surjection(1 .. n, V)
    BY <2>1, <1>9, FS_Injection
  <2> QED BY <2>2 DEF Surjection
<1>12. order \in [1 .. n -> T \X (T \cup {None})] /\ DOMAIN order = 1 .. n
  BY <1>8, <1>10
<1>13. Apart(order)
  <2> SUFFICES ASSUME NEW i \in 1 .. n, NEW j \in 1 .. n,
                      NEW h \in {1, 2}, NEW g \in {1, 2},
                      order[i][h] # None, order[i][h] = order[j][g]
               PROVE  i = j /\ h = g
    BY <1>12 DEF Apart
  <2>1. PICK k \in 1 .. n, l \in 1 .. n : order[i] = P[k] /\ order[j] = P[l]
    BY <1>8, <1>10
  <2>2. k = l /\ h = g
    <3>1. P[k][h] # None /\ P[k][h] = P[l][g]
      BY <2>1
    <3>2. \A x, y \in 1 .. n : \A u, v \in {1, 2} :
            P[x][u] # None /\ P[x][u] = P[y][v] => x = y /\ u = v
      BY <1>1, <1>5 DEF Apart
    <3> QED BY <3>1, <3>2
  <2> QED BY <2>1, <2>2, <1>10
<1>14. ASSUME NEW t \in T PROVE \E i \in 1 .. n : \E h \in {1, 2} : order[i][h] = t
  <2>1. PICK k \in 1 .. n : \E h \in {1, 2} : P[k][h] = t
    BY <1>1, <1>5
  <2>2. P[k] \in V
    BY <1>8
  <2> QED BY <2>1, <2>2, <1>11
<1>15. Len(order) = n
  BY <1>5, <1>12, Sequence
<1>16. OrderOf(a, order)
  BY <1>5, <1>11, <1>12, <1>13, <1>14 DEF OrderOf, T, V, P, n
<1> QED
  BY <1>15, <1>16 DEF n, P

-----------------------------------------------------------------------------
(* find_compact_mapping.                                                   *)

LEMMA Mesh ==
  /\ Gw \in Nat \ {0} /\ Gl \in Nat \ {0} /\ Gh \in Nat \ {0} /\ Gh % 2 = 0
  /\ \A c \in Cores : /\ c = <<c[1], c[2], c[3]>>
                      /\ c[1] \in 0 .. Gw-1 /\ c[2] \in 0 .. Gl-1 /\ c[3] \in 0 .. Gh-1
  /\ Slots \subseteq Cores
<1>1. Gw \in Nat \ {0} /\ Gl \in Nat \ {0} /\ Gh \in Nat \ {0} /\ Gh % 2 = 0
  BY PairAssumption, Zenon
<1> QED
  BY <1>1 DEF Cores, Slots

\* The core over a slot is in the mesh, and over no other slot.
LEMMA OverCore ==
  ASSUME NEW c \in Slots
  PROVE  /\ c \in Cores /\ Over(c) \in Cores /\ Over(c) \notin Slots
         /\ \A d \in Slots : Over(c) = Over(d) => c = d
<1>1. c \in Cores /\ c[3] % 2 = 0 /\ \A d \in Slots : d \in Cores
  BY DEF Slots
<1>2. c[3] + 1 \in 0 .. Gh-1 /\ (c[3] + 1) % 2 # 0
  BY <1>1, Mesh
<1>3. Over(c) \in Cores
  BY <1>1, <1>2, Mesh DEF Over, Cores
<1>4. Over(c)[3] = c[3] + 1
  BY DEF Over
<1>5. Over(c) \notin Slots
  BY <1>2, <1>4 DEF Slots
<1>6. ASSUME NEW d \in Slots, Over(c) = Over(d) PROVE c = d
  <2>1. d \in Cores /\ c[1] = d[1] /\ c[2] = d[2] /\ c[3] + 1 = d[3] + 1
    BY <1>1, <1>6 DEF Over
  <2>2. c[3] = d[3]
    BY <2>1, <1>1, Mesh
  <2> QED BY <2>1, <2>2, <1>1, Mesh
<1> QED
  BY <1>1, <1>3, <1>5, <1>6

\* Quotient and remainder.
LEMMA Division ==
  ASSUME NEW m \in Nat, NEW w \in Nat \ {0}
  PROVE  /\ m \div w \in Nat /\ m % w \in 0 .. w - 1
         /\ m = w * (m \div w) + (m % w)
OBVIOUS

LEMMA DivisionUnique ==
  ASSUME NEW w \in Nat \ {0}, NEW q \in Nat, NEW r \in 0 .. w - 1
  PROVE  (w * q + r) \div w = q /\ (w * q + r) % w = r
OBVIOUS

LEMMA WidthPositive ==
  ASSUME NEW n \in Nat \ {0}
  PROVE  Width(n) \in Nat \ {0}
<1> DEFINE ws == {w \in 1 .. n : w * w >= n} \cup {Gw}
<1>1. ws \in SUBSET (Nat \ {0}) /\ ws # {}
  BY Mesh
<1> HIDE DEF ws
<1>2. ws \in SUBSET Nat
  BY <1>1
<1>3. \E x \in ws : \A y \in ws : x <= y
  BY <1>1, <1>2, Least
<1>4. Min(ws) \in ws
  BY <1>3 DEF Min
<1>5. Width(n) = Min(ws)
  BY DEF Width, ws
<1> QED
  BY <1>1, <1>4, <1>5

\* A sweep passes no place twice.
LEMMA SweepOnce ==
  ASSUME NEW n \in Nat \ {0}, NEW at \in Slots
  PROVE  /\ DOMAIN Sweep(n, at) \in SUBSET Nat
         /\ IsFiniteSet(DOMAIN Sweep(n, at))
         /\ \A k, l \in DOMAIN Sweep(n, at) :
              Sweep(n, at)[k] = Sweep(n, at)[l] => k = l
<1> DEFINE w == Width(n)
           size == w * (Gl - at[2])
           x(k) == LET dy == (k - 1) \div w
                       i == (k - 1) % w
                   IN at[1] + (IF dy % 2 = 0 THEN i ELSE w - 1 - i)
           y(k) == at[2] + ((k - 1) \div w)
<1>1. w \in Nat \ {0}
  BY WidthPositive
<1>2. at[1] \in Nat /\ at[2] \in Nat /\ Gl - at[2] \in Nat
  BY Mesh
<1>3. size \in Nat
  <2> HIDE DEF w
  <2> QED BY <1>1, <1>2
<1>4. Sweep(n, at) = [k \in 1 .. size |-> <<x(k), y(k), at[3]>>]
  BY DEF Sweep
<1> HIDE DEF size, w
<1>5. ASSUME NEW k \in 1 .. size, NEW l \in 1 .. size, x(k) = x(l), y(k) = y(l)
      PROVE  k = l
  <2>1. k - 1 \in Nat /\ l - 1 \in Nat
    BY <1>3
  <2> DEFINE qk == (k - 1) \div w
             rk == (k - 1) % w
             ql == (l - 1) \div w
             rl == (l - 1) % w
  <2>2. /\ qk \in Nat /\ rk \in 0 .. w - 1 /\ k - 1 = w * qk + rk
        /\ ql \in Nat /\ rl \in 0 .. w - 1 /\ l - 1 = w * ql + rl
    BY <1>1, <2>1, Division
  <2>3. /\ at[1] + (IF qk % 2 = 0 THEN rk ELSE w - 1 - rk)
             = at[1] + (IF ql % 2 = 0 THEN rl ELSE w - 1 - rl)
        /\ at[2] + qk = at[2] + ql
    BY <1>5
  <2> HIDE DEF qk, rk, ql, rl
  <2>4. qk = ql
    BY <2>2, <2>3, <1>2
  <2>5. rk = rl
    BY <2>2, <2>3, <2>4, <1>1, <1>2
  <2>6. k - 1 = l - 1
    BY <2>2, <2>4, <2>5
  <2> QED BY <2>6, <1>3
<1>6. DOMAIN Sweep(n, at) = 1 .. size
  BY <1>4
<1>7. \A k \in 1 .. size : Sweep(n, at)[k] = <<x(k), y(k), at[3]>>
  BY <1>4
<1>8. \A k, l \in 1 .. size : Sweep(n, at)[k] = Sweep(n, at)[l] => k = l
  <2> SUFFICES ASSUME NEW k \in 1 .. size, NEW l \in 1 .. size,
                      Sweep(n, at)[k] = Sweep(n, at)[l]
               PROVE  k = l
    OBVIOUS
  <2>1. <<x(k), y(k), at[3]>> = <<x(l), y(l), at[3]>>
    BY <1>7
  <2> HIDE DEF x, y
  <2>2. x(k) = x(l) /\ y(k) = y(l)
    BY <2>1
  <2> QED BY <2>2, <1>5
<1>9. IsFiniteSet(1 .. size)
  BY <1>3, FS_Interval
<1> QED
  BY <1>3, <1>6, <1>8, <1>9

\* The i-th of a set of numbers.
LEMMA NthPlace ==
  ASSUME NEW ks \in SUBSET Nat, IsFiniteSet(ks)
  PROVE  /\ Cardinality(ks) \in Nat
         /\ \A i \in 1 .. Cardinality(ks) : Nth(i, ks) \in ks
         /\ \A i, j \in 1 .. Cardinality(ks) : Nth(i, ks) = Nth(j, ks) => i = j
<1> DEFINE m == Cardinality(ks)
           at(i, k) == Cardinality({j \in ks : j < k}) = i - 1
<1>1. IsFiniteSet(ks)
  OBVIOUS
<1>2. m \in Nat
  BY <1>1, FS_CardinalityType
<1>3. \A i \in 0 .. m - 1 : \E a \in ks : Cardinality({j \in ks : j < a}) = i
  BY <1>1, Positions
<1>4. ASSUME NEW i \in 1 .. m PROVE Nth(i, ks) \in ks /\ at(i, Nth(i, ks))
  <2>1. i - 1 \in 0 .. m - 1
    BY <1>2
  <2>2. \E a \in ks : at(i, a)
    BY <2>1, <1>3
  <2>3. Nth(i, ks) = CHOOSE k \in ks : at(i, k)
    BY DEF Nth
  <2> HIDE DEF at
  <2> QED BY <2>2, <2>3
<1>5. ASSUME NEW i \in 1 .. m, NEW j \in 1 .. m, Nth(i, ks) = Nth(j, ks)
      PROVE  i = j
  <2>1. at(i, Nth(i, ks)) /\ at(j, Nth(i, ks))
    BY <1>4, <1>5
  <2>2. i - 1 = j - 1
    BY <2>1
  <2> QED BY <2>2, <1>2
<1> QED
  BY <1>2, <1>4, <1>5

\* n different slots that are usable.
SlotsFor(n, slots) ==
  /\ slots \in [1 .. n -> Slots]
  /\ \A i \in 1 .. n : Usable(slots[i])
  /\ \A i, j \in 1 .. n : slots[i] = slots[j] => i = j

LEMMA OxPlowSlots ==
  ASSUME NEW n \in Nat \ {0}, NEW slots \in OxPlow(n)
  PROVE  SlotsFor(n, slots)
<1>1. PICK at \in Slots : /\ Cardinality(Passing(Sweep(n, at))) >= n
                          /\ slots = Found(n, Sweep(n, at))
  BY DEF OxPlow
<1> DEFINE sweep == Sweep(n, at)
           ks == Passing(sweep)
<1>2. /\ ks \in SUBSET DOMAIN sweep /\ ks \in SUBSET Nat /\ IsFiniteSet(ks)
      /\ \A k \in ks : Usable(sweep[k])
      /\ \A k, l \in ks : sweep[k] = sweep[l] => k = l
  <2>1. /\ DOMAIN sweep \in SUBSET Nat /\ IsFiniteSet(DOMAIN sweep)
        /\ \A k, l \in DOMAIN sweep : sweep[k] = sweep[l] => k = l
    BY SweepOnce
  <2> HIDE DEF sweep
  <2>2. ks \in SUBSET DOMAIN sweep /\ \A k \in ks : Usable(sweep[k])
    BY DEF Passing
  <2>3. IsFiniteSet(ks)
    BY <2>1, <2>2, FS_Subset
  <2> QED BY <2>1, <2>2, <2>3
<1>3. slots = [i \in 1 .. n |-> sweep[Nth(i, ks)]]
  BY <1>1 DEF Found
<1>4. Cardinality(ks) >= n
  BY <1>1
<1> HIDE DEF sweep, ks
<1>5. /\ \A i \in 1 .. n : Nth(i, ks) \in ks
      /\ \A i, j \in 1 .. n : Nth(i, ks) = Nth(j, ks) => i = j
  <2>1. /\ Cardinality(ks) \in Nat
        /\ \A i \in 1 .. Cardinality(ks) : Nth(i, ks) \in ks
        /\ \A i, j \in 1 .. Cardinality(ks) : Nth(i, ks) = Nth(j, ks) => i = j
    BY <1>2, NthPlace
  <2>2. 1 .. n \subseteq 1 .. Cardinality(ks)
    BY <2>1, <1>4
  <2> QED BY <2>1, <2>2
<1>6. \A i \in 1 .. n : slots[i] = sweep[Nth(i, ks)] /\ Usable(slots[i])
  BY <1>2, <1>3, <1>5
<1>7. \A i \in 1 .. n : slots[i] \in Slots
  BY <1>6 DEF Usable
<1> QED
  BY <1>2, <1>3, <1>5, <1>6, <1>7 DEF SlotsFor

\* brickVector names no slot twice.
LEMMA BrickParts ==
  ASSUME NEW b \in Nat
  PROVE  \E layer \in Nat, row \in Nat, r \in 0 .. Gw - 1 :
           /\ b = Gw * (Gl * layer + row) + r
           /\ LET y == IF layer % 2 = 0 THEN row ELSE Gl - 1 - row
              IN Brick(b) = <<IF (y + layer) % 2 = 0 THEN r ELSE Gw - 1 - r, y, 2 * layer>>
<1> DEFINE size == Gw * Gl
           layer == b \div size
           q == b % size
           row == q \div Gw
           r == q % Gw
<1>1. Gw \in Nat \ {0} /\ Gl \in Nat \ {0} /\ size \in Nat \ {0}
  BY Mesh
<1>2. layer \in Nat /\ q \in Nat /\ b = size * layer + q
  <2> HIDE DEF size
  <2> QED BY <1>1, Division
<1>3. row \in Nat /\ r \in 0 .. Gw - 1 /\ q = Gw * row + r
  <2> HIDE DEF q
  <2> QED BY <1>1, <1>2, Division
<1>4. Brick(b) = LET y == IF layer % 2 = 0 THEN row ELSE Gl - 1 - row
                 IN <<IF (y + layer) % 2 = 0 THEN b % Gw ELSE Gw - 1 - (b % Gw),
                      y, 2 * layer>>
  BY DEF Brick
<1>5. size * layer = Gw * (Gl * layer)
  <2> HIDE DEF layer
  <2> QED BY <1>1, <1>2
<1> HIDE DEF size, layer, q, row, r
<1>6. b = Gw * (Gl * layer + row) + r
  <2> DEFINE gl == Gl * layer
  <2>1. gl \in Nat
    BY <1>1, <1>2
  <2>2. b = Gw * gl + Gw * row + r
    BY <1>1, <1>2, <1>3, <1>5
  <2> HIDE DEF gl
  <2>3. Gw * (gl + row) = Gw * gl + Gw * row
    BY <2>1, <1>1, <1>3
  <2>4. b = Gw * (gl + row) + r
    BY <2>2, <2>3
  <2> QED BY <2>4 DEF gl
<1>7. b % Gw = r
  <2> DEFINE Q == Gl * layer + row
  <2>1. Q \in Nat
    BY <1>1, <1>2, <1>3
  <2>2. b = Gw * Q + r
    BY <1>6
  <2> HIDE DEF Q
  <2> QED BY <2>1, <2>2, <1>1, <1>3, DivisionUnique
<1> QED
  BY <1>2, <1>3, <1>4, <1>6, <1>7

LEMMA BrickOnce ==
  ASSUME NEW b \in Nat, NEW c \in Nat, Brick(b) = Brick(c)
  PROVE  b = c
<1>1. PICK layer \in Nat, row \in Nat, r \in 0 .. Gw - 1 :
        /\ b = Gw * (Gl * layer + row) + r
        /\ LET y == IF layer % 2 = 0 THEN row ELSE Gl - 1 - row
           IN Brick(b) = <<IF (y + layer) % 2 = 0 THEN r ELSE Gw - 1 - r, y, 2 * layer>>
  BY BrickParts
<1>2. PICK layer1 \in Nat, row1 \in Nat, r1 \in 0 .. Gw - 1 :
        /\ c = Gw * (Gl * layer1 + row1) + r1
        /\ LET y == IF layer1 % 2 = 0 THEN row1 ELSE Gl - 1 - row1
           IN Brick(c) = <<IF (y + layer1) % 2 = 0 THEN r1 ELSE Gw - 1 - r1, y, 2 * layer1>>
  BY BrickParts
<1> DEFINE y == IF layer % 2 = 0 THEN row ELSE Gl - 1 - row
           y1 == IF layer1 % 2 = 0 THEN row1 ELSE Gl - 1 - row1
           x == IF (y + layer) % 2 = 0 THEN r ELSE Gw - 1 - r
           x1 == IF (y1 + layer1) % 2 = 0 THEN r1 ELSE Gw - 1 - r1
<1>3. <<x, y, 2 * layer>> = <<x1, y1, 2 * layer1>>
  BY <1>1, <1>2
<1>4. x = x1 /\ y = y1 /\ 2 * layer = 2 * layer1
  <2> HIDE DEF x, y, x1, y1
  <2> QED BY <1>3
<1>5. Gl \in Nat \ {0} /\ Gw \in Nat \ {0}
  BY Mesh
<1>6. layer = layer1
  BY <1>4
<1>7. row = row1
  BY <1>4, <1>5, <1>6
<1>8. r = r1
  <2>1. y \in Int /\ y1 \in Int /\ y = y1
    BY <1>4, <1>5
  <2> HIDE DEF y, y1
  <2> QED BY <2>1, <1>4, <1>5, <1>6
<1> QED
  BY <1>1, <1>2, <1>6, <1>7, <1>8

LEMMA FirstRowSlots ==
  ASSUME NEW n \in Nat \ {0}, NEW slots \in FirstRow(n)
  PROVE  SlotsFor(n, slots)
<1>1. PICK b \in Rows(n) : slots = [k \in 1 .. n |-> Brick(b + k - 1)]
  BY DEF FirstRow
<1>2. Start \in Nat
  BY Mesh DEF Start
<1>3. b \in Nat /\ \A k \in b .. b + n - 1 : Usable(Brick(k))
  <2>1. Limit \in Int
    BY Mesh DEF Limit
  <2> QED BY <2>1, <1>2 DEF Rows
<1>4. \A k \in 1 .. n : b + k - 1 \in b .. b + n - 1 /\ b + k - 1 \in Nat
  BY <1>3
<1>5. \A k \in 1 .. n : Usable(slots[k])
  BY <1>1, <1>3, <1>4
<1>6. \A k \in 1 .. n : slots[k] \in Slots
  BY <1>5 DEF Usable
<1>7. slots \in [1 .. n -> Slots]
  BY <1>1, <1>6
<1>8. ASSUME NEW k \in 1 .. n, NEW l \in 1 .. n, slots[k] = slots[l] PROVE k = l
  <2>1. Brick(b + k - 1) = Brick(b + l - 1)
    BY <1>1, <1>8
  <2>2. b + k - 1 = b + l - 1
    BY <2>1, <1>4, BrickOnce
  <2> QED BY <2>2, <1>3
<1> QED
  BY <1>5, <1>7, <1>8 DEF SlotsFor

LEMMA CompactMappingSlots ==
  ASSUME NEW n \in Nat \ {0}, NEW slots \in FindCompactMapping(n)
  PROVE  SlotsFor(n, slots)
BY OxPlowSlots, FirstRowSlots DEF FindCompactMapping

\* calc_runtime.
LEMMA RuntimeNat ==
  ASSUME NEW app, IsApp(app)
  PROVE  Runtime(app) \in Nat
<1> DEFINE n == Len(app.tasks)
           Rec(f) == f = [k \in 0 .. n |->
                            IF k = 0 THEN 0 ELSE f[k-1] + app.tasks[k]]
           step == [k \in 1 .. n |-> [x \in Nat |-> x + app.tasks[k]]]
           g == CHOOSE f : Rec(f)
<1>1. n \in Nat /\ \A k \in 1 .. n : app.tasks[k] \in Nat
  BY AppTasks
<1> HIDE DEF n
<1>2. step \in [1 .. n -> [Nat -> Nat]]
  BY <1>1
<1>3. PICK f : Stepwise(f, n, Nat, 0, step)
  <2> HIDE DEF step, g, Rec
  <2>1. n \in Nat /\ 0 \in Nat
    BY <1>1
  <2> QED BY <2>1, <1>2, StepwiseExists
<1>4. Rec(f)
  <2>1. ASSUME NEW k \in 0 .. n
        PROVE  f[k] = IF k = 0 THEN 0 ELSE f[k-1] + app.tasks[k]
    <3>1. CASE k = 0
      BY <3>1, <1>3 DEF Stepwise
    <3>2. CASE k # 0
      <4>1. k - 1 \in 0 .. n /\ k \in 1 .. n
        BY <3>2, <1>1
      <4>2. f[k-1] \in Nat
        BY <4>1, <1>3 DEF Stepwise
      <4>3. f[k] = step[k][f[k-1]]
        <5> HIDE DEF step
        <5> QED BY <4>1, <1>3 DEF Stepwise
      <4> QED BY <4>1, <4>2, <4>3, <3>2
    <3> QED BY <3>1, <3>2
  <2>2. f = [k \in 0 .. n |-> f[k]]
    BY <1>3 DEF Stepwise
  <2> QED BY <2>1, <2>2
<1>5. Rec(g)
  <2> HIDE DEF Rec
  <2> QED BY <1>4
<1>6. \A k \in 0 .. n : g[k] \in Nat
  <2> DEFINE P == {k \in 0 .. n : g[k] \in Nat}
  <2>1. \A k \in 0 .. n : g[k] = IF k = 0 THEN 0 ELSE g[k-1] + app.tasks[k]
    <3> HIDE DEF g
    <3> QED BY <1>5
  <2> HIDE DEF g
  <2>2. 0 \in P
    BY <2>1, <1>1
  <2>3. \A k \in 1 .. n : k - 1 \in P => k \in P
    BY <2>1, <1>1
  <2>4. P \in SUBSET Nat
    BY <1>1
  <2>5. \A k \in 0 .. n : k \in P
    <3> HIDE DEF P
    <3> QED BY <1>1, <2>2, <2>3, <2>4, UpTo
  <2> QED BY <2>5
<1>7. Runtime(app) = g[n]
  BY DEF Runtime, n
<1> QED
  BY <1>1, <1>6, <1>7

-----------------------------------------------------------------------------
(* The inductive invariant.                                                *)

\* A core that works has a task of an application that was mapped, and ends later.
Working ==
  /\ core \in [Cores -> [app : Nat, task : Nat, death : Nat]]
  /\ \A c \in Busy : /\ core[c].app \in mapped
                     /\ core[c].task \in Tasks(Apps[core[c].app])
                     /\ core[c].death >= time

\* All cores of an application end at the same time.
Together == \A c, d \in Busy : core[c].app = core[d].app => core[c].death = core[d].death

\* A core only works over one that works for the same application.
Stacked ==
  \A c \in Slots : Over(c) \in Busy => c \in Busy /\ core[c].app = core[Over(c)].app

\* An interval that is reported is over, or its core works until its end.
Logged ==
  \A e \in log : /\ e.core \in Cores /\ e.start \in Nat /\ e.end \in Nat
                 /\ e.start <= e.end
                 /\ e.end > time => e.core \in Busy /\ core[e.core].death = e.end

\* The mapping that is being optimised: different slots, all of them usable since
\* the search found them, one for each pair.
Planned ==
  pc = "opt" =>
    LET n == Len(Pairs[next])
        T == Tasks(Apps[next])
    IN /\ next \in DOMAIN Apps /\ next \notin mapped
       /\ opt \in [slots : [1 .. n -> Slots],
                   pairs : [1 .. n -> T \X (T \cup {None})],
                   place : [1 .. n -> 1 .. n],
                   swap : Nat \X Nat, pass : Nat, improved : BOOLEAN]
       /\ SlotsFor(n, opt.slots)
       /\ OrderOf(next, opt.pairs)
       /\ \A i, j \in 1 .. n : opt.place[i] = opt.place[j] => i = j
       /\ 1 <= opt.swap[1] /\ opt.swap[1] < opt.swap[2]

PairInv ==
  /\ TypeOK /\ Working /\ Together /\ Stacked /\ AppsWhole
  /\ Logged /\ NoOverbooking /\ Planned

\* Application a is on the chip with all its tasks.
Whole(a) ==
  /\ \A t \in DOMAIN Apps[a].tasks :
       Cardinality({c \in Freed(a) : core[c].task = t}) = 1
  /\ \A p \in ToSet(Pairs[a]) : \E c \in Freed(a) \cap Slots :
       core[c].task = p[1] /\ core[Over(c)].task = p[2]

LEMMA AppsAreWhole == AppsWhole <=> \A a \in mapped : Freed(a) # {} => Whole(a)
BY DEF AppsWhole, Whole, Freed

\* What does not touch the cores of an application leaves it whole.
LEMMA WholeFrame ==
  ASSUME NEW a, Whole(a), Freed(a)' = Freed(a),
         \A c \in Freed(a) : core'[c] = core[c],
         \A c \in Freed(a) \cap Slots : core'[Over(c)] = core[Over(c)]
  PROVE  Whole(a)'
<1>1. \A t : {c \in Freed(a)' : core'[c].task = t} = {c \in Freed(a) : core[c].task = t}
  OBVIOUS
<1>2. ASSUME NEW t \in DOMAIN Apps[a].tasks
      PROVE  Cardinality({c \in Freed(a)' : core'[c].task = t}) = 1
  BY <1>1 DEF Whole
<1>3. ASSUME NEW p \in ToSet(Pairs[a])
      PROVE  \E c \in Freed(a)' \cap Slots :
               core'[c].task = p[1] /\ core'[Over(c)].task = p[2]
  BY DEF Whole
<1> QED
  BY <1>2, <1>3 DEF Whole

LEMMA InitPairInv == Init => PairInv
<1> SUFFICES ASSUME Init PROVE PairInv
  OBVIOUS
<1> USE DEF Init
<1>1. Busy = {}
  BY DEF Busy
<1>2. Empty \in [app : Nat, task : Nat, death : Nat]
  BY DEF Empty
<1>3. DOMAIN Apps = 1 .. Len(Apps) /\ Len(Apps) \in Nat
  BY PairAssumption, Zenon
<1>4. TypeOK
  BY <1>3 DEF TypeOK
<1>5. Working /\ Together
  BY <1>1, <1>2 DEF Working, Together
<1>6. Stacked /\ AppsWhole
  BY <1>1 DEF Stacked, AppsWhole
<1>7. Logged /\ NoOverbooking /\ Planned
  BY DEF Logged, NoOverbooking, Planned
<1> QED
  BY <1>4, <1>5, <1>6, <1>7 DEF PairInv

\* A step that leaves the cores, the time and the report alone.
LEMMA IdlePairInv ==
  ASSUME PairInv, UNCHANGED <<core, time, mapped, log>>, TypeOK', Planned'
  PROVE  PairInv'
<1>1. Busy' = Busy
  BY DEF Busy
<1>2. Working'
  BY <1>1 DEF PairInv, Working
<1>3. Together' /\ Stacked'
  BY <1>1 DEF PairInv, Together, Stacked
<1>4. AppsWhole'
  <2> SUFFICES ASSUME NEW b \in mapped, Freed(b)' # {} PROVE Whole(b)'
    BY DEF AppsWhole, Whole, Freed
  <2>1. Freed(b)' = Freed(b)
    BY <1>1 DEF Freed
  <2>2. Whole(b)
    BY <2>1, AppsAreWhole DEF PairInv
  <2> QED BY <2>1, <2>2, WholeFrame
<1>5. Logged' /\ NoOverbooking'
  BY <1>1 DEF PairInv, Logged, NoOverbooking
<1> QED
  BY <1>2, <1>3, <1>4, <1>5 DEF PairInv

-----------------------------------------------------------------------------
(* An application ends.                                                    *)

\* The core that free_mesh finds works, and none ends before it.
LEMMA EndingFirst ==
  ASSUME PairInv, Busy # {}
  PROVE  Ending \in Busy /\ \A d \in Busy : core[Ending].death <= core[d].death
<1>1. \A c \in Busy : c \in Cores /\ core[c].death \in Nat
  BY DEF PairInv, Working, Busy
<1> DEFINE deaths == {core[c].death : c \in Busy}
           last == {c \in Busy : \A d \in Busy : core[c].death <= core[d].death}
           indices == {Index(c) : c \in last}
<1>2. last # {}
  <2>1. deaths \in SUBSET Nat /\ deaths # {}
    BY <1>1
  <2>2. PICK x \in deaths : \A y \in deaths : x <= y
    <3> HIDE DEF deaths
    <3> QED BY <2>1, Least
  <2> QED BY <2>2
<1>3. \A c \in last : Index(c) \in Nat
  BY <1>1, Mesh DEF Index
<1> DEFINE first(c) == \A d \in last : Index(c) <= Index(d)
<1>4. \E c \in last : first(c)
  <2>1. indices \in SUBSET Nat /\ indices # {}
    <3> HIDE DEF last
    <3> QED BY <1>2, <1>3
  <2>2. PICK x \in indices : \A y \in indices : x <= y
    <3> HIDE DEF indices
    <3> QED BY <2>1, Least
  <2> QED BY <2>2
<1>5. Ending = CHOOSE c \in last : first(c)
  BY DEF Ending
<1>6. Ending \in last
  <2> HIDE DEF last, first
  <2> QED BY <1>4, <1>5
<1> QED
  BY <1>6

LEMMA FreeMeshPairInv ==
  ASSUME PairInv, FreeMesh
  PROVE  PairInv'
<1>1. CASE mapped = {} \/ Busy = {}
  <2>1. UNCHANGED <<core, wear, blocked, time, mapped, log, next, opt>> /\ pc' = "heat"
    BY <1>1 DEF FreeMesh
  <2>2. TypeOK' /\ Planned'
    BY <2>1 DEF PairInv, TypeOK, Planned
  <2> QED BY <2>1, <2>2, IdlePairInv
<1>2. CASE ~(mapped = {} \/ Busy = {})
  <2> DEFINE a == core[Ending].app
             F == Freed(a)
             end == core[Ending].death
  <2>1. Ending \in Busy /\ \A d \in Busy : core[Ending].death <= core[d].death
    BY <1>2, EndingFirst
  <2>2. /\ pc' = "heat" /\ time' = end
        /\ core' = [c \in Cores |-> IF c \in F THEN Empty ELSE core[c]]
        /\ UNCHANGED <<wear, blocked, mapped, log, next, opt>>
    BY <1>2 DEF FreeMesh
  <2>3. F = {c \in Busy : core[c].app = a}
    BY DEF Freed
  <2>4. \A c \in Busy : c \in Cores /\ core[c] # Empty
    BY DEF Busy
  <2>5. /\ core \in [Cores -> [app : Nat, task : Nat, death : Nat]]
        /\ \A c \in Busy : /\ core[c].app \in mapped
                           /\ core[c].task \in Tasks(Apps[core[c].app])
                           /\ core[c].death >= time
        /\ time \in Nat
    BY DEF PairInv, Working, TypeOK
  <2>6. end \in Nat /\ time <= end
    BY <2>1, <2>4, <2>5
  <2>7. \A d \in Busy : end <= core[d].death
    BY <2>1
  <2>8. \A c \in F : core[c].death = end
    BY <2>1, <2>3 DEF PairInv, Together
  <2> HIDE DEF a, F, end
  <2>9. Busy' = Busy \ F /\ \A c \in Busy' : c \in Busy /\ core'[c] = core[c]
    <3>1. \A c \in Cores : core'[c] = IF c \in F THEN Empty ELSE core[c]
      BY <2>2
    <3> QED BY <3>1, <2>3 DEF Busy
  <2>10. \A c \in Cores \ F : core'[c] = core[c]
    BY <2>2
  <2>11. TypeOK'
    <3>1. \A c \in Cores : core'[c] = Empty \/ core'[c].app \in mapped'
      BY <2>2, <2>9, <2>5 DEF Busy
    <3> QED BY <3>1, <2>2, <2>6 DEF PairInv, TypeOK
  <2>12. Working'
    <3>1. Empty \in [app : Nat, task : Nat, death : Nat]
      BY DEF Empty
    <3>2. core' \in [Cores -> [app : Nat, task : Nat, death : Nat]]
      BY <3>1, <2>2, <2>5
    <3>3. \A c \in Busy' : core'[c].death >= time'
      BY <2>2, <2>4, <2>5, <2>6, <2>7, <2>9
    <3> QED BY <3>2, <3>3, <2>2, <2>5, <2>9 DEF Working
  <2>13. Together'
    BY <2>9 DEF PairInv, Together
  <2>14. Stacked'
    <3> SUFFICES ASSUME NEW c \in Slots, Over(c) \in Busy'
                 PROVE  c \in Busy' /\ core'[c].app = core'[Over(c)].app
      BY DEF Stacked
    <3>1. Over(c) \in Busy /\ Over(c) \notin F /\ core'[Over(c)] = core[Over(c)]
      BY <2>9
    <3>2. c \in Busy /\ core[c].app = core[Over(c)].app
      BY <3>1 DEF PairInv, Stacked
    <3>3. c \notin F
      BY <3>1, <3>2, <2>3
    <3> QED BY <3>1, <3>2, <3>3, <2>9
  <2>15. AppsWhole'
    <3> SUFFICES ASSUME NEW b \in mapped, Freed(b)' # {} PROVE Whole(b)'
      BY <2>2 DEF AppsWhole, Whole, Freed
    <3>1. Freed(b)' = {c \in Busy' : core'[c].app = b}
      BY DEF Freed
    <3>2. b # a
      BY <3>1, <2>3, <2>9
    <3>3. Freed(b)' = Freed(b) /\ \A c \in Freed(b) : c \in Busy /\ core'[c] = core[c]
      BY <3>1, <3>2, <2>3, <2>9 DEF Freed
    <3>4. Whole(b)
      BY <3>3, AppsAreWhole DEF PairInv
    <3>5. ASSUME NEW c \in Freed(b) \cap Slots
          PROVE  core'[Over(c)] = core[Over(c)]
      <4>1. Over(c) \notin F
        BY <3>2, <2>3 DEF PairInv, Stacked, Freed
      <4>2. Over(c) \in Cores
        BY OverCore
      <4> QED BY <4>1, <4>2, <2>10
    <3> QED BY <3>3, <3>4, <3>5, WholeFrame
  <2>16. Logged'
    <3> SUFFICES ASSUME NEW e \in log, e.end > time'
                 PROVE  e.core \in Busy' /\ core'[e.core].death = e.end
      BY <2>2 DEF PairInv, Logged
    <3>1. e.end \in Nat /\ e.end > time
      BY <2>2, <2>5, <2>6 DEF PairInv, Logged
    <3>2. e.core \in Busy /\ core[e.core].death = e.end
      BY <3>1 DEF PairInv, Logged
    <3>3. e.core \notin F
      BY <3>1, <3>2, <2>2, <2>6, <2>8
    <3> QED BY <3>2, <3>3, <2>9
  <2>17. NoOverbooking' /\ Planned'
    BY <2>2 DEF PairInv, NoOverbooking, Planned
  <2> QED
    BY <2>11, <2>12, <2>13, <2>14, <2>15, <2>16, <2>17 DEF PairInv
<1> QED
  BY <1>1, <1>2

-----------------------------------------------------------------------------
(* The search for slots and the optimiser, which leave the cores alone.    *)

LEMMA SearchPairInv ==
  ASSUME PairInv, ThermalBlock \/ SkipApp \/ NextRound
  PROVE  PairInv'
<1>1. Len(Apps) \in Nat
  BY PairAssumption, Zenon
<1>2. UNCHANGED <<core, time, mapped, log, opt>> /\ pc' # "opt"
  BY DEF ThermalBlock, SkipApp, NextRound
<1>3. pc' \in {"free", "heat", "map", "opt", "done"} /\ next' \in 1 .. Len(Apps) + 1
  BY <1>1 DEF PairInv, TypeOK, ThermalBlock, SkipApp, NextRound
<1>4. TypeOK' /\ Planned'
  BY <1>2, <1>3 DEF PairInv, TypeOK, Planned
<1> QED
  BY <1>2, <1>4, IdlePairInv

LEMMA StartMappingPairInv ==
  ASSUME PairInv, StartMapping
  PROVE  PairInv'
<1> DEFINE n == Len(Pairs[next])
           T == Tasks(Apps[next])
<1>1. /\ pc' = "opt" /\ UNCHANGED <<core, wear, blocked, time, mapped, log, next>>
      /\ next <= Len(Apps) /\ next \notin mapped
  BY DEF StartMapping, Trying
<1>2. PICK slots \in FindCompactMapping(n), order \in Orders(next) :
        opt' = [slots |-> slots, pairs |-> order,
                place |-> [i \in DOMAIN order |-> i],
                swap |-> <<1, 2>>, pass |-> 1, improved |-> FALSE]
  BY DEF StartMapping
<1>3. next \in DOMAIN Apps
  <2>1. DOMAIN Apps = 1 .. Len(Apps) /\ Len(Apps) \in Nat
    BY PairAssumption, Zenon
  <2> QED BY <1>1, <2>1 DEF PairInv, TypeOK
<1>4. OrderOf(next, order)
  BY <1>3, OrdersAreOrders
<1>5. /\ n \in Nat \ {0} /\ DOMAIN order = 1 .. n
      /\ order \in [1 .. n -> T \X (T \cup {None})]
  BY <1>4 DEF OrderOf
<1>6. SlotsFor(n, slots)
  <2> HIDE DEF n
  <2> QED BY <1>2, <1>5, CompactMappingSlots
<1>7. slots \in [1 .. n -> Slots] /\ \A i \in 1 .. n : Usable(slots[i])
  BY <1>6 DEF SlotsFor
<1> HIDE DEF n, T
<1>8. /\ opt'.slots = slots /\ opt'.pairs = order /\ opt'.swap = <<1, 2>>
      /\ opt'.place = [i \in 1 .. n |-> i]
      /\ opt' \in [slots : [1 .. n -> Slots],
                   pairs : [1 .. n -> T \X (T \cup {None})],
                   place : [1 .. n -> 1 .. n],
                   swap : Nat \X Nat, pass : Nat, improved : BOOLEAN]
  BY <1>2, <1>5, <1>7
<1>9. SlotsFor(n, opt.slots)'
  <2>1. n' = n
    BY <1>1 DEF n
  <2>2. \A i \in 1 .. n : Usable(slots[i])'
    BY <1>7, <1>1 DEF Usable, Busy
  <2> QED BY <2>1, <2>2, <1>6, <1>8 DEF SlotsFor
<1>10. Planned'
  BY <1>1, <1>3, <1>4, <1>8, <1>9 DEF Planned, n, T
<1>11. TypeOK'
  <2>1. ToSet(slots) \subseteq Slots
    BY <1>7 DEF ToSet
  <2> QED BY <2>1, <1>1, <1>8 DEF PairInv, TypeOK
<1> QED
  BY <1>1, <1>10, <1>11, IdlePairInv

\* What the optimiser keeps: only the places and the counters change.
Plans ==
  LET n == Len(Pairs[next])
      T == Tasks(Apps[next])
  IN [slots : [1 .. n -> Slots], pairs : [1 .. n -> T \X (T \cup {None})],
      place : [1 .. n -> 1 .. n],
      swap : Nat \X Nat, pass : Nat, improved : BOOLEAN]

LEMMA OptimiserPairInv ==
  ASSUME PairInv, pc = "opt",
         UNCHANGED <<core, wear, blocked, time, mapped, log, pc, next>>,
         opt' \in Plans, opt'.slots = opt.slots, opt'.pairs = opt.pairs,
         \A i, j \in 1 .. Len(Pairs[next]) : opt'.place[i] = opt'.place[j] => i = j,
         1 <= opt'.swap[1], opt'.swap[1] < opt'.swap[2]
  PROVE  PairInv'
<1> DEFINE n == Len(Pairs[next])
<1>1. /\ next \in DOMAIN Apps /\ next \notin mapped
      /\ SlotsFor(n, opt.slots) /\ OrderOf(next, opt.pairs)
  BY DEF PairInv, Planned
<1>2. SlotsFor(n, opt.slots)'
  <2>1. n' = n /\ \A i \in 1 .. n : Usable(opt.slots[i])'
    BY <1>1 DEF SlotsFor, Usable, Busy
  <2> HIDE DEF n
  <2> QED BY <2>1, <1>1 DEF SlotsFor
<1>3. OrderOf(next, opt.pairs)'
  BY <1>1
<1>4. Planned'
  BY <1>1, <1>2, <1>3 DEF Planned, Plans
<1>5. TypeOK'
  BY DEF PairInv, TypeOK
<1> QED
  BY <1>4, <1>5, IdlePairInv

\* The pairs that are compared are two.
LEMMA OptimiserState ==
  ASSUME PairInv, pc = "opt"
  PROVE  /\ opt \in Plans /\ Len(opt.pairs) = Len(Pairs[next])
         /\ opt.swap = <<opt.swap[1], opt.swap[2]>>
         /\ opt.swap[1] \in Nat /\ opt.swap[2] \in Nat
         /\ Len(Pairs[next]) \in Nat \ {0}
         /\ ~Passed => /\ opt.swap[1] \in 1 .. Len(Pairs[next])
                       /\ opt.swap[2] \in 1 .. Len(Pairs[next])
<1> DEFINE n == Len(Pairs[next])
<1>1. opt \in Plans
  BY DEF PairInv, Planned, Plans
<1>2. OrderOf(next, opt.pairs)
  BY DEF PairInv, Planned
<1>3. n \in Nat \ {0}
  BY <1>2 DEF OrderOf
<1> HIDE DEF n
<1>4. Len(opt.pairs) = n
  <2>1. opt.pairs \in [1 .. n -> Tasks(Apps[next]) \X (Tasks(Apps[next]) \cup {None})]
    BY <1>1 DEF Plans, n
  <2> QED BY <2>1, <1>3, Sequence
<1>5. opt.swap \in Nat \X Nat
  BY <1>1 DEF Plans
<1>6. 1 <= opt.swap[1] /\ opt.swap[1] < opt.swap[2]
  BY DEF PairInv, Planned
<1> QED
  BY <1>1, <1>3, <1>4, <1>5, <1>6 DEF Passed, n

LEMMA ComparePairInv ==
  ASSUME PairInv, Compare
  PROVE  PairInv'
<1> DEFINE n == Len(Pairs[next])
           i == opt.swap[1]
           j == opt.swap[2]
<1>1. pc = "opt" /\ ~Passed /\ UNCHANGED <<core, wear, blocked, time, mapped, log, pc, next>>
  BY DEF Compare
<1>2. /\ opt \in Plans /\ Len(opt.pairs) = n /\ n \in Nat \ {0}
      /\ i \in 1 .. n /\ j \in 1 .. n
  BY <1>1, OptimiserState
<1>3. i < j /\ \A k, l \in 1 .. n : opt.place[k] = opt.place[l] => k = l
  BY <1>1 DEF PairInv, Planned
<1>4. opt' = IF Saves(i, j)
             THEN [opt EXCEPT !.swap = After(@), !.improved = TRUE,
                              !.place = Exchanged(opt.place, i, j)]
             ELSE [opt EXCEPT !.swap = After(@)]
  BY DEF Compare
<1> HIDE DEF n
<1>5. /\ After(opt.swap) \in Nat \X Nat /\ 1 <= After(opt.swap)[1]
      /\ After(opt.swap)[1] < After(opt.swap)[2]
  BY <1>2, <1>3 DEF After
<1>6. opt.place \in [1 .. n -> 1 .. n]
  BY <1>2 DEF Plans, n
<1>7. LET q == Exchanged(opt.place, i, j)
      IN /\ q \in [1 .. n -> 1 .. n]
         /\ \A k, l \in 1 .. n : q[k] = q[l] => k = l
  <2> DEFINE q == Exchanged(opt.place, i, j)
  <2> HIDE DEF i, j
  <2>1. q \in [1 .. n -> 1 .. n]
    BY <1>2, <1>6 DEF Exchanged
  <2>2. \A k \in 1 .. n : q[k] = IF k = j THEN opt.place[i]
                                ELSE IF k = i THEN opt.place[j] ELSE opt.place[k]
    BY <1>2, <1>6 DEF Exchanged
  <2> HIDE DEF q
  <2>3. \A k, l \in 1 .. n : q[k] = q[l] => k = l
    BY <2>2, <1>2, <1>3
  <2> QED BY <2>1, <2>3 DEF q
<1>8. /\ opt' \in Plans /\ opt'.slots = opt.slots /\ opt'.pairs = opt.pairs
      /\ opt'.swap = After(opt.swap)
      /\ opt'.place = opt.place \/ opt'.place = Exchanged(opt.place, i, j)
  <2> HIDE DEF i, j
  <2>1. CASE Saves(i, j)
    BY <2>1, <1>2, <1>4, <1>5, <1>7 DEF Plans, n
  <2>2. CASE ~Saves(i, j)
    BY <2>2, <1>2, <1>4, <1>5 DEF Plans, n
  <2> QED BY <2>1, <2>2
<1>9. \A k, l \in 1 .. n : opt'.place[k] = opt'.place[l] => k = l
  <2> HIDE DEF i, j
  <2> QED BY <1>3, <1>7, <1>8
<1> QED
  BY <1>1, <1>5, <1>8, <1>9, OptimiserPairInv DEF n

LEMMA NextPassPairInv ==
  ASSUME PairInv, NextPass
  PROVE  PairInv'
<1>1. /\ pc = "opt" /\ UNCHANGED <<core, wear, blocked, time, mapped, log, pc, next>>
      /\ opt' = [opt EXCEPT !.swap = <<1, 2>>, !.pass = @ + 1, !.improved = FALSE]
  BY DEF NextPass
<1>2. opt \in Plans
  BY <1>1, OptimiserState
<1>3. /\ opt' \in Plans /\ opt'.slots = opt.slots /\ opt'.pairs = opt.pairs
      /\ opt'.place = opt.place /\ opt'.swap = <<1, 2>>
  <2> DEFINE first == <<1, 2>>
             more == opt.pass + 1
  <2>1. first \in Nat \X Nat /\ more \in Nat
    BY <1>2 DEF Plans
  <2>2. opt' = [opt EXCEPT !.swap = first, !.pass = more, !.improved = FALSE]
    BY <1>1
  <2> HIDE DEF first, more
  <2>3. /\ opt' \in Plans /\ opt'.slots = opt.slots /\ opt'.pairs = opt.pairs
        /\ opt'.place = opt.place /\ opt'.swap = first
    BY <1>2, <2>1, <2>2 DEF Plans
  <2> QED BY <2>3 DEF first
<1>4. \A k, l \in 1 .. Len(Pairs[next]) : opt'.place[k] = opt'.place[l] => k = l
  BY <1>1, <1>3 DEF PairInv, Planned
<1> QED
  BY <1>1, <1>3, <1>4, OptimiserPairInv

-----------------------------------------------------------------------------
(* An application is put on its cores.                                     *)

\* The core of place h of pair i, and every task with its core.
On(i, h) == IF h = 1 THEN Slot(opt.place, i) ELSE Over(Slot(opt.place, i))

Put == {<<On(x[1], x[2]), opt.pairs[x[1]][x[2]]>> :
          x \in {y \in (1 .. Len(Pairs[next])) \X {1, 2} : opt.pairs[y[1]][y[2]] # None}}

LEMMA OnCores ==
  ASSUME PairInv, pc = "opt"
  PROVE  LET n == Len(Pairs[next])
         IN \A i \in 1 .. n :
              /\ Slot(opt.place, i) \in Slots /\ Usable(Slot(opt.place, i))
              /\ \A h \in {1, 2} : /\ On(i, h) \in Cores
                                   /\ On(i, h) \notin Busy /\ On(i, h) \notin blocked
              /\ \A j \in 1 .. n : \A h, g \in {1, 2} :
                   On(i, h) = On(j, g) => i = j /\ h = g
<1> DEFINE n == Len(Pairs[next])
<1>1. /\ \A i \in 1 .. n : opt.place[i] \in 1 .. n
      /\ \A i, j \in 1 .. n : opt.place[i] = opt.place[j] => i = j
      /\ SlotsFor(n, opt.slots)
  BY DEF PairInv, Planned
<1> HIDE DEF n
<1>2. ASSUME NEW i \in 1 .. n
      PROVE  Slot(opt.place, i) \in Slots /\ Usable(Slot(opt.place, i))
  BY <1>1 DEF Slot, SlotsFor, Usable
<1>3. ASSUME NEW i \in 1 .. n, NEW j \in 1 .. n, Slot(opt.place, i) = Slot(opt.place, j)
      PROVE  i = j
  BY <1>1, <1>3 DEF Slot, SlotsFor
<1>4. ASSUME NEW i \in 1 .. n, NEW h \in {1, 2}
      PROVE  On(i, h) \in Cores /\ On(i, h) \notin Busy /\ On(i, h) \notin blocked
  BY <1>2, OverCore DEF On, Usable
<1>5. ASSUME NEW i \in 1 .. n, NEW j \in 1 .. n, NEW h \in {1, 2}, NEW g \in {1, 2},
             On(i, h) = On(j, g)
      PROVE  i = j /\ h = g
  <2>1. /\ Slot(opt.place, i) \in Slots /\ Over(Slot(opt.place, i)) \notin Slots
        /\ Slot(opt.place, j) \in Slots /\ Over(Slot(opt.place, j)) \notin Slots
        /\ Over(Slot(opt.place, i)) = Over(Slot(opt.place, j))
             => Slot(opt.place, i) = Slot(opt.place, j)
    BY <1>2, OverCore
  <2> QED BY <2>1, <1>3, <1>5 DEF On
<1> QED
  BY <1>2, <1>4, <1>5 DEF n

\* Every task has one core, and every core at most one task.
LEMMA PutOnce ==
  ASSUME PairInv, pc = "opt"
  PROVE  LET n == Len(Pairs[next])
             T == Tasks(Apps[next])
         IN /\ \A i \in 1 .. n : \A h \in {1, 2} :
                 opt.pairs[i][h] # None => <<On(i, h), opt.pairs[i][h]>> \in Put
            /\ \A p \in Put : \E i \in 1 .. n : \E h \in {1, 2} :
                 opt.pairs[i][h] # None /\ p = <<On(i, h), opt.pairs[i][h]>>
            /\ \A p \in Put : /\ p = <<p[1], p[2]>> /\ p[1] \in Cores /\ p[2] \in T
                              /\ p[1] \notin Busy /\ p[1] \notin blocked
            /\ \A p, q \in Put : p[1] = q[1] \/ p[2] = q[2] => p = q
            /\ \A t \in T : \E p \in Put : p[2] = t
<1> DEFINE n == Len(Pairs[next])
           T == Tasks(Apps[next])
           pairs == opt.pairs
<1>1. /\ pairs \in [1 .. n -> T \X (T \cup {None})] /\ DOMAIN pairs = 1 .. n
      /\ Apart(pairs)
      /\ \A t \in T : \E i \in 1 .. n : \E h \in {1, 2} : pairs[i][h] = t
      /\ next \in DOMAIN Apps
  BY DEF PairInv, Planned, OrderOf
<1>2. \A t \in T : t # None
  BY <1>1, EveryApp, AppTasks
<1>3. \A i \in 1 .. n : /\ \A h \in {1, 2} : /\ On(i, h) \in Cores
                                             /\ On(i, h) \notin Busy /\ On(i, h) \notin blocked
                        /\ \A j \in 1 .. n : \A h, g \in {1, 2} :
                             On(i, h) = On(j, g) => i = j /\ h = g
  BY OnCores
<1>4. Put = {<<On(x[1], x[2]), pairs[x[1]][x[2]]>> :
               x \in {y \in (1 .. n) \X {1, 2} : pairs[y[1]][y[2]] # None}}
  BY DEF Put
<1> HIDE DEF n, T, pairs
<1>5. ASSUME NEW i \in 1 .. n, NEW h \in {1, 2}, pairs[i][h] # None
      PROVE  <<On(i, h), pairs[i][h]>> \in Put
  <2>1. <<i, h>> \in {y \in (1 .. n) \X {1, 2} : pairs[y[1]][y[2]] # None}
    BY <1>5
  <2> QED BY <2>1, <1>4
<1>6. ASSUME NEW p \in Put
      PROVE  \E i \in 1 .. n : \E h \in {1, 2} :
               pairs[i][h] # None /\ p = <<On(i, h), pairs[i][h]>>
  BY <1>4
<1>7. \A i \in 1 .. n : \A h \in {1, 2} : pairs[i][h] # None => pairs[i][h] \in T
  BY <1>1
<1>8. ASSUME NEW p \in Put
      PROVE  /\ p = <<p[1], p[2]>> /\ p[1] \in Cores /\ p[2] \in T
             /\ p[1] \notin Busy /\ p[1] \notin blocked
  <2>1. PICK i \in 1 .. n, h \in {1, 2} :
          pairs[i][h] # None /\ p = <<On(i, h), pairs[i][h]>>
    BY <1>6
  <2>2. p[1] = On(i, h) /\ p[2] = pairs[i][h]
    BY <2>1
  <2> QED BY <2>1, <2>2, <1>3, <1>7
<1>9. ASSUME NEW p \in Put, NEW q \in Put, p[1] = q[1] \/ p[2] = q[2]
      PROVE  p = q
  <2>1. PICK i \in 1 .. n, h \in {1, 2} :
          pairs[i][h] # None /\ p = <<On(i, h), pairs[i][h]>>
    BY <1>6
  <2>2. PICK j \in 1 .. n, g \in {1, 2} :
          pairs[j][g] # None /\ q = <<On(j, g), pairs[j][g]>>
    BY <1>6
  <2>3. On(i, h) = On(j, g) \/ pairs[i][h] = pairs[j][g]
    BY <2>1, <2>2, <1>9
  <2>4. i = j /\ h = g
    BY <2>1, <2>2, <2>3, <1>1, <1>3 DEF Apart
  <2> QED BY <2>1, <2>2, <2>4
<1>10. ASSUME NEW t \in T PROVE \E p \in Put : p[2] = t
  <2>1. PICK i \in 1 .. n, h \in {1, 2} : pairs[i][h] = t
    BY <1>1
  <2>2. <<On(i, h), pairs[i][h]>> \in Put
    BY <2>1, <1>2, <1>5
  <2> QED BY <2>1, <2>2
<1> QED
  BY <1>5, <1>6, <1>8, <1>9, <1>10 DEF n, T, pairs

\* What Apply does to a core and to the report.
LEMMA ApplyEffect ==
  ASSUME PairInv, Apply
  PROVE  LET death == time + Runtime(Apps[next])
         IN /\ death \in Nat /\ time <= death /\ time \in Nat
            /\ \A p \in Put : core'[p[1]] = [app |-> next, task |-> p[2], death |-> death]
            /\ \A c \in Cores : (\A p \in Put : p[1] # c) => core'[c] = core[c]
            /\ DOMAIN core' = Cores /\ core' = [c \in Cores |-> core'[c]]
            /\ log' = log \cup {[app |-> next, task |-> p[2], core |-> p[1],
                                 start |-> time, end |-> death] : p \in Put}
            /\ pc = "opt" /\ pc' = "map" /\ next' = next + 1
            /\ mapped' = mapped \cup {next} /\ UNCHANGED <<blocked, time>>
<1> DEFINE app == Apps[next]
           death == time + Runtime(app)
           put == UNION {{<<On(i, h), opt.pairs[i][h]>> :
                            h \in {k \in {1, 2} : opt.pairs[i][k] # None}} :
                         i \in DOMAIN opt.pairs}
           target(c) == {p \in put : p[1] = c}
           taskOn(c) == (CHOOSE p \in target(c) : TRUE)[2]
<1>1. /\ core' = [c \in Cores |->
                    IF target(c) = {} THEN core[c]
                    ELSE [app |-> next, task |-> taskOn(c), death |-> death]]
      /\ log' = log \cup {[app |-> next, task |-> p[2], core |-> p[1],
                           start |-> time, end |-> death] : p \in put}
      /\ pc = "opt" /\ pc' = "map" /\ next' = next + 1
      /\ mapped' = mapped \cup {next} /\ UNCHANGED <<blocked, time>>
  BY DEF Apply, On
<1>2. death \in Nat /\ time <= death /\ time \in Nat
  <2>1. next \in DOMAIN Apps
    BY <1>1 DEF PairInv, Planned
  <2>2. Runtime(app) \in Nat
    BY <2>1, EveryApp, RuntimeNat
  <2>3. time \in Nat
    BY DEF PairInv, TypeOK
  <2> HIDE DEF app
  <2> QED BY <2>2, <2>3
<1>3. put = Put
  <2>1. DOMAIN opt.pairs = 1 .. Len(Pairs[next])
    BY <1>1 DEF PairInv, Planned, OrderOf
  <2>2. ASSUME NEW p \in put PROVE p \in Put
    <3>1. PICK i \in DOMAIN opt.pairs : \E h \in {1, 2} :
            opt.pairs[i][h] # None /\ p = <<On(i, h), opt.pairs[i][h]>>
      OBVIOUS
    <3>2. \A k \in 1 .. Len(Pairs[next]) : \A h \in {1, 2} :
            opt.pairs[k][h] # None => <<On(k, h), opt.pairs[k][h]>> \in Put
      BY <1>1, PutOnce
    <3> HIDE DEF put, target, taskOn
    <3> QED BY <3>1, <3>2, <2>1
  <2>3. ASSUME NEW p \in Put PROVE p \in put
    <3>1. PICK i \in DOMAIN opt.pairs : \E h \in {1, 2} :
            opt.pairs[i][h] # None /\ p = <<On(i, h), opt.pairs[i][h]>>
      BY <2>1, <1>1, PutOnce
    <3> QED BY <3>1
  <2> QED BY <2>2, <2>3
<1> HIDE DEF put
<1>4. \A p, q \in put : p[1] = q[1] => p = q
  BY <1>1, <1>3, PutOnce
<1>5. \A p \in put : p[1] \in Cores
  BY <1>1, <1>3, PutOnce
<1> HIDE DEF death
<1>6. ASSUME NEW p \in put
      PROVE  core'[p[1]] = [app |-> next, task |-> p[2], death |-> death]
  <2>1. target(p[1]) = {p}
    BY <1>4
  <2>2. (CHOOSE q \in target(p[1]) : TRUE) = p
    BY <2>1
  <2>3. taskOn(p[1]) = p[2] /\ target(p[1]) # {}
    BY <2>1, <2>2
  <2> HIDE DEF target, taskOn
  <2> QED BY <1>1, <1>5, <2>3
<1>7. ASSUME NEW c \in Cores, \A p \in put : p[1] # c PROVE core'[c] = core[c]
  <2>1. target(c) = {}
    BY <1>7
  <2> HIDE DEF target, taskOn
  <2> QED BY <1>1, <2>1
<1>8. DOMAIN core' = Cores /\ core' = [c \in Cores |-> core'[c]]
  <2> HIDE DEF target, taskOn
  <2> QED BY <1>1
<1> QED
  BY <1>1, <1>2, <1>3, <1>6, <1>7, <1>8 DEF death

LEMMA ApplyPairInv ==
  ASSUME PairInv, Apply
  PROVE  PairInv'
<1> DEFINE n == Len(Pairs[next])
           T == Tasks(Apps[next])
           death == time + Runtime(Apps[next])
           fresh == {[app |-> next, task |-> p[2], core |-> p[1],
                      start |-> time, end |-> death] : p \in Put}
           new(p) == [app |-> next, task |-> p[2], death |-> death]
<1>1. /\ death \in Nat /\ time <= death /\ time \in Nat
      /\ \A p \in Put : core'[p[1]] = new(p)
      /\ \A c \in Cores : (\A p \in Put : p[1] # c) => core'[c] = core[c]
      /\ DOMAIN core' = Cores /\ core' = [c \in Cores |-> core'[c]]
      /\ log' = log \cup fresh
      /\ pc = "opt" /\ pc' = "map" /\ next' = next + 1
      /\ mapped' = mapped \cup {next} /\ UNCHANGED <<blocked, time>>
  BY ApplyEffect
<1>2. /\ \A i \in 1 .. n : \A h \in {1, 2} :
           opt.pairs[i][h] # None => <<On(i, h), opt.pairs[i][h]>> \in Put
      /\ \A p \in Put : \E i \in 1 .. n : \E h \in {1, 2} :
           opt.pairs[i][h] # None /\ p = <<On(i, h), opt.pairs[i][h]>>
      /\ \A p \in Put : /\ p = <<p[1], p[2]>> /\ p[1] \in Cores /\ p[2] \in T
                        /\ p[1] \notin Busy /\ p[1] \notin blocked
      /\ \A p, q \in Put : p[1] = q[1] \/ p[2] = q[2] => p = q
      /\ \A t \in T : \E p \in Put : p[2] = t
  BY <1>1, PutOnce
<1>3. /\ next \in DOMAIN Apps /\ next \notin mapped
      /\ opt.pairs \in [1 .. n -> T \X (T \cup {None})]
      /\ \A p \in ToSet(Pairs[next]) : \E i \in 1 .. n : opt.pairs[i] = p
  BY <1>1 DEF PairInv, Planned, OrderOf
<1>4. /\ next \in Nat \ {0} /\ next <= Len(Apps) /\ Len(Apps) \in Nat
      /\ T \in SUBSET (Nat \ {0}) /\ DOMAIN Apps = 1 .. Len(Apps)
  <2>1. DOMAIN Apps = 1 .. Len(Apps)
    BY PairAssumption, Zenon
  <2>2. T \in SUBSET (Nat \ {0})
    BY <1>3, EveryApp, AppTasks DEF None
  <2> QED BY <2>1, <2>2, <1>3, EveryApp
<1>5. /\ core \in [Cores -> [app : Nat, task : Nat, death : Nat]]
      /\ \A c \in Busy : /\ core[c].app \in mapped
                         /\ core[c].task \in Tasks(Apps[core[c].app])
                         /\ core[c].death >= time
      /\ \A c \in Busy : c \in Cores /\ core[c] # Empty
      /\ mapped \subseteq DOMAIN Apps
  BY DEF PairInv, Working, TypeOK, Busy
<1>6. \A i \in 1 .. n :
        /\ Slot(opt.place, i) \in Slots /\ Usable(Slot(opt.place, i))
        /\ \A j \in 1 .. n : \A h, g \in {1, 2} : On(i, h) = On(j, g) => i = j /\ h = g
  BY <1>1, OnCores
<1> HIDE DEF n, T, death
<1>7. \A p \in Put : p[1] \in Busy' /\ core'[p[1]].app = next
                     /\ core'[p[1]].task = p[2] /\ core'[p[1]].death = death
  <2> SUFFICES ASSUME NEW p \in Put
               PROVE  p[1] \in Busy' /\ core'[p[1]].app = next
                      /\ core'[p[1]].task = p[2] /\ core'[p[1]].death = death
    OBVIOUS
  <2>1. core'[p[1]] = new(p) /\ p[1] \in Cores
    BY <1>1, <1>2
  <2>2. new(p).app = next /\ new(p).task = p[2] /\ new(p).death = death
    OBVIOUS
  <2>3. new(p) # Empty
    BY <1>4, <2>2 DEF Empty
  <2> HIDE DEF new
  <2> QED BY <2>1, <2>2, <2>3 DEF Busy
<1>8. \A c \in Busy : c \in Busy' /\ core'[c] = core[c]
  BY <1>1, <1>2, <1>5 DEF Busy
<1>9. \A c \in Busy' : \/ c \in Busy /\ core'[c] = core[c]
                       \/ \E p \in Put : c = p[1]
  BY <1>1 DEF Busy
<1>10. TypeOK'
  <2>1. \A c \in Cores : core'[c] = Empty \/ core'[c].app \in mapped'
    <3> SUFFICES ASSUME NEW c \in Cores, core'[c] # Empty PROVE core'[c].app \in mapped'
      OBVIOUS
    <3>1. c \in Busy'
      BY DEF Busy
    <3> QED BY <3>1, <1>1, <1>5, <1>7, <1>9
  <2>2. next' \in 1 .. Len(Apps) + 1
    BY <1>1, <1>4
  <2> QED BY <2>1, <2>2, <1>1, <1>3 DEF PairInv, TypeOK
<1>11. Working'
  <2>1. ASSUME NEW c \in Cores PROVE core'[c] \in [app : Nat, task : Nat, death : Nat]
    <3>1. CASE \A p \in Put : p[1] # c
      BY <3>1, <1>1, <1>5
    <3>2. CASE \E p \in Put : p[1] = c
      <4>1. PICK p \in Put : p[1] = c
        BY <3>2
      <4>2. p[2] \in Nat
        BY <1>2, <1>4
      <4>3. new(p) \in [app : Nat, task : Nat, death : Nat]
        BY <4>2, <1>1, <1>4
      <4> HIDE DEF new
      <4> QED BY <4>1, <4>3, <1>1
    <3> QED BY <3>1, <3>2
  <2>2. core' \in [Cores -> [app : Nat, task : Nat, death : Nat]]
    BY <2>1, <1>1
  <2>3. ASSUME NEW c \in Busy'
        PROVE  /\ core'[c].app \in mapped'
               /\ core'[c].task \in Tasks(Apps[core'[c].app])
               /\ core'[c].death >= time'
    <3>1. CASE c \in Busy /\ core'[c] = core[c]
      BY <3>1, <1>1, <1>5
    <3>2. CASE \E p \in Put : c = p[1]
      BY <3>2, <1>1, <1>2, <1>7 DEF T
    <3> QED BY <3>1, <3>2, <1>9
  <2> QED BY <2>2, <2>3 DEF Working
<1>12. Together'
  <2> SUFFICES ASSUME NEW c \in Busy', NEW d \in Busy', core'[c].app = core'[d].app
               PROVE  core'[c].death = core'[d].death
    BY DEF Together
  <2>1. \A b \in Busy : core[b].app # next
    BY <1>3, <1>5
  <2>2. CASE c \in Busy /\ d \in Busy
    BY <2>2, <1>8 DEF PairInv, Together
  <2>3. CASE ~(c \in Busy /\ d \in Busy)
    BY <2>1, <2>3, <1>7, <1>8, <1>9
  <2> QED BY <2>2, <2>3
<1>13. Stacked'
  <2> SUFFICES ASSUME NEW c \in Slots, Over(c) \in Busy'
               PROVE  c \in Busy' /\ core'[c].app = core'[Over(c)].app
    BY DEF Stacked
  <2>1. CASE Over(c) \in Busy
    BY <2>1, <1>8 DEF PairInv, Stacked
  <2>2. CASE \E p \in Put : Over(c) = p[1]
    <3>1. PICK i \in 1 .. n, h \in {1, 2} :
            opt.pairs[i][h] # None /\ <<Over(c), opt.pairs[i][h]>> \in Put
            /\ Over(c) = On(i, h)
      <4>1. PICK p \in Put : Over(c) = p[1]
        BY <2>2
      <4>2. PICK i \in 1 .. n, h \in {1, 2} :
              opt.pairs[i][h] # None /\ p = <<On(i, h), opt.pairs[i][h]>>
        BY <1>2
      <4>3. p[1] = On(i, h)
        BY <4>2
      <4> QED BY <4>1, <4>2, <4>3
    <3>2. c = Slot(opt.place, i)
      BY <3>1, <1>6, OverCore DEF On
    <3>3. c = On(i, 1) /\ opt.pairs[i][1] # None
      BY <3>2, <1>3, <1>4 DEF On, None
    <3>4. <<c, opt.pairs[i][1]>> \in Put
      BY <3>3, <1>2
    <3>5. core'[c].app = next /\ c \in Busy'
      BY <3>4, <1>7
    <3>6. core'[Over(c)].app = next
      BY <3>1, <1>7
    <3> QED BY <3>5, <3>6
  <2> QED BY <2>1, <2>2, <1>9
<1>14. AppsWhole'
  <2> SUFFICES ASSUME NEW b \in mapped', Freed(b)' # {} PROVE Whole(b)'
    BY DEF AppsWhole, Whole, Freed
  <2>1. Freed(b)' = {c \in Busy' : core'[c].app = b}
    BY DEF Freed
  <2>2. CASE b \in mapped
    <3>1. Freed(b)' = Freed(b) /\ \A c \in Freed(b) : c \in Busy /\ core'[c] = core[c]
      BY <2>1, <2>2, <1>3, <1>7, <1>8, <1>9 DEF Freed
    <3>2. Whole(b)
      BY <3>1, <2>2, AppsAreWhole DEF PairInv
    <3>3. ASSUME NEW c \in Freed(b) \cap Slots
          PROVE  core'[Over(c)] = core[Over(c)]
      <4>1. \A p \in Put : p[1] # Over(c)
        <5> SUFFICES ASSUME NEW i \in 1 .. n, NEW h \in {1, 2}, On(i, h) = Over(c)
                     PROVE  FALSE
          BY <1>2
        <5>1. c = Slot(opt.place, i)
          BY <1>6, OverCore DEF On
        <5> QED BY <5>1, <3>1, <1>6 DEF Usable
      <4>2. Over(c) \in Cores
        BY OverCore
      <4> QED BY <4>1, <4>2, <1>1
    <3> QED BY <3>1, <3>2, <3>3, WholeFrame
  <2>3. CASE b = next
    <3>1. Freed(b)' = {p[1] : p \in Put}
      BY <2>1, <2>3, <1>3, <1>5, <1>7, <1>9
    <3>2. ASSUME NEW t \in T
          PROVE  Cardinality({c \in Freed(b)' : core'[c].task = t}) = 1
      <4>1. PICK p \in Put : p[2] = t
        BY <1>2
      <4>2. {c \in Freed(b)' : core'[c].task = t} = {p[1]}
        BY <4>1, <3>1, <1>2, <1>7
      <4> QED BY <4>2, FS_Singleton
    <3>3. ASSUME NEW p \in ToSet(Pairs[b])
          PROVE  \E c \in Freed(b)' \cap Slots :
                   core'[c].task = p[1] /\ core'[Over(c)].task = p[2]
      <4>1. PICK i \in 1 .. n : opt.pairs[i] = p
        BY <2>3, <1>3
      <4>2. p[1] \in T /\ p[1] # None
        BY <4>1, <1>3, <1>4 DEF None
      <4> DEFINE c == Slot(opt.place, i)
      <4>3. c \in Slots /\ Usable(c) /\ c = On(i, 1) /\ Over(c) = On(i, 2)
        BY <1>6 DEF On
      <4> HIDE DEF c
      <4>4. <<c, p[1]>> \in Put
        BY <4>1, <4>2, <4>3, <1>2
      <4>5. c \in Freed(b)' /\ core'[c].task = p[1]
        BY <4>4, <3>1, <1>7
      <4>6. CASE p[2] # None
        <5>1. <<Over(c), p[2]>> \in Put
          BY <4>1, <4>3, <4>6, <1>2
        <5>2. core'[Over(c)].task = p[2]
          BY <5>1, <1>7
        <5> QED BY <4>3, <4>5, <5>2
      <4>7. CASE p[2] = None
        <5>1. \A q \in Put : q[1] # Over(c)
          <6> SUFFICES ASSUME NEW j \in 1 .. n, NEW g \in {1, 2}, On(j, g) = Over(c),
                              opt.pairs[j][g] # None
                       PROVE  FALSE
            BY <1>2
          <6>1. j = i /\ g = 2
            BY <4>3, <1>6
          <6> QED BY <6>1, <4>1, <4>7
        <5>2. Over(c) \in Cores /\ Over(c) \notin Busy
          BY <4>3, OverCore DEF Usable
        <5>3. core'[Over(c)] = Empty
          BY <5>1, <5>2, <1>1 DEF Busy
        <5> QED BY <4>3, <4>5, <4>7, <5>3 DEF Empty, None
      <4> QED BY <4>6, <4>7
    <3> QED BY <2>3, <3>2, <3>3 DEF Whole, T, Tasks
  <2> QED BY <2>2, <2>3, <1>1
<1>15. \A e \in fresh : /\ e.start = time /\ e.end = death
                        /\ \E p \in Put : /\ e.core = p[1]
                                          /\ e = [app |-> next, task |-> p[2], core |-> p[1],
                                                  start |-> time, end |-> death]
  OBVIOUS
<1>16. \A e \in log : /\ e.core \in Cores /\ e.start \in Nat /\ e.end \in Nat
                      /\ e.start <= e.end
                      /\ e.end > time => e.core \in Busy /\ core[e.core].death = e.end
  BY DEF PairInv, Logged
<1>17. Logged'
  <2> SUFFICES ASSUME NEW e \in log'
               PROVE  /\ e.core \in Cores /\ e.start \in Nat /\ e.end \in Nat
                      /\ e.start <= e.end
                      /\ e.end > time' => e.core \in Busy' /\ core'[e.core].death = e.end
    BY DEF Logged
  <2>1. CASE e \in log
    BY <2>1, <1>1, <1>8, <1>16
  <2>2. CASE e \in fresh
    <3>1. PICK p \in Put : e.core = p[1]
      BY <2>2, <1>15
    <3> HIDE DEF fresh, new
    <3> QED BY <2>2, <3>1, <1>1, <1>2, <1>7, <1>15
  <2> HIDE DEF fresh
  <2> QED BY <2>1, <2>2, <1>1
<1>18. NoOverbooking'
  <2> HIDE DEF fresh, new
  <2> SUFFICES ASSUME NEW e \in log', NEW f \in log', e.core = f.core, e # f
               PROVE  e.end <= f.start \/ f.end <= e.start
    BY DEF NoOverbooking
  <2>1. CASE e \in log /\ f \in log
    BY <2>1 DEF PairInv, NoOverbooking
  <2>2. ASSUME NEW x \in log, NEW y \in fresh, x.core = y.core
        PROVE  x.end <= y.start
    <3>1. y.start = time /\ y.core \notin Busy
      BY <1>2, <1>15
    <3> QED BY <3>1, <2>2, <1>1, <1>16
  <2>3. CASE e \in fresh /\ f \in fresh
    <3>1. PICK p \in Put : e.core = p[1]
                           /\ e = [app |-> next, task |-> p[2], core |-> p[1],
                                   start |-> time, end |-> death]
      BY <2>3, <1>15
    <3>2. PICK q \in Put : f.core = q[1]
                           /\ f = [app |-> next, task |-> q[2], core |-> q[1],
                                   start |-> time, end |-> death]
      BY <2>3, <1>15
    <3>3. p = q
      BY <3>1, <3>2, <1>2
    <3> QED BY <3>1, <3>2, <3>3
  <2> QED BY <2>1, <2>2, <2>3, <1>1
<1>19. Planned'
  BY <1>1 DEF Planned
<1> QED
  BY <1>10, <1>11, <1>12, <1>13, <1>14, <1>17, <1>18, <1>19 DEF PairInv

-----------------------------------------------------------------------------
(* The theorems.                                                           *)

LEMMA NextPairInv == PairInv /\ [Next]_vars => PairInv'
<1> SUFFICES ASSUME PairInv, [Next]_vars PROVE PairInv'
  OBVIOUS
<1>1. CASE FreeMesh
  BY <1>1, FreeMeshPairInv
<1>2. CASE ThermalBlock \/ SkipApp \/ NextRound
  BY <1>2, SearchPairInv
<1>3. CASE StartMapping
  BY <1>3, StartMappingPairInv
<1>4. CASE Compare
  BY <1>4, ComparePairInv
<1>5. CASE NextPass
  BY <1>5, NextPassPairInv
<1>6. CASE Apply
  BY <1>6, ApplyPairInv
<1>7. CASE Stop \/ UNCHANGED vars
  <2>1. UNCHANGED vars
    BY <1>7 DEF Stop
  <2>2. TypeOK' /\ Planned'
    BY <2>1 DEF vars, PairInv, TypeOK, Planned, SlotsFor, Usable, Busy
  <2> QED BY <2>1, <2>2, IdlePairInv DEF vars
<1> QED
  BY <1>1, <1>2, <1>3, <1>4, <1>5, <1>6, <1>7 DEF Next

\* pair_algorithm keeps the inductive invariant, on any mesh, for any
\* applications and whatever the thermal simulation finds.
THEOREM PairInvariant == Spec => []PairInv
<1>1. Init => PairInv
  BY InitPairInv
<1>2. PairInv /\ [Next]_vars => PairInv'
  BY NextPairInv
<1> QED
  BY <1>1, <1>2, PTL DEF Spec

\* The state has its shape: the optimiser only has slots of the mesh.
THEOREM PairTypeOK == Spec => []TypeOK
<1>1. PairInv => TypeOK
  BY DEF PairInv
<1> QED
  BY <1>1, PairInvariant, PTL

\* free_mesh and mapping_application leave every application on the chip with all
\* its tasks, each on one core and its pairs on stacked cores, or not at all.
THEOREM PairAppsWhole == Spec => []AppsWhole
<1>1. PairInv => AppsWhole
  BY DEF PairInv
<1> QED
  BY <1>1, PairInvariant, PTL

\* The intervals in task_timestamp never have a core run two tasks at once.
THEOREM PairNoOverbooking == Spec => []NoOverbooking
<1>1. PairInv => NoOverbooking
  BY DEF PairInv
<1> QED
  BY <1>1, PairInvariant, PTL

\* A task is only put on a stack with two free cores, neither of which
\* Thermal_block found too hot: the slots are still free and cold when the
\* optimiser is done with them, and the empty half of a stack counts as well.
THEOREM PairColdPlacement == Spec => ColdPlacement
<1>1. ASSUME PairInv, [Next]_vars, NEW c \in Slots, NEW d \in {c, Over(c)},
             d \in Busy', core'[d] # core[d]
      PROVE  {c, Over(c)} \cap (Busy \cup blocked) = {}
  <2>1. d \in Cores /\ core'[d] # Empty
    BY <1>1, OverCore DEF Busy
  <2>2. CASE FreeMesh
    BY <2>1, <2>2, <1>1 DEF FreeMesh
  <2>3. CASE Apply
    <3>1. pc = "opt" /\ \E p \in Put : p[1] = d
      BY <2>1, <2>3, <1>1, ApplyEffect
    <3>2. PICK i \in 1 .. Len(Pairs[next]), h \in {1, 2} : d = On(i, h)
      BY <3>1, <1>1, PutOnce
    <3>3. Slot(opt.place, i) \in Slots /\ Usable(Slot(opt.place, i))
      BY <3>1, <1>1, OnCores
    <3>4. d \in {Slot(opt.place, i), Over(Slot(opt.place, i))}
      BY <3>2 DEF On
    <3>5. c = Slot(opt.place, i)
      BY <3>3, <3>4, <1>1, OverCore
    <3> QED BY <3>3, <3>5 DEF Usable
  <2>4. Next
    BY <1>1 DEF vars
  <2> QED
    BY <1>1, <2>2, <2>3, <2>4 DEF Next, ThermalBlock, StartMapping, SkipApp, NextRound,
                                   Compare, NextPass, Stop, vars
<1>2. PairInv /\ [Next]_vars =>
        [\A c \in Slots :
           LET stack == {c, Over(c)} IN
           (\E d \in stack : d \in Busy' /\ core'[d] # core[d])
             => stack \cap (Busy \cup blocked) = {}]_vars
  BY <1>1
<1> QED
  BY <1>2, PairInvariant, PTL DEF Spec, ColdPlacement
=============================================================================
