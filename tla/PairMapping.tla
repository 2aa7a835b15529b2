---------------------------- MODULE PairMapping ----------------------------
(***************************************************************************)
(* The pair algorithm (pair_algorithm/new.cpp): applications are mapped to *)
(* stacked pairs of cores that are free and cold.  An application that     *)
(* does not fit waits for the one that ends first.  The program is         *)
(* sequential; the temperatures that the thermal simulator returns, and    *)
(* the order in which make_pairs leaves the pairs, are chosen freely.      *)
(***************************************************************************)
EXTENDS Integers, SequencesExt

CONSTANTS
  Gw, Gl, Gh,  \* the mesh; Gh is even, as in the program
  Saturation,  \* SATURATION_THRESHOLD: when the lower half is worn out
  Apps,        \* sequence of [tasks, edges, volume]
  HotSets      \* the sets of cores that may be too hot

ASSUME PairAssumption ==
  /\ Gw \in Nat \ {0} /\ Gl \in Nat \ {0} /\ Gh \in Nat \ {0} /\ Gh % 2 = 0
  /\ DOMAIN Apps = 1 .. Len(Apps) /\ Len(Apps) \in Nat
  /\ \A a \in DOMAIN Apps :
       LET app == Apps[a] IN
       /\ app.tasks \in Seq(Nat) /\ Len(app.tasks) > 0
       /\ app.volume \in Seq(Nat) /\ Len(app.volume) = Len(app.edges)
       /\ app.edges \in Seq((DOMAIN app.tasks) \X (DOMAIN app.tasks))
       /\ \A e \in DOMAIN app.edges : app.edges[e][1] # app.edges[e][2]

VARIABLES
  core,    \* core[c]: the task on c, [app, task, death], or Empty
  wear,    \* wareoff_const
  blocked, \* the cores whose isnotBlocked is 0
  time,    \* total_sim_time
  mapped,  \* the applications that were mapped
  log,     \* task_timestamp: [app, task, core, start, end]
  pc,      \* where pair_algorithm is: "free", "heat", "map", "opt" or "done"
  next,    \* the application it tries
  opt      \* the mapping that is being optimised

vars == <<core, wear, blocked, time, mapped, log, pc, next, opt>>

Cores == (0 .. Gw-1) \X (0 .. Gl-1) \X (0 .. Gh-1)

Over(c) == <<c[1], c[2], c[3] + 1>>

\* A slot, the pair of a core in an even layer and the one over it, is named
\* by the former.
Slots == {c \in Cores : c[3] % 2 = 0}

Empty == [app |-> 0, task |-> 0, death |-> 0]

Busy == {c \in Cores : core[c] # Empty}

None == 0 \* the task that is missing in a pair

Init ==
  /\ core = [c \in Cores |-> Empty] /\ wear = [c \in Cores |-> 0]
  /\ blocked = {} /\ time = 0 /\ mapped = {} /\ log = {}
  /\ pc = "heat" /\ next = 1 /\ opt = << >>

-----------------------------------------------------------------------------
(* make_pairs: heavy edges first, then the tasks that are left over.       *)

Runtime(app) ==
  LET sum[k \in 0 .. Len(app.tasks)] ==
        IF k = 0 THEN 0 ELSE sum[k-1] + app.tasks[k]
  IN sum[Len(app.tasks)]

\* Indices of s, in descending order of its values, then of themselves.
Before(s, of, a) == {b \in of : s[b] > s[a] \/ (s[b] = s[a] /\ b > a)}

Descending(s, of) ==
  [k \in 1 .. Cardinality(of) |->
     CHOOSE a \in of : Cardinality(Before(s, of, a)) = k - 1]

In(pairs) == UNION {ToSet(p) : p \in ToSet(pairs)}

Paired(pairs, edge) ==
  IF ToSet(edge) \cap In(pairs) = {} THEN Append(pairs, edge) ELSE pairs

Greedy(app) ==
  LET heavy == Descending(app.volume, DOMAIN app.edges)
      pairs[k \in 0 .. Len(heavy)] ==
        IF k = 0 THEN << >> ELSE Paired(pairs[k-1], app.edges[heavy[k]])
  IN pairs[Len(heavy)]

Leftover(app) == Descending(app.tasks, (DOMAIN app.tasks) \ In(Greedy(app)))

InTwos(rest) ==
  [k \in 1 .. (Len(rest) + 1) \div 2 |->
     <<rest[2*k - 1], IF 2*k <= Len(rest) THEN rest[2*k] ELSE None>>]

MakePairs(app) == Greedy(app) \o InTwos(Leftover(app))

Pairs == [a \in DOMAIN Apps |-> MakePairs(Apps[a])]

\* Sorting by gravity and clustering leave the pairs in some order.
Orders(a) == SetToSeqs(ToSet(Pairs[a]))

-----------------------------------------------------------------------------
(* Where to map n pairs.                                                   *)

\* Mutants: a slot is taken though its cores are busy, or its upper core is too
\* hot, or they are beyond the border of the mesh.
UsableCold(c) == c \in Slots /\ c \notin blocked /\ Over(c) \notin blocked
UsableLower(c) == c \in Slots \ blocked /\ {c, Over(c)} \cap Busy = {}
UsableBeyond(c) == {c, Over(c)} \cap (Busy \cup blocked) = {}

Usable(c) == /\ c \in Slots
             /\ {c, Over(c)} \cap (Busy \cup blocked) = {}

\* brickVector: the slots, to and fro through the rows and the layers.
Limit == (Gw * Gl * Gh) \div 2

Brick(b) ==
  LET layer == b \div (Gw * Gl)
      row == (b % (Gw * Gl)) \div Gw
      y == IF layer % 2 = 0 THEN row ELSE Gl - 1 - row
  IN <<IF (y + layer) % 2 = 0 THEN b % Gw ELSE Gw - 1 - (b % Gw), y, 2 * layer>>

\* starting_point_condition: the lower half is more worn than the upper one.
Worn(layers) ==
  MapThenSumSet(LAMBDA c : wear[c], {c \in Cores : c[3] \in layers})
    \div (Gw * Gl * (Gh \div 2))

Start == IF Worn(0 .. Gh \div 2 - 1) - Worn(Gh \div 2 .. Gh - 1) >= Saturation
         THEN (Gh * Gw * Gl) \div 4 ELSE 0

\* calculate_starting_point: where n slots in a row are usable.  The last slot
\* is never looked at: the count is compared before it is added.
Rows(n) == {b \in Start .. Limit - 1 - n : \A k \in b .. b + n - 1 : Usable(Brick(k))}

\* The box of the zig-zag sweep that starts at the core at.
Width(n) == Min({w \in 1 .. n : w * w >= n} \cup {Gw})

Sweep(n, at) ==
  [k \in 1 .. Width(n) * (Gl - at[2]) |->
     LET dy == (k - 1) \div Width(n)
         i == (k - 1) % Width(n)
     IN <<at[1] + (IF dy % 2 = 0 THEN i ELSE Width(n) - 1 - i), at[2] + dy, at[3]>>]

\* Where a sweep passes usable slots; the i-th of these places; and the first n
\* usable slots of a sweep.
Passing(sweep) == {k \in DOMAIN sweep : Usable(sweep[k])}

Nth(i, ks) == CHOOSE k \in ks : Cardinality({j \in ks : j < k}) = i - 1

Found(n, sweep) ==
  LET places == Passing(sweep) IN [i \in 1 .. n |-> sweep[Nth(i, places)]]

\* The order in which the sweeps are tried.
Index(c) == (c[3] * Gl + c[2]) * Gw + c[1]

\* The sweep that passes the fewest slots to find n, if one finds them.
OxPlow(n) ==
  LET starts == {<<Nth(n, Passing(Sweep(n, at))), Index(at), at>> :
                   at \in {c \in Slots : Cardinality(Passing(Sweep(n, c))) >= n}}
      best == {b \in starts : \A o \in starts :
                 b[1] < o[1] \/ (b[1] = o[1] /\ b[2] <= o[2])}
  IN {Found(n, Sweep(n, b[3])) : b \in best}

\* The n slots in a row that start first.
FirstRow(n) ==
  {[k \in 1 .. n |-> Brick(b + k - 1)] :
     b \in {r \in Rows(n) : \A o \in Rows(n) : r <= o}}

\* The slots for n pairs: of at most one mapping.
FindCompactMapping(n) == IF OxPlow(n) # {} THEN OxPlow(n) ELSE FirstRow(n)

-----------------------------------------------------------------------------
(* The rounds of pair_algorithm.                                           *)

\* free_mesh, once an application was mapped: the one that ends first, the
\* first in the mesh among those that end together.
Ending ==
  LET last == {c \in Busy : \A d \in Busy : core[c].death <= core[d].death}
  IN CHOOSE c \in last : \A d \in last : Index(c) <= Index(d)

\* Mutant: only the lower core of a pair is freed.
FreedLower(a) == {c \in Busy : core[c].app = a /\ c \in Slots}

Freed(a) == {c \in Busy : core[c].app = a}

FreeMesh ==
  /\ pc = "free" /\ pc' = "heat"
  /\ IF mapped = {} \/ Busy = {} THEN UNCHANGED <<core, time>>
     ELSE /\ time' = core[Ending].death
          /\ core' = [c \in Cores |->
                        IF c \in Freed(core[Ending].app) THEN Empty ELSE core[c]]
  /\ UNCHANGED <<wear, blocked, mapped, log, next, opt>>

\* The simulator, which is taken to find nothing hot when no core works.
ThermalBlock ==
  /\ pc = "heat" /\ pc' = "map" /\ next' = 1
  /\ \E hot \in HotSets : (Busy = {} => hot = {}) /\ blocked' = hot
  /\ UNCHANGED <<core, wear, time, mapped, log, opt>>

Trying == pc = "map" /\ next <= Len(Apps) /\ next \notin mapped

\* mapping_application finds slots for the application.
StartMapping ==
  /\ Trying /\ pc' = "opt"
  /\ \E slots \in FindCompactMapping(Len(Pairs[next])), order \in Orders(next) :
       opt' = [slots |-> slots, pairs |-> order,
               place |-> [i \in DOMAIN order |-> i],
               swap |-> <<1, 2>>, pass |-> 1, improved |-> FALSE]
  /\ UNCHANGED <<core, wear, blocked, time, mapped, log, next>>

\* It was mapped before, or finds none.
SkipApp ==
  /\ pc = "map" /\ next <= Len(Apps) /\ next' = next + 1
  /\ Trying => FindCompactMapping(Len(Pairs[next])) = {}
  /\ UNCHANGED <<core, wear, blocked, time, mapped, log, pc, opt>>

NextRound ==
  /\ pc = "map" /\ next > Len(Apps)
  /\ pc' = IF mapped = DOMAIN Apps THEN "done" ELSE "free"
  /\ UNCHANGED <<core, wear, blocked, time, mapped, log, next, opt>>

-----------------------------------------------------------------------------
(* The optimiser: pairs i and j change places if that saves traffic.       *)

Magnitude(n) == IF n < 0 THEN -n ELSE n

Distance(c, d) ==
  Magnitude(c[1] - d[1]) + Magnitude(c[2] - d[2]) + Magnitude(c[3] - d[3])

\* pair_traffic: the volume of the edges between two pairs.
Traffic(i, j) ==
  LET app == Apps[next]
      ends == <<ToSet(opt.pairs[i]), ToSet(opt.pairs[j])>>
      bridges(e) == \/ e[1] \in ends[1] /\ e[2] \in ends[2]
                    \/ e[1] \in ends[2] /\ e[2] \in ends[1]
  IN MapThenSumSet(LAMBDA k : app.volume[k],
                   {k \in DOMAIN app.edges : bridges(app.edges[k])})

Slot(place, i) == opt.slots[place[i]]

\* What pair i, if it were where pair x is, would cost with the others but j.
CostAt(i, x, j) ==
  MapThenSumSet(
    LAMBDA k : Traffic(i, k) * Distance(Slot(opt.place, x), Slot(opt.place, k)),
    (DOMAIN opt.pairs) \ {i, j})

\* Mutant: the pair that makes room is forgotten.
SavesFirst(i, j) == CostAt(i, j, j) < CostAt(i, i, j)

Saves(i, j) ==
  CostAt(i, j, j) + CostAt(j, i, i) < CostAt(i, i, j) + CostAt(j, j, i)

\* Mutant: the second half of the swap is missing.
ExchangedHalf(place, i, j) == [place EXCEPT ![i] = place[j]]

Exchanged(place, i, j) == [place EXCEPT ![i] = place[j], ![j] = place[i]]

MaxPasses == 20

\* The pass is over; with one pair there is nothing to compare.
Passed == opt.swap[2] > Len(opt.pairs)

After(swap) ==
  IF swap[2] < Len(opt.pairs) THEN <<swap[1], swap[2] + 1>>
  ELSE <<swap[1] + 1, swap[1] + 2>>

Compare ==
  /\ pc = "opt" /\ ~Passed
  /\ LET i == opt.swap[1]
         j == opt.swap[2]
     IN opt' = IF Saves(i, j)
               THEN [opt EXCEPT !.swap = After(@), !.improved = TRUE,
                                !.place = Exchanged(opt.place, i, j)]
               ELSE [opt EXCEPT !.swap = After(@)]
  /\ UNCHANGED <<core, wear, blocked, time, mapped, log, pc, next>>

NextPass ==
  /\ pc = "opt" /\ Passed /\ opt.improved /\ opt.pass < MaxPasses
  /\ opt' = [opt EXCEPT !.swap = <<1, 2>>, !.pass = @ + 1, !.improved = FALSE]
  /\ UNCHANGED <<core, wear, blocked, time, mapped, log, pc, next>>

\* The tasks are put on the cores of the slots of their pairs.
Apply ==
  /\ pc = "opt" /\ Passed
  /\ ~opt.improved \/ opt.pass = MaxPasses
  /\ LET app == Apps[next]
         death == time + Runtime(app)
         on(i, h) == IF h = 1 THEN Slot(opt.place, i) ELSE Over(Slot(opt.place, i))
         put == UNION {{<<on(i, h), opt.pairs[i][h]>> :
                          h \in {k \in {1, 2} : opt.pairs[i][k] # None}} :
                       i \in DOMAIN opt.pairs}
         target(c) == {p \in put : p[1] = c}
         taskOn(c) == (CHOOSE p \in target(c) : TRUE)[2]
     IN /\ core' = [c \in Cores |->
                      IF target(c) = {} THEN core[c]
                      ELSE [app |-> next, task |-> taskOn(c), death |-> death]]
        /\ wear' = [c \in Cores |-> IF target(c) = {} THEN wear[c]
                                    ELSE wear[c] + app.tasks[taskOn(c)]]
        /\ log' = log \cup {[app |-> next, task |-> p[2], core |-> p[1],
                             start |-> time, end |-> death] : p \in put}
  /\ mapped' = mapped \cup {next} /\ next' = next + 1
  /\ pc' = "map" /\ opt' = << >>
  /\ UNCHANGED <<blocked, time>>

Stop == pc = "done" /\ UNCHANGED vars

Next ==
  \/ FreeMesh \/ ThermalBlock \/ StartMapping \/ SkipApp \/ NextRound
  \/ Compare \/ NextPass \/ Apply \/ Stop

\* One thread that nothing stops.
Spec == Init /\ [][Next]_vars
LiveSpec == Spec /\ WF_vars(Next)

-----------------------------------------------------------------------------
\* Types: the one invariant about the shape of the state.
TypeOK ==
  /\ \A c \in Cores : core[c] = Empty \/ core[c].app \in mapped
  /\ time \in Nat /\ mapped \subseteq DOMAIN Apps
  /\ pc \in {"free", "heat", "map", "opt", "done"}
  /\ next \in 1 .. Len(Apps) + 1
  /\ pc = "opt" => ToSet(opt.slots) \subseteq Slots

\* An application is on the chip with all its tasks, each on one core, and every
\* pair of make_pairs on two stacked cores; or it is not there at all.
AppsWhole ==
  \A a \in mapped :
    LET on == {c \in Busy : core[c].app = a}
    IN on # {} =>
         /\ \A t \in DOMAIN Apps[a].tasks : Cardinality({c \in on : core[c].task = t}) = 1
         /\ \A p \in ToSet(Pairs[a]) : \E c \in on \cap Slots :
              core[c].task = p[1] /\ core[Over(c)].task = p[2]

\* The times that the program reports never have a core run two tasks at once.
NoOverbooking ==
  \A e, f \in log :
    e.core = f.core /\ e # f => e.end <= f.start \/ f.end <= e.start

\* A task is only put on a stack with both cores free, and neither of them found
\* too hot by the last simulation: also when it is alone and leaves the other
\* core of the stack empty.
ColdPlacement ==
  [][\A c \in Slots :
       LET stack == {c, Over(c)} IN
       (\E d \in stack : d \in Busy' /\ core'[d] # core[d])
         => stack \cap (Busy \cup blocked) = {}]_vars

\* The cost of the mapping that is being optimised.
Cost ==
  MapThenSumSet(
    LAMBDA p : Traffic(p[1], p[2])
                 * Distance(Slot(opt.place, p[1]), Slot(opt.place, p[2])),
    {p \in (DOMAIN opt.pairs) \X (DOMAIN opt.pairs) : p[1] < p[2]})

\* Every exchange lowers the cost of the whole mapping, of which the optimiser
\* only looks at the part that it thinks changes.
CostFalls ==
  [][pc = "opt" /\ pc' = "opt" /\ opt'.place # opt.place => Cost' < Cost]_vars

\* Every application is mapped in the end.
AllMapped == <>(mapped = DOMAIN Apps)
=============================================================================
