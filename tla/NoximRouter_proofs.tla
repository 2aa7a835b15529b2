------------------------- MODULE NoximRouter_proofs -------------------------
(***************************************************************************)
(* The router's own state stays consistent, and packets leave it whole and *)
(* where they were routed: for any number of ports and virtual channels,   *)
(* any buffer depth and packet size, with and without pre-routing and      *)
(* speculation, and with emergencies between any two cycles.               *)
(***************************************************************************)
EXTENDS NoximRouter, CountingLemmas

-----------------------------------------------------------------------------
(* The inductive invariant, first the part about the router alone.         *)

\* An input VC has its own number as output VC (flit.vc), from VA on, when its
\* state says so.
StatesMatch ==
  \A x \in Channels :
    /\ O[x] \in {x[2], NotValid}
    /\ G[x] = "active" => O[x] # NotValid
    /\ G[x] \in {"idle", "routing"} => O[x] = NotValid

Consistent == TypeOK /\ StatesMatch /\ ReservationsMatch /\ GrantsSound

-----------------------------------------------------------------------------
(* Facts about the operators.                                              *)

LEMMA ChannelFields ==
  ASSUME NEW x \in Channels
  PROVE  x[1] \in Ports /\ x[2] \in VCs /\ x = <<x[1], x[2]>>
BY DEF Channels

\* A scan gives a resource to one of those that ask for it.
LEMMA FirstIsMember ==
  ASSUME TypeOK, NEW xs \in SUBSET Channels, xs # {}
  PROVE  First(xs) \in xs
<1>1. ASSUME NEW x \in xs PROVE ScanRank(x) \in Nat
  <2>1. x[1] \in Int /\ x[2] \in Nat /\ start \in Int
    BY ChannelFields, RouterAssumption DEF Ports, VCs, TypeOK
  <2>2. PortRank(x[1]) \in Nat
    <3>1. NPorts * NVCs \in Nat /\ NPorts \in Nat \ {0}
      BY RouterAssumption
    <3> QED
      BY <2>1, <3>1 DEF PortRank
  <2>3. PortRank(x[1]) * NVCs \in Nat
    BY <2>2, RouterAssumption
  <2> QED
    BY <2>1, <2>3 DEF ScanRank
<1> DEFINE ranks == {ScanRank(x) : x \in xs}
<1>2. ranks \in SUBSET Nat /\ ranks # {}
  BY <1>1
<1>3. PICK n \in ranks : \A m \in ranks : n <= m
  BY <1>2, Least
<1>4. \E x \in xs : \A y \in xs : ScanRank(x) <= ScanRank(y)
  BY <1>3
<1> QED
  BY <1>4, Zenon DEF First

-----------------------------------------------------------------------------
(* Switch traversal.                                                       *)

\* The input VCs that send their tail in this cycle.
Tails == Inputs(Closing(Moving))

\* A flit moves only from a VC that owns an output VC with a credit, and no two
\* outputs take it from the same one.
LEMMA MovingFlits ==
  ASSUME Consistent, NEW o \in Moving
  PROVE  LET x == Winner(o) IN
         /\ o \in Ports /\ x \in Channels
         /\ buffer[x] # << >> /\ buffer[x] \in Seq(Flits)
         /\ Leaving(o) = Head(buffer[x]) /\ Leaving(o) \in Flits
         /\ Checked[x] = "active" /\ R[x] = o
         /\ O[x] = x[2] /\ O[x] # NotValid /\ <<o, O[x]>> \in Channels
         /\ C[<<o, O[x]>>] > 0
         /\ \A p \in Moving : Winner(p) = x => p = o
<1> DEFINE x == Winner(o)
<1>1. /\ o \in Ports /\ NotReserved \notin {win_port[o], win_vc[o]}
      /\ buffer[x] # << >> /\ Checked[x] = "active"
  BY DEF Moving
<1>2. x \in Channels
  BY <1>1 DEF Consistent, TypeOK, Winner, Channels
<1>3. buffer[x] \in Seq(Flits) /\ Head(buffer[x]) \in Flits
  BY <1>1, <1>2 DEF Consistent, TypeOK
<1>4. O[x] # NotValid /\ O[x] = x[2]
  BY <1>1, <1>2 DEF Checked, Consistent, StatesMatch
<1>5. /\ R[x] = o
      /\ O[x] # NotValid => C[<<o, O[x]>>] > 0
      /\ \A p \in Ports \ {o} : Winner(p) # x
  BY <1>1 DEF Consistent, GrantsSound
<1>6. <<o, O[x]>> \in Channels
  BY <1>1, <1>2, <1>4, ChannelFields DEF Channels
<1>7. \A p \in Moving : Winner(p) = x => p = o
  BY <1>5 DEF Moving
<1> QED
  BY <1>1, <1>2, <1>3, <1>4, <1>5, <1>6, <1>7 DEF Leaving

\* After it, an input VC has an output VC if and only if it is active, and none
\* is in the routing state.
LEMMA AfterTail ==
  ASSUME Consistent, NEW x \in Channels
  PROVE  /\ StateAfterTail(Tails)[x] \in {"idle", "vcallocating", "active"}
         /\ OutputAfterTail(Tails)[x] \in {x[2], NotValid}
         /\ StateAfterTail(Tails)[x] = "active" <=> OutputAfterTail(Tails)[x] # NotValid
         /\ x \notin Tails => OutputAfterTail(Tails)[x] = O[x]
         /\ x \in Tails => /\ StateAfterTail(Tails)[x] = "idle"
                           /\ OutputAfterTail(Tails)[x] = NotValid
                           /\ O[x] # NotValid
<1>1. G[x] \in GlobalStates
  BY DEF Consistent, TypeOK
<1>2. /\ O[x] \in {x[2], NotValid}
      /\ G[x] = "active" => O[x] # NotValid
      /\ G[x] \in {"idle", "routing"} => O[x] = NotValid
  BY DEF Consistent, StatesMatch
<1>3. ASSUME x \in Tails PROVE O[x] # NotValid
  <2>1. PICK o \in Moving : x = Winner(o)
    BY <1>3 DEF Tails, Inputs, Closing
  <2> QED
    BY <2>1, MovingFlits
<1> QED
  BY <1>1, <1>2, <1>3 DEF StateAfterTail, OutputAfterTail, Checked, GlobalStates

LEMMA TraversalTypes ==
  ASSUME Consistent, NEW acks, SwitchTraversal(acks, Moving)
  PROVE  /\ buffer' \in [Channels -> Seq(Flits)]
         /\ \A x \in Channels : Len(buffer'[x]) <= Depth
         /\ C' \in [Channels -> 0 .. Depth]
         /\ tx' \in [Ports -> {<< >>} \cup (VCs \X Flits)]
         /\ open' \in [Channels -> Ports \cup {NotReserved}]
<1>1. \A x \in Channels :
        /\ buffer[x] \in Seq(Flits) /\ Len(buffer[x]) <= Depth
        /\ C[x] \in 0 .. Depth /\ open[x] \in Ports \cup {NotReserved}
  BY DEF Consistent, TypeOK
<1>2. ASSUME NEW x \in Channels
      PROVE  buffer'[x] \in Seq(Flits) /\ Len(buffer'[x]) <= Depth
  <2>1. buffer'[x] = IF x \in Inputs(Moving) THEN Tail(buffer[x]) ELSE buffer[x]
    BY DEF SwitchTraversal
  <2>2. x \in Inputs(Moving) => \E o \in Moving : x = Winner(o)
    BY DEF Inputs
  <2>3. buffer[x] # << >> =>
          /\ Tail(buffer[x]) \in Seq(Flits)
          /\ Len(Tail(buffer[x])) = Len(buffer[x]) - 1 /\ Len(buffer[x]) \in Nat
    BY <1>1
  <2>4. x \in Inputs(Moving) => buffer[x] # << >>
    BY <2>2, MovingFlits
  <2> QED
    BY <1>1, <2>1, <2>3, <2>4, RouterAssumption
<1>3. ASSUME NEW y \in Channels PROVE C'[y] \in 0 .. Depth
  <2> DEFINE c == IF y \in acks THEN Plus(C[y]) ELSE C[y]
  <2>1. C'[y] = IF y \in Outputs(Moving) THEN Minus(c) ELSE c
    BY DEF SwitchTraversal
  <2>2. c \in 0 .. Depth /\ c >= C[y]
    BY <1>1, RouterAssumption DEF Plus
  <2>3. y \in Outputs(Moving) => C[y] > 0
    BY MovingFlits DEF Outputs
  <2> HIDE DEF c
  <2> QED
    BY <1>1, <2>1, <2>2, <2>3, RouterAssumption DEF Minus
<1>4. ASSUME NEW o \in Ports PROVE tx'[o] \in {<< >>} \cup (VCs \X Flits)
  <2>1. tx'[o] = IF o \in Moving THEN <<O[Winner(o)], Leaving(o)>> ELSE << >>
    BY DEF SwitchTraversal
  <2>2. o \in Moving => O[Winner(o)] \in VCs /\ Leaving(o) \in Flits
    BY MovingFlits, ChannelFields
  <2> QED
    BY <2>1, <2>2
<1>5. ASSUME NEW y \in Channels PROVE open'[y] \in Ports \cup {NotReserved}
  <2>1. open'[y] = IF y \in Outputs(Closing(Moving)) THEN NotReserved
                   ELSE IF y \in Outputs(Moving) THEN Leaving(y[1]).src
                   ELSE open[y]
    BY DEF SwitchTraversal
  <2>2. y \in Outputs(Moving) => Leaving(y[1]) \in Flits
    BY MovingFlits DEF Outputs
  <2> QED
    BY <1>1, <2>1, <2>2 DEF Flits
<1> QED
  BY <1>2, <1>3, <1>4, <1>5 DEF SwitchTraversal

-----------------------------------------------------------------------------
(* Routing computation and virtual channel allocation.                     *)

\* Who is routed waits at the head of a packet, and was idle.
LEMMA RoutedAreIdle ==
  ASSUME NEW g, NEW x \in Routed(g)
  PROVE  /\ x \in Channels /\ g[x] = "idle"
         /\ buffer'[x] # << >> /\ Head(buffer'[x]).type = "head"
BY DEF Routed

LEMMA RoutingFacts ==
  ASSUME Consistent, buffer' \in [Channels -> Seq(Flits)],
         RoutingComputation(StateAfterTail(Tails))
  PROVE  /\ G' \in [Channels -> GlobalStates]
         /\ R' \in [Channels -> Ports]
         /\ \A x \in Channels :
              LET g == StateAfterTail(Tails)[x] IN
              \/ G'[x] = g /\ R'[x] = R[x]
              \/ /\ g = "idle" /\ G'[x] \in {"routing", "vcallocating"}
                 /\ buffer'[x] # << >> /\ Head(buffer'[x]).type = "head"
                 /\ R'[x] = Head(buffer'[x]).out
<1> DEFINE g == StateAfterTail(Tails)
           routed == Routed(g)
<1>1. /\ G' = [x \in Channels |-> IF x \notin routed THEN g[x]
                                  ELSE IF PreRouted(x) THEN "vcallocating"
                                  ELSE "routing"]
      /\ R' = [x \in Channels |->
                 IF x \in routed THEN Head(buffer'[x]).out ELSE R[x]]
  BY DEF RoutingComputation
<1> HIDE DEF routed, g
<1>2. ASSUME NEW x \in Channels
      PROVE  /\ G'[x] \in GlobalStates /\ R'[x] \in Ports
             /\ \/ G'[x] = g[x] /\ R'[x] = R[x]
                \/ /\ g[x] = "idle" /\ G'[x] \in {"routing", "vcallocating"}
                   /\ buffer'[x] # << >> /\ Head(buffer'[x]).type = "head"
                   /\ R'[x] = Head(buffer'[x]).out
  <2>1. CASE x \notin routed
    BY <1>1, <2>1, AfterTail DEF Consistent, TypeOK, GlobalStates, g
  <2>2. CASE x \in routed
    <3>1. g[x] = "idle" /\ buffer'[x] # << >> /\ Head(buffer'[x]).type = "head"
      BY <2>2, RoutedAreIdle DEF routed
    <3>2. Head(buffer'[x]) \in Flits
      BY <3>1
    <3> QED
      BY <1>1, <2>2, <3>1, <3>2 DEF GlobalStates, Flits
  <2> QED
    BY <2>1, <2>2
<1> QED
  BY <1>1, <1>2 DEF g

\* The table after the tails released their output VCs, and who gets one.
Released == Table!ReleaseAll(rtable, Outputs(Closing(Moving)))

Grants == Granted(AllocationRequests, Released)

\* What VA does once the choices it names are resolved.
LEMMA AllocationFacts ==
  ASSUME VCAllocation(AllocationRequests, Closing(Moving))
  PROVE  /\ rtable' = Table!ReserveAll(Released, Grants)
         /\ O' = [x \in Channels |->
                    IF \E y \in DOMAIN Grants : Grants[y] = x THEN x[2]
                    ELSE OutputAfterTail(Tails)[x]]
BY DEF VCAllocation, Released, Grants, Tails

\* An output VC is given to one that asked for it and has none.
LEMMA GrantFacts ==
  ASSUME Consistent, buffer' \in [Channels -> Seq(Flits)],
         RoutingComputation(StateAfterTail(Tails)), NEW y \in DOMAIN Grants
  PROVE  /\ y \in Channels /\ Released[y] = NotReserved
         /\ Grants[y] \in AllocationRequests /\ Grants[y] \in Channels
         /\ G'[Grants[y]] = "vcallocating"
         /\ y = <<R'[Grants[y]], Grants[y][2]>>
         /\ OutputAfterTail(Tails)[Grants[y]] = NotValid
<1> DEFINE req == AllocationRequests
           asking == {x \in req : Wanted(x) = y}
<1>1. /\ y \in {Wanted(x) : x \in {z \in req : Table!IsAvailable(Released, Wanted(z))}}
      /\ Grants[y] = First(asking)
  BY DEF Grants, Granted
<1>2. asking \in SUBSET Channels /\ asking # {}
  BY <1>1 DEF AllocationRequests
<1>3. Grants[y] \in asking
  BY <1>1, <1>2, FirstIsMember DEF Consistent
<1> HIDE DEF req
<1>4. Grants[y] \in req /\ y = <<R'[Grants[y]], Grants[y][2]>>
  BY <1>3 DEF Wanted
<1>5. Grants[y] \in Channels /\ G'[Grants[y]] = "vcallocating"
  BY <1>4 DEF AllocationRequests, req
<1>6. y \in Channels
  BY <1>4, <1>5, RoutingFacts, ChannelFields DEF Channels
<1>7. Released[y] = NotReserved
  BY <1>1 DEF Table!IsAvailable
<1>8. OutputAfterTail(Tails)[Grants[y]] = NotValid
  BY <1>5, RoutingFacts, AfterTail
<1> QED
  BY <1>4, <1>5, <1>6, <1>7, <1>8 DEF req

\* The tails release exactly what their input VCs hold.
LEMMA ReleasedHeld ==
  ASSUME Consistent, NEW x \in Channels, NEW y \in Channels
  PROVE  Released[y] = x <=> /\ OutputAfterTail(Tails)[x] # NotValid
                             /\ y = <<R[x], O[x]>>
<1>1. Released[y] = IF y \in Outputs(Closing(Moving)) THEN NotReserved ELSE rtable[y]
  BY DEF Released, Table!ReleaseAll
<1>2. \A w \in Channels : rtable[y] = w <=> O[w] # NotValid /\ y = <<R[w], O[w]>>
  <2> TAKE w \in Channels
  <2>1. Table!HeldBy(rtable, w) = IF O[w] = NotValid THEN {} ELSE {<<R[w], O[w]>>}
    BY DEF Consistent, ReservationsMatch
  <2>2. y \in Table!HeldBy(rtable, w) <=> rtable[y] = w
    BY DEF Table!HeldBy
  <2> QED
    BY <2>1, <2>2
<1>3. x # NotReserved
  BY RouterAssumption
<1>4. CASE x \in Tails
  <2>1. PICK o \in Closing(Moving) : x = Winner(o)
    BY <1>4 DEF Tails, Inputs
  <2>2. o \in Moving /\ R[x] = o
    BY <2>1, MovingFlits DEF Closing
  <2>3. <<R[x], O[x]>> \in Outputs(Closing(Moving))
    BY <2>1, <2>2 DEF Outputs
  <2> QED
    BY <1>1, <1>2, <1>3, <1>4, <2>3, AfterTail
<1>5. CASE x \notin Tails
  <2>1. ASSUME y \in Outputs(Closing(Moving)), y = <<R[x], O[x]>>, O[x] # NotValid
        PROVE  FALSE
    <3>1. PICK o \in Closing(Moving) : y = <<o, O[Winner(o)]>>
      BY <2>1 DEF Outputs
    <3>2. /\ Winner(o) \in Channels /\ R[Winner(o)] = o /\ O[Winner(o)] # NotValid
          /\ Winner(o) \in Tails
      BY MovingFlits DEF Closing, Tails, Inputs
    <3>3. rtable[y] = Winner(o) /\ rtable[y] = x
      BY <1>2, <2>1, <3>1, <3>2
    <3> QED
      BY <1>5, <3>2, <3>3
  <2> QED
    BY <1>1, <1>2, <1>3, <1>5, <2>1, AfterTail
<1> QED
  BY <1>4, <1>5

\* So the states and the table match again after VA.
LEMMA AllocationMatches ==
  ASSUME Consistent, buffer' \in [Channels -> Seq(Flits)],
         RoutingComputation(StateAfterTail(Tails)),
         VCAllocation(AllocationRequests, Closing(Moving))
  PROVE  /\ O' \in [Channels -> VCs \cup {NotValid}]
         /\ rtable' \in [Channels -> Channels \cup {NotReserved}]
         /\ StatesMatch' /\ ReservationsMatch'
<1> DEFINE held == OutputAfterTail(Tails)
           granted(x) == \E y \in DOMAIN Grants : Grants[y] = x
<1>1. /\ rtable' = Table!ReserveAll(Released, Grants)
      /\ O' = [x \in Channels |-> IF granted(x) THEN x[2] ELSE held[x]]
  BY AllocationFacts
<1>2. \A x \in Channels : O'[x] = IF granted(x) THEN x[2] ELSE held[x]
  BY <1>1
<1>3. \A y \in Channels :
        rtable'[y] = IF y \in DOMAIN Grants THEN Grants[y]
                     ELSE IF \E p \in DOMAIN Grants : Released[y] = Grants[p]
                          THEN NotReserved ELSE Released[y]
  BY <1>1 DEF Table!ReserveAll
<1>4. \A x \in Channels : held[x] \in {x[2], NotValid} /\ x[2] \in VCs
  BY AfterTail, ChannelFields
<1>5. \A x \in Channels : granted(x) => held[x] = NotValid /\ G'[x] = "vcallocating"
  BY GrantFacts
<1>6. O' \in [Channels -> VCs \cup {NotValid}]
  BY <1>1, <1>4
<1>7. rtable' \in [Channels -> Channels \cup {NotReserved}]
  <2>1. \A y \in Channels : Released[y] \in Channels \cup {NotReserved}
    BY DEF Released, Table!ReleaseAll, Consistent, TypeOK
  <2>2. \A y \in Channels : rtable'[y] \in Channels \cup {NotReserved}
    BY <1>3, <2>1, GrantFacts
  <2>3. rtable' = [y \in Channels |-> rtable'[y]]
    BY <1>1 DEF Table!ReserveAll
  <2> QED
    BY <2>2, <2>3
<1>8. StatesMatch'
  <2> SUFFICES ASSUME NEW x \in Channels
               PROVE  /\ O'[x] \in {x[2], NotValid}
                      /\ G'[x] = "active" => O'[x] # NotValid
                      /\ G'[x] \in {"idle", "routing"} => O'[x] = NotValid
    BY DEF StatesMatch
  <2>1. /\ StateAfterTail(Tails)[x] \in {"idle", "vcallocating", "active"}
        /\ StateAfterTail(Tails)[x] = "active" <=> held[x] # NotValid
    BY AfterTail
  <2> HIDE DEF held, granted
  <2> QED
    BY <1>2, <1>4, <1>5, <2>1, RoutingFacts
<1>9. ReservationsMatch'
  <2>1. ASSUME NEW x \in Channels, NEW y \in Channels
        PROVE  rtable'[y] = x <=> O'[x] # NotValid /\ y = <<R'[x], O'[x]>>
    <3>0. x # NotReserved /\ x[2] # NotValid
      BY RouterAssumption, ChannelFields
    <3>1. CASE granted(x)
      <4>1. PICK p \in DOMAIN Grants : Grants[p] = x
        BY <3>1
      <4>2. /\ p \in Channels /\ p = <<R'[x], x[2]>> /\ held[x] = NotValid
            /\ O'[x] = x[2]
        BY <1>2, <3>1, <4>1, GrantFacts
      <4>3. CASE y \in DOMAIN Grants
        <5>1. rtable'[y] = Grants[y]
          BY <1>3, <4>3
        <5>2. Grants[y] = x => y = <<R'[x], x[2]>>
          BY <4>3, GrantFacts
        <5> QED
          BY <3>0, <4>1, <4>2, <5>1, <5>2
      <4>4. CASE y \notin DOMAIN Grants
        <5>1. Released[y] # x
          BY <4>2, ReleasedHeld
        <5>2. rtable'[y] # x
          BY <1>3, <3>0, <4>4, <5>1
        <5> QED
          BY <4>1, <4>2, <4>4, <5>2
      <4> QED
        BY <4>3, <4>4
    <3>2. CASE ~granted(x)
      <4>1. O'[x] = held[x]
        BY <1>2, <3>2
      <4>2. rtable'[y] = x <=> Released[y] = x
        <5>1. y \in DOMAIN Grants => Released[y] = NotReserved
          BY GrantFacts
        <5> QED
          BY <1>3, <3>0, <3>2, <5>1
      <4>3. held[x] # NotValid => R'[x] = R[x] /\ held[x] = O[x]
        <5>1. held[x] # NotValid => StateAfterTail(Tails)[x] = "active" /\ held[x] = O[x]
          BY AfterTail
        <5> QED
          BY <5>1, RoutingFacts
      <4>4. Released[y] = x <=> held[x] # NotValid /\ y = <<R[x], O[x]>>
        BY ReleasedHeld
      <4> QED
        BY <4>1, <4>2, <4>3, <4>4
    <3> QED
      BY <3>1, <3>2
  <2>2. ASSUME NEW x \in Channels
        PROVE  Table!HeldBy(rtable', x)
                 = IF O'[x] = NotValid THEN {} ELSE {<<R'[x], O'[x]>>}
    <3>1. R'[x] \in Ports /\ O'[x] \in VCs \cup {NotValid}
      BY <1>6, RoutingFacts
    <3>2. O'[x] # NotValid => <<R'[x], O'[x]>> \in Channels
      BY <3>1 DEF Channels
    <3>3. Table!HeldBy(rtable', x) = {y \in Channels : rtable'[y] = x}
      BY DEF Table!HeldBy
    <3>4. \A y \in Channels : rtable'[y] = x <=> O'[x] # NotValid /\ y = <<R'[x], O'[x]>>
      BY <2>1
    <3> HIDE DEF held, granted
    <3>5. CASE O'[x] = NotValid
      <4>1. {y \in Channels : rtable'[y] = x} = {}
        BY <3>4, <3>5
      <4> QED
        BY <3>3, <3>5, <4>1
    <3>6. CASE O'[x] # NotValid
      <4>1. {y \in Channels : rtable'[y] = x} = {<<R'[x], O'[x]>>}
        BY <3>2, <3>4, <3>6
      <4> QED
        BY <3>3, <3>6, <4>1
    <3> QED
      BY <3>5, <3>6
  <2> QED
    BY <2>2 DEF ReservationsMatch
<1> QED
  BY <1>6, <1>7, <1>8, <1>9

-----------------------------------------------------------------------------
(* Switch allocation.                                                      *)

\* The VC that speculates on an output.
Speculating == Speculative(AllocationRequests \cap MaySpeculate(Tails))

\* The VC that step 2 of SA gives an output to.
Switched == Allocated(Candidates(CanTraverse,
                                 {Speculating[o][1] : o \in DOMAIN Speculating}))

\* Either was routed to that output, and the second has a credit.
LEMMA SpeculatingFacts ==
  ASSUME TypeOK, NEW o \in DOMAIN Speculating
  PROVE  o \in Ports /\ Speculating[o] \in Channels /\ R'[Speculating[o]] = o
<1> DEFINE req == AllocationRequests \cap MaySpeculate(Tails)
           asking == {x \in req : R'[x] = o}
<1>1. o \in Ports /\ asking # {} /\ Speculating[o] = First(asking)
  BY DEF Speculating, Speculative
<1>2. asking \in SUBSET Channels
  BY DEF AllocationRequests
<1>3. Speculating[o] \in asking
  BY <1>1, <1>2, FirstIsMember
<1> QED
  BY <1>1, <1>2, <1>3

LEMMA SwitchedFacts ==
  ASSUME TypeOK, NEW o \in DOMAIN Switched
  PROVE  /\ Switched[o] \in Channels /\ R'[Switched[o]] = o
         /\ C'[<<o, O'[Switched[o]]>>] > 0
<1> DEFINE can == Candidates(CanTraverse,
                             {Speculating[p][1] : p \in DOMAIN Speculating})
           asking == {x \in can : R'[x] = o}
<1>1. o \in {R'[x] : x \in can} /\ Switched[o] = First(asking)
  BY DEF Switched, Allocated
<1>2. can \in SUBSET CanTraverse
  BY DEF Candidates
<1>3. CanTraverse \in SUBSET Channels
  BY DEF CanTraverse
<1> HIDE DEF can
<1>4. asking \in SUBSET Channels /\ asking # {}
  BY <1>1, <1>2, <1>3
<1>5. Switched[o] \in asking
  BY <1>1, <1>4, FirstIsMember
<1>6. Switched[o] \in CanTraverse /\ R'[Switched[o]] = o
  BY <1>2, <1>5
<1> QED
  BY <1>6 DEF CanTraverse

LEMMA SwitchFacts ==
  ASSUME TypeOK, R' \in [Channels -> Ports], O' \in [Channels -> VCs \cup {NotValid}],
         SwitchAllocation(Speculating)
  PROVE  /\ win_port' \in [Ports -> Ports \cup {NotReserved}]
         /\ win_vc' \in [Ports -> VCs \cup {NotReserved}]
         /\ GrantsSound'
<1>1. PICK lucky \in SUBSET DOMAIN Speculating :
        /\ win_port' = [o \in Ports |->
             IF o \in DOMAIN Speculating THEN Speculating[o][1]
             ELSE IF o \in DOMAIN Switched THEN Switched[o][1]
             ELSE NotReserved]
        /\ \A o \in DOMAIN Speculating :
             \E c \in Credit(o, Speculating[o]) : o \in lucky <=> c > 0
        /\ win_vc' = [o \in Ports |->
             IF o \in lucky THEN Speculating[o][2]
             ELSE IF o \in DOMAIN Switched \ DOMAIN Speculating THEN Switched[o][2]
             ELSE NotReserved]
  BY DEF SwitchAllocation, Switched
<1>2. \A o \in DOMAIN Speculating :
        /\ Speculating[o] \in Channels /\ R'[Speculating[o]] = o
        /\ Speculating[o] = <<Speculating[o][1], Speculating[o][2]>>
        /\ Speculating[o][1] \in Ports /\ Speculating[o][2] \in VCs
  BY SpeculatingFacts, ChannelFields
<1>3. \A o \in DOMAIN Switched :
        /\ Switched[o] \in Channels /\ R'[Switched[o]] = o
        /\ C'[<<o, O'[Switched[o]]>>] > 0
        /\ Switched[o] = <<Switched[o][1], Switched[o][2]>>
        /\ Switched[o][1] \in Ports /\ Switched[o][2] \in VCs
  BY SwitchedFacts, ChannelFields
<1>4. win_port' \in [Ports -> Ports \cup {NotReserved}]
  BY <1>1, <1>2, <1>3
<1>5. win_vc' \in [Ports -> VCs \cup {NotReserved}]
  BY <1>1, <1>2, <1>3
<1>6. ASSUME NEW o \in Ports, NotReserved \notin {win_port'[o], win_vc'[o]}
      PROVE  LET x == <<win_port'[o], win_vc'[o]>> IN
             /\ x \in Channels /\ R'[x] = o
             /\ O'[x] # NotValid => C'[<<o, O'[x]>>] > 0
  <2> DEFINE x == <<win_port'[o], win_vc'[o]>>
  <2>1. CASE o \in lucky
    <3>1. x = Speculating[o] /\ o \in DOMAIN Speculating
      BY <1>1, <1>2, <2>1
    <3>2. PICK c \in Credit(o, x) : c > 0
      BY <1>1, <2>1, <3>1
    <3>3. O'[x] # NotValid => c = C'[<<o, O'[x]>>]
      BY DEF Credit
    <3> QED
      BY <1>2, <3>1, <3>2, <3>3
  <2>2. CASE o \notin lucky
    <3>1. o \in DOMAIN Switched \ DOMAIN Speculating
      BY <1>1, <1>6, <2>2
    <3>2. x = Switched[o]
      BY <1>1, <1>3, <2>2, <3>1
    <3> QED
      BY <1>3, <3>1, <3>2
  <2> QED
    BY <2>1, <2>2
<1>7. GrantsSound'
  <2>1. ASSUME NEW o \in Ports, NotReserved \notin {win_port'[o], win_vc'[o]},
               NEW p \in Ports \ {o},
               <<win_port'[p], win_vc'[p]>> = <<win_port'[o], win_vc'[o]>>
        PROVE  FALSE
    <3>1. NotReserved \notin {win_port'[p], win_vc'[p]}
      BY <2>1
    <3>2. R'[<<win_port'[o], win_vc'[o]>>] = o /\ R'[<<win_port'[p], win_vc'[p]>>] = p
      BY <1>6, <2>1, <3>1
    <3> QED
      BY <2>1, <3>2
  <2> QED
    BY <1>6, <2>1 DEF GrantsSound, Winner
<1> QED
  BY <1>4, <1>5, <1>7

-----------------------------------------------------------------------------
(* The steps.                                                              *)

\* txProcess with the values that its stages hand on.
LEMMA TxStages ==
  ASSUME NEW acks, TxProcess(acks)
  PROVE  /\ SwitchTraversal(acks, Moving)
         /\ RoutingComputation(StateAfterTail(Tails))
         /\ VCAllocation(AllocationRequests, Closing(Moving))
         /\ specul' = [x \in Channels |->
              /\ x \in MaySpeculate(Tails)
              /\ \A o \in DOMAIN Speculating : Speculating[o] # x]
         /\ SwitchAllocation(Speculating)
         /\ Runs("tx")
         /\ start' = (start + 1) % (NPorts * NVCs)
         /\ UNCHANGED <<emergency, feed>>
<1> DEFINE
      SA(may, spec) ==
        /\ specul' = [x \in Channels |->
             /\ x \in may
             /\ \A o \in DOMAIN spec : spec[o] # x]
        /\ SwitchAllocation(spec)
      VA(moving, may, req) ==
        /\ VCAllocation(req, Closing(moving))
        /\ \E spec \in {Speculative(req \cap may)} : SA(may, spec)
      ST(moving) ==
        /\ SwitchTraversal(acks, moving)
        /\ RoutingComputation(StateAfterTail(Inputs(Closing(moving))))
        /\ \E req \in {AllocationRequests} :
             VA(moving, MaySpeculate(Inputs(Closing(moving))), req)
<1>1. \E moving \in {Moving} : ST(moving)
  BY DEF TxProcess
<1>2. ST(Moving)
  <2> HIDE DEF ST
  <2> QED
    BY <1>1
<1>3. /\ SwitchTraversal(acks, Moving)
      /\ RoutingComputation(StateAfterTail(Tails))
      /\ VA(Moving, MaySpeculate(Tails), AllocationRequests)
  <2> HIDE DEF VA
  <2> QED
    BY <1>2 DEF Tails
<1>4. /\ VCAllocation(AllocationRequests, Closing(Moving))
      /\ SA(MaySpeculate(Tails), Speculating)
  <2> HIDE DEF SA
  <2> QED
    BY <1>3 DEF Speculating
<1>5. /\ Runs("tx")
      /\ start' = (start + 1) % (NPorts * NVCs)
      /\ UNCHANGED <<emergency, feed>>
  BY DEF TxProcess
<1> QED
  BY <1>3, <1>4, <1>5, Zenon

LEMMA RunsTypes ==
  ASSUME TypeOK, NEW p \in {"rx", "tx"}, Runs(p)
  PROVE  ran' \in {{}, {"rx"}, {"tx"}}
BY DEF TypeOK, Runs

LEMMA TxConsistent ==
  ASSUME Consistent, NEW acks, TxProcess(acks)
  PROVE  Consistent'
<1>1. /\ SwitchTraversal(acks, Moving)
      /\ RoutingComputation(StateAfterTail(Tails))
      /\ VCAllocation(AllocationRequests, Closing(Moving))
      /\ SwitchAllocation(Speculating)
      /\ Runs("tx") /\ UNCHANGED <<emergency, feed>>
  BY TxStages
<1>2. /\ buffer' \in [Channels -> Seq(Flits)]
      /\ \A x \in Channels : Len(buffer'[x]) <= Depth
      /\ C' \in [Channels -> 0 .. Depth]
      /\ tx' \in [Ports -> {<< >>} \cup (VCs \X Flits)]
      /\ open' \in [Channels -> Ports \cup {NotReserved}]
  BY <1>1, TraversalTypes
<1>3. G' \in [Channels -> GlobalStates] /\ R' \in [Channels -> Ports]
  BY <1>1, <1>2, RoutingFacts
<1>4. /\ O' \in [Channels -> VCs \cup {NotValid}]
      /\ rtable' \in [Channels -> Channels \cup {NotReserved}]
      /\ StatesMatch' /\ ReservationsMatch'
  BY <1>1, <1>2, AllocationMatches
<1>5. /\ win_port' \in [Ports -> Ports \cup {NotReserved}]
      /\ win_vc' \in [Ports -> VCs \cup {NotReserved}]
      /\ GrantsSound'
  BY <1>1, <1>3, <1>4, SwitchFacts DEF Consistent
<1>6. specul' \in [Channels -> BOOLEAN]
  <2> DEFINE may(x) == /\ x \in MaySpeculate(Tails)
                       /\ \A o \in DOMAIN Speculating : Speculating[o] # x
  <2>1. specul' = [x \in Channels |-> may(x)]
    BY TxStages
  <2>2. \A x \in Channels : may(x) \in BOOLEAN
    OBVIOUS
  <2> HIDE DEF may
  <2> QED
    BY <2>1, <2>2, Zenon
<1>7. start' \in 0 .. NPorts * NVCs - 1
  <2>1. NPorts * NVCs \in Nat \ {0} /\ start \in Nat
    BY RouterAssumption DEF Consistent, TypeOK
  <2>2. start' = (start + 1) % (NPorts * NVCs)
    BY TxStages
  <2> DEFINE n == NPorts * NVCs
  <2> HIDE DEF n
  <2> QED
    BY <2>1, <2>2 DEF n
<1>8. ran' \in {{}, {"rx"}, {"tx"}} /\ emergency' \in BOOLEAN
      /\ feed' \in [Channels -> [left : 0 .. PacketSize - 1, out : Ports,
                                 lost : 0 .. Depth]]
  BY <1>1, RunsTypes DEF Consistent, TypeOK
<1>9. TypeOK'
  BY <1>2, <1>3, <1>4, <1>5, <1>6, <1>7, <1>8 DEF TypeOK
<1> QED
  BY <1>4, <1>5, <1>9 DEF Consistent

LEMMA NextFlitsFacts ==
  ASSUME TypeOK, NEW x \in Channels, NEW f \in NextFlits(x)
  PROVE  /\ f \in Flits /\ f.src = x[1]
         /\ f.type = "head" <=> feed[x].left = 0
         /\ f.type = "tail" <=> feed[x].left = 1
         /\ f.type # "head" => f.out = feed[x].out
<1>1. /\ feed[x].left \in 0 .. PacketSize - 1 /\ feed[x].out \in Ports
      /\ x[1] \in Ports /\ Sinks \subseteq Ports
  BY ChannelFields, RouterAssumption DEF TypeOK
<1>2. CASE feed[x].left = 0
  <2>1. PICK o \in Sinks \ {x[1]} : f = [type |-> "head", src |-> x[1], out |-> o]
    BY <1>2 DEF NextFlits
  <2> QED
    BY <1>1, <1>2, <2>1 DEF Flits, FlitTypes
<1>3. CASE feed[x].left # 0
  <2>1. f = [type |-> IF feed[x].left = 1 THEN "tail" ELSE "body",
             src |-> x[1], out |-> feed[x].out]
    BY <1>3 DEF NextFlits
  <2> QED
    BY <1>1, <1>3, <2>1 DEF Flits, FlitTypes
<1> QED
  BY <1>2, <1>3

\* What rxProcess does to one input VC: nothing, or it takes the next flit of
\* the neighbour, and drops it in an emergency.
Receives(x) ==
  /\ CanReceive(x)
  /\ \E f \in NextFlits(x) :
       /\ feed'[x] = Fed(x, f)
       /\ buffer'[x] = IF emergency THEN buffer[x] ELSE Append(buffer[x], f)

LEMMA RxFacts ==
  ASSUME RxProcess
  PROVE  /\ \A x \in Channels :
              \/ buffer'[x] = buffer[x] /\ feed'[x] = feed[x]
              \/ Receives(x)
         /\ buffer' = [x \in Channels |-> buffer'[x]]
         /\ feed' = [x \in Channels |-> feed'[x]]
         /\ Runs("rx") /\ UNCHANGED <<vcVars, emergency>>
<1> DEFINE flit(in, x) == (CHOOSE m \in in : m[1] = x)[2]
           receivers(in) == {m[1] : m \in in}
<1>1. PICK in \in Arrivals :
        /\ buffer' = [x \in Channels |->
                        IF x \in receivers(in) /\ ~emergency
                          THEN Append(buffer[x], flit(in, x)) ELSE buffer[x]]
        /\ feed' = [x \in Channels |->
                      IF x \in receivers(in) THEN Fed(x, flit(in, x)) ELSE feed[x]]
  BY DEF RxProcess
<1>2. ASSUME NEW x \in receivers(in)
      PROVE  CanReceive(x) /\ flit(in, x) \in NextFlits(x)
  <2> DEFINE m == CHOOSE n \in in : n[1] = x
  <2>1. m \in in /\ m[1] = x
    BY <1>2
  <2> HIDE DEF m
  <2>2. m \in Incoming
    BY <2>1 DEF Arrivals
  <2>3. PICK y \in {z \in Sources : CanReceive(z)} : m \in {y} \X NextFlits(y)
    BY <2>2 DEF Incoming
  <2>4. y = x /\ m[2] \in NextFlits(x) /\ CanReceive(x)
    BY <2>1, <2>3
  <2> QED
    BY <2>4 DEF m
<1>3. Runs("rx") /\ UNCHANGED <<vcVars, emergency>>
  BY DEF RxProcess
<1>4. ASSUME NEW x \in Channels
      PROVE  \/ buffer'[x] = buffer[x] /\ feed'[x] = feed[x]
             \/ Receives(x)
  <2> HIDE DEF flit, receivers
  <2> QED
    BY <1>1, <1>2 DEF Receives
<1> QED
  BY <1>1, <1>3, <1>4

LEMMA RxConsistent ==
  ASSUME Consistent, RxProcess
  PROVE  Consistent'
<1>1. UNCHANGED vcVars /\ UNCHANGED emergency /\ Runs("rx")
  BY RxFacts
<1>2. ASSUME NEW x \in Channels
      PROVE  /\ buffer'[x] \in Seq(Flits) /\ Len(buffer'[x]) <= Depth
             /\ feed'[x] \in [left : 0 .. PacketSize - 1, out : Ports, lost : 0 .. Depth]
  <2>1. /\ buffer[x] \in Seq(Flits) /\ Len(buffer[x]) <= Depth /\ Len(buffer[x]) \in Nat
        /\ feed[x] \in [left : 0 .. PacketSize - 1, out : Ports, lost : 0 .. Depth]
        /\ 0 \in Ports
    BY RouterAssumption DEF Consistent, TypeOK, Ports
  <2>2. CASE Receives(x)
    <3>1. PICK f \in NextFlits(x) :
            /\ feed'[x] = Fed(x, f)
            /\ buffer'[x] = IF emergency THEN buffer[x] ELSE Append(buffer[x], f)
      BY <2>2 DEF Receives
    <3>2. /\ f \in Flits /\ f.out \in Ports
          /\ f.type # "head" => feed[x].left # 0
      BY NextFlitsFacts DEF Consistent, Flits
    <3>3. Len(buffer[x]) + feed[x].lost < Depth
      BY <2>2 DEF Receives, CanReceive
    <3>4. Fed(x, f) \in [left : 0 .. PacketSize - 1, out : Ports, lost : 0 .. Depth]
      BY <2>1, <3>2, <3>3, RouterAssumption DEF Fed
    <3>5. /\ Append(buffer[x], f) \in Seq(Flits)
          /\ Len(Append(buffer[x], f)) = Len(buffer[x]) + 1
      BY <2>1, <3>2
    <3>6. Len(buffer[x]) < Depth
      BY <2>1, <3>3, RouterAssumption
    <3> QED
      BY <2>1, <3>1, <3>4, <3>5, <3>6, RouterAssumption
  <2> QED
    BY <2>1, <2>2, RxFacts
<1>3. /\ buffer' \in [Channels -> Seq(Flits)]
      /\ feed' \in [Channels -> [left : 0 .. PacketSize - 1, out : Ports, lost : 0 .. Depth]]
  BY <1>2, RxFacts
<1>4. ran' \in {{}, {"rx"}, {"tx"}}
  BY <1>1, RunsTypes DEF Consistent
<1>5. TypeOK'
  BY <1>1, <1>2, <1>3, <1>4 DEF Consistent, TypeOK, vcVars
<1>6. StatesMatch' /\ ReservationsMatch' /\ GrantsSound'
  <2> USE DEF Consistent, vcVars
  <2>1. StatesMatch'
    BY <1>1 DEF StatesMatch
  <2>2. ReservationsMatch'
    BY <1>1 DEF ReservationsMatch, Table!HeldBy
  <2>3. GrantsSound'
    BY <1>1 DEF GrantsSound, Winner
  <2> QED
    BY <2>1, <2>2, <2>3
<1> QED
  BY <1>5, <1>6 DEF Consistent

LEMMA InitConsistent ==
  Init => Consistent
<1> SUFFICES ASSUME Init PROVE Consistent
  OBVIOUS
<1> USE DEF Init
<1>1. TypeOK
  <2>1. 0 \in Ports /\ 0 \in 0 .. NPorts * NVCs - 1 /\ Depth \in 0 .. Depth
        /\ 0 \in 0 .. PacketSize - 1 /\ 0 \in 0 .. Depth
    <3>1. NPorts * NVCs \in Nat \ {0}
      BY RouterAssumption
    <3> QED
      BY <3>1, RouterAssumption DEF Ports
  <2>2. << >> \in Seq(Flits) /\ Len(<< >>) = 0 /\ 0 <= Depth
    BY RouterAssumption
  <2> QED
    BY <2>1, <2>2 DEF TypeOK, GlobalStates
<1>2. StatesMatch
  BY DEF StatesMatch
<1>3. ReservationsMatch
  BY RouterAssumption DEF ReservationsMatch, Table!HeldBy
<1>4. GrantsSound
  BY DEF GrantsSound
<1> QED
  BY <1>1, <1>2, <1>3, <1>4 DEF Consistent

LEMMA NextConsistent ==
  Consistent /\ [Next]_vars => Consistent'
<1> SUFFICES ASSUME Consistent, [Next]_vars PROVE Consistent'
  OBVIOUS
<1>1. CASE RxProcess
  BY <1>1, RxConsistent
<1>2. ASSUME NEW acks \in SUBSET Outstanding, TxProcess(acks)
      PROVE  Consistent'
  BY <1>2, TxConsistent
<1>3. CASE Throttle \/ UNCHANGED vars
  <2>1. UNCHANGED <<buffer, vcVars, ran, feed>> /\ emergency' \in BOOLEAN
    BY <1>3 DEF Throttle, vars, Consistent, TypeOK
  <2> USE <2>1 DEF Consistent, vcVars
  <2>2. TypeOK'
    BY DEF TypeOK
  <2>3. StatesMatch'
    BY DEF StatesMatch
  <2>4. ReservationsMatch'
    BY DEF ReservationsMatch, Table!HeldBy
  <2>5. GrantsSound'
    BY DEF GrantsSound, Winner
  <2> QED
    BY <2>2, <2>3, <2>4, <2>5
<1> QED
  BY <1>1, <1>2, <1>3 DEF Next

THEOREM RouterConsistent == Spec => []Consistent
BY InitConsistent, NextConsistent, PTL DEF Spec

\* No buffer overflows, no credit counter leaves its range (the assertion of
\* NoximVCState::credit), and every member has its type.
THEOREM RouterTypeOK == Spec => []TypeOK
<1>1. Consistent => TypeOK
  BY DEF Consistent
<1> QED
  BY <1>1, RouterConsistent, PTL

\* The reservation table and the VC states agree after every process.
THEOREM RouterReservationsMatch == Spec => []ReservationsMatch
<1>1. Consistent => ReservationsMatch
  BY DEF Consistent
<1> QED
  BY <1>1, RouterConsistent, PTL

\* The switch is granted only to VCs that may use it, one output each.
THEOREM RouterGrantsSound == Spec => []GrantsSound
<1>1. Consistent => GrantsSound
  BY DEF Consistent
<1> QED
  BY <1>1, RouterConsistent, PTL

-----------------------------------------------------------------------------
(* The inductive invariant, second part: packets.  Unless an emergency     *)
(* dropped flits, an input VC holds packets in one piece, and its state    *)
(* says how far the first of them went.                                    *)

\* e comes after f on an input VC.
Follows(f, e) ==
  /\ e.type = "head" <=> f.type = "tail"
  /\ f.type # "tail" => e.out = f.out

\* s is a piece of a stream of packets from port p, and what the neighbour has
\* still to send, rest, completes it.
Whole(s, p, rest) ==
  \A i \in 1 .. Len(s) :
    /\ s[i].src = p
    /\ IF i < Len(s)
         THEN Follows(s[i], s[i + 1])
         ELSE /\ s[i].type = "tail" <=> rest.left = 0
              /\ s[i].type # "tail" => rest.out = s[i].out

\* The output VC that an input VC was routed to and was given.
Target(x) == <<R[x], O[x]>>

\* An idle VC waits for a head; on its way through RC and VA the head is first;
\* then the rest of the packet follows, on an output VC that is open for it
\* from the moment the head has left.
Begun(x) ==
  LET s == buffer[x] IN
  /\ G[x] = "idle" =>
       IF s = << >> THEN feed[x].left = 0 ELSE Head(s).type = "head"
  /\ G[x] \in {"routing", "vcallocating"} =>
       /\ s # << >> /\ Head(s).type = "head" /\ Head(s).out = R[x]
       /\ O[x] # NotValid => open[Target(x)] = NotReserved
  /\ G[x] = "active" =>
       IF s = << >>
         THEN feed[x].left > 0 /\ feed[x].out = R[x] /\ open[Target(x)] = x[1]
         ELSE /\ Head(s).out = R[x]
              /\ open[Target(x)] = IF Head(s).type = "head" THEN NotReserved ELSE x[1]

\* No packet is open on an output VC that nobody holds.
FreeAreClosed ==
  \A y \in Channels : rtable[y] = NotReserved => open[y] = NotReserved

Streams ==
  NothingLost => /\ \A x \in Channels : Whole(buffer[x], x[1], feed[x])
                 /\ \A x \in Channels : Begun(x)
                 /\ FreeAreClosed

LEMMA WholeTail ==
  ASSUME NEW s \in Seq(Flits), NEW p, NEW rest, Whole(s, p, rest), s # << >>
  PROVE  /\ Whole(Tail(s), p, rest)
         /\ Head(s).src = p
         /\ IF Tail(s) = << >>
              THEN /\ Head(s).type = "tail" <=> rest.left = 0
                   /\ Head(s).type # "tail" => rest.out = Head(s).out
              ELSE Follows(Head(s), Head(Tail(s)))
<1> DEFINE t == Tail(s)
<1>1. /\ Len(s) \in Nat /\ Len(s) >= 1 /\ Head(s) = s[1]
      /\ t \in Seq(Flits) /\ Len(t) = Len(s) - 1
      /\ \A i \in 1 .. Len(s) - 1 : t[i] = s[i + 1]
  OBVIOUS
<1> HIDE DEF t
<1>2. Whole(t, p, rest)
  <2> SUFFICES ASSUME NEW i \in 1 .. Len(t)
               PROVE  /\ t[i].src = p
                      /\ IF i < Len(t)
                           THEN Follows(t[i], t[i + 1])
                           ELSE /\ t[i].type = "tail" <=> rest.left = 0
                                /\ t[i].type # "tail" => rest.out = t[i].out
    BY DEF Whole
  <2>1. i + 1 \in 1 .. Len(s) /\ t[i] = s[i + 1]
    BY <1>1
  <2>2. i < Len(t) => t[i + 1] = s[(i + 1) + 1]
    BY <1>1
  <2>3. i < Len(t) <=> i + 1 < Len(s)
    BY <1>1
  <2> QED
    BY <2>1, <2>2, <2>3 DEF Whole
<1>3. CASE t = << >>
  <2>1. Len(s) = 1
    BY <1>1, <1>3
  <2> QED
    BY <1>1, <1>2, <1>3, <2>1 DEF Whole, t
<1>4. CASE t # << >>
  <2>1. Len(s) > 1 /\ Head(t) = s[2]
    BY <1>1, <1>4
  <2> QED
    BY <1>1, <1>2, <1>4, <2>1 DEF Whole, t
<1> QED
  BY <1>3, <1>4

LEMMA WholeAppend ==
  ASSUME NEW s \in Seq(Flits), NEW p, NEW rest, Whole(s, p, rest),
         NEW f \in Flits, NEW more, f.src = p,
         f.type = "head" <=> rest.left = 0,
         f.type # "head" => f.out = rest.out,
         f.type = "tail" <=> more.left = 0,
         f.type # "tail" => more.out = f.out
  PROVE  Whole(Append(s, f), p, more)
<1> DEFINE t == Append(s, f)
<1>1. /\ Len(s) \in Nat /\ Len(t) = Len(s) + 1
      /\ \A i \in 1 .. Len(s) : t[i] = s[i]
      /\ t[Len(s) + 1] = f
  OBVIOUS
<1> HIDE DEF t
<1> SUFFICES ASSUME NEW i \in 1 .. Len(s) + 1
             PROVE  /\ t[i].src = p
                    /\ IF i < Len(s) + 1
                         THEN Follows(t[i], t[i + 1])
                         ELSE /\ t[i].type = "tail" <=> more.left = 0
                              /\ t[i].type # "tail" => more.out = t[i].out
  BY <1>1 DEF Whole, t
<1>2. CASE i = Len(s) + 1
  BY <1>1, <1>2
<1>3. CASE i = Len(s)
  <2>1. /\ i \in 1 .. Len(s) /\ ~(i < Len(s)) /\ i < Len(s) + 1
        /\ t[i] = s[i] /\ t[i + 1] = f
    BY <1>1, <1>3
  <2>2. /\ s[i].src = p
        /\ s[i].type = "tail" <=> rest.left = 0
        /\ s[i].type # "tail" => rest.out = s[i].out
    BY <2>1 DEF Whole
  <2> QED
    BY <2>1, <2>2 DEF Follows
<1>4. CASE i < Len(s)
  <2>1. /\ i \in 1 .. Len(s) /\ i < Len(s) + 1
        /\ t[i] = s[i] /\ t[i + 1] = s[i + 1]
    BY <1>1, <1>4
  <2> QED
    BY <1>4, <2>1 DEF Whole
<1> QED
  BY <1>1, <1>2, <1>3, <1>4

\* A flit that moves finds its output VC open for it, and was routed there.
LEMMA MovingBelongs ==
  ASSUME Consistent, Streams, NothingLost, NEW o \in Moving
  PROVE  LET x == Winner(o)  f == Leaving(o) IN
         /\ f.src = x[1] /\ f.out = o
         /\ open[<<o, O[x]>>] = IF f.type = "head" THEN NotReserved ELSE f.src
<1> DEFINE x == Winner(o)
           f == Leaving(o)
<1>1. /\ x \in Channels /\ buffer[x] # << >> /\ buffer[x] \in Seq(Flits)
      /\ f = Head(buffer[x]) /\ Checked[x] = "active" /\ R[x] = o
  BY MovingFlits
<1>2. f.src = x[1]
  BY <1>1, WholeTail DEF Streams
<1>3. G[x] = "active" \/ (G[x] = "vcallocating" /\ O[x] # NotValid)
  BY <1>1 DEF Checked
<1>4. /\ Head(buffer[x]).out = R[x]
      /\ open[Target(x)] = IF Head(buffer[x]).type = "head" THEN NotReserved ELSE x[1]
  BY <1>1, <1>3 DEF Streams, Begun
<1> QED
  BY <1>1, <1>2, <1>4 DEF Target

\* Only its holder writes to an output VC.
LEMMA OpenBy ==
  ASSUME Consistent, NEW acks, SwitchTraversal(acks, Moving),
         NEW x \in Channels, O[x] # NotValid
  PROVE  /\ x \notin Inputs(Moving) => open'[Target(x)] = open[Target(x)]
         /\ \A o \in Moving \ Closing(Moving) :
              x = Winner(o) => open'[Target(x)] = Leaving(o).src
<1>1. Target(x) \in Channels /\ Target(x)[1] = R[x]
  <2>1. R[x] \in Ports /\ O[x] \in VCs
    BY DEF Consistent, TypeOK
  <2> QED
    BY <2>1 DEF Channels, Target
<1>2. open'[Target(x)] = IF Target(x) \in Outputs(Closing(Moving)) THEN NotReserved
                         ELSE IF Target(x) \in Outputs(Moving)
                              THEN Leaving(Target(x)[1]).src
                         ELSE open[Target(x)]
  BY <1>1 DEF SwitchTraversal
<1>3. ASSUME NEW o \in Moving, Target(x) = <<o, O[Winner(o)]>>
      PROVE  x = Winner(o)
  <2> DEFINE w == Winner(o)
  <2>1. w \in Channels /\ R[w] = o /\ O[w] # NotValid
    BY MovingFlits
  <2>2. Table!HeldBy(rtable, w) = {Target(w)} /\ Table!HeldBy(rtable, x) = {Target(x)}
    BY <2>1 DEF Consistent, ReservationsMatch, Target
  <2>3. rtable[Target(w)] = w /\ rtable[Target(x)] = x
    BY <2>2 DEF Table!HeldBy
  <2> QED
    BY <1>3, <2>1, <2>3 DEF Target
<1>4. x \notin Inputs(Moving) => Target(x) \notin Outputs(Moving) \cup Outputs(Closing(Moving))
  BY <1>3 DEF Inputs, Outputs, Closing
<1>5. ASSUME NEW o \in Moving \ Closing(Moving), x = Winner(o)
      PROVE  open'[Target(x)] = Leaving(o).src
  <2>1. R[x] = o /\ Target(x) = <<o, O[Winner(o)]>>
    BY <1>5, MovingFlits DEF Target
  <2>2. Target(x) \in Outputs(Moving)
    BY <2>1 DEF Outputs
  <2>3. Target(x) \notin Outputs(Closing(Moving))
    <3> SUFFICES ASSUME NEW p \in Closing(Moving), Target(x) = <<p, O[Winner(p)]>>
                 PROVE  FALSE
      BY DEF Outputs
    <3> QED
      BY <1>5, <2>1
  <2> QED
    BY <1>1, <1>2, <2>1, <2>2, <2>3
<1> QED
  BY <1>2, <1>4, <1>5

\* What an input VC looks like after the traversal, g being its state then.
Traversed(x, g) ==
  LET s == buffer'[x] IN
  /\ g = "idle" =>
       IF s = << >> THEN feed[x].left = 0 ELSE Head(s).type = "head"
  /\ g = "vcallocating" =>
       s # << >> /\ Head(s).type = "head" /\ Head(s).out = R[x]
  /\ g = "active" =>
       IF s = << >>
         THEN feed[x].left > 0 /\ feed[x].out = R[x] /\ open'[Target(x)] = x[1]
         ELSE /\ Head(s).out = R[x]
              /\ open'[Target(x)] = IF Head(s).type = "head" THEN NotReserved ELSE x[1]

LEMMA TraversedWhole ==
  ASSUME Consistent, Streams, NothingLost, NEW acks,
         SwitchTraversal(acks, Moving), NEW x \in Channels
  PROVE  /\ Whole(buffer'[x], x[1], feed[x])
         /\ Traversed(x, StateAfterTail(Tails)[x])
<1> DEFINE g == StateAfterTail(Tails)[x]
           s == buffer[x]
<1>1. buffer'[x] = IF x \in Inputs(Moving) THEN Tail(s) ELSE s
  BY DEF SwitchTraversal
<1>2. /\ s \in Seq(Flits) /\ Whole(s, x[1], feed[x]) /\ Begun(x)
      /\ feed[x].left \in 0 .. PacketSize - 1 /\ G[x] \in GlobalStates
      /\ feed[x].left \in Nat
  BY RouterAssumption DEF Streams, Consistent, TypeOK
<1>3. CASE x \in Inputs(Moving)
  <2>1. PICK o \in Moving : x = Winner(o)
    BY <1>3 DEF Inputs
  <2>2. /\ s # << >> /\ Leaving(o) = Head(s) /\ Checked[x] = "active" /\ R[x] = o
        /\ O[x] # NotValid /\ o \in Ports
        /\ \A p \in Moving : Winner(p) = x => p = o
    BY <2>1, MovingFlits
  <2>3. Head(s).src = x[1] /\ Head(s).out = R[x]
    BY <2>1, <2>2, MovingBelongs
  <2>4. /\ Whole(Tail(s), x[1], feed[x])
        /\ IF Tail(s) = << >>
             THEN /\ Head(s).type = "tail" <=> feed[x].left = 0
                  /\ Head(s).type # "tail" => feed[x].out = Head(s).out
             ELSE Follows(Head(s), Head(Tail(s)))
    BY <1>2, <2>2, WholeTail
  <2>5. CASE Head(s).type = "tail"
    <3>1. x \in Tails
      BY <2>1, <2>2, <2>5 DEF Tails, Inputs, Closing
    <3>2. g = "idle"
      BY <3>1, AfterTail
    <3> QED
      BY <1>1, <1>3, <2>4, <2>5, <3>2 DEF Traversed, Follows
  <2>6. CASE Head(s).type # "tail"
    <3>1. o \notin Closing(Moving) /\ x \notin Tails
      BY <2>1, <2>2, <2>6 DEF Tails, Inputs, Closing
    <3>2. g = "active"
      BY <2>2, <3>1 DEF StateAfterTail
    <3>3. open'[Target(x)] = x[1]
      BY <2>1, <2>2, <2>3, <3>1, OpenBy
    <3> QED
      BY <1>1, <1>2, <1>3, <2>3, <2>4, <2>6, <3>2, <3>3 DEF Traversed, Follows
  <2> QED
    BY <2>5, <2>6
<1>4. CASE x \notin Inputs(Moving)
  <2>1. x \notin Tails
    BY <1>4 DEF Tails, Inputs, Closing
  <2>2. g = Checked[x]
    BY <2>1 DEF StateAfterTail
  <2>3. /\ G[x] = "active" => O[x] # NotValid
        /\ O[x] # NotValid => open'[Target(x)] = open[Target(x)]
    BY <1>4, OpenBy DEF Consistent, StatesMatch
  <2> QED
    BY <1>1, <1>2, <1>4, <2>2, <2>3 DEF Traversed, Begun, Checked, GlobalStates
<1> QED
  BY <1>3, <1>4

\* What the tails leave free is closed.
LEMMA ReleasedAreClosed ==
  ASSUME Consistent, Streams, NothingLost, NEW acks,
         SwitchTraversal(acks, Moving), NEW y \in Channels, Released[y] = NotReserved
  PROVE  open'[y] = NotReserved
<1>1. open'[y] = IF y \in Outputs(Closing(Moving)) THEN NotReserved
                 ELSE IF y \in Outputs(Moving) THEN Leaving(y[1]).src
                 ELSE open[y]
  BY DEF SwitchTraversal
<1>2. CASE y \notin Outputs(Closing(Moving))
  <2>1. rtable[y] = NotReserved
    BY <1>2 DEF Released, Table!ReleaseAll
  <2>2. open[y] = NotReserved
    BY <2>1 DEF Streams, FreeAreClosed
  <2>3. ASSUME NEW o \in Moving, y = <<o, O[Winner(o)]>> PROVE FALSE
    <3> DEFINE w == Winner(o)
    <3>1. w \in Channels /\ R[w] = o /\ O[w] # NotValid
      BY MovingFlits
    <3>2. Table!HeldBy(rtable, w) = {y}
      BY <2>3, <3>1 DEF Consistent, ReservationsMatch
    <3>3. rtable[y] = w
      BY <3>2 DEF Table!HeldBy
    <3> QED
      BY <2>1, <3>1, <3>3, RouterAssumption
  <2> QED
    BY <1>1, <1>2, <2>2, <2>3 DEF Outputs
<1> QED
  BY <1>1, <1>2

LEMMA TxStreams ==
  ASSUME Consistent, Streams, NothingLost, NEW acks, TxProcess(acks)
  PROVE  Streams'
<1> DEFINE g == StateAfterTail(Tails)
           held == OutputAfterTail(Tails)
<1>1. /\ SwitchTraversal(acks, Moving)
      /\ RoutingComputation(g)
      /\ VCAllocation(AllocationRequests, Closing(Moving))
      /\ feed' = feed
  BY TxStages
<1>2. buffer' \in [Channels -> Seq(Flits)]
  BY <1>1, TraversalTypes
<1>3. ASSUME NEW x \in Channels
      PROVE  Whole(buffer'[x], x[1], feed'[x]) /\ Traversed(x, g[x])
  BY <1>1, TraversedWhole
<1>4. ASSUME NEW x \in Channels PROVE Begun(x)'
  <2>1. \/ G'[x] = g[x] /\ R'[x] = R[x]
        \/ /\ g[x] = "idle" /\ G'[x] \in {"routing", "vcallocating"}
           /\ buffer'[x] # << >> /\ Head(buffer'[x]).type = "head"
           /\ R'[x] = Head(buffer'[x]).out
    BY <1>1, <1>2, RoutingFacts
  <2>2. /\ g[x] \in {"idle", "vcallocating", "active"}
        /\ g[x] = "active" <=> held[x] # NotValid
        /\ held[x] # NotValid => held[x] = O[x]
    BY AfterTail
  <2>3. CASE \E y \in DOMAIN Grants : Grants[y] = x
    <3>1. PICK y \in DOMAIN Grants : Grants[y] = x
      BY <2>3
    <3>2. O'[x] = x[2]
      BY <1>1, <2>3, AllocationFacts
    <3>3. /\ y \in Channels /\ Released[y] = NotReserved
          /\ G'[x] = "vcallocating" /\ y = <<R'[x], x[2]>>
      BY <1>1, <1>2, <3>1, GrantFacts
    <3>4. open'[<<R'[x], O'[x]>>] = NotReserved
      BY <1>1, <3>2, <3>3, ReleasedAreClosed
    <3>5. buffer'[x] # << >> /\ Head(buffer'[x]).type = "head"
          /\ Head(buffer'[x]).out = R'[x]
      BY <1>3, <2>1, <3>3 DEF Traversed
    <3> QED
      BY <3>3, <3>4, <3>5 DEF Begun, Target
  <2>4. CASE ~ \E y \in DOMAIN Grants : Grants[y] = x
    <3>1. O'[x] = held[x]
      BY <1>1, <2>4, AllocationFacts
    <3>2. CASE g[x] = "active"
      <4>1. G'[x] = "active" /\ R'[x] = R[x] /\ O'[x] = O[x]
        BY <2>1, <2>2, <3>1, <3>2
      <4> QED
        BY <1>1, <1>3, <3>2, <4>1 DEF Begun, Traversed, Target
    <3>3. CASE g[x] # "active"
      <4>1. O'[x] = NotValid
        BY <2>2, <3>1, <3>3
      <4> HIDE DEF g, held
      <4> QED
        BY <1>1, <1>3, <2>1, <2>2, <3>3, <4>1 DEF Begun, Traversed
    <3> QED
      BY <3>2, <3>3
  <2> QED
    BY <2>3, <2>4
<1>5. FreeAreClosed'
  <2> SUFFICES ASSUME NEW y \in Channels, rtable'[y] = NotReserved
               PROVE  open'[y] = NotReserved
    BY DEF FreeAreClosed
  <2>1. rtable'[y] = IF y \in DOMAIN Grants THEN Grants[y]
                     ELSE IF \E p \in DOMAIN Grants : Released[y] = Grants[p]
                          THEN NotReserved ELSE Released[y]
    BY <1>1, AllocationFacts DEF Table!ReserveAll
  <2>2. \A p \in DOMAIN Grants :
          /\ Grants[p] \in Channels /\ Grants[p] # NotReserved
          /\ Released[y] # Grants[p]
    BY <1>1, <1>2, GrantFacts, ReleasedHeld, RouterAssumption
  <2>3. Released[y] = NotReserved
    BY <2>1, <2>2
  <2> QED
    BY <1>1, <2>3, ReleasedAreClosed
<1> QED
  BY <1>3, <1>4, <1>5 DEF Streams

LEMMA RxStreams ==
  ASSUME Consistent, Streams, RxProcess, NothingLost'
  PROVE  Streams' /\ NothingLost
<1>1. /\ UNCHANGED vcVars
      /\ \A x \in Channels :
           \/ buffer'[x] = buffer[x] /\ feed'[x] = feed[x]
           \/ Receives(x)
  BY RxFacts
<1>2. ASSUME NEW x \in Channels
      PROVE  /\ feed[x].lost = 0
             /\ Receives(x) => ~emergency
  <2>1. feed'[x].lost = 0 /\ feed[x].lost \in Nat
    BY RouterAssumption DEF NothingLost, Consistent, TypeOK
  <2>2. CASE Receives(x)
    <3>1. PICK f \in NextFlits(x) : feed'[x] = Fed(x, f)
      BY <2>2 DEF Receives
    <3>2. feed'[x].lost = feed[x].lost + IF emergency THEN 1 ELSE 0
      BY <3>1 DEF Fed
    <3> QED
      BY <2>1, <3>2
  <2> QED
    BY <1>1, <2>1, <2>2
<1>3. NothingLost
  BY <1>2 DEF NothingLost
<1>4. ASSUME NEW x \in Channels
      PROVE  Whole(buffer'[x], x[1], feed'[x]) /\ Begun(x)'
  <2> DEFINE s == buffer[x]
  <2>1. /\ Whole(s, x[1], feed[x]) /\ Begun(x) /\ s \in Seq(Flits)
        /\ feed[x].left \in Nat /\ G[x] \in GlobalStates
    BY <1>3, RouterAssumption DEF Streams, Consistent, TypeOK
  <2>2. G'[x] = G[x] /\ R'[x] = R[x] /\ O'[x] = O[x] /\ open' = open
    BY <1>1 DEF vcVars
  <2>3. CASE Receives(x)
    <3>1. PICK f \in NextFlits(x) :
            feed'[x] = Fed(x, f) /\ buffer'[x] = Append(s, f)
      BY <1>2, <2>3 DEF Receives
    <3>2. /\ f \in Flits /\ f.src = x[1]
          /\ f.type = "head" <=> feed[x].left = 0
          /\ f.type = "tail" <=> feed[x].left = 1
          /\ f.type # "head" => f.out = feed[x].out
      BY NextFlitsFacts DEF Consistent
    <3>3. /\ f.type = "tail" <=> feed'[x].left = 0
          /\ f.type # "tail" => feed'[x].out = f.out
      BY <2>1, <3>1, <3>2, RouterAssumption DEF Fed
    <3>4. Whole(buffer'[x], x[1], feed'[x])
      BY <2>1, <3>1, <3>2, <3>3, WholeAppend
    <3>5. buffer'[x] # << >> /\ Head(buffer'[x]) = IF s = << >> THEN f ELSE Head(s)
      <4>1. /\ Len(Append(s, f)) = Len(s) + 1 /\ Len(s) \in Nat
            /\ Append(s, f)[1] = IF s = << >> THEN f ELSE s[1]
        BY <2>1, <3>2
      <4> QED
        BY <2>1, <3>1, <3>2, <4>1
    <3> QED
      BY <2>1, <2>2, <3>2, <3>4, <3>5 DEF Begun, Target
  <2>4. CASE buffer'[x] = buffer[x] /\ feed'[x] = feed[x]
    BY <2>1, <2>2, <2>4 DEF Begun, Target
  <2> QED
    BY <1>1, <2>3, <2>4
<1>5. FreeAreClosed'
  BY <1>1, <1>3 DEF Streams, FreeAreClosed, vcVars
<1> QED
  BY <1>3, <1>4, <1>5 DEF Streams

\* What a step of txProcess puts on the outputs.
LEMMA TxSends ==
  ASSUME Consistent, Streams, NothingLost, NEW acks, TxProcess(acks),
         NEW o \in Ports, tx'[o] # << >>
  PROVE  LET f == tx'[o][2]
             y == <<o, tx'[o][1]>>
         IN  /\ f.out = o
             /\ open[y] = IF f.type = "head" THEN NotReserved ELSE f.src
<1>1. tx'[o] = IF o \in Moving THEN <<O[Winner(o)], Leaving(o)>> ELSE << >>
  BY TxStages DEF SwitchTraversal
<1>2. o \in Moving /\ tx'[o][1] = O[Winner(o)] /\ tx'[o][2] = Leaving(o)
  BY <1>1
<1> QED
  BY <1>2, MovingBelongs

RouterInv == Consistent /\ Streams /\ NoMisroute

LEMMA InitRouterInv ==
  Init => RouterInv
<1> SUFFICES ASSUME Init PROVE RouterInv
  OBVIOUS
<1>1. Streams
  <2>1. \A x \in Channels : buffer[x] = << >> /\ feed[x].left = 0 /\ G[x] = "idle"
    BY DEF Init
  <2>2. Len(<< >>) = 0 /\ 1 .. 0 = {}
    OBVIOUS
  <2>3. \A x \in Channels : Whole(buffer[x], x[1], feed[x])
    BY <2>1, <2>2 DEF Whole
  <2>4. \A x \in Channels : Begun(x)
    BY <2>1 DEF Begun
  <2>5. FreeAreClosed
    BY DEF FreeAreClosed, Init
  <2> QED
    BY <2>3, <2>4, <2>5 DEF Streams
<1>2. NoMisroute
  BY DEF NoMisroute, Init
<1> QED
  BY <1>1, <1>2, InitConsistent DEF RouterInv

LEMMA NextRouterInv ==
  RouterInv /\ [Next]_vars => RouterInv'
<1> SUFFICES ASSUME RouterInv, [Next]_vars PROVE RouterInv'
  OBVIOUS
<1>1. Consistent'
  BY NextConsistent DEF RouterInv
<1>2. CASE RxProcess
  <2>1. UNCHANGED tx
    BY <1>2 DEF RxProcess, vcVars
  <2>2. NothingLost' => Streams' /\ NothingLost
    BY <1>2, RxStreams DEF RouterInv
  <2>3. Streams'
    BY <2>2 DEF Streams
  <2>4. NoMisroute'
    BY <2>1, <2>2 DEF NoMisroute, RouterInv
  <2> QED
    BY <1>1, <2>3, <2>4 DEF RouterInv
<1>3. ASSUME NEW acks \in SUBSET Outstanding, TxProcess(acks)
      PROVE  RouterInv'
  <2>1. feed' = feed
    BY <1>3, TxStages
  <2>2. NothingLost' => NothingLost
    BY <2>1 DEF NothingLost
  <2>3. NothingLost => Streams'
    BY <1>3, TxStreams DEF RouterInv
  <2>4. Streams'
    BY <2>2, <2>3 DEF Streams
  <2>5. NoMisroute'
    BY <1>3, <2>2, TxSends DEF NoMisroute, RouterInv
  <2> QED
    BY <1>1, <2>4, <2>5 DEF RouterInv
<1>4. CASE Throttle \/ UNCHANGED vars
  <2>1. UNCHANGED <<buffer, vcVars, feed>>
    BY <1>4 DEF Throttle, vars
  <2>2. NothingLost' => NothingLost
    BY <2>1 DEF NothingLost
  <2>3. Streams'
    BY <2>1, <2>2 DEF RouterInv, Streams, Begun, Target, FreeAreClosed, vcVars
  <2>4. NoMisroute'
    BY <2>1, <2>2 DEF RouterInv, NoMisroute, vcVars
  <2> QED
    BY <1>1, <2>3, <2>4 DEF RouterInv
<1> QED
  BY <1>2, <1>3, <1>4 DEF Next

THEOREM RouterInvariant == Spec => []RouterInv
BY InitRouterInv, NextRouterInv, PTL DEF Spec

\* Unless an emergency dropped a flit, every flit leaves through the output
\* that its packet was routed to, whatever the pipeline was doing for other
\* packets and however often a speculation failed.
THEOREM RouterNoMisroute == Spec => []NoMisroute
<1>1. RouterInv => NoMisroute
  BY DEF RouterInv
<1> QED
  BY <1>1, RouterInvariant, PTL

\* And a packet leaves each output VC head first and in one piece.
THEOREM RouterWormholeOrder == Spec => WormholeOrder
<1> DEFINE Ordered ==
      NothingLost /\ TxRan => \A o \in Ports : tx'[o] # << >> =>
        LET f == tx'[o][2]
            y == <<o, tx'[o][1]>>
        IN  open[y] = IF f.type = "head" THEN NotReserved ELSE f.src
<1>1. RouterInv /\ [Next]_vars => [Ordered]_vars
  <2> SUFFICES ASSUME RouterInv, [Next]_vars, NothingLost, TxRan
               PROVE  Ordered
    OBVIOUS
  <2>1. PICK acks \in SUBSET Outstanding : TxProcess(acks)
    BY DEF TxRan, Next, RxProcess, Throttle, vars, vcVars
  <2> QED
    BY <2>1, TxSends DEF RouterInv
<1> QED
  BY <1>1, RouterInvariant, PTL DEF Spec, WormholeOrder
=============================================================================
