-------------------------- MODULE NoximMesh_proofs --------------------------
(***************************************************************************)
(* Packets in a mesh of any size, with any set of packets.  Whatever is    *)
(* throttled, if the tiles that TLA checks are clear of it, the minimal    *)
(* routing functions lead every packet along channels of the mesh to tiles *)
(* it has not seen, and four of them are free of deadlock.                 *)
(***************************************************************************)
EXTENDS NoximMesh, NoximTransport_proofs, SequenceTheorems

\* The scenarios of the theorems.
Minimal ==
  /\ net.algorithm \in MinimalFunctions
  /\ \A p \in Packets :
       Clear(Field(net.algorithm, Pkt(p).src, Pkt(p).dst), net.shut)

TurnModels == {"XYZ", "ZXY", "WEST_FIRST", "NORTH_LAST"}

TurnModel == Minimal /\ net.algorithm \in TurnModels

(***************************************************************************)
(* Channels are ranked, first by phase.                                    *)
(*   - ZXY: one phase for each axis.                                       *)
(*   - West-first: first WEST; then, each time a packet is further east or *)
(*     down, one phase along y and one to leave the row; last UP.          *)
(*   - North-last: each time it is further south, one phase along x and    *)
(*     one to leave the row; then NORTH, then up or down.  This is also a  *)
(*     ranking for XYZ, which makes some of these turns.                   *)
(* The way out of the network is the last.  Within a phase, channels are   *)
(* ranked in the direction that they lead.                                 *)
(***************************************************************************)
Phases == 2 * (DimX + DimY + DimZ) + 1

Phase(alg, c) ==
  LET t == c[1]
      k == c[2]
  IN IF k = "LOCAL" THEN Phases
     ELSE IF k = "PE" THEN 0
     ELSE IF alg = "ZXY"
       THEN IF k \in {"DOWN", "UP"} THEN 1
            ELSE IF k \in {"EAST", "WEST"} THEN 2 ELSE 3
     ELSE IF alg = "WEST_FIRST"
       THEN IF k = "WEST" THEN 0
            ELSE IF k = "UP" THEN 2 * (DimX + DimZ)
            ELSE IF k \in {"NORTH", "SOUTH"} THEN 2 * (t.x + t.z) + 1
            ELSE 2 * (t.x + t.z) + 2
       ELSE IF k \in {"DOWN", "UP"} THEN 2 * DimY + 2
            ELSE IF k = "NORTH" THEN 2 * DimY + 1
            ELSE IF k = "SOUTH" THEN 2 * t.y + 2
            ELSE 2 * t.y + 1

Width == DimX + DimY + DimZ + 1

Place(c) == IF c[2] = "EAST" THEN 1 + c[1].x
            ELSE IF c[2] = "WEST" THEN DimX - c[1].x
            ELSE IF c[2] = "SOUTH" THEN 1 + c[1].y
            ELSE IF c[2] = "NORTH" THEN DimY - c[1].y
            ELSE IF c[2] = "DOWN" THEN 1 + c[1].z
            ELSE IF c[2] = "UP" THEN DimZ - c[1].z
            ELSE 0

Rank(alg, c) == Width * Phase(alg, c) + Place(c)

Top == Width * Phases

LEMMA PhaseType ==
  ASSUME NEW alg, NEW c \in Channels
  PROVE  /\ Phase(alg, c) \in 0 .. Phases /\ Place(c) \in 0 .. Width - 1
         /\ Phase(alg, c) = Phases => Place(c) = 0
         /\ Phases \in Nat /\ Width \in Nat \ {0}
<1>1. c[1] \in Tiles /\ c[2] \in Directions \cup {"PE", "LOCAL"}
  BY DEF Channels
<1>2. /\ c[1].x \in 0 .. DimX - 1 /\ c[1].y \in 0 .. DimY - 1
      /\ c[1].z \in 0 .. DimZ - 1
  BY <1>1, TileFields
<1>3. Phase(alg, c) \in 0 .. Phases /\ (Phase(alg, c) = Phases => c[2] = "LOCAL")
  <2>1. CASE alg = "ZXY"
    BY <1>1, <2>1, MeshAssumption DEF Phase, Phases
  <2>2. CASE alg = "WEST_FIRST"
    BY <1>1, <1>2, <2>2, MeshAssumption DEF Phase, Phases, Directions, Lateral
  <2>3. CASE alg # "ZXY" /\ alg # "WEST_FIRST"
    BY <1>1, <1>2, <2>3, MeshAssumption DEF Phase, Phases, Directions, Lateral
  <2> QED
    BY <2>1, <2>2, <2>3
<1>4. Place(c) \in 0 .. Width - 1 /\ (c[2] = "LOCAL" => Place(c) = 0)
  BY <1>1, <1>2, MeshAssumption DEF Place, Width, Directions, Lateral
<1> QED
  BY <1>3, <1>4, MeshAssumption DEF Phases, Width

\* Phases come before places.
LEMMA Lexical ==
  ASSUME NEW w \in Nat, NEW a \in Nat, NEW b \in Nat, a < b, NEW i \in 0 .. w - 1
  PROVE  w * a + i < w * b /\ w * a \in Nat /\ w * b \in Nat
<1>1. PICK e \in Nat : b = a + 1 + e
  <2>1. b - a - 1 \in Nat /\ b = a + 1 + (b - a - 1)
    OBVIOUS
  <2> QED BY <2>1
<1>2. w * b = w * a + w + w * e
  BY <1>1
<1>3. w * a \in Nat /\ w * e \in Nat
  BY <1>1
<1> QED
  BY <1>2, <1>3

LEMMA RankType ==
  ASSUME NEW alg, NEW c \in Channels
  PROVE  Rank(alg, c) \in 0 .. Top /\ Top \in Nat
<1> DEFINE a == Phase(alg, c)
<1>1. /\ a \in Nat /\ a <= Phases /\ Phases \in Nat /\ Width \in Nat
      /\ Place(c) \in 0 .. Width - 1 /\ (a = Phases => Place(c) = 0)
  BY PhaseType
<1> HIDE DEF a
<1>2. Width * a \in Nat /\ Width * Phases \in Nat
  BY <1>1
<1>3. Width * a + Place(c) <= Width * Phases
  <2>1. CASE a = Phases
    BY <1>1, <1>2, <2>1
  <2>2. CASE a < Phases
    BY <1>1, <1>2, <2>2, Lexical
  <2> QED BY <1>1, <2>1, <2>2
<1> QED
  BY <1>1, <1>2, <1>3 DEF Rank, Top, a

LEMMA RankBelow ==
  ASSUME NEW alg, NEW c \in Channels, NEW e \in Channels,
         \/ Phase(alg, c) < Phase(alg, e)
         \/ Phase(alg, c) = Phase(alg, e) /\ Place(c) < Place(e)
  PROVE  Rank(alg, c) < Rank(alg, e)
<1> DEFINE a == Phase(alg, c)
           b == Phase(alg, e)
<1>1. /\ a \in Nat /\ b \in Nat /\ Width \in Nat
      /\ Place(c) \in 0 .. Width - 1 /\ Place(e) \in 0 .. Width - 1
      /\ a < b \/ (a = b /\ Place(c) < Place(e))
  BY PhaseType
<1> HIDE DEF a, b
<1>2. Width * a \in Nat /\ Width * b \in Nat
  BY <1>1
<1>3. CASE a < b
  <2>1. Width * a + Place(c) < Width * b
    BY <1>1, <1>3, Lexical
  <2> QED BY <1>1, <1>2, <2>1 DEF Rank, a, b
<1>4. CASE a = b /\ Place(c) < Place(e)
  BY <1>1, <1>2, <1>4 DEF Rank, a, b
<1> QED
  BY <1>1, <1>3, <1>4

\* Where the functions may send a packet to d at tile t.
Turns(alg, t, d) == IF t = d THEN {"LOCAL"}
                    ELSE IF alg = "ZXY" THEN ZXY(t, d)
                    ELSE IF alg = "WEST_FIRST" THEN WestFirst(t, d)
                    ELSE IF alg = "NORTH_LAST" THEN NorthLast(t, d)
                    ELSE XYZ(t, d)

LEMMA RoutingTurns ==
  ASSUME NEW alg \in TurnModels, NEW sel, NEW p, NEW t, NEW shut, t # p.dst
  PROVE  RoutingFunction(alg, sel, p, t, t, shut) = Turns(alg, t, p.dst)
BY DEF TurnModels, RoutingFunction, Turns

\* Every turn leads to a channel that is ranked higher.
LEMMA RankGrows ==
  ASSUME NEW alg \in TurnModels, NEW d \in Tiles, NEW t \in Tiles, t # d,
         NEW k \in Turns(alg, t, d), Neighbor(t, k) \in Tiles,
         NEW l \in Turns(alg, Neighbor(t, k), d)
  PROVE  /\ <<t, k>> \in Channels /\ <<Neighbor(t, k), l>> \in Channels
         /\ Rank(alg, <<t, k>>) < Rank(alg, <<Neighbor(t, k), l>>)
<1> DEFINE n == Neighbor(t, k)
<1>1. /\ n.x = t.x + Step(k, "EAST", "WEST")
      /\ n.y = t.y + Step(k, "SOUTH", "NORTH")
      /\ n.z = t.z + Step(k, "DOWN", "UP")
      /\ n \in Tiles /\ l \in Turns(alg, n, d)
  BY DEF Neighbor
<1> HIDE DEF n
<1>2. /\ t.x \in 0 .. DimX - 1 /\ t.y \in 0 .. DimY - 1 /\ t.z \in 0 .. DimZ - 1
      /\ n.x \in 0 .. DimX - 1 /\ n.y \in 0 .. DimY - 1 /\ n.z \in 0 .. DimZ - 1
      /\ d.x \in 0 .. DimX - 1 /\ d.y \in 0 .. DimY - 1 /\ d.z \in 0 .. DimZ - 1
  BY <1>1, TileFields
<1>3. k \in Directions /\ (l \in Directions \/ (n = d /\ l = "LOCAL"))
  BY <1>1 DEF Turns, XYZ, ZXY, WestFirst, NorthLast, Productive, AlongX, AlongY,
              AlongZ, Directions, Lateral
<1>4. <<t, k>> \in Channels /\ <<n, l>> \in Channels
  BY <1>1, <1>3 DEF Channels
<1> DEFINE Higher == \/ Phase(alg, <<t, k>>) < Phase(alg, <<n, l>>)
                     \/ /\ Phase(alg, <<t, k>>) = Phase(alg, <<n, l>>)
                        /\ Place(<<t, k>>) < Place(<<n, l>>)
<1>5. l = "LOCAL" => Higher
  BY <1>2, <1>3, MeshAssumption DEF Phase, Phases, Directions, Lateral
<1>6. ASSUME l # "LOCAL", alg = "ZXY" PROVE Higher
  <2>1. n # d /\ k \in ZXY(t, d) /\ l \in ZXY(n, d)
    BY <1>1, <1>6 DEF Turns
  <2> QED
    BY <1>1, <1>2, <1>6, <2>1, MeshAssumption
       DEF ZXY, AlongX, AlongY, AlongZ, Step, Phase, Place
<1>7. ASSUME l # "LOCAL", alg = "WEST_FIRST" PROVE Higher
  <2>1. n # d /\ k \in WestFirst(t, d) /\ l \in WestFirst(n, d)
    BY <1>1, <1>7 DEF Turns
  <2> QED
    BY <1>1, <1>2, <1>7, <2>1, MeshAssumption
       DEF WestFirst, XYZ, Productive, AlongX, AlongY, AlongZ, Step, Phase, Place
<1>8. ASSUME l # "LOCAL", alg = "NORTH_LAST" PROVE Higher
  <2>1. n # d /\ k \in NorthLast(t, d) /\ l \in NorthLast(n, d)
    BY <1>1, <1>8 DEF Turns
  <2> QED
    BY <1>1, <1>2, <1>8, <2>1, MeshAssumption
       DEF NorthLast, XYZ, AlongX, AlongY, AlongZ, Step, Phase, Place
<1>9. ASSUME l # "LOCAL", alg = "XYZ" PROVE Higher
  <2>1. n # d /\ k \in XYZ(t, d) /\ l \in XYZ(n, d)
    BY <1>1, <1>9 DEF Turns
  <2> QED
    BY <1>1, <1>2, <1>9, <2>1, MeshAssumption
       DEF XYZ, AlongX, AlongY, AlongZ, Step, Phase, Place
<1>10. Higher
  BY <1>5, <1>6, <1>7, <1>8, <1>9 DEF TurnModels
<1> QED
  BY <1>4, <1>10, RankBelow DEF n

-----------------------------------------------------------------------------
(***************************************************************************)
(* The inductive invariant.  Every header stands where its output brings   *)
(* it closer to the destination; a path is made of channels of the mesh    *)
(* that join up, each closer than the one before it; the buffers hold      *)
(* packets that hold, or have left with their header, the channel; and a   *)
(* packet whose header left a buffer is the first one in it.               *)
(***************************************************************************)
Moving(p) == Injected(p) /\ ~Arrived(p)

Wanted(p) == <<At(Final(path[p])), out[p]>>

\* How far a packet to d that took channel c has still to go.
Away(d, c) == IF c[2] = "LOCAL" THEN 0 ELSE 1 + Distance(At(c), d)

Shapes == /\ path \in [Packets -> Seq(Channels)]
          /\ tail \in [Packets -> Nat]
          /\ \A p \in Packets : tail[p] <= Len(path[p])
          /\ out \in [Packets -> Directions \cup {"LOCAL", "none"}]
          /\ fifo \in [Channels -> Seq(Packets)]

Headed == \A p \in Packets : Moving(p) =>
  Closer(net.algorithm, Pkt(p).src, Pkt(p).dst, At(Final(path[p])), out[p])

Joined == \A p \in Packets : \A i \in 1 .. Len(path[p]) :
  /\ At(path[p][i]) \in Tiles
  /\ i > 1 => path[p][i][1] = At(path[p][i-1])

Closing == \A p \in Packets : \A i, j \in 1 .. Len(path[p]) :
  i < j => Away(Pkt(p).dst, path[p][j]) < Away(Pkt(p).dst, path[p][i])

Buffered == \A c \in Channels : \A j \in 1 .. Len(fifo[c]) :
  \E i \in 1 .. Len(path[fifo[c][j]]) : path[fifo[c][j]][i] = c

Present == \A p \in Packets : Moving(p) =>
  \E j \in 1 .. Len(fifo[Final(path[p])]) : fifo[Final(path[p])][j] = p

Leading == \A p \in Packets : \A i \in 1 .. Len(path[p]) - 1 :
  tail[p] <= i => /\ fifo[path[p][i]] # << >>
                  /\ Head(fifo[path[p][i]]) = p

PathInv == Shapes /\ Headed /\ Joined /\ Closing /\ Buffered /\ Present /\ Leading

\* Under the turn models, also: the ranks along a path grow, and so does that
\* of the channel that a header wants.
Routed == \A p \in Packets : Moving(p) =>
  /\ out[p] \in Turns(net.algorithm, At(Final(path[p])), Pkt(p).dst)
  /\ Rank(net.algorithm, Final(path[p])) < Rank(net.algorithm, Wanted(p))

Ranked == \A p \in Packets : \A i, j \in 1 .. Len(path[p]) :
  i < j => Rank(net.algorithm, path[p][i]) < Rank(net.algorithm, path[p][j])

RouteInv == PathInv /\ Routed /\ Ranked

IInv == /\ net \in Scenarios
        /\ Minimal => PathInv
        /\ TurnModel => RouteInv

LEMMA SeqFacts ==
  ASSUME NEW T, NEW s \in Seq(T), NEW e \in T
  PROVE  /\ Len(s) \in Nat
         /\ \A i \in 1 .. Len(s) : s[i] \in T
         /\ Append(s, e) \in Seq(T)
         /\ Append(s, e) # << >>
         /\ Len(Append(s, e)) = Len(s) + 1
         /\ \A i \in 1 .. Len(s) : Append(s, e)[i] = s[i]
         /\ Append(s, e)[Len(s) + 1] = e
         /\ Final(Append(s, e)) = e
         /\ s # << >> => /\ Len(s) > 0 /\ Final(s) \in T /\ Final(s) = s[Len(s)]
                         /\ Head(s) = s[1] /\ Tail(s) \in Seq(T)
                         /\ Head(Append(s, e)) = Head(s)
                         /\ Len(Tail(s)) = Len(s) - 1
                         /\ \A i \in 1 .. Len(s) - 1 : Tail(s)[i] = s[i + 1]
         /\ s = << >> => Len(s) = 0 /\ Head(Append(s, e)) = e
<1>1. Len(s) \in Nat /\ \A i \in 1 .. Len(s) : s[i] \in T
  OBVIOUS
<1>2. /\ Append(s, e) \in Seq(T) /\ Append(s, e) # << >>
      /\ Len(Append(s, e)) = Len(s) + 1
      /\ \A i \in 1 .. Len(s) : Append(s, e)[i] = s[i]
      /\ Append(s, e)[Len(s) + 1] = e
  OBVIOUS
<1>3. Final(Append(s, e)) = e
  BY <1>1, <1>2 DEF Final
<1>4. ASSUME s # << >>
      PROVE  /\ Len(s) > 0 /\ Final(s) \in T /\ Final(s) = s[Len(s)]
             /\ Head(s) = s[1] /\ Tail(s) \in Seq(T)
             /\ Head(Append(s, e)) = Head(s)
             /\ Len(Tail(s)) = Len(s) - 1
             /\ \A i \in 1 .. Len(s) - 1 : Tail(s)[i] = s[i + 1]
  BY <1>4 DEF Final
<1>5. ASSUME s = << >>
      PROVE  Len(s) = 0 /\ Head(Append(s, e)) = e
  BY <1>5
<1> QED
  BY <1>1, <1>2, <1>3, <1>4, <1>5

LEMMA Scenario ==
  ASSUME IInv, NEW p \in Packets
  PROVE  Pkt(p).src \in Tiles /\ Pkt(p).dst \in Tiles
BY ScenarioAssumption DEF IInv, Pkt

LEMMA InitInv == Init => IInv
<1> SUFFICES ASSUME Init PROVE IInv
  OBVIOUS
<1>1. Shapes
  BY DEF Init, Shapes
<1>2. \A p \in Packets : ~Moving(p) /\ path[p] = << >> /\ Len(path[p]) = 0
  BY DEF Init, Moving, Injected
<1>3. \A c \in Channels : fifo[c] = << >> /\ Len(fifo[c]) = 0
  BY DEF Init
<1>4. Headed /\ Joined /\ Closing /\ Buffered /\ Present /\ Leading
  BY <1>2, <1>3 DEF Headed, Joined, Closing, Buffered, Present, Leading
<1>5. Routed /\ Ranked
  BY <1>2 DEF Routed, Ranked
<1> QED
  BY <1>1, <1>4, <1>5 DEF IInv, PathInv, RouteInv, Init

-----------------------------------------------------------------------------
\* A channel that the header of p is the next to take.
Takes(p, c) == \/ ~Injected(p) /\ c = <<Pkt(p).src, "PE">>
               \/ AtFront(p) /\ c = Wanted(p)

\* It is closer to the destination than the last one, and joins up with it.
LEMMA NextChannel ==
  ASSUME IInv, PathInv, NEW p \in Packets, NEW c, Takes(p, c)
  PROVE  /\ c \in Channels /\ At(c) \in Tiles
         /\ c[2] # "LOCAL" =>
              At(c) \in {Pkt(p).src} \cup Field(net.algorithm, Pkt(p).src, Pkt(p).dst)
         /\ Away(Pkt(p).dst, c) \in Nat
         /\ Len(path[p]) \in Nat
         /\ Len(path[p]) > 0 => /\ c[1] = At(path[p][Len(path[p])])
                                /\ Away(Pkt(p).dst, c)
                                     < Away(Pkt(p).dst, path[p][Len(path[p])])
                                /\ AtFront(p) /\ c = Wanted(p)
<1> DEFINE s == Pkt(p).src
           d == Pkt(p).dst
           L == Len(path[p])
           e == path[p][L]
<1>0. s \in Tiles /\ d \in Tiles
  BY Scenario
<1>1. path[p] \in Seq(Channels) /\ L \in Nat
  BY DEF PathInv, Shapes
<1>2. CASE ~Injected(p) /\ c = <<s, "PE">>
  <2>1. L = 0
    BY <1>2 DEF Injected
  <2>2. c \in Channels /\ At(c) = s /\ c[2] = "PE"
    BY <1>0, <1>2 DEF Channels, At, Directions, Lateral
  <2>3. Distance(At(c), d) \in Nat
    BY <1>0, <2>2, DistanceFalls
  <2> QED
    BY <1>0, <1>1, <2>1, <2>2, <2>3 DEF Away
<1>3. CASE AtFront(p) /\ c = Wanted(p)
  <2>1. Moving(p) /\ path[p] # << >> /\ L > 0 /\ e = Final(path[p]) /\ e[2] # "LOCAL"
    BY <1>1, <1>3 DEF AtFront, Moving, Injected, Arrived, Final
  <2>2. Closer(net.algorithm, s, d, c[1], c[2]) /\ c = <<c[1], c[2]>> /\ c[1] = At(e)
    BY <1>3, <2>1 DEF PathInv, Headed, Wanted
  <2>3. At(e) \in Tiles
    BY <1>1, <2>1 DEF PathInv, Joined
  <2>4. Distance(At(e), d) \in Nat /\ Away(Pkt(p).dst, e) = 1 + Distance(At(e), d)
    BY <1>0, <2>1, <2>3, DistanceFalls DEF Away
  <2>5. CASE c[1] = d
    <3>1. c[2] = "LOCAL"
      BY <2>2, <2>5 DEF Closer
    <3>2. At(c) = d /\ c \in Channels /\ Away(Pkt(p).dst, c) = 0
      BY <1>0, <2>2, <2>5, <3>1 DEF At, Away, Channels, Directions, Lateral
    <3> QED
      BY <1>0, <1>1, <1>3, <2>2, <2>4, <3>1, <3>2
  <2>6. CASE c[1] # d
    <3>1. /\ c[2] \in Productive(c[1], d)
          /\ Neighbor(c[1], c[2]) \in Field(net.algorithm, s, d)
      BY <2>2, <2>6 DEF Closer
    <3>2. c[2] \in Directions /\ Distance(Neighbor(c[1], c[2]), d) = Distance(c[1], d) - 1
      BY <1>0, <2>2, <2>3, <3>1, DistanceFalls
    <3>3. At(c) = Neighbor(c[1], c[2]) /\ c \in Channels /\ c[2] # "LOCAL"
      BY <2>2, <2>3, <3>2 DEF At, Channels, Directions, Lateral
    <3>4. At(c) \in Tiles
      BY <3>1, <3>3 DEF Field, OnXYZ, Cube
    <3>5. Distance(At(c), d) \in Nat /\ Away(Pkt(p).dst, c) = 1 + Distance(At(c), d)
      BY <1>0, <3>3, <3>4, DistanceFalls DEF Away
    <3> QED
      BY <1>1, <1>3, <2>2, <2>4, <3>1, <3>2, <3>3, <3>4, <3>5
  <2> QED
    BY <2>5, <2>6
<1> QED
  BY <1>2, <1>3 DEF Takes

\* What changes when a header reserves a channel.
Longer(p, c) ==
  /\ path'[p] = Append(path[p], c)
  /\ path' \in [Packets -> Seq(Channels)]
  /\ Len(path[p]) \in Nat /\ Final(path'[p]) = c
  /\ path'[p][Len(path[p]) + 1] = c
  /\ \A q \in Packets :
       /\ Len(path[q]) \in Nat
       /\ \A i \in 1 .. Len(path[q]) : path'[q][i] = path[q][i]
       /\ Len(path'[q]) = IF q = p THEN Len(path[p]) + 1 ELSE Len(path[q])
       /\ q # p => path'[q] = path[q] /\ out'[q] = out[q]
  /\ tail' = tail /\ net' = net
  /\ c[2] # "LOCAL" => out'[p] \in Compute(p, At(c))
  /\ Moving(p)' <=> c[2] # "LOCAL"
  /\ \A q \in Packets : q # p => (Moving(q)' <=> Moving(q))

LEMMA ReserveLonger ==
  ASSUME Shapes, NEW p \in Packets, NEW c \in Channels, Reserve(p, c)
  PROVE  Longer(p, c)
<1>1. /\ path' = [path EXCEPT ![p] = Append(@, c)] /\ tail' = tail /\ net' = net
      /\ path \in [Packets -> Seq(Channels)] /\ path[p] \in Seq(Channels)
      /\ DOMAIN out = Packets
  BY DEF Reserve, Shapes
<1>2. path'[p] = Append(path[p], c)
  BY <1>1
<1>3. /\ path'[p] \in Seq(Channels) /\ path'[p] # << >>
      /\ Len(path'[p]) = Len(path[p]) + 1
      /\ \A i \in 1 .. Len(path[p]) : path'[p][i] = path[p][i]
      /\ path'[p][Len(path[p]) + 1] = c /\ Final(path'[p]) = c
      /\ Len(path[p]) \in Nat
  BY <1>1, <1>2, SeqFacts
<1>4. \A q \in Packets : q # p => path'[q] = path[q] /\ out'[q] = out[q]
  BY <1>1 DEF Reserve
<1>5. c[2] # "LOCAL" => out'[p] \in Compute(p, At(c))
  BY <1>1 DEF Reserve
<1>6. \A q \in Packets :
        /\ Len(path[q]) \in Nat
        /\ \A i \in 1 .. Len(path[q]) : path'[q][i] = path[q][i]
        /\ Len(path'[q]) = IF q = p THEN Len(path[p]) + 1 ELSE Len(path[q])
  BY <1>1, <1>3, <1>4, SeqFacts
<1>7. path' \in [Packets -> Seq(Channels)]
  BY <1>1, <1>3
<1>8. /\ Moving(p)' <=> c[2] # "LOCAL"
      /\ \A q \in Packets : q # p => (Moving(q)' <=> Moving(q))
  BY <1>3, <1>4 DEF Moving, Injected, Arrived
<1> QED
  BY <1>1, <1>2, <1>3, <1>4, <1>5, <1>6, <1>7, <1>8 DEF Longer

\* A packet that reserves the next channel of its path keeps the invariant.
LEMMA ReservePath ==
  ASSUME IInv, PathInv, Minimal, NEW p \in Packets, NEW c, Takes(p, c), Reserve(p, c)
  PROVE  PathInv'
<1> DEFINE s == Pkt(p).src
           d == Pkt(p).dst
           L == Len(path[p])
<1>0. s \in Tiles /\ d \in Tiles
  BY Scenario
<1>1. c \in Channels
  BY NextChannel
<1>2. /\ tail' = tail /\ net' = net
      /\ path \in [Packets -> Seq(Channels)] /\ fifo \in [Channels -> Seq(Packets)]
      /\ L \in Nat
  BY DEF Reserve, PathInv, Shapes
<1>3. Longer(p, c)
  BY <1>1, ReserveLonger DEF PathInv
<1>4. \A q \in Packets : q # p => path'[q] = path[q] /\ (out'[q] = out[q])
  BY <1>3 DEF Longer
<1>5. \A q \in Packets : Pkt(q)' = Pkt(q)
  BY <1>2 DEF Pkt
<1>6. /\ fifo' \in [Channels -> Seq(Packets)]
      /\ c[2] = "LOCAL" => fifo' = fifo
      /\ c[2] # "LOCAL" => fifo'[c] = Append(fifo[c], p)
      /\ \A b \in Channels : b # c => fifo'[b] = fifo[b]
  <2>1. CASE c[2] = "LOCAL"
    BY <1>2, <2>1 DEF Reserve
  <2>2. CASE c[2] # "LOCAL"
    <3>1. fifo' = [fifo EXCEPT ![c] = Append(fifo[c], p)]
      BY <2>2 DEF Reserve
    <3>2. Append(fifo[c], p) \in Seq(Packets)
      BY <1>1, <1>2
    <3> QED
      BY <1>1, <1>2, <2>2, <3>1, <3>2
  <2> QED
    BY <2>1, <2>2
<1>7. \A b \in Channels :
        /\ Len(fifo[b]) \in Nat /\ Len(fifo'[b]) \in Nat
        /\ Len(fifo'[b]) \in {Len(fifo[b]), Len(fifo[b]) + 1}
        /\ \A j \in 1 .. Len(fifo[b]) : fifo'[b][j] = fifo[b][j]
        /\ fifo[b] # << >> => fifo'[b] # << >> /\ Head(fifo'[b]) = Head(fifo[b])
        /\ Len(fifo'[b]) = Len(fifo[b]) + 1 =>
             b = c /\ fifo'[b][Len(fifo[b]) + 1] = p
  <2> SUFFICES ASSUME NEW b \in Channels
               PROVE
        /\ Len(fifo[b]) \in Nat /\ Len(fifo'[b]) \in Nat
        /\ Len(fifo'[b]) \in {Len(fifo[b]), Len(fifo[b]) + 1}
        /\ \A j \in 1 .. Len(fifo[b]) : fifo'[b][j] = fifo[b][j]
        /\ fifo[b] # << >> => fifo'[b] # << >> /\ Head(fifo'[b]) = Head(fifo[b])
        /\ Len(fifo'[b]) = Len(fifo[b]) + 1 =>
             b = c /\ fifo'[b][Len(fifo[b]) + 1] = p
    OBVIOUS
  <2>1. fifo[b] \in Seq(Packets) /\ Len(fifo[b]) \in Nat
    BY <1>2, SeqFacts
  <2>2. CASE fifo'[b] = fifo[b]
    BY <2>1, <2>2
  <2>3. CASE b = c /\ fifo'[b] = Append(fifo[b], p)
    BY <2>1, <2>3, SeqFacts
  <2> QED
    BY <1>6, <2>2, <2>3
<1>8. \A q \in Packets :
        /\ Len(path[q]) \in Nat
        /\ \A i \in 1 .. Len(path[q]) : path'[q][i] = path[q][i]
        /\ Len(path'[q]) = IF q = p THEN L + 1 ELSE Len(path[q])
  BY <1>3 DEF Longer
<1>9. /\ path'[p] = Append(path[p], c) /\ path'[p][L + 1] = c /\ Final(path'[p]) = c
      /\ path' \in [Packets -> Seq(Channels)]
  BY <1>3 DEF Longer
<1>10. /\ Moving(p)' <=> c[2] # "LOCAL"
       /\ \A q \in Packets : q # p => (Moving(q)' <=> Moving(q))
  BY <1>3 DEF Longer
<1>11. c[2] # "LOCAL" => Closer(net.algorithm, s, d, At(c), out'[p])
  <2> SUFFICES ASSUME c[2] # "LOCAL"
               PROVE  Closer(net.algorithm, s, d, At(c), out'[p])
    OBVIOUS
  <2>1. out'[p] \in Route(net.algorithm, net.dw_layer_sel, Pkt(p), At(c), At(c), net.shut)
    BY <1>3 DEF Longer, Compute
  <2>2. At(c) \in {s} \cup Field(net.algorithm, s, d)
    BY NextChannel
  <2>3. net.algorithm \in MinimalFunctions /\ Clear(Field(net.algorithm, s, d), net.shut)
    BY DEF Minimal
  <2> QED
    BY <1>0, <2>1, <2>2, <2>3, RouteCloser
<1>12. Shapes'
  <2>1. \A q \in Packets : tail'[q] <= Len(path'[q])
    <3>1. \A q \in Packets : tail'[q] \in Nat /\ tail'[q] <= Len(path[q])
      BY <1>2 DEF PathInv, Shapes
    <3> QED
      BY <1>8, <3>1
  <2>2. tail' \in [Packets -> Nat]
    BY <1>2 DEF PathInv, Shapes
  <2>3. out' \in [Packets -> Directions \cup {"LOCAL", "none"}]
    <3>1. CASE c[2] = "LOCAL"
      BY <3>1 DEF Reserve, PathInv, Shapes
    <3>2. CASE c[2] # "LOCAL"
      <4>1. At(c) \in Tiles
        BY NextChannel
      <4>2. out'[p] \in Directions \cup {"LOCAL"}
        BY <1>0, <1>11, <3>2, <4>1, DistanceFalls DEF Closer
      <4>3. \E k : out' = [out EXCEPT ![p] = k]
        BY <3>2 DEF Reserve
      <4> QED
        BY <4>2, <4>3 DEF PathInv, Shapes
    <3> QED
      BY <3>1, <3>2
  <2> QED
    BY <1>6, <1>9, <2>1, <2>2, <2>3 DEF Shapes
<1>16. Headed'
  <2> SUFFICES ASSUME NEW q \in Packets, Moving(q)'
               PROVE  Closer(net'.algorithm, Pkt(q)'.src, Pkt(q)'.dst,
                             At(Final(path'[q])), out'[q])
    BY DEF Headed, Closer, Field, Neighbor, At
  <2>1. CASE q # p
    <3>1. Moving(q) /\ path'[q] = path[q] /\ out'[q] = out[q]
      BY <1>4, <1>10, <2>1
    <3> QED
      BY <1>2, <1>5, <3>1 DEF PathInv, Headed
  <2>2. CASE q = p
    BY <1>2, <1>5, <1>9, <1>10, <1>11, <2>2
  <2> QED
    BY <2>1, <2>2
<1>17. Joined'
  <2> SUFFICES ASSUME NEW q \in Packets, NEW i \in 1 .. Len(path'[q])
               PROVE  /\ At(path'[q][i]) \in Tiles
                      /\ i > 1 => path'[q][i][1] = At(path'[q][i-1])
    BY DEF Joined, At
  <2>1. CASE i \in 1 .. Len(path[q])
    <3>1. i > 1 => i - 1 \in 1 .. Len(path[q])
      BY <1>8, <2>1
    <3> QED
      BY <1>8, <2>1, <3>1 DEF PathInv, Joined
  <2>2. CASE i \notin 1 .. Len(path[q])
    <3>1. q = p /\ i = L + 1 /\ path'[q][i] = c
      BY <1>8, <1>9, <2>2
    <3>2. i > 1 => L \in 1 .. L /\ i - 1 = L /\ path'[p][L] = path[p][L]
      BY <1>2, <1>8, <3>1
    <3> QED
      BY <1>2, <3>1, <3>2, NextChannel
  <2> QED
    BY <2>1, <2>2
<1>18. Closing'
  <2> SUFFICES ASSUME NEW q \in Packets, NEW i \in 1 .. Len(path'[q]),
                      NEW j \in 1 .. Len(path'[q]), i < j
               PROVE  Away(Pkt(q)'.dst, path'[q][j]) < Away(Pkt(q)'.dst, path'[q][i])
    BY DEF Closing
  <2>1. i \in 1 .. Len(path[q]) /\ path'[q][i] = path[q][i]
    BY <1>8
  <2>2. CASE j \in 1 .. Len(path[q])
    <3>1. /\ path'[q][j] = path[q][j]
          /\ Away(Pkt(q).dst, path[q][j]) < Away(Pkt(q).dst, path[q][i])
      BY <1>8, <2>1, <2>2 DEF PathInv, Closing
    <3> QED
      BY <1>5, <2>1, <3>1
  <2>3. CASE j \notin 1 .. Len(path[q])
    <3>1. q = p /\ path'[q][j] = c /\ L > 0 /\ L \in 1 .. L
      <4>1. q = p /\ j = L + 1
        BY <1>2, <1>8, <2>3
      <4>2. L > 0 /\ L \in 1 .. L
        BY <1>2, <2>1, <4>1
      <4> QED
        BY <1>9, <4>1, <4>2
    <3>2. Away(Pkt(p).dst, c) < Away(Pkt(p).dst, path[p][L])
      BY <3>1, NextChannel
    <3>3. i = L \/ Away(Pkt(p).dst, path[p][L]) < Away(Pkt(p).dst, path[p][i])
      BY <1>2, <2>1, <3>1 DEF PathInv, Closing
    <3>4. Away(d, c) \in Nat /\ Away(d, path[p][L]) \in Nat /\ Away(d, path[p][i]) \in Nat
      <4>1. At(path[p][L]) \in Tiles /\ At(path[p][i]) \in Tiles
        BY <2>1, <3>1 DEF PathInv, Joined
      <4>2. Distance(At(path[p][L]), d) \in Nat /\ Distance(At(path[p][i]), d) \in Nat
        BY <1>0, <4>1, DistanceFalls
      <4> QED
        BY <4>2, NextChannel DEF Away
    <3>5. Away(Pkt(p).dst, c) < Away(Pkt(p).dst, path[p][i])
      BY <3>2, <3>3, <3>4
    <3> QED
      BY <1>5, <2>1, <3>1, <3>5
  <2> QED
    BY <2>2, <2>3
<1>13. Buffered'
  <2> SUFFICES ASSUME NEW b \in Channels, NEW j \in 1 .. Len(fifo'[b])
               PROVE  \E i \in 1 .. Len(path'[fifo'[b][j]]) : path'[fifo'[b][j]][i] = b
    BY DEF Buffered
  <2>1. CASE j \in 1 .. Len(fifo[b])
    <3>1. fifo'[b][j] = fifo[b][j] /\ fifo[b][j] \in Packets
      BY <1>2, <1>7, <2>1
    <3>2. PICK i \in 1 .. Len(path[fifo[b][j]]) : path[fifo[b][j]][i] = b
      BY <2>1 DEF PathInv, Buffered
    <3> QED
      BY <1>8, <3>1, <3>2
  <2>2. CASE j \notin 1 .. Len(fifo[b])
    <3>1. b = c /\ fifo'[b][j] = p
      BY <1>7, <2>2
    <3>2. L + 1 \in 1 .. Len(path'[p]) /\ path'[p][L + 1] = c
      BY <1>2, <1>8, <1>9
    <3> QED
      BY <3>1, <3>2
  <2> QED
    BY <2>1, <2>2
<1>14. Present'
  <2> SUFFICES ASSUME NEW q \in Packets, Moving(q)'
               PROVE  \E j \in 1 .. Len(fifo'[Final(path'[q])]) :
                        fifo'[Final(path'[q])][j] = q
    BY DEF Present
  <2>1. CASE q # p
    <3>1. Moving(q) /\ path'[q] = path[q] /\ Final(path[q]) \in Channels
      BY <1>2, <1>4, <1>10, <2>1, SeqFacts DEF Moving, Injected
    <3>2. PICK j \in 1 .. Len(fifo[Final(path[q])]) : fifo[Final(path[q])][j] = q
      BY <3>1 DEF PathInv, Present
    <3> QED
      BY <1>7, <3>1, <3>2
  <2>2. CASE q = p
    <3>1. Final(path'[q]) = c /\ fifo'[c] = Append(fifo[c], p) /\ fifo[c] \in Seq(Packets)
      BY <1>1, <1>2, <1>6, <1>9, <1>10, <2>2
    <3> QED
      BY <2>2, <3>1, SeqFacts
  <2> QED
    BY <2>1, <2>2
<1>15. Leading'
  <2> SUFFICES ASSUME NEW q \in Packets, NEW i \in 1 .. Len(path'[q]) - 1,
                      tail'[q] <= i
               PROVE  fifo'[path'[q][i]] # << >> /\ Head(fifo'[path'[q][i]]) = q
    BY DEF Leading
  <2>1. i \in 1 .. Len(path[q]) /\ path'[q][i] = path[q][i] /\ path[q][i] \in Channels
    <3>1. path[q] \in Seq(Channels)
      BY <1>2
    <3>2. i \in 1 .. Len(path[q])
      <4>1. Len(path[q]) \in Nat /\ Len(path'[q]) \in {Len(path[q]), Len(path[q]) + 1}
        BY <1>8
      <4> QED
        BY <4>1
    <3>3. path[q][i] \in Channels
      BY <3>1, <3>2
    <3>4. path'[q][i] = path[q][i]
      BY <1>8, <3>2
    <3> QED
      BY <3>2, <3>3, <3>4
  <2>2. fifo[path[q][i]] # << >> /\ Head(fifo[path[q][i]]) = q
    <3>1. CASE i \in 1 .. Len(path[q]) - 1
      BY <1>2, <3>1 DEF PathInv, Leading
    <3>2. CASE i \notin 1 .. Len(path[q]) - 1
      <4>1. q = p /\ i = L
        BY <1>8, <2>1, <3>2
      <4>2. path[p] # << >> /\ AtFront(p)
        BY <1>2, <2>1, <4>1, NextChannel DEF Injected
      <4>3. Final(path[p]) = path[q][i] /\ Head(fifo[path[q][i]]) = q
        BY <4>1, <4>2 DEF AtFront, Final
      <4>4. \E j \in 1 .. Len(fifo[Final(path[p])]) : fifo[Final(path[p])][j] = p
        BY <4>2 DEF PathInv, Present, Moving, AtFront
      <4>5. fifo[path[q][i]] # << >>
        BY <4>3, <4>4
      <4> QED
        BY <4>3, <4>5
    <3> QED
      BY <3>1, <3>2
  <2> QED
    BY <1>7, <2>1, <2>2
<1> QED
  BY <1>12, <1>13, <1>14, <1>15, <1>16, <1>17, <1>18 DEF PathInv

\* Under the turn models its rank is higher, too.
LEMMA ReserveOrdered ==
  ASSUME IInv, RouteInv, TurnModel, NEW p \in Packets, NEW c,
         Takes(p, c), Reserve(p, c)
  PROVE  Routed' /\ Ranked'
<1> DEFINE s == Pkt(p).src
           d == Pkt(p).dst
           L == Len(path[p])
           alg == net.algorithm
<1>0. s \in Tiles /\ d \in Tiles /\ alg \in TurnModels
  BY Scenario DEF TurnModel
<1>1. /\ c \in Channels /\ At(c) \in Tiles
      /\ c[2] # "LOCAL" => At(c) \in {s} \cup Field(alg, s, d)
      /\ L \in Nat /\ (L > 0 => AtFront(p) /\ c = Wanted(p))
  BY NextChannel DEF RouteInv
<1>2. \A i \in 1 .. L : Rank(alg, path[p][i]) < Rank(alg, c)
  <2>1. path[p] \in Seq(Channels)
    BY DEF RouteInv, PathInv, Shapes
  <2> SUFFICES ASSUME NEW i \in 1 .. L PROVE Rank(alg, path[p][i]) < Rank(alg, c)
    OBVIOUS
  <2>2. L > 0 /\ L \in 1 .. L /\ c = Wanted(p)
    BY <1>1
  <2>3. Rank(alg, path[p][L]) < Rank(alg, c)
    BY <1>1, <2>2 DEF RouteInv, Routed, AtFront, Moving, Final
  <2>4. i < L => Rank(alg, path[p][i]) < Rank(alg, path[p][L])
    BY <2>2 DEF RouteInv, Ranked
  <2>5. path[p][i] \in Channels /\ path[p][L] \in Channels
    BY <2>1, <2>2
  <2>6. /\ Rank(alg, path[p][i]) \in 0 .. Top /\ Rank(alg, path[p][L]) \in 0 .. Top
        /\ Rank(alg, c) \in 0 .. Top /\ Top \in Nat
    BY <1>1, <2>5, RankType
  <2> HIDE DEF alg
  <2> QED
    BY <1>1, <2>2, <2>3, <2>4, <2>6
<1>3. Longer(p, c)
  BY <1>1, ReserveLonger DEF RouteInv, PathInv
<1>4. /\ path'[p][L + 1] = c /\ Final(path'[p]) = c /\ net' = net
      /\ c[2] # "LOCAL" => out'[p] \in Compute(p, At(c))
      /\ \A q \in Packets : q # p => path'[q] = path[q] /\ (out'[q] = out[q])
  BY <1>3 DEF Longer
<1>5. \A q \in Packets :
        /\ Len(path[q]) \in Nat
        /\ \A i \in 1 .. Len(path[q]) : path'[q][i] = path[q][i]
        /\ Len(path'[q]) = IF q = p THEN L + 1 ELSE Len(path[q])
  BY <1>3 DEF Longer
<1>6. /\ Moving(p)' <=> c[2] # "LOCAL"
      /\ \A q \in Packets : q # p => (Moving(q)' <=> Moving(q))
  BY <1>3 DEF Longer
<1>7. ASSUME c[2] # "LOCAL"
      PROVE  /\ out'[p] \in Turns(alg, At(c), d)
             /\ Rank(alg, c) < Rank(alg, <<At(c), out'[p]>>)
  <2> DEFINE k == out'[p]
  <2>1. k \in Route(alg, net.dw_layer_sel, Pkt(p), At(c), At(c), net.shut)
    BY <1>4, <1>7 DEF Compute
  <2>2. Clear(Field(alg, s, d), net.shut) /\ alg \in MinimalFunctions
    BY DEF TurnModel, Minimal
  <2>3. At(c) = d => k = "LOCAL"
    BY <2>1 DEF Route
  <2>4. At(c) # d => k \in Turns(alg, At(c), d)
    <3>1. At(c) # d =>
            k \in RoutingFunction(alg, net.dw_layer_sel, Pkt(p), At(c), At(c), net.shut)
      BY <1>0, <1>1, <1>7, <2>1, <2>2, RouteCloser
    <3> HIDE DEF k, alg
    <3> QED
      BY <1>0, <3>1, RoutingTurns
  <2>5. k \in Turns(alg, At(c), d)
    BY <2>3, <2>4 DEF Turns
  <2>6. CASE c = <<s, "PE">>
    <3>1. k = "LOCAL" \/ k \in Directions
      BY <2>5 DEF Turns, XYZ, ZXY, WestFirst, NorthLast, Productive, AlongX, AlongY,
                  AlongZ, Directions, Lateral
    <3>2. <<At(c), k>> \in Channels
      BY <1>1, <3>1 DEF Channels
    <3>3. Phase(alg, c) = 0 /\ Place(c) = 0
      BY <2>6 DEF Phase, Place
    <3>4. \/ Phase(alg, <<At(c), k>>) > 0
          \/ Phase(alg, <<At(c), k>>) = 0 /\ Place(<<At(c), k>>) > 0
      <4>1. /\ At(c).x \in 0 .. DimX - 1 /\ At(c).y \in 0 .. DimY - 1
            /\ At(c).z \in 0 .. DimZ - 1
        BY <1>1, TileFields
      <4> HIDE DEF k, alg
      <4> QED
        BY <3>1, <4>1, MeshAssumption DEF Phase, Phases, Place, Directions, Lateral
    <3>5. Rank(alg, c) < Rank(alg, <<At(c), k>>)
      <4> HIDE DEF k, alg
      <4> QED BY <1>1, <3>2, <3>3, <3>4, RankBelow
    <3> QED
      BY <2>5, <3>5
  <2>7. CASE AtFront(p) /\ c = Wanted(p)
    <3>1. c[2] \in Turns(alg, c[1], d) /\ c = <<c[1], c[2]>> /\ c[1] \in Tiles
      BY <1>1, <2>7 DEF AtFront, Moving, RouteInv, Routed, Wanted, Channels
    <3>2. c[1] # d
      BY <1>7, <3>1 DEF Turns
    <3>3. c[2] \in Directions
      BY <3>1, <3>2 DEF Turns, XYZ, ZXY, WestFirst, NorthLast, Productive, AlongX,
                        AlongY, AlongZ, Directions, Lateral
    <3>4. At(c) = Neighbor(c[1], c[2])
      BY <3>3 DEF At
    <3>5. Rank(alg, <<c[1], c[2]>>) < Rank(alg, <<At(c), k>>)
      <4> HIDE DEF k, alg
      <4> QED BY <1>0, <1>1, <2>5, <3>1, <3>2, <3>4, RankGrows
    <3> QED
      BY <2>5, <3>1, <3>5
  <2> QED
    BY <2>5, <2>6, <2>7 DEF Takes
<1>8. Routed'
  <2> SUFFICES ASSUME NEW q \in Packets, Moving(q)'
               PROVE  /\ (out[q] \in Turns(net.algorithm, At(Final(path[q])), Pkt(q).dst))'
                      /\ (Rank(net.algorithm, Final(path[q]))
                            < Rank(net.algorithm, Wanted(q)))'
    BY DEF Routed
  <2>1. CASE q # p
    <3>1. Moving(q) /\ path'[q] = path[q] /\ out'[q] = out[q] /\ Pkt(q)' = Pkt(q)
      BY <1>4, <1>6, <2>1 DEF Pkt
    <3> QED
      BY <1>4, <3>1 DEF RouteInv, Routed, Wanted
  <2>2. CASE q = p
    <3>1. c[2] # "LOCAL" /\ Final(path'[p]) = c /\ Pkt(p)' = Pkt(p)
      BY <1>4, <1>6, <2>2 DEF Pkt
    <3> QED
      BY <1>4, <1>7, <2>2, <3>1 DEF Wanted
  <2> QED
    BY <2>1, <2>2
<1>9. Ranked'
  <2> SUFFICES ASSUME NEW q \in Packets, NEW i \in 1 .. Len(path'[q]),
                      NEW j \in 1 .. Len(path'[q]), i < j
               PROVE  Rank(alg, path'[q][i]) < Rank(alg, path'[q][j])
    BY <1>4 DEF Ranked
  <2>1. i \in 1 .. Len(path[q])
    BY <1>5
  <2>2. CASE j \in 1 .. Len(path[q])
    BY <1>5, <2>1, <2>2 DEF RouteInv, Ranked
  <2>3. CASE j \notin 1 .. Len(path[q])
    BY <1>2, <1>4, <1>5, <2>1, <2>3
  <2> QED
    BY <2>2, <2>3
<1> QED
  BY <1>8, <1>9

\* So does a tail: the flits that leave a buffer are those of its first packet.
LEMMA TailInv ==
  ASSUME IInv, PathInv, NEW p \in Packets, TailLeaves(p)
  PROVE  PathInv' /\ (Routed /\ Ranked => Routed' /\ Ranked')
<1> DEFINE b == path[p][tail[p]]
<1>1. /\ path \in [Packets -> Seq(Channels)] /\ fifo \in [Channels -> Seq(Packets)]
      /\ tail \in [Packets -> Nat] /\ tail[p] < Len(path[p])
      /\ path' = path /\ out' = out /\ net' = net
      /\ tail' = [tail EXCEPT ![p] = tail[p] + 1]
      /\ \A q \in Packets : Len(path[q]) \in Nat
      /\ \A q \in Packets : \A i \in 1 .. Len(path[q]) : path[q][i] \in Channels
  BY DEF TailLeaves, PathInv, Shapes
<1>2. \A q \in Packets : Moving(q)' <=> Moving(q)
  BY <1>1 DEF Moving, Injected, Arrived
<1>7. Headed'
  BY <1>1, <1>2 DEF PathInv, Headed, Pkt, Closer, Field
<1>8. Joined'
  BY <1>1 DEF PathInv, Joined, At
<1>9. Closing'
  BY <1>1 DEF PathInv, Closing, Pkt
<1>10. Routed /\ Ranked => Routed' /\ Ranked'
  BY <1>1 DEF Routed, Ranked, Moving, Injected, Arrived, Wanted, Pkt
<1>3. \A q \in Packets : tail'[q] \in Nat /\ tail[q] <= tail'[q]
                         /\ tail'[q] <= Len(path'[q])
  BY <1>1 DEF PathInv, Shapes
<1>4. tail' \in [Packets -> Nat]
  BY <1>1
<1>5. CASE tail[p] = 0
  <2>1. fifo' = fifo
    BY <1>5 DEF TailLeaves
  <2>2. Shapes' /\ Buffered'
    BY <1>1, <1>3, <1>4, <2>1 DEF PathInv, Shapes, Buffered
  <2>3. Present'
    BY <1>1, <1>2, <2>1 DEF PathInv, Present
  <2>4. Leading'
    <3> SUFFICES ASSUME NEW q \in Packets, NEW i \in 1 .. Len(path[q]) - 1,
                        tail'[q] <= i
                 PROVE  fifo[path[q][i]] # << >> /\ Head(fifo[path[q][i]]) = q
      BY <1>1, <2>1 DEF Leading
    <3>1. tail[q] <= i
      BY <1>1, <1>3
    <3> QED
      BY <3>1 DEF PathInv, Leading
  <2> QED
    BY <1>7, <1>8, <1>9, <1>10, <2>2, <2>3, <2>4 DEF PathInv
<1>6. CASE tail[p] # 0
  <2>1. /\ tail[p] \in 1 .. Len(path[p]) - 1 /\ b \in Channels
        /\ fifo[b] # << >> /\ Head(fifo[b]) = p
    <3>1. tail[p] \in 1 .. Len(path[p]) - 1 /\ tail[p] \in 1 .. Len(path[p])
      BY <1>1, <1>6
    <3>2. tail[p] <= tail[p]
      BY <1>1
    <3> QED
      BY <1>1, <3>1, <3>2 DEF PathInv, Leading
  <2>2. fifo' = [fifo EXCEPT ![b] = Tail(fifo[b])]
    BY <1>6 DEF TailLeaves
  <2> HIDE DEF b
  <2>3. /\ fifo[b] \in Seq(Packets) /\ fifo'[b] = Tail(fifo[b])
        /\ \A a \in Channels : a # b => fifo'[a] = fifo[a]
    BY <1>1, <2>1, <2>2
  <2>4. /\ Tail(fifo[b]) \in Seq(Packets) /\ Len(fifo[b]) \in Nat
        /\ Len(fifo'[b]) = Len(fifo[b]) - 1 /\ fifo[b][1] = p
        /\ \A j \in 1 .. Len(fifo[b]) - 1 : fifo'[b][j] = fifo[b][j + 1]
    BY <2>1, <2>3, SeqFacts
  <2>5. Shapes'
    <3>1. fifo' \in [Channels -> Seq(Packets)]
      BY <1>1, <2>2, <2>4
    <3> QED
      BY <1>1, <1>3, <1>4, <3>1 DEF PathInv, Shapes
  <2>6. Buffered'
    <3> SUFFICES ASSUME NEW a \in Channels, NEW j \in 1 .. Len(fifo'[a])
                 PROVE  \E i \in 1 .. Len(path[fifo'[a][j]]) : path[fifo'[a][j]][i] = a
      <4>1. path' = path
        BY <1>1
      <4> QED
        BY <4>1 DEF Buffered
    <3>1. CASE a # b
      <4>1. fifo'[a] = fifo[a]
        BY <2>3, <3>1
      <4> QED
        BY <4>1 DEF PathInv, Buffered
    <3>2. CASE a = b
      <4>1. fifo'[a][j] = fifo[a][j + 1] /\ j + 1 \in 1 .. Len(fifo[a])
        BY <2>4, <3>2
      <4> QED
        BY <4>1 DEF PathInv, Buffered
    <3> QED
      BY <3>1, <3>2
  \* p holds the channel of b no more, and comes to no channel twice.
  <2>7. \A i \in 1 .. Len(path[p]) : i > tail[p] => path[p][i] # b
    <3> SUFFICES ASSUME NEW i \in 1 .. Len(path[p]), i > tail[p], path[p][i] = b
                 PROVE  FALSE
      OBVIOUS
    <3>1. tail[p] \in 1 .. Len(path[p]) /\ tail[p] < i
      BY <1>1, <2>1
    <3>2. Away(Pkt(p).dst, path[p][i]) < Away(Pkt(p).dst, path[p][tail[p]])
      BY <3>1 DEF PathInv, Closing
    <3>3. Away(Pkt(p).dst, path[p][i]) \in Nat
      <4>1. At(path[p][i]) \in Tiles
        BY DEF PathInv, Joined
      <4> QED
        BY <4>1, Scenario, DistanceFalls DEF Away
    <3> QED
      BY <3>2, <3>3 DEF b
  <2>8. Present'
    <3> SUFFICES ASSUME NEW q \in Packets, Moving(q)
                 PROVE  \E j \in 1 .. Len(fifo'[Final(path[q])]) :
                          fifo'[Final(path[q])][j] = q
      BY <1>1, <1>2 DEF Present
    <3>1. PICK j \in 1 .. Len(fifo[Final(path[q])]) : fifo[Final(path[q])][j] = q
      BY DEF PathInv, Present
    <3>2. Final(path[q]) = path[q][Len(path[q])] /\ Final(path[q]) \in Channels
          /\ Len(path[q]) \in 1 .. Len(path[q])
      BY <1>1 DEF Final, Moving, Injected
    <3>3. CASE Final(path[q]) # b
      BY <2>3, <3>1, <3>2, <3>3
    <3>4. CASE Final(path[q]) = b
      <4>1. q # p
        BY <1>1, <2>7, <3>2, <3>4
      <4>2. j # 1 /\ j - 1 \in 1 .. Len(fifo[b]) - 1
        BY <2>4, <3>1, <3>4, <4>1
      <4>3. fifo'[b][j - 1] = q /\ j - 1 \in 1 .. Len(fifo'[b])
        BY <2>4, <3>1, <3>4, <4>2
      <4> QED
        BY <3>4, <4>3
    <3> QED
      BY <3>3, <3>4
  <2>9. Leading'
    <3> SUFFICES ASSUME NEW q \in Packets, NEW i \in 1 .. Len(path[q]) - 1,
                        tail'[q] <= i
                 PROVE  fifo'[path[q][i]] # << >> /\ Head(fifo'[path[q][i]]) = q
      BY <1>1 DEF Leading
    <3>1. tail[q] <= i /\ tail[q] \in Nat /\ tail'[q] \in Nat
      BY <1>1, <1>3
    <3>2. path[q][i] \in Channels /\ fifo[path[q][i]] # << >>
          /\ Head(fifo[path[q][i]]) = q
      BY <1>1, <3>1 DEF PathInv, Leading
    <3>3. path[q][i] # b
      <4>1. CASE q # p
        BY <2>1, <3>2, <4>1
      <4>2. CASE q = p
        <5>1. tail'[p] = tail[p] + 1 /\ tail[p] \in Nat /\ i \in 1 .. Len(path[p])
          BY <1>1, <4>2
        <5>2. i > tail[p]
          BY <4>2, <5>1
        <5> QED
          BY <2>7, <4>2, <5>1, <5>2
      <4> QED
        BY <4>1, <4>2
    <3> QED
      BY <2>3, <3>2, <3>3
  <2> QED
    BY <1>7, <1>8, <1>9, <1>10, <2>5, <2>6, <2>8, <2>9 DEF PathInv
<1> QED
  BY <1>5, <1>6, <1>10

LEMMA NextInv == IInv /\ [Next]_vars => IInv'
<1> SUFFICES ASSUME IInv, [Next]_vars PROVE IInv'
  OBVIOUS
<1>1. CASE UNCHANGED vars
  <2>1. net' = net /\ path' = path /\ tail' = tail /\ out' = out /\ fifo' = fifo
    BY <1>1 DEF vars
  <2>2. (TurnModel' <=> TurnModel) /\ (Minimal' <=> Minimal)
        /\ (Shapes' <=> Shapes)
    BY <2>1 DEF TurnModel, Minimal, Pkt, Shapes
  <2>3. (Routed' <=> Routed) /\ (Headed' <=> Headed)
    BY <2>1 DEF Routed, Headed, Moving, Injected, Arrived, Wanted, Pkt
  <2>4. (Ranked' <=> Ranked) /\ (Buffered' <=> Buffered)
    BY <2>1 DEF Ranked, Buffered
  <2>5. (Present' <=> Present) /\ (Leading' <=> Leading)
    BY <2>1 DEF Present, Leading, Moving, Injected, Arrived
  <2>6. (Joined' <=> Joined) /\ (Closing' <=> Closing)
    BY <2>1 DEF Joined, Closing, Away, Pkt
  <2> QED
    BY <2>1, <2>2, <2>3, <2>4, <2>5, <2>6 DEF IInv, PathInv, RouteInv
<1>2. ASSUME NEW p \in Packets, Inject(p) \/ Advance(p) \/ TailLeaves(p)
      PROVE  IInv'
  <2>1. net' = net
    BY <1>2 DEF Inject, Advance, TailLeaves, Reserve
  <2>2. (TurnModel' <=> TurnModel) /\ (Minimal' <=> Minimal)
    BY <2>1 DEF TurnModel, Minimal, Pkt
  <2>3. (\E c : Takes(p, c) /\ Reserve(p, c)) \/ TailLeaves(p)
    BY <1>2 DEF Inject, Advance, Takes, Wanted
  <2>4. ASSUME Minimal PROVE PathInv'
    <3>1. PathInv
      BY <2>4 DEF IInv
    <3> QED
      BY <2>3, <2>4, <3>1, ReservePath, TailInv
  <2>5. ASSUME TurnModel PROVE Routed' /\ Ranked'
    <3>1. RouteInv
      BY <2>5 DEF IInv
    <3>2. PathInv /\ Routed /\ Ranked
      BY <3>1 DEF RouteInv
    <3> QED
      BY <2>3, <2>5, <3>1, <3>2, ReserveOrdered, TailInv
  <2> QED
    BY <2>1, <2>2, <2>4, <2>5 DEF IInv, RouteInv, TurnModel
<1> QED
  BY <1>1, <1>2 DEF Next, Rest

\* Under the minimal functions no header is ever without an output, and each
\* one leads closer to its destination; under the turn models the ranks along
\* every path grow as well.
THEOREM RoutesStayOrdered == Spec => []IInv
BY InitInv, NextInv, PTL DEF Spec

(***************************************************************************)
(* Under the minimal functions, a path is made of channels of the mesh     *)
(* that join up, and the buffers hold the packets of the network: no       *)
(* router sends a flit past the border (NoximRouter.cpp, 667-700).         *)
(***************************************************************************)
THEOREM MinimalTypeOK == Spec => [](Minimal => TypeOK)
<1>1. PathInv => TypeOK
  <2> SUFFICES ASSUME PathInv PROVE TypeOK
    OBVIOUS
  <2>1. \A p \in Packets : DOMAIN path[p] = 1 .. Len(path[p])
    BY DEF PathInv, Shapes
  <2> QED
    BY <2>1 DEF PathInv, Shapes, Joined, TypeOK
<1>2. IInv => (Minimal => TypeOK)
  BY <1>1 DEF IInv
<1> QED
  BY <1>2, RoutesStayOrdered, PTL

(***************************************************************************)
(* Under the minimal functions, no packet comes to a router twice,          *)
(* whatever candidate the selection strategy takes.                                 *)
(***************************************************************************)
THEOREM MinimalLoopless == Spec => [](Minimal => Loopless)
<1>1. ASSUME IInv, PathInv PROVE Loopless
  <2>1. \A p \in Packets : DOMAIN path[p] = 1 .. Len(path[p]) /\ Len(path[p]) \in Nat
    BY <1>1 DEF PathInv, Shapes
  <2> SUFFICES ASSUME NEW p \in Packets, NEW i \in 1 .. Len(path[p]),
                      NEW j \in 1 .. Len(path[p]), i < j,
                      At(path[p][i]) = At(path[p][j])
               PROVE  j = Len(path[p]) /\ path[p][j][2] = "LOCAL"
    BY <2>1 DEF Loopless
  <2>2. \A k \in 1 .. Len(path[p]) :
          /\ Distance(At(path[p][k]), Pkt(p).dst) \in Nat
          /\ Away(Pkt(p).dst, path[p][k]) \in Nat
    <3>1. \A k \in 1 .. Len(path[p]) : At(path[p][k]) \in Tiles
      BY <1>1 DEF PathInv, Joined
    <3>2. Pkt(p).dst \in Tiles
      BY <1>1, Scenario
    <3> QED
      BY <3>1, <3>2, DistanceFalls DEF Away
  <2>3. Away(Pkt(p).dst, path[p][j]) < Away(Pkt(p).dst, path[p][i])
    BY <1>1 DEF PathInv, Closing
  <2>4. path[p][j][2] = "LOCAL"
    BY <2>2, <2>3 DEF Away
  <2>5. j < Len(path[p]) => FALSE
    <3> SUFFICES ASSUME j < Len(path[p]) PROVE FALSE
      OBVIOUS
    <3>1. Len(path[p]) \in 1 .. Len(path[p])
      BY <2>1
    <3>2. Away(Pkt(p).dst, path[p][Len(path[p])]) < Away(Pkt(p).dst, path[p][j])
      BY <1>1, <3>1 DEF PathInv, Closing
    <3>3. Away(Pkt(p).dst, path[p][j]) = 0
      BY <2>4 DEF Away
    <3> QED
      BY <2>2, <3>1, <3>2, <3>3
  <2> QED
    BY <2>1, <2>4, <2>5
<1>2. IInv => (Minimal => Loopless)
  BY <1>1 DEF IInv
<1> QED
  BY <1>2, RoutesStayOrdered, PTL

-----------------------------------------------------------------------------
(***************************************************************************)
(* Who waits for whom: a packet that is not in front waits for one that    *)
(* is, or whose header went on to a higher channel; one in front waits for *)
(* a packet on a higher channel.                                           *)
(***************************************************************************)
Progress(p) == 2 * Rank(net.algorithm, Final(path[p])) + (IF AtFront(p) THEN 1 ELSE 0)

LEMMA ProgressType ==
  ASSUME RouteInv, NEW p \in Packets, Moving(p)
  PROVE  /\ Progress(p) \in 0 .. 2 * Top + 1 /\ Top \in Nat
         /\ path[p] \in Seq(Channels) /\ Len(path[p]) \in 1 .. Len(path[p])
         /\ Final(path[p]) = path[p][Len(path[p])] /\ Final(path[p]) \in Channels
         /\ Rank(net.algorithm, Final(path[p])) \in 0 .. Top
<1>1. /\ path[p] \in Seq(Channels) /\ Len(path[p]) \in 1 .. Len(path[p])
      /\ Final(path[p]) = path[p][Len(path[p])] /\ Final(path[p]) \in Channels
  BY DEF RouteInv, PathInv, Shapes, Moving, Injected, Final
<1>2. Rank(net.algorithm, Final(path[p])) \in 0 .. Top /\ Top \in Nat
  BY <1>1, RankType, MeshAssumption DEF Top
<1> QED
  BY <1>1, <1>2 DEF Progress

LEMMA WaitsForHigher ==
  ASSUME RouteInv, NEW p \in Packets, NEW q \in Packets,
         WaitsFor(p, q), Moving(q)
  PROVE  Progress(p) < Progress(q)
<1>1. Moving(p)
  BY DEF WaitsFor, Moving
<1>2. /\ Rank(net.algorithm, Final(path[p])) \in 0 .. Top /\ Rank(net.algorithm, Final(path[q])) \in 0 .. Top
      /\ Top \in Nat /\ Len(path[q]) \in 1 .. Len(path[q])
      /\ Final(path[q]) = path[q][Len(path[q])]
      /\ Final(path[p]) \in Channels
  BY <1>1, ProgressType
\* The channels of q's path are ranked no higher than the last.
<1>3. ASSUME NEW i \in 1 .. Len(path[q])
      PROVE  \/ i = Len(path[q])
             \/ Rank(net.algorithm, path[q][i]) < Rank(net.algorithm, Final(path[q]))
  BY <1>2 DEF RouteInv, Ranked
<1>4. CASE ~AtFront(p) /\ q = Head(fifo[Final(path[p])])
  <2> DEFINE c == Final(path[p])
  <2>1. fifo[c] \in Seq(Packets) /\ fifo[c] # << >>
    BY <1>1, <1>2 DEF RouteInv, PathInv, Shapes, Present
  <2>2. 1 \in 1 .. Len(fifo[c]) /\ fifo[c][1] = q
    BY <1>4, <2>1
  <2>3. PICK i \in 1 .. Len(path[q]) : path[q][i] = c
    BY <1>2, <2>2 DEF RouteInv, PathInv, Buffered
  <2>4. CASE i = Len(path[q])
    <3>1. Final(path[q]) = c
      BY <1>2, <2>3, <2>4
    <3>2. AtFront(q)
      BY <1>4, <3>1 DEF AtFront, Moving
    <3> QED
      BY <1>2, <1>4, <3>1, <3>2 DEF Progress
  <2>5. CASE Rank(net.algorithm, path[q][i]) < Rank(net.algorithm, Final(path[q]))
    BY <1>2, <1>4, <2>3, <2>5 DEF Progress
  <2> QED
    BY <1>3, <2>4, <2>5
<1>5. CASE AtFront(p) /\ Wanted(p) \in Held(q)
  <2>1. PICK i \in tail[q] + 1 .. Len(path[q]) : path[q][i] = Wanted(p)
    BY <1>5 DEF Held
  <2>2. i \in 1 .. Len(path[q])
    BY <1>2, <2>1 DEF RouteInv, PathInv, Shapes
  <2>3. Rank(net.algorithm, Final(path[p])) < Rank(net.algorithm, Wanted(p))
    BY <1>1 DEF RouteInv, Routed
  <2>4. Rank(net.algorithm, Wanted(p)) \in 0 .. Top
    BY <2>1, <2>2, RankType DEF RouteInv, PathInv, Shapes
  <2>5. Rank(net.algorithm, Wanted(p)) <= Rank(net.algorithm, Final(path[q]))
    BY <1>2, <1>3, <2>1, <2>2, <2>4
  <2> QED
    BY <1>2, <2>3, <2>4, <2>5 DEF Progress
<1> QED
  BY <1>4, <1>5 DEF WaitsFor, Wanted

\* Some packet of S is further than none of those it waits for.
LEMMA WaitsEnd == RouteInv => NoCyclicWait
<1> SUFFICES ASSUME RouteInv, NEW S \in (SUBSET Packets) \ {{}},
                    \A p \in S : \E q \in S : WaitsFor(p, q)
             PROVE  FALSE
  BY DEF NoCyclicWait
<1>1. \A p \in S : p \in Packets /\ Moving(p) /\ Progress(p) \in 0 .. 2 * Top + 1
                   /\ Top \in Nat
  BY ProgressType DEF WaitsFor, Moving
<1> DEFINE T == {2 * Top + 1 - Progress(p) : p \in S}
<1>2. T \subseteq Nat /\ T # {}
  BY <1>1
<1> HIDE DEF T
<1>3. PICK n \in T : \A m \in T : n <= m
  BY <1>2, Least
<1>4. PICK p \in S : n = 2 * Top + 1 - Progress(p)
  BY <1>3 DEF T
<1>5. PICK q \in S : WaitsFor(p, q)
  BY <1>4
<1>6. Progress(p) < Progress(q)
  BY <1>1, <1>5, WaitsForHigher
<1>7. 2 * Top + 1 - Progress(q) \in T /\ 2 * Top + 1 - Progress(q) < n
  BY <1>1, <1>4, <1>6 DEF T
<1>8. \A m \in T : m \in Nat /\ n \in Nat /\ ~(m < n)
  BY <1>2, <1>3
<1> QED
  BY <1>7, <1>8

(***************************************************************************)
(* The dimension orders, west-first and north-last never make packets wait *)
(* for each other in a cycle, in three dimensions as well: routingXYZ,     *)
(* routingZXY, routingWestFirst and routingNorthLast (NoximRouter.cpp,     *)
(* 1230-1251, 1359-1428), for packets that TLA admits.                     *)
(***************************************************************************)
THEOREM TurnModelsNeverDeadlock == Spec => [](TurnModel => NoCyclicWait)
<1>1. IInv => (TurnModel => NoCyclicWait)
  BY WaitsEnd DEF IInv
<1> QED
  BY <1>1, RoutesStayOrdered, PTL
=============================================================================
