----------------------- MODULE NoximTransport_proofs -----------------------
(***************************************************************************)
(* Facts about the XYZ path of a packet, in a mesh of any size, and about  *)
(* what route makes of it.                                                 *)
(***************************************************************************)
EXTENDS NoximTransport, CountingLemmas

\* Output k at tile t is where XYZ sends a packet from s to d.
OnRoute(s, d, t, k) ==
  /\ t \in {s} \cup OnXYZ(s, d)
  /\ IF t = d THEN k = "LOCAL" ELSE k \in XYZ(t, d)

\* The six directions in which XYZ may send a packet.
Heads(t, d, k) ==
  \/ k = "EAST"  /\ t.x < d.x
  \/ k = "WEST"  /\ d.x < t.x
  \/ k = "SOUTH" /\ t.x = d.x /\ t.y < d.y
  \/ k = "NORTH" /\ t.x = d.x /\ d.y < t.y
  \/ k = "DOWN"  /\ t.x = d.x /\ t.y = d.y /\ t.z < d.z
  \/ k = "UP"    /\ t.x = d.x /\ t.y = d.y /\ d.z < t.z

LEMMA TileFields ==
  ASSUME NEW t \in Tiles
  PROVE  /\ t = [x |-> t.x, y |-> t.y, z |-> t.z]
         /\ t.x \in 0 .. DimX - 1 /\ t.y \in 0 .. DimY - 1 /\ t.z \in 0 .. DimZ - 1
         /\ t.x \in Int /\ t.y \in Int /\ t.z \in Int
BY MeshAssumption DEF Tiles

LEMMA XYZHeads ==
  ASSUME NEW t \in Tiles, NEW d \in Tiles, NEW k
  PROVE  /\ k \in XYZ(t, d) <=> Heads(t, d, k)
         /\ t # d => \E l : Heads(t, d, l)
<1>1. k \in XYZ(t, d) <=> Heads(t, d, k)
  BY TileFields DEF XYZ, AlongX, AlongY, AlongZ, Heads
<1>2. ASSUME t # d PROVE \E l : Heads(t, d, l)
  <2>1. t.x # d.x \/ t.y # d.y \/ t.z # d.z
    BY <1>2, TileFields
  <2> QED
    BY <2>1, TileFields DEF Heads
<1> QED
  BY <1>1, <1>2

LEMMA HeadsUnique ==
  ASSUME NEW t \in Tiles, NEW d \in Tiles, NEW k, NEW l,
         Heads(t, d, k), Heads(t, d, l)
  PROVE  k = l /\ t # d /\ k \in Directions /\ k # "LOCAL"
BY TileFields DEF Heads, Directions, Lateral

\* Before the destination there is one direction that leads to it.
LEMMA OnRouteTile ==
  ASSUME NEW s \in Tiles, NEW d \in Tiles, NEW t, NEW k, OnRoute(s, d, t, k)
  PROVE  /\ t \in Tiles
         /\ t = d => k = "LOCAL"
         /\ k # "LOCAL" => t # d /\ k \in Directions /\ Heads(t, d, k)
<1>1. t \in Tiles
  BY DEF OnRoute, OnXYZ, Cube
<1>2. CASE t = d
  BY <1>1, <1>2 DEF OnRoute
<1>3. CASE t # d
  <2>1. Heads(t, d, k)
    BY <1>1, <1>3, XYZHeads DEF OnRoute
  <2> QED
    BY <1>1, <1>3, <2>1, HeadsUnique
<1> QED
  BY <1>2, <1>3

\* The next tile of the XYZ path is on it too.
LEMMA OnRouteStep ==
  ASSUME NEW s \in Tiles, NEW d \in Tiles, NEW t, NEW k, OnRoute(s, d, t, k),
         k # "LOCAL"
  PROVE  Neighbor(t, k) \in OnXYZ(s, d)
<1>1. t \in Tiles /\ Heads(t, d, k)
  BY OnRouteTile
<1>2. t \in {s} \cup OnXYZ(s, d)
  BY DEF OnRoute
<1>3. /\ t.x \in (s.x .. d.x) \cup (d.x .. s.x)
      /\ t.y \in (s.y .. d.y) \cup (d.y .. s.y)
      /\ t.z \in (s.z .. d.z) \cup (d.z .. s.z)
      /\ \/ t.y = s.y /\ t.z = s.z
         \/ t.x = d.x /\ t.z = s.z
         \/ t.x = d.x /\ t.y = d.y
  BY <1>2, TileFields DEF OnXYZ, Cube, Between, SameColumn
<1> DEFINE n == Neighbor(t, k)
<1>4. /\ n = [x |-> n.x, y |-> n.y, z |-> n.z]
      /\ n.x = t.x + Step(k, "EAST", "WEST")
      /\ n.y = t.y + Step(k, "SOUTH", "NORTH")
      /\ n.z = t.z + Step(k, "DOWN", "UP")
  BY DEF Neighbor
<1> HIDE DEF n
<1>5. /\ n.x \in 0 .. DimX - 1 /\ n.y \in 0 .. DimY - 1 /\ n.z \in 0 .. DimZ - 1
      /\ n.x \in (s.x .. d.x) \cup (d.x .. s.x)
      /\ n.y \in (s.y .. d.y) \cup (d.y .. s.y)
      /\ n.z \in (s.z .. d.z) \cup (d.z .. s.z)
      /\ \/ n.y = s.y /\ n.z = s.z
         \/ n.x = d.x /\ n.z = s.z
         \/ n.x = d.x /\ n.y = d.y
      /\ n.x # s.x \/ n.y # s.y \/ n.z # s.z
  <2>1. /\ s.x \in 0 .. DimX - 1 /\ s.y \in 0 .. DimY - 1 /\ s.z \in 0 .. DimZ - 1
        /\ d.x \in 0 .. DimX - 1 /\ d.y \in 0 .. DimY - 1 /\ d.z \in 0 .. DimZ - 1
        /\ t.x \in 0 .. DimX - 1 /\ t.y \in 0 .. DimY - 1 /\ t.z \in 0 .. DimZ - 1
    BY <1>1, TileFields
  <2>2. CASE k = "EAST"
    BY <1>1, <1>3, <1>4, <2>1, <2>2, MeshAssumption DEF Heads, Step
  <2>3. CASE k = "WEST"
    BY <1>1, <1>3, <1>4, <2>1, <2>3, MeshAssumption DEF Heads, Step
  <2>4. CASE k = "SOUTH"
    BY <1>1, <1>3, <1>4, <2>1, <2>4, MeshAssumption DEF Heads, Step
  <2>5. CASE k = "NORTH"
    BY <1>1, <1>3, <1>4, <2>1, <2>5, MeshAssumption DEF Heads, Step
  <2>6. CASE k = "DOWN"
    BY <1>1, <1>3, <1>4, <2>1, <2>6, MeshAssumption DEF Heads, Step
  <2>7. CASE k = "UP"
    BY <1>1, <1>3, <1>4, <2>1, <2>7, MeshAssumption DEF Heads, Step
  <2> QED
    BY <1>1, <2>2, <2>3, <2>4, <2>5, <2>6, <2>7 DEF Heads
<1>6. n \in Tiles
  BY <1>4, <1>5 DEF Tiles
<1> QED
  BY <1>5, <1>6 DEF OnXYZ, Cube, Between, SameColumn, n

(***************************************************************************)
(* If the XYZ path is clear, a router that routes by XYZ finds its one     *)
(* output whatever else is throttled.                                      *)
(***************************************************************************)
LEMMA RouteAlong ==
  ASSUME NEW alg, NEW sel, NEW p, NEW shut, NEW t, p.src \in Tiles, p.dst \in Tiles,
         Clear(OnXYZ(p.src, p.dst), shut),
         t \in {p.src} \cup OnXYZ(p.src, p.dst),
         RoutingFunction(alg, sel, p, t, t, shut) = XYZ(t, p.dst)
  PROVE  \E k : /\ Route(alg, sel, p, t, t, shut) = {k}
                /\ OnRoute(p.src, p.dst, t, k)
<1>1. CASE t = p.dst
  <2>1. Route(alg, sel, p, t, t, shut) = {"LOCAL"}
    BY <1>1 DEF Route
  <2> QED
    BY <1>1, <2>1 DEF OnRoute
<1>2. CASE t # p.dst
  <2>1. t \in Tiles
    BY DEF OnXYZ, Cube
  <2>2. PICK l : Heads(t, p.dst, l)
    BY <1>2, <2>1, XYZHeads
  <2>3. OnRoute(p.src, p.dst, t, l) /\ l # "LOCAL" /\ XYZ(t, p.dst) = {l}
    BY <1>2, <2>1, <2>2, XYZHeads, HeadsUnique DEF OnRoute
  <2>4. Neighbor(t, l) \in OnXYZ(p.src, p.dst)
    BY <2>3, OnRouteStep
  <2>5. l \notin Off(t, shut)
    BY <2>4 DEF Off, Clear, OnXYZ, Cube
  <2>6. Route(alg, sel, p, t, t, shut) = {l}
    BY <1>2, <2>3, <2>5 DEF Route
  <2> QED
    BY <2>3, <2>6
<1> QED
  BY <1>1, <1>2

LEMMA RouteXYZ ==
  ASSUME NEW sel, NEW p, NEW shut, NEW t, p.src \in Tiles, p.dst \in Tiles,
         Clear(OnXYZ(p.src, p.dst), shut),
         t \in {p.src} \cup OnXYZ(p.src, p.dst),
         NEW k \in Route("XYZ", sel, p, t, t, shut)
  PROVE  OnRoute(p.src, p.dst, t, k)
<1>1. RoutingFunction("XYZ", sel, p, t, t, shut) = XYZ(t, p.dst)
  BY DEF RoutingFunction
<1> QED
  BY <1>1, RouteAlong

-----------------------------------------------------------------------------
(***************************************************************************)
(* The functions that only ever take a packet closer to its destination,   *)
(* the tiles that TLA checks for them, and where they lead.                *)
(***************************************************************************)
MinimalFunctions ==
  {"XYZ", "ZXY", "WEST_FIRST", "NORTH_LAST", "NEGATIVE_FIRST", "FULLY_ADAPTIVE"}

Field(alg, s, d) == IF alg = "XYZ" THEN OnXYZ(s, d) ELSE Cube(s, d)

Closer(alg, s, d, t, k) ==
  /\ t \in {s} \cup Field(alg, s, d)
  /\ IF t = d THEN k = "LOCAL"
     ELSE /\ k \in Productive(t, d)
          /\ Neighbor(t, k) \in Field(alg, s, d)

Gap(i, j) == IF i < j THEN j - i ELSE i - j

Distance(t, d) == Gap(t.x, d.x) + Gap(t.y, d.y) + Gap(t.z, d.z)

LEMMA DistanceFalls ==
  ASSUME NEW t \in Tiles, NEW d \in Tiles
  PROVE  /\ Distance(t, d) \in Nat
         /\ \A k \in Productive(t, d) :
              k \in Directions /\ Distance(Neighbor(t, k), d) = Distance(t, d) - 1
<1>1. /\ t.x \in Int /\ t.y \in Int /\ t.z \in Int
      /\ d.x \in Int /\ d.y \in Int /\ d.z \in Int
  BY TileFields
<1>2. Distance(t, d) \in Nat
  BY <1>1 DEF Distance, Gap
<1>3. ASSUME NEW k \in Productive(t, d)
      PROVE  k \in Directions /\ Distance(Neighbor(t, k), d) = Distance(t, d) - 1
  <2> DEFINE n == Neighbor(t, k)
  <2>1. /\ n.x = t.x + Step(k, "EAST", "WEST")
        /\ n.y = t.y + Step(k, "SOUTH", "NORTH")
        /\ n.z = t.z + Step(k, "DOWN", "UP")
    BY DEF Neighbor
  <2> HIDE DEF n
  <2>2. Distance(n, d) = Distance(t, d) - 1
    BY <1>1, <2>1 DEF Productive, AlongX, AlongY, AlongZ, Step, Distance, Gap
  <2> QED
    BY <2>2 DEF n, Productive, AlongX, AlongY, AlongZ, Directions, Lateral
<1> QED
  BY <1>2, <1>3

\* A step towards the destination stays among the tiles of minimal paths.
LEMMA CubeStep ==
  ASSUME NEW s \in Tiles, NEW d \in Tiles, NEW t \in Cube(s, d),
         NEW k \in Productive(t, d)
  PROVE  Neighbor(t, k) \in Cube(s, d)
<1>1. t \in Tiles /\ Between(t.x, s.x, d.x) /\ Between(t.y, s.y, d.y)
      /\ Between(t.z, s.z, d.z)
  BY DEF Cube
<1>2. /\ s.x \in 0 .. DimX - 1 /\ s.y \in 0 .. DimY - 1 /\ s.z \in 0 .. DimZ - 1
      /\ d.x \in 0 .. DimX - 1 /\ d.y \in 0 .. DimY - 1 /\ d.z \in 0 .. DimZ - 1
      /\ t.x \in 0 .. DimX - 1 /\ t.y \in 0 .. DimY - 1 /\ t.z \in 0 .. DimZ - 1
  BY <1>1, TileFields
<1> DEFINE n == Neighbor(t, k)
<1>3. /\ n = [x |-> n.x, y |-> n.y, z |-> n.z]
      /\ n.x = t.x + Step(k, "EAST", "WEST")
      /\ n.y = t.y + Step(k, "SOUTH", "NORTH")
      /\ n.z = t.z + Step(k, "DOWN", "UP")
  BY DEF Neighbor
<1> HIDE DEF n
<1>4. /\ n.x \in 0 .. DimX - 1 /\ n.y \in 0 .. DimY - 1 /\ n.z \in 0 .. DimZ - 1
      /\ Between(n.x, s.x, d.x) /\ Between(n.y, s.y, d.y) /\ Between(n.z, s.z, d.z)
  BY <1>1, <1>2, <1>3, MeshAssumption
     DEF Productive, AlongX, AlongY, AlongZ, Step, Between
<1>5. n \in Tiles
  BY <1>3, <1>4 DEF Tiles
<1> QED
  BY <1>4, <1>5 DEF Cube, n

\* Each of these functions has an output before the destination.
LEMMA SomeCloser ==
  ASSUME NEW alg \in MinimalFunctions, NEW sel, NEW p, NEW shut,
         NEW t \in Tiles, p.dst \in Tiles, t # p.dst
  PROVE  /\ RoutingFunction(alg, sel, p, t, t, shut) \subseteq Productive(t, p.dst)
         /\ RoutingFunction(alg, sel, p, t, t, shut) # {}
<1> DEFINE d == p.dst
           F == RoutingFunction(alg, sel, p, t, t, shut)
<1>1. /\ t.x \in Int /\ t.y \in Int /\ t.z \in Int
      /\ d.x \in Int /\ d.y \in Int /\ d.z \in Int
      /\ t.x # d.x \/ t.y # d.y \/ t.z # d.z
  BY TileFields
<1>2. /\ XYZ(t, d) # {} /\ XYZ(t, d) \subseteq Productive(t, d)
      /\ t.x # d.x => AlongX(t, d) # {}
      /\ t.y # d.y => AlongY(t, d) # {}
      /\ t.z # d.z => AlongZ(t, d) # {}
  BY <1>1 DEF XYZ, AlongX, AlongY, AlongZ, Productive
<1>3. CASE alg = "XYZ"
  BY <1>2, <1>3 DEF RoutingFunction
<1>4. CASE alg = "ZXY"
  <2>1. F = ZXY(t, d)
    BY <1>4 DEF RoutingFunction
  <2> QED
    BY <1>1, <1>2, <2>1 DEF ZXY, Productive
<1>5. CASE alg = "WEST_FIRST"
  <2>1. F = WestFirst(t, d)
    BY <1>5 DEF RoutingFunction
  <2> QED
    BY <1>1, <1>2, <2>1 DEF WestFirst, Productive
<1>6. CASE alg = "NORTH_LAST"
  <2>1. F = NorthLast(t, d)
    BY <1>6 DEF RoutingFunction
  <2> QED
    BY <1>1, <1>2, <2>1 DEF NorthLast, Productive
<1>7. CASE alg = "NEGATIVE_FIRST"
  <2>1. F = NegativeFirst(t, d)
    BY <1>7 DEF RoutingFunction
  <2> QED
    BY <1>1, <1>2, <2>1 DEF NegativeFirst, Productive
<1>8. CASE alg = "FULLY_ADAPTIVE"
  <2>1. F = FullyAdaptive(t, d)
    BY <1>8 DEF RoutingFunction
  <2> QED
    BY <1>1, <1>2, <2>1 DEF FullyAdaptive, Productive
<1> QED
  BY <1>3, <1>4, <1>5, <1>6, <1>7, <1>8 DEF MinimalFunctions

(***************************************************************************)
(* If the tiles that TLA checks are clear, every output of a router on the *)
(* way brings the packet closer to its destination, and keeps it on them.  *)
(***************************************************************************)
LEMMA RouteCloser ==
  ASSUME NEW alg \in MinimalFunctions, NEW sel, NEW p, NEW shut, NEW t,
         p.src \in Tiles, p.dst \in Tiles,
         Clear(Field(alg, p.src, p.dst), shut),
         t \in {p.src} \cup Field(alg, p.src, p.dst),
         NEW k \in Route(alg, sel, p, t, t, shut)
  PROVE  /\ Closer(alg, p.src, p.dst, t, k)
         /\ t # p.dst => k \in RoutingFunction(alg, sel, p, t, t, shut)
<1> DEFINE s == p.src
           d == p.dst
           F == RoutingFunction(alg, sel, p, t, t, shut)
<1>1. CASE alg = "XYZ"
  <2>1. OnRoute(s, d, t, k)
    BY <1>1, RouteXYZ DEF Field
  <2>2. t # d => k # "LOCAL"
    BY <2>1, OnRouteTile, XYZHeads DEF OnRoute, Heads
  <2>3. t # d => Neighbor(t, k) \in OnXYZ(s, d)
    BY <2>1, <2>2, OnRouteStep
  <2>4. XYZ(t, d) \subseteq Productive(t, d)
    BY DEF XYZ, Productive
  <2>5. F = XYZ(t, d)
    BY <1>1 DEF RoutingFunction
  <2> QED
    BY <1>1, <2>1, <2>3, <2>4, <2>5 DEF Closer, Field, OnRoute
<1>2. CASE alg # "XYZ" /\ t # d
  <2>1. t \in Cube(s, d) /\ t \in Tiles
    BY <1>2, TileFields DEF Field, Cube, Between
  <2>2. F \subseteq Productive(t, d) /\ F # {}
    BY <1>2, <2>1, SomeCloser
  <2>3. \A l \in F : Neighbor(t, l) \in Cube(s, d) /\ l \notin Off(t, shut)
    <3> SUFFICES ASSUME NEW l \in F
                 PROVE  Neighbor(t, l) \in Cube(s, d) /\ l \notin Off(t, shut)
      OBVIOUS
    <3>1. Neighbor(t, l) \in Cube(s, d)
      BY <2>1, <2>2, CubeStep
    <3> QED
      BY <1>2, <3>1 DEF Off, Clear, Cube, Field
  <2>4. Route(alg, sel, p, t, t, shut) = F
    BY <1>2, <2>2, <2>3 DEF Route
  <2> QED
    BY <1>2, <2>1, <2>2, <2>3, <2>4 DEF Closer, Field
<1>3. CASE t = d
  BY <1>3 DEF Closer, Route
<1> QED
  BY <1>1, <1>2, <1>3

-----------------------------------------------------------------------------
(***************************************************************************)
(* The functions that go up only in the column of the destination: their   *)
(* other candidates lead to a tile of the same layer or of the one below.  *)
(***************************************************************************)
LateUp == {"XYZ", "WEST_FIRST", "NORTH_LAST", "NEGATIVE_FIRST", "ODD_EVEN_Z",
           "DOWNWARD", "ODD_EVEN_DOWNWARD", "WEST_FIRST_DOWNWARD",
           "DLADR", "DLAR", "DLDR"}

Fit(t, d, k) == \/ k \in Lateral /\ Neighbor(t, k) \in Tiles
                \/ k = "DOWN" /\ t.z < DimZ - 1
                \/ k = "UP" /\ SameColumn(t, d) /\ d.z < t.z

Fits(t, d, outs) == outs # {} /\ \A k \in outs : Fit(t, d, k)

\* What TLA makes of a message: its layer is one of the mesh, or none.
Sent(alg, p) ==
  /\ p.src \in Tiles /\ p.dst \in Tiles
  /\ p.layer \in Int /\ p.layer < DimZ
  /\ alg \in {"DLADR", "DLAR", "DLDR"} =>
       p.routing \in {"WEST_FIRST", "XYZ", "DOWNWARD_CROSS_LAYER"}

LEMMA ProductiveTile ==
  ASSUME NEW t \in Tiles, NEW d \in Tiles, NEW k \in Productive(t, d)
  PROVE  Neighbor(t, k) \in Tiles
<1>1. t \in Cube(t, d)
  BY TileFields DEF Cube, Between
<1> QED
  BY <1>1, CubeStep DEF Cube

LEMMA AxesFit ==
  ASSUME NEW t \in Tiles, NEW d \in Tiles
  PROVE  /\ \A k \in AlongX(t, d) \cup AlongY(t, d) : Fit(t, d, k)
         /\ \A k \in AlongZ(t, d) : k = "DOWN" \/ SameColumn(t, d) => Fit(t, d, k)
         /\ t.x # d.x => AlongX(t, d) # {}
         /\ t.y # d.y => AlongY(t, d) # {}
         /\ t.z # d.z => AlongZ(t, d) # {}
<1>1. /\ t.x \in Int /\ t.y \in Int /\ t.z \in Int
      /\ d.x \in Int /\ d.y \in Int /\ d.z \in Int /\ d.z <= DimZ - 1 /\ DimZ \in Int
  BY TileFields, MeshAssumption
<1>2. \A k \in AlongX(t, d) \cup AlongY(t, d) : Fit(t, d, k)
  BY ProductiveTile DEF Productive, Fit, AlongX, AlongY, Lateral
<1>3. \A k \in AlongZ(t, d) : k = "DOWN" \/ SameColumn(t, d) => Fit(t, d, k)
  BY <1>1 DEF Fit, AlongZ
<1>4. /\ t.x # d.x => AlongX(t, d) # {}
      /\ t.y # d.y => AlongY(t, d) # {}
      /\ t.z # d.z => AlongZ(t, d) # {}
  BY <1>1 DEF AlongX, AlongY, AlongZ
<1> QED
  BY <1>2, <1>3, <1>4

LEMMA MinimalFit ==
  ASSUME NEW t \in Tiles, NEW d \in Tiles, t # d
  PROVE  /\ Fits(t, d, XYZ(t, d)) /\ Fits(t, d, WestFirst(t, d))
         /\ Fits(t, d, NorthLast(t, d)) /\ Fits(t, d, NegativeFirst(t, d))
         /\ SameColumn(t, d) => Fits(t, d, AlongZ(t, d))
<1>1. /\ t.x \in Int /\ t.y \in Int /\ t.z \in Int
      /\ d.x \in Int /\ d.y \in Int /\ d.z \in Int
      /\ t.x # d.x \/ t.y # d.y \/ t.z # d.z
  BY TileFields
<1>2. SameColumn(t, d) => Fits(t, d, AlongZ(t, d))
  BY <1>1, AxesFit DEF Fits, SameColumn
<1>3. Fits(t, d, XYZ(t, d))
  BY <1>1, <1>2, AxesFit DEF Fits, XYZ, SameColumn
<1>4. Fits(t, d, WestFirst(t, d))
  <2>1. CASE d.x > t.x /\ d.y # t.y /\ d.z >= t.z
    <3>1. \A k \in AlongZ(t, d) : k = "DOWN"
      BY <1>1, <2>1 DEF AlongZ
    <3>2. Fits(t, d, Productive(t, d))
      BY <1>1, <2>1, <3>1, AxesFit DEF Fits, Productive
    <3> QED
      BY <2>1, <3>2 DEF WestFirst
  <2>2. CASE ~(d.x > t.x /\ d.y # t.y /\ d.z >= t.z)
    BY <1>3, <2>2 DEF WestFirst
  <2> QED
    BY <2>1, <2>2
<1>5. t.x # d.x => Fits(t, d, AlongX(t, d) \cup AlongY(t, d))
  BY AxesFit DEF Fits
<1>6. Fits(t, d, NorthLast(t, d)) /\ Fits(t, d, NegativeFirst(t, d))
  BY <1>1, <1>3, <1>5 DEF NorthLast, NegativeFirst
<1> QED
  BY <1>2, <1>3, <1>4, <1>6

\* Odd-even always has a candidate: a packet that may not turn may go on.
LEMMA OddEvenFits ==
  ASSUME NEW t \in Tiles, NEW d \in Tiles, NEW s
  PROVE  /\ ~SameColumn(t, d) => Fits(t, d, OddEven(t, s, d))
         /\ t # d => Fits(t, d, OddEvenZ(t, s, d))
<1>1. /\ t.x \in Int /\ t.y \in Int /\ t.z \in Int
      /\ d.x \in Int /\ d.y \in Int /\ d.z \in Int
  BY TileFields
<1>2. ASSUME ~SameColumn(t, d) PROVE Fits(t, d, OddEven(t, s, d))
  <2>1. t.x # d.x \/ t.y # d.y
    BY <1>2 DEF SameColumn
  <2>2. MayTurn(t.x, s.x) \/ MayGoOn(t.x, d.x)
    BY <1>1 DEF MayTurn, MayGoOn, Odd
  <2>3. OddEven(t, s, d) \subseteq AlongX(t, d) \cup AlongY(t, d)
    BY <1>1, <2>1 DEF OddEven, AlongX, AlongY
  <2>4. OddEven(t, s, d) # {}
    <3>1. CASE t.x = d.x \/ d.x < t.x
      BY <3>1 DEF OddEven
    <3>2. CASE t.x # d.x /\ ~(d.x < t.x)
      <4>1. CASE d.y = t.y
        BY <3>2, <4>1 DEF OddEven
      <4>2. CASE d.y # t.y
        <5>1. AlongY(t, d) # {}
          BY <4>2, AxesFit
        <5>2. OddEven(t, s, d) = {k \in AlongY(t, d) : MayTurn(t.x, s.x)}
                                   \cup {k \in {"EAST"} : MayGoOn(t.x, d.x)}
          BY <3>2, <4>2 DEF OddEven
        <5> QED
          BY <2>2, <5>1, <5>2
      <4> QED
        BY <4>1, <4>2
    <3> QED
      BY <3>1, <3>2
  <2> QED
    BY <2>3, <2>4, AxesFit DEF Fits
<1>3. ASSUME t # d PROVE Fits(t, d, OddEvenZ(t, s, d))
  <2>1. CASE SameColumn(t, d)
    <3>1. t.z # d.z
      BY <1>3, <2>1, TileFields DEF SameColumn
    <3>2. OddEvenZ(t, s, d) = AlongZ(t, d)
      BY <1>1, <2>1, <3>1 DEF OddEvenZ, AlongZ
    <3> QED
      BY <1>3, <2>1, <3>2, MinimalFit
  <2>2. CASE ~SameColumn(t, d)
    BY <1>2, <2>2 DEF OddEvenZ
  <2> QED
    BY <2>1, <2>2
<1> QED
  BY <1>2, <1>3

\* Downward routing goes no deeper than the bottom layer.
LEMMA DownwardFits ==
  ASSUME NEW t \in Tiles, NEW d \in Tiles, t # d, NEW layer \in Int, layer < DimZ,
         NEW across, ~SameColumn(t, d) => Fits(t, d, across)
  PROVE  Fits(t, d, DownwardTo(layer, t, d, across))
<1>1. SameColumn(t, d) => Fits(t, d, AlongZ(t, d))
  BY MinimalFit
<1>2. t.z < layer => Fits(t, d, {"DOWN"})
  BY TileFields, MeshAssumption DEF Fits, Fit
<1> QED
  BY <1>1, <1>2 DEF DownwardTo

LEMMA AcrossFits ==
  ASSUME NEW alg \in {"DLADR", "DLAR", "DLDR"}, NEW t \in Tiles, NEW d \in Tiles,
         t # d, NEW s
  PROVE  Fits(t, d, Across(alg, t, s, d))
<1>1. CASE alg = "DLAR"
  <2>1. Across(alg, t, s, d) = OddEvenZ(t, s, d)
    BY <1>1, Zenon DEF Across
  <2> QED
    BY <2>1, OddEvenFits
<1>2. CASE alg = "DLADR"
  <2>1. Across(alg, t, s, d) = WestFirst(t, d)
    BY <1>2, Zenon DEF Across
  <2> QED
    BY <2>1, MinimalFit
<1>3. CASE alg = "DLDR"
  <2>1. Across(alg, t, s, d) = XYZ(t, d)
    BY <1>3, Zenon DEF Across
  <2> QED
    BY <2>1, MinimalFit
<1> QED
  BY <1>1, <1>2, <1>3

LEMMA EarlyFits ==
  ASSUME NEW alg \in {"DLADR", "DLAR", "DLDR"}, NEW sel \in DownwardLayers,
         NEW p, NEW t \in Tiles, p.dst \in Tiles, t # p.dst, NEW shut
  PROVE  \A k \in Early(alg, sel, p, t, t, shut) : Fit(t, p.dst, k)
<1> DEFINE d == p.dst
           all == IF alg = "DLAR" THEN OddEvenZ(t, p.src, d) ELSE XYZ(t, d)
<1>1. \A k \in all : Fit(t, d, k)
  BY MinimalFit, OddEvenFits DEF Fits
<1>2. CASE sel = "BL"
  BY <1>2, Zenon DEF Early
<1>3. CASE sel = "ODWL_IPD"
  <2>1. Early(alg, sel, p, t, t, shut) = Across(alg, t, p.src, d) \ Off(t, shut)
    BY <1>3, Zenon DEF Early
  <2> QED
    BY <2>1, AcrossFits DEF Fits
<1>4. CASE sel \in {"IPD", "ODWL"}
  <2>1. sel # "BL" /\ sel # "ODWL_IPD"
    BY <1>4
  <2>2. Early(alg, sel, p, t, t, shut) =
          {k \in all :
             /\ Off(t, shut) \cap Lateral = {}
             /\ t.z = p.src.z
             /\ alg = "DLAR" => \A e \in all :
                  Box(p.src, Neighbor(t, e)) \cap shut = {}}
    BY <1>4, <2>1, Zenon DEF Early
  <2> HIDE DEF all
  <2> QED
    BY <1>1, <2>2
<1> QED
  BY <1>2, <1>3, <1>4 DEF DownwardLayers

LEMMA CrossLayerFits ==
  ASSUME NEW alg \in {"DLADR", "DLAR", "DLDR"}, NEW sel \in DownwardLayers,
         NEW p, Sent(alg, p), NEW t \in Tiles, t # p.dst, NEW shut
  PROVE  Fits(t, p.dst, CrossLayer(alg, sel, p, t, t, shut))
<1> DEFINE d == p.dst
           oblivious == sel \in {"ODWL", "ODWL_IPD"}
           layer == IF oblivious THEN p.layer ELSE DimZ - 1
<1>1. d \in Tiles /\ layer \in Int /\ layer < DimZ /\ t.z \in Int /\ DimZ \in Int
  BY TileFields, MeshAssumption DEF Sent
<1>2. CASE SameColumn(t, d)
  BY <1>1, <1>2, MinimalFit DEF CrossLayer
<1>3. CASE ~SameColumn(t, d) /\ t.z >= layer
  <2>1. CrossLayer(alg, sel, p, t, t, shut) = Across(alg, t, p.src, d)
    BY <1>3 DEF CrossLayer
  <2> QED
    BY <1>1, <2>1, AcrossFits
<1>4. CASE ~SameColumn(t, d) /\ t.z < layer
  <2>1. \/ CrossLayer(alg, sel, p, t, t, shut) = OddEven(t, p.src, d)
        \/ CrossLayer(alg, sel, p, t, t, shut)
              = Early(alg, sel, p, t, t, shut) \cup {"DOWN"}
    BY <1>1, <1>4 DEF CrossLayer
  <2>2. Fits(t, d, OddEven(t, p.src, d))
    BY <1>1, <1>4, OddEvenFits
  <2>3. Fit(t, d, "DOWN")
    BY <1>1, <1>4 DEF Fit
  <2>4. Fits(t, d, Early(alg, sel, p, t, t, shut) \cup {"DOWN"})
    BY <1>1, <2>3, EarlyFits DEF Fits
  <2> QED
    BY <2>1, <2>2, <2>4
<1> QED
  BY <1>1, <1>2, <1>3, <1>4

LEMMA LateUpFits ==
  ASSUME NEW alg \in LateUp, NEW sel \in DownwardLayers, NEW p, Sent(alg, p),
         NEW t \in Tiles, t # p.dst, NEW shut
  PROVE  Fits(t, p.dst, RoutingFunction(alg, sel, p, t, t, shut))
<1> DEFINE s == p.src
           d == p.dst
           F == RoutingFunction(alg, sel, p, t, t, shut)
<1>1. s \in Tiles /\ d \in Tiles
  BY DEF Sent
<1>2. /\ Fits(t, d, XYZ(t, d)) /\ Fits(t, d, WestFirst(t, d))
      /\ Fits(t, d, NorthLast(t, d)) /\ Fits(t, d, NegativeFirst(t, d))
      /\ Fits(t, d, OddEvenZ(t, s, d))
      /\ ~SameColumn(t, d) => Fits(t, d, OddEven(t, s, d))
  BY <1>1, MinimalFit, OddEvenFits
<1>3. Sooner(s.z + DownLevel, DimZ - 1) \in Int /\ Sooner(s.z + DownLevel, DimZ - 1) < DimZ
  BY <1>1, TileFields, MeshAssumption DEF Sooner
<1>4. CASE alg \in {"XYZ", "WEST_FIRST", "NORTH_LAST", "NEGATIVE_FIRST", "ODD_EVEN_Z"}
  <2>1. \/ F = XYZ(t, d) \/ F = WestFirst(t, d) \/ F = NorthLast(t, d)
        \/ F = NegativeFirst(t, d) \/ F = OddEvenZ(t, s, d)
    BY <1>4 DEF RoutingFunction
  <2> QED
    BY <1>2, <2>1
<1>5. CASE alg = "DOWNWARD"
  <2>1. F = Downward(t, s, d, XYZ(t, d))
    BY <1>5 DEF RoutingFunction
  <2> QED
    BY <1>1, <1>2, <1>3, <2>1, DownwardFits DEF Downward
<1>6. CASE alg = "ODD_EVEN_DOWNWARD"
  <2>1. F = DownwardTo(DimZ - 1, t, d, OddEven(t, s, d))
    BY <1>6 DEF RoutingFunction
  <2>2. DimZ - 1 \in Int /\ DimZ - 1 < DimZ
    BY MeshAssumption
  <2> QED
    BY <1>1, <1>2, <2>1, <2>2, DownwardFits
<1>7. CASE alg = "WEST_FIRST_DOWNWARD"
  <2>1. F = WestFirst(t, d) \/ F = Downward(t, s, d, WestFirst(t, d))
    BY <1>7 DEF RoutingFunction
  <2>2. Fits(t, d, Downward(t, s, d, WestFirst(t, d)))
    BY <1>1, <1>2, <1>3, DownwardFits DEF Downward
  <2> QED
    BY <1>2, <2>1, <2>2
<1>8. CASE alg \in {"DLADR", "DLAR", "DLDR"}
  <2>1. p.routing \in {"WEST_FIRST", "XYZ", "DOWNWARD_CROSS_LAYER"}
    BY <1>8 DEF Sent
  <2>2. \/ F = CrossLayer(alg, sel, p, t, t, shut)
        \/ F = Across(alg, t, s, d) \/ F = XYZ(t, d)
    BY <1>8, <2>1 DEF RoutingFunction
  <2>3. Fits(t, d, CrossLayer(alg, sel, p, t, t, shut))
    BY <1>8, CrossLayerFits
  <2>4. Fits(t, d, Across(alg, t, s, d))
    BY <1>1, <1>8, AcrossFits
  <2> QED
    BY <1>2, <2>2, <2>3, <2>4
<1> QED
  BY <1>4, <1>5, <1>6, <1>7, <1>8 DEF LateUp

\* The throttled tiles are the upper part of their column, above the bottom.
Upper(shut) == \A t \in shut : /\ t.z # DimZ - 1
                               /\ \A u \in Tiles : SameColumn(u, t) /\ u.z < t.z
                                                     => u \in shut

(***************************************************************************)
(* Between running tiles, such a function always finds an output, and only *)
(* outputs to running tiles, whatever path was checked before.             *)
(***************************************************************************)
LEMMA RouteOpen ==
  ASSUME NEW alg \in LateUp, NEW sel \in DownwardLayers, NEW p, Sent(alg, p),
         NEW shut \in SUBSET Tiles, Upper(shut),
         NEW t \in Tiles \ shut, p.dst \notin shut
  PROVE  /\ Route(alg, sel, p, t, t, shut) # {}
         /\ \A k \in Route(alg, sel, p, t, t, shut) \ {"LOCAL"} :
              Neighbor(t, k) \in Tiles \ shut
<1> DEFINE d == p.dst
           F == RoutingFunction(alg, sel, p, t, t, shut)
           left == {k \in F : k \in Lateral => k \notin Off(t, shut)}
<1>1. CASE t = d
  BY <1>1 DEF Route
<1>2. CASE t # d
  <2>1. t \in Tiles /\ d \in Tiles /\ t \notin shut /\ d \notin shut
    BY DEF Sent
  <2>2. Fits(t, d, F)
    BY <1>2, LateUpFits
  <2>3. /\ t = [x |-> t.x, y |-> t.y, z |-> t.z] /\ d = [x |-> d.x, y |-> d.y, z |-> d.z]
        /\ t.x \in 0 .. DimX - 1 /\ t.y \in 0 .. DimY - 1 /\ t.z \in 0 .. DimZ - 1
        /\ d.x \in 0 .. DimX - 1 /\ d.y \in 0 .. DimY - 1 /\ d.z \in 0 .. DimZ - 1
        /\ DimX \in Nat /\ DimY \in Nat /\ DimZ \in Nat
    BY <2>1, TileFields, MeshAssumption
  \* Below a running tile, and between a running one and those above, all run.
  <2>4. ASSUME t.z < DimZ - 1 PROVE Neighbor(t, "DOWN") \in Tiles \ shut
    <3> DEFINE n == Neighbor(t, "DOWN")
    <3>1. n = [x |-> t.x, y |-> t.y, z |-> t.z + 1]
      BY <2>3 DEF Neighbor, Step
    <3>2. n \in Tiles /\ SameColumn(t, n) /\ t.z < n.z
      BY <2>3, <2>4, <3>1 DEF Tiles, SameColumn
    <3> HIDE DEF n
    <3>3. n \notin shut
      BY <2>1, <3>2 DEF Upper
    <3> QED
      BY <3>2, <3>3 DEF n
  <2>5. ASSUME SameColumn(t, d), d.z < t.z PROVE Neighbor(t, "UP") \in Tiles \ shut
    <3> DEFINE n == Neighbor(t, "UP")
    <3>1. n = [x |-> d.x, y |-> d.y, z |-> t.z - 1]
      BY <2>3, <2>5 DEF Neighbor, Step, SameColumn
    <3>2. n \in Tiles /\ SameColumn(d, n) /\ (d.z < n.z \/ n = d)
      BY <2>3, <2>5, <3>1 DEF Tiles, SameColumn
    <3> HIDE DEF n
    <3>3. n \notin shut
      BY <2>1, <3>2 DEF Upper
    <3> QED
      BY <3>2, <3>3 DEF n
  <2>6. ASSUME NEW k \in left PROVE Neighbor(t, k) \in Tiles \ shut
    <3>1. Fit(t, d, k) /\ (k \in Lateral => k \notin Off(t, shut))
      BY <2>2, <2>6 DEF Fits
    <3> QED
      BY <2>4, <2>5, <3>1 DEF Fit, Off, Directions
  <2>7. CASE left # {}
    <3>1. Route(alg, sel, p, t, t, shut) = left
      BY <1>2, <2>7 DEF Route
    <3> QED
      BY <2>6, <2>7, <3>1
  <2>8. CASE left = {}
    <3>1. PICK k \in F : k \in Lateral /\ Neighbor(t, k) \in shut
      BY <2>2, <2>8 DEF Fits, Fit, Off, Lateral
    <3>2. Neighbor(t, k).z = t.z
      BY <2>3, <3>1 DEF Neighbor, Step, Lateral
    <3>3. t.z < DimZ - 1
      BY <2>3, <3>1, <3>2 DEF Upper
    <3>4. Neighbor(t, "DOWN") \in Tiles \ shut
      BY <2>4, <3>3
    <3>5. Route(alg, sel, p, t, t, shut) = {"DOWN"}
      BY <1>2, <2>8, <3>4 DEF Route, Off
    <3> QED
      BY <3>4, <3>5
  <2> QED
    BY <2>7, <2>8
<1> QED
  BY <1>1, <1>2

-----------------------------------------------------------------------------
(***************************************************************************)
(* Every function keeps packets in the mesh: what leads beyond the border  *)
(* is lateral, and on_off_neighbor takes it away.                          *)
(***************************************************************************)
LEMMA VerticalInMesh ==
  ASSUME NEW alg \in Algorithms, NEW sel \in DownwardLayers, NEW p, Sent(alg, p),
         NEW t \in Tiles, t # p.dst, NEW shut,
         NEW k \in RoutingFunction(alg, sel, p, t, t, shut)
  PROVE  k \in Directions /\ (k \in Lateral \/ Neighbor(t, k) \in Tiles)
<1> DEFINE s == p.src
           d == p.dst
           F == RoutingFunction(alg, sel, p, t, t, shut)
<1>1. s \in Tiles /\ d \in Tiles
  BY DEF Sent
<1>2. \A l \in Productive(t, d) : l \in Directions /\ Neighbor(t, l) \in Tiles
  BY <1>1, ProductiveTile, DistanceFalls
<1>3. CASE alg \in LateUp
  <2>1. Fit(t, d, k)
    BY <1>3, LateUpFits DEF Fits
  <2>2. CASE k \in Lateral
    BY <2>2 DEF Directions
  <2>3. CASE k = "DOWN" /\ t.z < DimZ - 1
    BY <2>3, TileFields, MeshAssumption DEF Directions, Neighbor, Step, Tiles
  <2>4. CASE k = "UP" /\ SameColumn(t, d) /\ d.z < t.z
    <3>1. k \in Productive(t, d)
      BY <2>4 DEF Productive, AlongZ
    <3> QED
      BY <1>2, <3>1
  <2> QED
    BY <2>1, <2>2, <2>3, <2>4 DEF Fit
<1>4. CASE alg \in {"ZXY", "FULLY_ADAPTIVE"}
  <2>1. alg \in MinimalFunctions
    BY <1>4 DEF MinimalFunctions
  <2> QED
    BY <1>1, <1>2, <2>1, SomeCloser
<1>5. CASE alg \in {"ODD_EVEN", "DYAD"}
  <2>1. F = OddEven(t, s, d)
    BY <1>5 DEF RoutingFunction
  <2>2. k \in Lateral
    BY <2>1 DEF OddEven, AlongY, Lateral
  <2> QED
    BY <2>2 DEF Directions
<1>6. CASE alg = "ODD_EVEN_3D"
  <2>1. F = OddEven3D(t, s, d)
    BY <1>6 DEF RoutingFunction
  <2>2. OddEvenYZ(t, s, d) \subseteq Lateral \cup AlongZ(t, d)
    BY DEF OddEvenYZ, Lateral
  <2>3. k \in Lateral \cup AlongZ(t, d)
    BY <2>1, <2>2 DEF OddEven3D, Lateral
  <2> QED
    BY <1>2, <2>3 DEF Productive, Directions
<1> QED
  BY <1>3, <1>4, <1>5, <1>6 DEF Algorithms, LateUp

LEMMA RouteInMesh ==
  ASSUME NEW alg \in Algorithms, NEW sel \in DownwardLayers, NEW p, Sent(alg, p),
         NEW t \in Tiles, NEW shut, NEW k \in Route(alg, sel, p, t, t, shut)
  PROVE  k = "LOCAL" \/ (k \in Directions /\ Neighbor(t, k) \in Tiles)
<1>1. CASE t = p.dst
  BY <1>1 DEF Route
<1>2. CASE t # p.dst
  <2>1. CASE k \in RoutingFunction(alg, sel, p, t, t, shut)
               /\ (k \in Lateral => k \notin Off(t, shut))
    BY <1>2, <2>1, VerticalInMesh DEF Off
  <2>2. CASE k = "DOWN" /\ k \notin Off(t, shut)
    BY <2>2 DEF Off, Directions
  <2> QED
    BY <1>2, <2>1, <2>2 DEF Route
<1> QED
  BY <1>1, <1>2
=============================================================================
