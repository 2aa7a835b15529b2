---------------------------- MODULE NoximRouting ----------------------------
(***************************************************************************)
(* The routing functions of NoximRouter: which outputs a router may send a *)
(* packet to.  A function returns the set of candidate outputs; which one  *)
(* of them the selection strategy takes depends on buffers, temperatures   *)
(* or rand(), so a client takes any.  A tile is a record of coordinates;   *)
(* x grows to the east, y to the south and z downwards, towards the heat   *)
(* sink.                                                                   *)
(***************************************************************************)
EXTENDS Integers

CONSTANTS
  DimX, DimY, DimZ, \* mesh_dim_x, mesh_dim_y, mesh_dim_z
  DownLevel         \* down_level: how many layers routingDownward goes down

ASSUME MeshAssumption ==
  /\ DimX \in Nat \ {0} /\ DimY \in Nat \ {0} /\ DimZ \in Nat \ {0}
  /\ DownLevel \in Nat

Tiles == [x : 0 .. DimX-1, y : 0 .. DimY-1, z : 0 .. DimZ-1]

Lateral == {"NORTH", "EAST", "SOUTH", "WEST"}

Directions == Lateral \cup {"UP", "DOWN"}

\* The tile next to t, or a value outside Tiles beyond the border.
Step(dir, more, less) == IF dir = more THEN 1 ELSE IF dir = less THEN -1 ELSE 0

Neighbor(t, dir) == [x |-> t.x + Step(dir, "EAST", "WEST"),
                     y |-> t.y + Step(dir, "SOUTH", "NORTH"),
                     z |-> t.z + Step(dir, "DOWN", "UP")]

SameColumn(c, d) == c.x = d.x /\ c.y = d.y

Odd(n) == n % 2 = 1

-----------------------------------------------------------------------------
(* Directions that bring a packet at c closer to d, by axis.               *)

AlongX(c, d) == {k \in {"EAST"} : d.x > c.x} \cup {k \in {"WEST"} : d.x < c.x}

AlongY(c, d) == {k \in {"SOUTH"} : d.y > c.y} \cup {k \in {"NORTH"} : d.y < c.y}

AlongZ(c, d) == {k \in {"DOWN"} : d.z > c.z} \cup {k \in {"UP"} : d.z < c.z}

Productive(c, d) == AlongX(c, d) \cup AlongY(c, d) \cup AlongZ(c, d)

-----------------------------------------------------------------------------
(* Routing functions that look at the destination only.                    *)

XYZ(c, d) == IF c.x # d.x THEN AlongX(c, d)
             ELSE IF c.y # d.y THEN AlongY(c, d) ELSE AlongZ(c, d)

ZXY(c, d) == IF c.z # d.z THEN AlongZ(c, d)
             ELSE IF c.x # d.x THEN AlongX(c, d) ELSE AlongY(c, d)

WestFirst(c, d) == IF d.x > c.x /\ d.y # c.y /\ d.z >= c.z
                   THEN Productive(c, d) ELSE XYZ(c, d)

\* Mutant: a northbound packet may turn too.
NorthLastUnguarded(c, d) ==
  IF d.x # c.x THEN AlongX(c, d) \cup AlongY(c, d) ELSE XYZ(c, d)

NorthLast(c, d) == IF d.x # c.x /\ d.y > c.y
                   THEN AlongX(c, d) \cup AlongY(c, d) ELSE XYZ(c, d)

NegativeFirst(c, d) ==
  IF \/ d.x <= c.x /\ d.y <= c.y
     \/ d.x >= c.x /\ d.y >= c.y
  THEN XYZ(c, d) ELSE AlongX(c, d) \cup AlongY(c, d)

FullyAdaptive(c, d) == IF d.x = c.x \/ d.y = c.y
                       THEN XYZ(c, d) ELSE Productive(c, d)

-----------------------------------------------------------------------------
(* Odd-even: where a packet may turn depends on the parity of the column   *)
(* and on whether it is still in the column of its source.                 *)

\* The turn to or from a column (a row in the vertical plane).
MayTurn(c, s) == Odd(c) \/ c = s
MayGoOn(c, d) == Odd(d) \/ d - c # 1

OddEven(c, s, d) ==
  IF d.x = c.x THEN IF d.y < c.y THEN {"NORTH"} ELSE {"SOUTH"}
  ELSE IF d.x < c.x
       THEN {"WEST"} \cup {k \in AlongY(c, d) : ~Odd(c.x)}
  ELSE IF d.y = c.y THEN {"EAST"}
       ELSE {k \in AlongY(c, d) : MayTurn(c.x, s.x)}
              \cup {k \in {"EAST"} : MayGoOn(c.x, d.x)}

\* routingOddEven_for_3D: odd-even in the plane of y and z.
OddEvenYZ(c, s, d) ==
  IF d.y = c.y THEN AlongZ(c, d)
  ELSE IF d.y < c.y
       THEN {"NORTH"} \cup {k \in AlongZ(c, d) : ~Odd(c.y)}
  ELSE IF d.z = c.z THEN {"SOUTH"}
       ELSE {k \in AlongZ(c, d) : MayTurn(c.y, s.y)}
              \cup {k \in {"SOUTH"} : MayGoOn(c.y, d.y)}

\* Eastbound, the candidates of the vertical plane replace EAST.
OddEven3D(c, s, d) ==
  IF d.x = c.x THEN OddEvenYZ(c, s, d)
  ELSE IF d.x < c.x
       THEN {"WEST"} \cup {k \in OddEvenYZ(c, s, d) : ~Odd(c.x)}
  ELSE IF d.y = c.y /\ d.z = c.z THEN {"EAST"}
  ELSE IF MayTurn(c.x, s.x) THEN OddEvenYZ(c, s, d)
       ELSE {k \in {"EAST"} : MayGoOn(c.x, d.x)}

OddEvenZ(c, s, d) ==
  IF SameColumn(c, d) THEN IF c.z < d.z THEN {"DOWN"} ELSE {"UP"}
  ELSE OddEven(c, s, d)

-----------------------------------------------------------------------------
(* Downward routing: go down to a layer, then to the column of the         *)
(* destination, then along it.  across is the lateral routing function.    *)

OneHop(c, d) ==
  /\ c.z = d.z
  /\ \/ c.y = d.y /\ c.x - d.x \in {-1, 1}
     \/ c.x = d.x /\ c.y - d.y \in {-1, 1}

\* Mutant: in the destination's column a packet goes down first as well.
DownwardToAnyColumn(layer, c, d, across) ==
  IF c.z < layer /\ ~OneHop(c, d) THEN {"DOWN"} ELSE across

DownwardTo(layer, c, d, across) ==
  IF SameColumn(c, d) THEN AlongZ(c, d)
  ELSE IF c.z < layer /\ ~OneHop(c, d) THEN {"DOWN"} ELSE across

Sooner(a, b) == IF a < b THEN a ELSE b

\* Mutant: the layer is not bounded by the bottom of the mesh.
DownwardUnbounded(c, s, d, across) ==
  DownwardTo(s.z + DownLevel, c, d, across)

Downward(c, s, d, across) ==
  DownwardTo(Sooner(s.z + DownLevel, DimZ - 1), c, d, across)

-----------------------------------------------------------------------------
\* Mutant: only the border is off.
OffBorder(t, shut) == {k \in Directions : Neighbor(t, k) \notin Tiles}

(***************************************************************************)
(* Directions that on_off_neighbor of the router at t tells it not to take *)
(* when the tiles of shut are throttled: the signals of the border are     *)
(* written once, with a value that reads as throttled.                     *)
(***************************************************************************)
Off(t, shut) == {k \in Directions : Neighbor(t, k) \notin Tiles \ shut}

\* Adaptive_ok: no throttled tile in the rectangle of a and b, in a's layer.
Between(i, a, b) == i \in (a .. b) \cup (b .. a)

Box(a, b) == {t \in Tiles : /\ Between(t.x, a.x, b.x)
                            /\ Between(t.y, a.y, b.y)
                            /\ t.z = a.z}

\* The lateral function of a transport-layer assisted algorithm.
Across(alg, c, s, d) == CASE alg = "DLAR"  -> OddEvenZ(c, s, d)
                          [] alg = "DLADR" -> WestFirst(c, d)
                          [] alg = "DLDR"  -> XYZ(c, d)

(***************************************************************************)
(* Directions that a cross-layer packet p may take before it is down: sel  *)
(* is dw_layer_sel, at the tile of the router that evaluates the function. *)
(***************************************************************************)
Early(alg, sel, p, c, at, shut) ==
  LET d == p.dst
      all == IF alg = "DLAR" THEN OddEvenZ(c, p.src, d) ELSE XYZ(c, d)
  IN CASE sel = "BL" -> {}
       [] sel = "ODWL_IPD" -> Across(alg, c, p.src, d) \ Off(at, shut)
       [] sel \in {"IPD", "ODWL"} ->
            {k \in all :
               /\ Off(at, shut) \cap Lateral = {}
               /\ c.z = p.src.z
               /\ alg = "DLAR" => \A e \in all :
                    Box(p.src, Neighbor(at, e)) \cap shut = {}}

(***************************************************************************)
(* The downward functions of DW_layerSelFunction, except ADWL and VBDR,    *)
(* whose layer depends on the free slots of the neighbours.                *)
(***************************************************************************)
CrossLayer(alg, sel, p, c, at, shut) ==
  LET oblivious == sel \in {"ODWL", "ODWL_IPD"}
      layer == IF oblivious THEN p.layer ELSE DimZ - 1
  IN IF SameColumn(c, p.dst) THEN AlongZ(c, p.dst)
     ELSE IF c.z >= layer THEN Across(alg, c, p.src, p.dst)
     ELSE IF oblivious /\ OneHop(c, p.dst)
          THEN OddEven(c, p.src, p.dst)
     ELSE Early(alg, sel, p, c, at, shut) \cup {"DOWN"}

-----------------------------------------------------------------------------
\* The values of routing_algorithm and dw_layer_sel that are modelled.
Algorithms ==
  {"XYZ", "ZXY", "WEST_FIRST", "NORTH_LAST", "NEGATIVE_FIRST", "FULLY_ADAPTIVE",
   "ODD_EVEN", "DYAD", "ODD_EVEN_3D", "ODD_EVEN_Z", "DOWNWARD",
   "ODD_EVEN_DOWNWARD", "WEST_FIRST_DOWNWARD", "DLADR", "DLAR", "DLDR"}

DownwardLayers == {"BL", "ODWL", "ODWL_IPD", "IPD"}

(***************************************************************************)
(* routingFunction: candidates of packet p at tile c.  DyAD takes all of   *)
(* odd-even's or only the first, so a client that takes any has both.      *)
(***************************************************************************)
RoutingFunction(alg, sel, p, c, at, shut) ==
  LET s == p.src
      d == p.dst
  IN CASE alg = "XYZ" -> XYZ(c, d)
       [] alg = "ZXY" -> ZXY(c, d)
       [] alg = "WEST_FIRST" -> WestFirst(c, d)
       [] alg = "NORTH_LAST" -> NorthLast(c, d)
       [] alg = "NEGATIVE_FIRST" -> NegativeFirst(c, d)
       [] alg = "FULLY_ADAPTIVE" -> FullyAdaptive(c, d)
       [] alg \in {"ODD_EVEN", "DYAD"} -> OddEven(c, s, d)
       [] alg = "ODD_EVEN_3D" -> OddEven3D(c, s, d)
       [] alg = "ODD_EVEN_Z" -> OddEvenZ(c, s, d)
       [] alg = "DOWNWARD" -> Downward(c, s, d, XYZ(c, d))
       [] alg = "ODD_EVEN_DOWNWARD" ->
            DownwardTo(DimZ - 1, c, d, OddEven(c, s, d))
       [] alg = "WEST_FIRST_DOWNWARD" ->
            IF p.routing = "WEST_FIRST" THEN WestFirst(c, d)
            ELSE Downward(c, s, d, WestFirst(c, d))
       [] alg \in {"DLADR", "DLAR", "DLDR"} ->
            CASE p.routing = "DOWNWARD_CROSS_LAYER" ->
                   CrossLayer(alg, sel, p, c, at, shut)
              [] p.routing = "WEST_FIRST" -> Across(alg, c, s, d)
              [] p.routing = "XYZ" ->
                   IF alg = "DLAR" THEN CrossLayer(alg, sel, p, c, at, shut)
                   ELSE XYZ(c, d)

(***************************************************************************)
(* route: the outputs one of which is selected for p at tile c, by the     *)
(* router at tile at.  Without a candidate the code takes rand() modulo    *)
(* zero.  The router at tile at is the one at c, except in pre-routing.    *)
(***************************************************************************)
Route(alg, sel, p, c, at, shut) ==
  LET left == {k \in RoutingFunction(alg, sel, p, c, at, shut) :
                 k \in Lateral => k \notin Off(at, shut)}
  IN IF c = p.dst THEN {"LOCAL"}
     ELSE IF left # {} THEN left
     ELSE {k \in {"DOWN"} : k \notin Off(at, shut)}
=============================================================================
