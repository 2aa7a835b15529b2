--------------------------- MODULE NoximTransport ---------------------------
(***************************************************************************)
(* Transport-layer assisted routing: what a processing element decides     *)
(* about a packet before it sends it, from the throttled tiles (shut) and  *)
(* the lowest layer that is told to be free (free, _non_throt_layer).      *)
(***************************************************************************)
EXTENDS NoximRouting

\* routing_algorithm values above 10, which route cross-layer packets.
HasDownward == {"DOWNWARD", "WEST_FIRST_DOWNWARD", "ODD_EVEN_DOWNWARD",
                "ODD_EVEN_3D", "ODD_EVEN_Z", "DLADR", "DLAR", "DLDR"}

\* Tiles with a minimal path from s to d, and those of the XYZ path after s.
Cube(s, d) == {t \in Tiles : /\ Between(t.x, s.x, d.x)
                             /\ Between(t.y, s.y, d.y)
                             /\ Between(t.z, s.z, d.z)}

OnXYZ(s, d) ==
  {t \in Cube(s, d) \ {s} : \/ t.y = s.y /\ t.z = s.z
                            \/ t.x = d.x /\ t.z = s.z
                            \/ SameColumn(t, d)}

Below(s) == {t \in Tiles : SameColumn(t, s) /\ t.z > s.z}

Clear(tiles, shut) == tiles \cap shut = {}

(***************************************************************************)
(* TLA: the packets, with the routing and the downward layer they are      *)
(* given, that m = [src, dst] may become; none if it must wait.            *)
(***************************************************************************)
TLA(alg, m, shut, free) ==
  LET s == m.src
      d == m.dst
      routing == IF Clear(Cube(s, d), shut) THEN {"WEST_FIRST"}
                 ELSE IF Clear(OnXYZ(s, d), shut) THEN {"XYZ"}
                 ELSE IF Clear(Below(s) \cup Below(d), shut)
                      THEN {"DOWNWARD_CROSS_LAYER"} ELSE {}
      layers == IF free = DimZ THEN {-1} ELSE free .. DimZ - 1
      PacketsOf(rs, ls) == [src : {s}, dst : {d}, routing : rs, layer : ls]
  IN IF alg = "WEST_FIRST_DOWNWARD"
     THEN PacketsOf({IF free = 0 THEN "WEST_FIRST" ELSE "WEST_FIRST_DOWNWARD"},
                    {DimZ - 1})
     ELSE IF d \in shut THEN {} ELSE PacketsOf(routing, layers)

\* The check of txProcess on what TLA returns, before TAAR.
Admitted(alg, m, shut, free) ==
  {p \in TLA(alg, m, shut, free) :
     /\ alg \in HasDownward \/ p.routing # "DOWNWARD_CROSS_LAYER"
     /\ {p.src, p.dst} \cap shut = {}}
=============================================================================
