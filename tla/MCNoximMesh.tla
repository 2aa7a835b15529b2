---------------------------- MODULE MCNoximMesh ----------------------------
(* Traffic for the runs of NoximMesh. *)
EXTENDS NoximMesh

FourPackets == 1 .. 4

Tile(i, j, k) == [x |-> i, y |-> j, z |-> k]

\* Each corner of a rectangle sends to the opposite one.
Exchange(a, b, c, d) ==
  <<[src |-> a, dst |-> c], [src |-> b, dst |-> d],
    [src |-> c, dst |-> a], [src |-> d, dst |-> b]>>

\* Rectangles in the plane (with i even and odd), across layers and both.
Horizontal(i) == Exchange(Tile(i, 0, 0), Tile(i+1, 0, 0),
                          Tile(i+1, 1, 0), Tile(i, 1, 0))
AcrossXZ == Exchange(Tile(0, 0, 0), Tile(1, 0, 0), Tile(1, 0, 1), Tile(0, 0, 1))
AcrossYZ == Exchange(Tile(0, 0, 0), Tile(0, 1, 0), Tile(0, 1, 1), Tile(0, 0, 1))
Diagonal == Exchange(Tile(0, 0, 0), Tile(1, 0, 1), Tile(1, 1, 0), Tile(0, 1, 1))

\* A throttled corner: packets that may take the XYZ path, and packets that
\* have to go under the corner and meet them there.
Corner == {Tile(1, 0, 0)}
Mixed == Exchange(Tile(0, 0, 0), Tile(1, 0, 1), Tile(1, 1, 0), Tile(0, 1, 0))

\* What the processing elements make of the messages ms.
Scenario(algs, sels, ms, shut, long) ==
  UNION {{[algorithm |-> a, dw_layer_sel |-> sel, shut |-> shut, pkt |-> f,
           long |-> long] :
            f \in {g \in [FourPackets ->
                            UNION {Admitted(a, ms[i], shut, DimZ - 1) :
                                     i \in FourPackets}] :
                     \A i \in FourPackets : g[i].src = ms[i].src}} :
         a \in algs, sel \in sels}

\* Adaptive in the plane; odd-even there takes packets of another layer past the
\* column of their destination.
Planar == {"XYZ", "WEST_FIRST", "NORTH_LAST", "ODD_EVEN"}

\* DOWNWARD takes some of the outputs of WEST_FIRST_DOWNWARD, and DLDR some of
\* those of DLADR.
AllScenarios == UNION {
  Scenario(Planar, {"BL"}, Horizontal(0), {}, FourPackets),
  Scenario({"ODD_EVEN"}, {"BL"}, Horizontal(1), {}, {1, 2, 3}),
  Scenario({"XYZ", "ZXY", "ODD_EVEN_3D"}, {"BL"}, AcrossXZ, {}, FourPackets),
  Scenario({"ODD_EVEN_3D"}, {"BL"}, AcrossYZ, {}, FourPackets),
  Scenario({"WEST_FIRST"}, {"BL"}, Diagonal, {}, FourPackets),
  Scenario({"ODD_EVEN_DOWNWARD"}, {"BL"}, AcrossXZ, {}, FourPackets),
  Scenario({"WEST_FIRST_DOWNWARD"}, {"BL"}, Horizontal(0), {}, FourPackets),
  Scenario({"DLADR"}, {"BL"}, Mixed, Corner, FourPackets),
  Scenario({"DLAR"}, {"ODWL"}, Mixed, Corner, FourPackets)}
=============================================================================
