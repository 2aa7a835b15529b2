--------------------------- MODULE MCNoximThermal ---------------------------
(* Setups and heat for the runs of NoximThermal. *)
EXTENDS NoximThermal

Tile(i, j, k) == [x |-> i, y |-> j, z |-> k]

All(policies, algorithms, sels) ==
  [policy : policies, algorithm : algorithms, dw_layer_sel : sels]

Downwards == {"DLADR", "DLAR", "DLDR"}

AllSetups == UNION {
  All({"TAVT", "DISTRIBUTED"}, Downwards, {"BL", "IPD", "ODWL", "ODWL_IPD"}),
  All({"VERTICAL", "DISTRIBUTED"}, {"WEST_FIRST_DOWNWARD"}, {"BL"}),
  All({"TAVT", "GLOBAL"}, {"XYZ", "WEST_FIRST"}, {"BL"}),
  All({"TAVT_MAX", "VERTICAL_MAX"}, {"XYZ"}, {"BL"})}

\* Nothing, or up to two of these tiles: they share a column, a layer or a row,
\* stand in the middle, at the border or at the bottom.
Warm == {Tile(1, 1, 0), Tile(1, 1, 1), Tile(0, 1, 1), Tile(1, 0, 0), Tile(2, 1, 2)}
Heat == {{}} \cup {{a, b} : a, b \in Warm}

Senders == {Tile(0, 0, 0), Tile(1, 1, 1), Tile(2, 1, 0), Tile(0, 2, 1)}

\* One setup with pre-routing, as by default, and one hot tile.
PreSetups == All({"TAVT"}, {"WEST_FIRST"}, {"BL"})
PreHeat == {{Tile(1, 1, 0)}}
=============================================================================
