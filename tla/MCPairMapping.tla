--------------------------- MODULE MCPairMapping ---------------------------
(* Applications and heat for the runs of PairMapping. *)
EXTENDS PairMapping

\* Four tasks in a ring, five around one, and seven of which two talk to none;
\* the first two end together.
Ring == [tasks |-> <<3, 2, 3, 2>>,
         edges |-> << <<1, 2>>, <<2, 3>>, <<3, 4>>, <<4, 1>> >>,
         volume |-> <<5, 5, 7, 1>>]
Star == [tasks |-> <<2, 2, 2, 2, 2>>,
         edges |-> << <<1, 2>>, <<1, 3>>, <<1, 4>>, <<5, 1>> >>,
         volume |-> <<4, 3, 2, 1>>]
Tree == [tasks |-> <<1, 4, 2, 2, 1, 3, 1>>,
         edges |-> << <<1, 2>>, <<1, 3>>, <<2, 4>>, <<2, 5>> >>,
         volume |-> <<2, 6, 3, 3>>]

ThreeApps == <<Ring, Star, Tree>>

\* Cool; an upper core; a diagonal; and a checkerboard that no box covers.
Heat == {{}, {<<1, 0, 1>>}, {<<0, 0, 0>>, <<1, 1, 2>>},
         {<<1, 0, 0>>, <<0, 1, 0>>, <<1, 1, 2>>}}
=============================================================================
