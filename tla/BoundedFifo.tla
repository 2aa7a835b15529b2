---------------------------- MODULE BoundedFifo ----------------------------
(***************************************************************************)
(* What one virtual channel of a NoC link promises to the two routers at   *)
(* its ends: flits come out in the order they went in, none is duplicated  *)
(* or invented, and never more than Depth of them are under way.  A lossy  *)
(* channel may also drop a flit, but even then it neither reorders nor     *)
(* duplicates.  NoximLink implements this specification.                   *)
(***************************************************************************)
EXTENDS Naturals, Sequences

CONSTANTS Flit,   \* the flits that may travel
          Depth,  \* how many flits may be under way
          Lossy   \* TRUE: the channel may drop flits

VARIABLE chan     \* the flits under way, oldest first

-----------------------------------------------------------------------------

Init == chan = << >>

Put == /\ Len(chan) < Depth
       /\ \E f \in Flit : chan' = Append(chan, f)

Get == /\ chan # << >>
       /\ chan' = Tail(chan)

Without(s, i) == SubSeq(s, 1, i - 1) \o SubSeq(s, i + 1, Len(s))

Lose == /\ Lossy
        /\ \E i \in 1..Len(chan) : chan' = Without(chan, i)

Next == Put \/ Get \/ Lose

Spec == Init /\ [][Next]_chan

=============================================================================
