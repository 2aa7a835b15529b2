----------------------------- MODULE NoximMesh -----------------------------
(***************************************************************************)
(* Packets in the whole mesh, on one virtual channel: a packet keeps the   *)
(* virtual channel it was sent on, so those of different ones never wait   *)
(* for each other.  A packet holds the channels that its header reserved   *)
(* and its tail has not released (wormhole switching).                     *)
(*                                                                         *)
(* A channel is a pair of a tile and a direction, with the input buffer at *)
(* its far end; <<t, "PE">> is the one from the processing element of t    *)
(* into its router, <<t, "LOCAL">> the one back.                           *)
(***************************************************************************)
EXTENDS NoximTransport, Sequences

CONSTANTS
  Packets,
  Scenarios  \* records [algorithm, dw_layer_sel, shut, pkt, long]

ASSUME ScenarioAssumption == \A n \in Scenarios :
  /\ n.shut \subseteq Tiles /\ n.long \subseteq Packets
  /\ \A p \in Packets : {n.pkt[p].src, n.pkt[p].dst} \subseteq Tiles

VARIABLES
  net,   \* the scenario: routing algorithm, throttled tiles and packets
  path,  \* path[p]: the channels that the header of p reserved
  tail,  \* tail[p]: how many of them its tail released
  out,   \* out[p]: the output that its header was routed to, or "none"
  fifo   \* fifo[c]: packets with flits in the buffer of c, in their order

vars == <<net, path, tail, out, fifo>>

Channels == Tiles \X (Directions \cup {"PE", "LOCAL"})

\* The tile whose router or processing element reads the buffer of c.
At(c) == IF c[2] \in Directions THEN Neighbor(c[1], c[2]) ELSE c[1]

Final(s) == s[Len(s)]

Init ==
  /\ net \in Scenarios
  /\ path = [p \in Packets |-> << >>]
  /\ tail = [p \in Packets |-> 0]
  /\ out = [p \in Packets |-> "none"]
  /\ fifo = [c \in Channels |-> << >>]

Pkt(p) == net.pkt[p]

Held(p) == {path[p][i] : i \in tail[p] + 1 .. Len(path[p])}

Free(c) == \A q \in Packets : \A i \in tail[q] + 1 .. Len(path[q]) : path[q][i] # c

Injected(p) == path[p] # << >>

Arrived(p) == Injected(p) /\ Final(path[p])[2] = "LOCAL"

Done(p) == Arrived(p) /\ tail[p] = Len(path[p])

\* The header of p is the next flit of the buffer it is in.
AtFront(p) == Injected(p) /\ ~Arrived(p) /\ Head(fifo[Final(path[p])]) = p

-----------------------------------------------------------------------------
\* Mutant: the distance along x alone decides that a packet is there.
ComputeX(p, t) ==
  IF t.x = Pkt(p).dst.x THEN {"LOCAL"}
  ELSE Route(net.algorithm, net.dw_layer_sel, Pkt(p), t, t, net.shut)

\* RC at tile t: one of the outputs that the packet may be routed to.
Compute(p, t) == Route(net.algorithm, net.dw_layer_sel, Pkt(p), t, t, net.shut)

(***************************************************************************)
(* VA: p reserves a channel c that nobody holds; its header will be        *)
(* written behind what is in the buffer of c and is routed there.  Nothing *)
(* that its route depends on changes before it is computed, so it may be   *)
(* chosen now.                                                             *)
(***************************************************************************)
Reserve(p, c) ==
  /\ Free(c)
  /\ path' = [path EXCEPT ![p] = Append(@, c)]
  /\ IF c[2] = "LOCAL"
     THEN out' = [out EXCEPT ![p] = "none"] /\ UNCHANGED fifo
     ELSE /\ \E k \in Compute(p, At(c)) : out' = [out EXCEPT ![p] = k]
          /\ fifo' = [fifo EXCEPT ![c] = Append(@, p)]
  /\ UNCHANGED <<net, tail>>

\* The processing element reserves its virtual channel for a packet.
Inject(p) == ~Injected(p) /\ Reserve(p, <<Pkt(p).src, "PE">>)

\* A router reserves the output that the header at the front was routed to.
Advance(p) == AtFront(p) /\ Reserve(p, <<At(Final(path[p])), out[p]>>)

(***************************************************************************)
(* The tail leaves the buffer it is in and releases the next channel.      *)
(* When it can depends on the length of the packet and the room in the     *)
(* buffers, so it may at any time after the header reserved the channel;   *)
(* but a long packet, with more flits than the buffers on its way hold,    *)
(* keeps all its channels until its header arrived.                        *)
(***************************************************************************)
TailLeaves(p) ==
  /\ tail[p] < Len(path[p])
  /\ p \in net.long => Arrived(p)
  /\ tail' = [tail EXCEPT ![p] = @ + 1]
  /\ fifo' = IF tail[p] = 0 THEN fifo
             ELSE [fifo EXCEPT ![path[p][tail[p]]] = Tail(@)]
  /\ UNCHANGED <<net, path, out>>

\* All packets arrived: the network rests.
Rest == (\A p \in Packets : Done(p)) /\ UNCHANGED vars

Next ==
  \/ \E p \in Packets : Inject(p) \/ Advance(p) \/ TailLeaves(p)
  \/ Rest

(***************************************************************************)
(* Some header that can move does, or some tail that is sure to move does: *)
(* a tail is only sure to leave when the processing element at the         *)
(* destination consumes the flits before it.  Routers run in every cycle,  *)
(* so the code is fairer than this.                                        *)
(***************************************************************************)
Moves == \E p \in Packets :
           Inject(p) \/ Advance(p) \/ (Arrived(p) /\ TailLeaves(p))

Fairness == WF_vars(Moves)

Spec == Init /\ [][Next]_vars
LiveSpec == Spec /\ Fairness

-----------------------------------------------------------------------------
\* Types: channels of a path are links of the mesh and join up.
TypeOK ==
  /\ path \in [Packets -> Seq(Channels)]
  /\ tail \in [Packets -> Nat]
  /\ out \in [Packets -> Directions \cup {"LOCAL", "none"}]
  /\ fifo \in [Channels -> Seq(Packets)]
  /\ \A p \in Packets :
       /\ tail[p] <= Len(path[p])
       /\ \A i \in DOMAIN path[p] :
            /\ At(path[p][i]) \in Tiles
            /\ i > 1 => path[p][i][1] = At(path[p][i-1])

(***************************************************************************)
(* p cannot move its header before q moves: q's flits are in front of it   *)
(* (the head of the buffer is q's), or q holds the output it wants.        *)
(***************************************************************************)
WaitsFor(p, q) ==
  /\ Injected(p) /\ ~Arrived(p)
  /\ \/ ~AtFront(p) /\ q = Head(fifo[Final(path[p])])
     \/ AtFront(p) /\ <<At(Final(path[p])), out[p]>> \in Held(q)

\* The routing functions never make packets wait for each other in a cycle,
\* whatever the lengths of the packets and the depths of the buffers.
NoCyclicWait ==
  \A S \in (SUBSET Packets) \ {{}} : \E p \in S : \A q \in S : ~WaitsFor(p, q)

\* No packet comes to a router twice, however adaptive its function.
Loopless ==
  \A p \in Packets : \A i, j \in DOMAIN path[p] :
    i < j /\ At(path[p][i]) = At(path[p][j])
      => j = Len(path[p]) /\ path[p][j][2] = "LOCAL"

\* Every packet reaches its destination, and all of it.
Delivered == <>(\A p \in Packets : Done(p) /\ At(Final(path[p])) = Pkt(p).dst)
=============================================================================
