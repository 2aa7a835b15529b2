---------------------------- MODULE NoximThermal ----------------------------
(***************************************************************************)
(* Run-time thermal management: at the end of a period the hot tiles are   *)
(* throttled, together with those above them; the processing elements send *)
(* only packets that can avoid throttled tiles; and the routers route them *)
(* by the on/off signals of their neighbours.  Before the next decision    *)
(* everything is released and the network is cleaned.                      *)
(*                                                                         *)
(* The routes of packets do not depend on each other, so the module        *)
(* follows one packet at a time; NoximMesh has several.                    *)
(***************************************************************************)
EXTENDS NoximTransport

CONSTANTS
  Setups,   \* records [policy, algorithm, dw_layer_sel]
  HotSets,  \* the sets of tiles that may be too hot at the end of a period
  Sources,  \* the tiles whose processing elements send
  PreRouting \* PRE_ROUTING: a router computes the output of the next one

Policies == {"TAVT", "VERTICAL", "TAVT_MAX", "VERTICAL_MAX", "GLOBAL", "DISTRIBUTED"}

ASSUME ThermalAssumption ==
  /\ \A s \in Setups : /\ s.policy \in Policies
                        /\ s.algorithm \in Algorithms
                        /\ s.dw_layer_sel \in DownwardLayers
  /\ HotSets \subseteq SUBSET Tiles /\ Sources \subseteq Tiles
  /\ PreRouting \in BOOLEAN

VARIABLES
  setup,     \* throt_type, routing_algorithm and dw_layer_sel
  throttled, \* throttling[][][]: the tiles in emergency
  free,      \* _non_throt_layer of every processing element
  stage,     \* "run", or "clean" in the clean stage
  msg,       \* the message in message_queue, or None
  pkt        \* the packet in the network, or None

vars == <<setup, throttled, free, stage, msg, pkt>>

None == [src |-> "none"]

Flying == pkt # None

Init ==
  /\ setup \in Setups
  /\ throttled = {} /\ free = 0 /\ stage = "run"
  /\ msg = None /\ pkt = None

-----------------------------------------------------------------------------
(* Throttling policies.                                                    *)

Reconfiguring == {"TAVT", "VERTICAL", "TAVT_MAX", "VERTICAL_MAX"}

\* The first two spare the bottom layer, and look at it no more than at what
\* is below the first hot tile of a column: that keeps its state.
Spared(policy) == IF policy \in {"TAVT", "VERTICAL", "DISTRIBUTED"}
                  THEN {DimZ - 1} ELSE {}

HotIn(policy, t, hot) ==
  {h \in hot : SameColumn(h, t) /\ h.z \notin Spared(policy)}

\* Mutant: a hot tile is throttled, and those above it are not.
ThrottleHotOnly(policy, hot, shut) ==
  IF policy = "GLOBAL" THEN {t \in Tiles : hot # {}}
  ELSE {t \in Tiles : t.z \notin Spared(policy) /\ t \in hot}

Throttle(policy, hot, shut) ==
  {t \in Tiles :
     LET column == HotIn(policy, t, hot)
         topmost == \A h \in column : t.z <= h.z
     IN CASE policy = "GLOBAL" -> hot # {}
          [] policy = "DISTRIBUTED" ->
               t.z \notin Spared(policy) /\ \E h \in column : t.z <= h.z
          [] policy \in {"TAVT", "VERTICAL", "TAVT_MAX"} ->
               /\ t.z \notin Spared(policy)
               /\ column # {} /\ (topmost \/ t \in shut)
          [] policy = "VERTICAL_MAX" -> column # {}}

\* Mutant: the lowest throttled layer itself.
LowestThrottled(shut) ==
  CHOOSE n \in 0 .. DimZ :
    /\ \A t \in shut : t.z <= n
    /\ \A m \in 0 .. DimZ : (\A t \in shut : t.z <= m) => n <= m

\* findNonXLayer: the layer under the lowest throttled one.
NonThrotLayer(shut) ==
  CHOOSE n \in 0 .. DimZ :
    /\ \A t \in shut : t.z < n
    /\ \A m \in 0 .. DimZ : (\A t \in shut : t.z < m) => n <= m

-----------------------------------------------------------------------------
\* The outputs of p at tile c, found by the router at tile at.
Outputs(p, c, at) == Route(setup.algorithm, setup.dw_layer_sel, p, c, at, throttled)

\* A processing element that is not in emergency generates a message.
Generate ==
  /\ stage = "run" /\ msg = None /\ ~Flying
  /\ \E s \in Sources \ throttled : \E d \in Tiles \ {s} :
       msg' = [src |-> s, dst |-> d]
  /\ UNCHANGED <<setup, throttled, free, stage, pkt>>

\* txProcess makes a packet of the message and sends it, if TLA finds a way.
Admit ==
  /\ stage = "run" /\ msg # None
  /\ \E p \in Admitted(setup.algorithm, msg, throttled, free) :
       pkt' = [packet |-> p, at |-> p.src, outs |-> Outputs(p, p.src, p.src)]
  /\ msg' = None
  /\ UNCHANGED <<setup, throttled, free, stage>>

\* The packet leaves a router by one of its outputs.
Hop ==
  /\ Flying
  /\ \E k \in pkt.outs :
       IF k = "LOCAL" THEN pkt' = None
       ELSE LET to == Neighbor(pkt.at, k)
            IN pkt' = [pkt EXCEPT !.at = to,
                         !.outs = Outputs(pkt.packet, to,
                                          IF PreRouting THEN pkt.at ELSE to)]
  /\ UNCHANGED <<setup, throttled, free, stage, msg>>

\* All tiles leave emergency and the messages that were not sent are dropped.
SetCleanStage ==
  /\ stage = "run" /\ stage' = "clean"
  /\ throttled' = {} /\ msg' = None
  /\ UNCHANGED <<setup, free, pkt>>

(***************************************************************************)
(* EndCleanStage and EmergencyDecision, with the temperatures of the       *)
(* period.  That the network is empty by then is an assumption about       *)
(* clean_stage_time: the code does not check it.                           *)
(***************************************************************************)
EndPeriod ==
  /\ stage = "clean" /\ ~Flying /\ stage' = "run"
  /\ \E hot \in HotSets : throttled' = Throttle(setup.policy, hot, throttled)
  /\ free' = IF setup.policy \in Reconfiguring
             THEN NonThrotLayer(throttled') ELSE free
  /\ UNCHANGED <<setup, msg, pkt>>

Next == Generate \/ Admit \/ Hop \/ SetCleanStage \/ EndPeriod

\* Routers run in every cycle.
Fairness == WF_vars(Hop)

Spec == Init /\ [][Next]_vars
LiveSpec == Spec /\ Fairness

-----------------------------------------------------------------------------
\* Types: the one invariant about the shape of the state.
TypeOK ==
  /\ setup \in Setups
  /\ throttled \in SUBSET Tiles
  /\ free \in 0 .. DimZ
  /\ stage \in {"run", "clean"}
  /\ Flying => pkt.at \in Tiles /\ pkt.outs \subseteq Directions \cup {"LOCAL"}

\* Throttled tiles are the upper part of their column: heat never has to get
\* out through a tile that is running; the bottom stays, except in the policies
\* that may stop it.
ThrottledPrefix ==
  \A t \in throttled :
    /\ \A u \in Tiles : SameColumn(u, t) /\ u.z < t.z => u \in throttled
    /\ t.z \notin Spared(setup.policy)

\* The layers that processing elements take to be free are free, under the
\* policies that report them (the other two leave free as it was; RouteExists
\* says what becomes of their packets).
LayerFree == setup.policy \in Reconfiguring => \A t \in throttled : t.z < free

\* A packet that was let into the network always has an output, and none of
\* its outputs leads to a throttled tile or out of the mesh.
RouteExists ==
  Flying => /\ pkt.outs # {}
            /\ \A k \in pkt.outs \ {"LOCAL"} :
                 Neighbor(pkt.at, k) \in Tiles \ throttled

\* "if the direction is throttled ... then erase that way".
ErasesThrottled ==
  Flying => \A k \in pkt.outs \cap Lateral : Neighbor(pkt.at, k) \notin throttled

\* A packet that was let in is delivered, and not kept away for ever.
Delivered == Flying ~> ~Flying
=============================================================================
