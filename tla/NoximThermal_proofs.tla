------------------------ MODULE NoximThermal_proofs ------------------------
(***************************************************************************)
(* Thermal management in a mesh of any size, with any hot tiles: what is   *)
(* throttled is the upper part of a column, the layers told to be free are *)
(* free, no packet leaves the mesh, and under the policies that keep the   *)
(* bottom layer running packets always find their way.                     *)
(***************************************************************************)
EXTENDS NoximThermal, NoximTransport_proofs

\* What the policies throttle when nothing was throttled before.
Cools(policy, hot, t) ==
  LET column == HotIn(policy, t, hot)
  IN \/ policy = "GLOBAL" /\ hot # {}
     \/ policy = "VERTICAL_MAX" /\ column # {}
     \/ /\ policy = "DISTRIBUTED" /\ t.z \notin Spared(policy)
        /\ \E h \in column : t.z <= h.z
     \/ /\ policy \in {"TAVT", "VERTICAL", "TAVT_MAX"} /\ t.z \notin Spared(policy)
        /\ column # {} /\ \A h \in column : t.z <= h.z

LEMMA ThrottleCools ==
  ASSUME NEW policy \in Policies, NEW hot, NEW t \in Tiles
  PROVE  t \in Throttle(policy, hot, {}) <=> Cools(policy, hot, t)
<1>1. CASE policy = "GLOBAL"
  <2>1. t \in Throttle("GLOBAL", hot, {}) <=> hot # {}
    BY Zenon DEF Throttle
  <2> QED
    BY <1>1, <2>1 DEF Cools
<1>2. CASE policy = "VERTICAL_MAX"
  <2>1. t \in Throttle("VERTICAL_MAX", hot, {}) <=> HotIn("VERTICAL_MAX", t, hot) # {}
    BY Zenon DEF Throttle
  <2> QED
    BY <1>2, <2>1 DEF Cools
<1>3. CASE policy = "DISTRIBUTED"
  <2>1. t \in Throttle("DISTRIBUTED", hot, {}) <=>
          /\ t.z \notin Spared("DISTRIBUTED")
          /\ \E h \in HotIn("DISTRIBUTED", t, hot) : t.z <= h.z
    BY Zenon DEF Throttle
  <2> QED
    BY <1>3, <2>1 DEF Cools
<1>4. CASE policy \in {"TAVT", "VERTICAL", "TAVT_MAX"}
  <2>1. policy # "GLOBAL" /\ policy # "DISTRIBUTED" /\ policy # "VERTICAL_MAX"
    BY <1>4
  <2>2. t \in Throttle(policy, hot, {}) <=>
          /\ t.z \notin Spared(policy)
          /\ HotIn(policy, t, hot) # {}
          /\ (\A h \in HotIn(policy, t, hot) : t.z <= h.z) \/ t \in {}
    BY <1>4, <2>1, Zenon DEF Throttle
  <2> QED
    BY <1>4, <2>1, <2>2 DEF Cools
<1> QED
  BY <1>1, <1>2, <1>3, <1>4 DEF Policies

LEMMA ThrottleUpper ==
  ASSUME NEW policy \in Policies, NEW hot \in SUBSET Tiles,
         NEW t \in Throttle(policy, hot, {})
  PROVE  /\ t \in Tiles /\ t.z \notin Spared(policy)
         /\ \A u \in Tiles : SameColumn(u, t) /\ u.z < t.z
                               => u \in Throttle(policy, hot, {})
<1>1. t \in Tiles
  BY DEF Throttle
<1>2. Cools(policy, hot, t)
  BY <1>1, ThrottleCools
<1>3. t.z \notin Spared(policy)
  BY <1>2 DEF Cools, Spared
<1>4. ASSUME NEW u \in Tiles, SameColumn(u, t), u.z < t.z
      PROVE  u \in Throttle(policy, hot, {})
  <2>1. HotIn(policy, u, hot) = HotIn(policy, t, hot)
    BY <1>4 DEF HotIn, SameColumn
  <2>2. t.z \in 0 .. DimZ - 1 /\ u.z \in 0 .. DimZ - 1
    BY <1>1, TileFields
  <2>3. \A h \in HotIn(policy, t, hot) : h.z \in 0 .. DimZ - 1
    BY TileFields DEF HotIn
  <2>4. u.z \notin Spared(policy)
    BY <1>4, <2>2, MeshAssumption DEF Spared
  <2>5. \A h \in HotIn(policy, t, hot) : t.z <= h.z => u.z <= h.z
    BY <1>4, <2>2, <2>3, MeshAssumption
  <2>6. Cools(policy, hot, u)
    BY <1>2, <2>1, <2>4, <2>5 DEF Cools
  <2> QED
    BY <2>6, ThrottleCools
<1> QED
  BY <1>1, <1>3, <1>4

\* findNonXLayer finds a layer, at worst the one beyond the bottom.
LEMMA NonThrotLayerFree ==
  ASSUME NEW shut \in SUBSET Tiles
  PROVE  NonThrotLayer(shut) \in 0 .. DimZ /\ \A t \in shut : t.z < NonThrotLayer(shut)
<1> DEFINE Layers == {n \in 0 .. DimZ : \A t \in shut : t.z < n}
<1>1. DimZ \in Layers /\ Layers \in SUBSET Nat
  BY TileFields, MeshAssumption
<1>2. PICK n \in Layers : \A m \in Layers : n <= m
  BY <1>1, Least
<1>3. \E l \in 0 .. DimZ :
        /\ \A t \in shut : t.z < l
        /\ \A m \in 0 .. DimZ : (\A t \in shut : t.z < m) => l <= m
  BY <1>2
<1> QED
  BY <1>3, Zenon DEF NonThrotLayer

-----------------------------------------------------------------------------
(* What is throttled, and what the processing elements know of it.         *)

ShutInv ==
  /\ setup \in Setups
  /\ throttled \in SUBSET Tiles
  /\ stage \in {"run", "clean"}
  /\ stage = "clean" => throttled = {}
  /\ free \in 0 .. DimZ
  /\ setup.policy = "GLOBAL" => throttled \in {{}, Tiles}
  /\ ThrottledPrefix
  /\ LayerFree

LEMMA ShutInit == Init => ShutInv
BY ThermalAssumption, MeshAssumption DEF Init, ShutInv, ThrottledPrefix, LayerFree

LEMMA ShutNext == ShutInv /\ [Next]_vars => ShutInv'
<1> SUFFICES ASSUME ShutInv, [Next]_vars PROVE ShutInv'
  OBVIOUS
<1>1. CASE UNCHANGED <<setup, throttled, free, stage>>
  BY <1>1 DEF ShutInv, ThrottledPrefix, LayerFree
<1>2. CASE SetCleanStage
  BY <1>2 DEF SetCleanStage, ShutInv, ThrottledPrefix, LayerFree
<1>3. CASE EndPeriod
  <2>1. /\ setup' = setup /\ stage' = "run" /\ setup.policy \in Policies
        /\ throttled = {}
    BY <1>3, ThermalAssumption DEF EndPeriod, ShutInv
  <2>2. PICK hot \in SUBSET Tiles : throttled' = Throttle(setup.policy, hot, {})
    BY <1>3, <2>1, ThermalAssumption DEF EndPeriod
  <2>3. throttled' \in SUBSET Tiles
    BY <2>2 DEF Throttle
  <2>7. setup.policy = "GLOBAL" => throttled' \in {{}, Tiles}
    <3>1. Throttle("GLOBAL", hot, {}) = {t \in Tiles : hot # {}}
      BY Zenon DEF Throttle
    <3> QED
      BY <2>2, <3>1
  <2>4. ThrottledPrefix'
    BY <2>1, <2>2, ThrottleUpper DEF ThrottledPrefix
  <2>5. free' = IF setup.policy \in Reconfiguring
                THEN NonThrotLayer(throttled') ELSE free
    BY <1>3 DEF EndPeriod
  <2>6. free' \in 0 .. DimZ /\ LayerFree'
    BY <2>1, <2>3, <2>5, NonThrotLayerFree DEF LayerFree, ShutInv
  <2> QED
    BY <2>1, <2>3, <2>4, <2>6, <2>7 DEF ShutInv
<1> QED
  BY <1>1, <1>2, <1>3 DEF Next, Generate, Admit, Hop, vars

\* Under every policy the throttled tiles are the upper part of their column
\* (NoximNoC.cpp, 1125-1291): heat never has to leave through a running tile.
THEOREM ThrottlingFromTheTop == Spec => []ThrottledPrefix
<1>1. ShutInv => ThrottledPrefix
  BY DEF ShutInv
<1> QED
  BY <1>1, ShutInit, ShutNext, PTL DEF Spec

\* The layers from _non_throt_layer down are running (NoximNoC.cpp, 1369).
THEOREM ToldLayersAreFree == Spec => []LayerFree
<1>1. ShutInv => LayerFree
  BY DEF ShutInv
<1> QED
  BY <1>1, ShutInit, ShutNext, PTL DEF Spec

-----------------------------------------------------------------------------
(***************************************************************************)
(* Without pre-routing, packets find their way                             *)
(*   - under a policy that throttles everything or spares the bottom       *)
(*     layer, with any function that goes up only in the column of the     *)
(*     destination: the bottom is always there to go around;               *)
(*   - under any policy with XYZ, since TLA checked the one path.          *)
(***************************************************************************)
Sparing == setup.policy \in {"TAVT", "VERTICAL", "DISTRIBUTED", "GLOBAL"}

Avoiding == ~PreRouting /\ setup.algorithm \in LateUp /\ Sparing

Checking == ~PreRouting /\ setup.algorithm = "XYZ"

\* The tiles that a packet may see under XYZ, and the one output that leads on.
Trail(p) == {p.src} \cup OnXYZ(p.src, p.dst)

Led(p, t, outs) ==
  \E k \in outs : /\ outs = {k}
                 /\ IF t = p.dst THEN k = "LOCAL"
                    ELSE k \in Directions /\ Neighbor(t, k) \in Trail(p)

\* Outputs at tile t to other tiles of the mesh, or to running ones.
InMesh(t, outs) == \A k \in outs : \/ k = "LOCAL"
                                   \/ k \in Directions /\ Neighbor(t, k) \in Tiles

Running(t, outs) ==
  /\ outs # {}
  /\ \A k \in outs \ {"LOCAL"} : Neighbor(t, k) \in Tiles \ throttled

PacketInv ==
  /\ msg # None => msg.src \in Tiles /\ msg.dst \in Tiles
  /\ Flying => /\ pkt = [packet |-> pkt.packet, at |-> pkt.at, outs |-> pkt.outs]
               /\ Sent(setup.algorithm, pkt.packet)
               /\ pkt.at \in Tiles /\ InMesh(pkt.at, pkt.outs)

AvoidInv == Flying => /\ pkt.at \notin throttled /\ pkt.packet.dst \notin throttled
                      /\ Running(pkt.at, pkt.outs)

TrailInv == Flying => /\ Trail(pkt.packet) \cap throttled = {}
                      /\ pkt.at \in Trail(pkt.packet)
                      /\ Led(pkt.packet, pkt.at, pkt.outs)

IInv == /\ ShutInv
        /\ ~PreRouting => PacketInv
        /\ Avoiding => AvoidInv
        /\ Checking => TrailInv

LEMMA SetupType ==
  ASSUME ShutInv
  PROVE  /\ setup.policy \in Policies /\ setup.algorithm \in Algorithms
         /\ setup.dw_layer_sel \in DownwardLayers
BY ThermalAssumption DEF ShutInv

\* Where some tile runs, the bottom layer does.
LEMMA UpperThrottled ==
  ASSUME ShutInv, Sparing, NEW t \in Tiles \ throttled
  PROVE  Upper(throttled)
<1>1. \A u \in throttled : u.z # DimZ - 1
  <2>1. CASE setup.policy = "GLOBAL"
    BY <2>1 DEF ShutInv
  <2>2. CASE setup.policy # "GLOBAL"
    BY <2>2 DEF ShutInv, ThrottledPrefix, Sparing, Spared
  <2> QED
    BY <2>1, <2>2
<1> QED
  BY <1>1 DEF Upper, ShutInv, ThrottledPrefix

\* What TLA makes of a message of two tiles.
LEMMA AdmittedType ==
  ASSUME ShutInv, NEW m, m.src \in Tiles, m.dst \in Tiles,
         NEW p \in Admitted(setup.algorithm, m, throttled, free)
  PROVE  /\ Sent(setup.algorithm, p)
         /\ p.src \notin throttled /\ p.dst \notin throttled
         /\ setup.algorithm = "XYZ" => Clear(OnXYZ(p.src, p.dst), throttled)
<1> DEFINE s == m.src
           d == m.dst
           alg == setup.algorithm
           routing == IF Clear(Cube(s, d), throttled) THEN {"WEST_FIRST"}
                      ELSE IF Clear(OnXYZ(s, d), throttled) THEN {"XYZ"}
                      ELSE IF Clear(Below(s) \cup Below(d), throttled)
                           THEN {"DOWNWARD_CROSS_LAYER"} ELSE {}
           layers == IF free = DimZ THEN {-1} ELSE free .. DimZ - 1
<1>1. /\ p \in TLA(alg, m, throttled, free)
      /\ alg \in HasDownward \/ p.routing # "DOWNWARD_CROSS_LAYER"
      /\ p.src \notin throttled /\ p.dst \notin throttled
  BY DEF Admitted
<1>2. DimZ \in Nat /\ DimZ # 0 /\ free \in 0 .. DimZ
  BY MeshAssumption DEF ShutInv
<1>3. CASE alg = "WEST_FIRST_DOWNWARD"
  <2>1. PICK r : p \in [src : {s}, dst : {d}, routing : {r}, layer : {DimZ - 1}]
    BY <1>1, <1>3 DEF TLA
  <2> QED
    BY <1>1, <1>2, <1>3, <2>1 DEF Sent
<1>4. CASE alg # "WEST_FIRST_DOWNWARD"
  <2>1. d \notin throttled
    BY <1>1, <1>4 DEF TLA
  <2>2. p \in [src : {s}, dst : {d}, routing : routing, layer : layers]
    BY <1>1, <1>4, <2>1 DEF TLA
  <2>3. layers \subseteq {l \in Int : l < DimZ}
    BY <1>2
  <2>4. routing \subseteq {"WEST_FIRST", "XYZ", "DOWNWARD_CROSS_LAYER"}
    OBVIOUS
  <2>5. p.routing \in {"WEST_FIRST", "XYZ"} => Clear(OnXYZ(s, d), throttled)
    <3>1. Clear(Cube(s, d), throttled) => Clear(OnXYZ(s, d), throttled)
      BY DEF Clear, OnXYZ
    <3> HIDE DEF layers
    <3> QED
      BY <2>2, <3>1
  <2> HIDE DEF layers, routing
  <2>6. /\ p.src = s /\ p.dst = d /\ p.layer \in Int /\ p.layer < DimZ
        /\ p.routing \in {"WEST_FIRST", "XYZ", "DOWNWARD_CROSS_LAYER"}
    BY <2>2, <2>3, <2>4
  <2>7. "XYZ" \notin HasDownward
    BY DEF HasDownward
  <2> QED
    BY <1>1, <2>5, <2>6, <2>7 DEF Sent
<1> QED
  BY <1>3, <1>4

\* A router of the XYZ path sends the packet to the next tile of it.
LEMMA OutputsLed ==
  ASSUME setup.algorithm = "XYZ", NEW p, p.src \in Tiles, p.dst \in Tiles,
         Trail(p) \cap throttled = {}, NEW t \in Trail(p)
  PROVE  Led(p, t, Outputs(p, t, t))
<1> DEFINE sel == setup.dw_layer_sel
<1>1. RoutingFunction("XYZ", sel, p, t, t, throttled) = XYZ(t, p.dst)
  BY Zenon DEF RoutingFunction
<1>2. /\ Clear(OnXYZ(p.src, p.dst), throttled)
      /\ t \in {p.src} \cup OnXYZ(p.src, p.dst) /\ t \in Tiles
  BY DEF Trail, Clear, OnXYZ, Cube
<1>3. PICK k : /\ Route("XYZ", sel, p, t, t, throttled) = {k}
               /\ OnRoute(p.src, p.dst, t, k)
  BY <1>1, <1>2, RouteAlong
<1>4. CASE t = p.dst
  BY <1>3, <1>4 DEF Led, Outputs, OnRoute
<1>5. CASE t # p.dst
  <2>1. Heads(t, p.dst, k)
    BY <1>2, <1>3, <1>5, XYZHeads DEF OnRoute
  <2>2. k \in Directions /\ k # "LOCAL"
    BY <1>2, <2>1, HeadsUnique
  <2>3. Neighbor(t, k) \in Trail(p)
    BY <1>3, <2>2, OnRouteStep DEF Trail
  <2> QED
    BY <1>3, <1>5, <2>2, <2>3 DEF Led, Outputs
<1> QED
  BY <1>4, <1>5

\* A packet that comes to tile t by a router of its own.
Comes(p, t) ==
  pkt' = [packet |-> p, at |-> t, outs |-> Outputs(p, t, t)] /\ Flying'

LEMMA ComesInv ==
  ASSUME IInv, ~PreRouting, setup' = setup, throttled' = throttled,
         NEW p, Sent(setup.algorithm, p), NEW t \in Tiles, Comes(p, t),
         msg' # None => msg'.src \in Tiles /\ msg'.dst \in Tiles,
         Avoiding => t \notin throttled /\ p.dst \notin throttled,
         Checking => Trail(p) \cap throttled = {} /\ t \in Trail(p)
  PROVE  PacketInv' /\ (Avoiding => AvoidInv') /\ (Checking => TrailInv')
<1> DEFINE outs == Outputs(p, t, t)
<1>1. /\ pkt' = [packet |-> p, at |-> t, outs |-> outs] /\ ShutInv
      /\ setup.algorithm \in Algorithms /\ setup.dw_layer_sel \in DownwardLayers
      /\ p.src \in Tiles /\ p.dst \in Tiles
  BY SetupType DEF Comes, IInv, Sent
<1>2. InMesh(t, outs)
  BY <1>1, RouteInMesh DEF InMesh, Outputs
<1>3. ASSUME Avoiding PROVE Running(t, outs)
  <2>1. Upper(throttled)
    BY <1>1, <1>3, UpperThrottled DEF Avoiding
  <2>2. /\ setup.algorithm \in LateUp /\ throttled \in SUBSET Tiles
        /\ t \in Tiles \ throttled /\ p.dst \notin throttled
    BY <1>1, <1>3 DEF Avoiding, ShutInv
  <2> QED
    BY <1>1, <2>1, <2>2, RouteOpen DEF Running, Outputs
<1>4. ASSUME Checking PROVE Led(p, t, outs)
  BY <1>1, <1>4, OutputsLed DEF Checking
<1> HIDE DEF outs
<1>5. pkt'.packet = p /\ pkt'.at = t /\ pkt'.outs = outs
  BY <1>1
<1>6. PacketInv'
  BY <1>1, <1>2, <1>5 DEF PacketInv, InMesh
<1>7. Avoiding => AvoidInv'
  BY <1>3, <1>5 DEF AvoidInv, Running
<1>8. Checking => TrailInv'
  BY <1>4, <1>5 DEF TrailInv, Led, Trail
<1> QED
  BY <1>6, <1>7, <1>8

LEMMA TravelInit == Init => IInv
BY ShutInit DEF Init, IInv, PacketInv, AvoidInv, TrailInv, Flying

LEMMA TravelNext == IInv /\ [Next]_vars => IInv'
<1> SUFFICES ASSUME IInv, [Next]_vars, ~PreRouting
             PROVE  PacketInv' /\ (Avoiding' => AvoidInv') /\ (Checking' => TrailInv')
  BY ShutNext DEF IInv, Avoiding, Checking
<1>1. setup' = setup /\ (Avoiding' <=> Avoiding) /\ (Checking' <=> Checking)
  BY DEF Next, Generate, Admit, Hop, SetCleanStage, EndPeriod, vars, Avoiding,
         Checking, Sparing
<1>2. PacketInv /\ ShutInv /\ (Avoiding => AvoidInv) /\ (Checking => TrailInv)
  BY DEF IInv
\* Nothing that concerns the packet under way changes for the worse.
<1>3. ASSUME pkt' = pkt, throttled' \subseteq throttled,
             msg' # None => msg'.src \in Tiles /\ msg'.dst \in Tiles
      PROVE  PacketInv' /\ (Avoiding => AvoidInv') /\ (Checking => TrailInv')
  <2>1. PacketInv'
    BY <1>1, <1>2, <1>3 DEF PacketInv, Flying, InMesh
  <2>2. Avoiding => AvoidInv'
    BY <1>2, <1>3 DEF AvoidInv, Flying, Running
  <2>3. Checking => TrailInv'
    BY <1>2, <1>3 DEF TrailInv, Flying, Trail, Led
  <2> QED
    BY <2>1, <2>2, <2>3
<1>4. CASE UNCHANGED vars
  BY <1>1, <1>2, <1>3, <1>4 DEF vars, PacketInv
<1>5. CASE Generate
  <2>1. PICK a \in Sources, d \in Tiles : msg' = [src |-> a, dst |-> d]
    BY <1>5 DEF Generate
  <2>2. msg'.src \in Tiles /\ msg'.dst \in Tiles
    BY <2>1, ThermalAssumption
  <2> QED
    BY <1>1, <1>3, <1>5, <2>2 DEF Generate
<1>6. CASE Admit
  <2>1. PICK p \in Admitted(setup.algorithm, msg, throttled, free) :
          pkt' = [packet |-> p, at |-> p.src, outs |-> Outputs(p, p.src, p.src)]
    BY <1>6 DEF Admit
  <2>2. msg' = None /\ throttled' = throttled /\ msg.src \in Tiles /\ msg.dst \in Tiles
    BY <1>2, <1>6 DEF Admit, PacketInv
  <2>3. /\ Sent(setup.algorithm, p) /\ p.src \in Tiles
        /\ p.src \notin throttled /\ p.dst \notin throttled
        /\ setup.algorithm = "XYZ" => Clear(OnXYZ(p.src, p.dst), throttled)
    BY <1>2, <2>1, <2>2, AdmittedType DEF Sent
  <2>4. Checking => Trail(p) \cap throttled = {} /\ p.src \in Trail(p)
    BY <2>3 DEF Checking, Trail, Clear
  <2>5. Comes(p, p.src)
    <3>1. pkt' # None
      BY <2>1 DEF None
    <3> QED
      BY <2>1, <3>1 DEF Comes, Flying
  <2> QED
    BY <1>1, <2>2, <2>3, <2>4, <2>5, ComesInv
<1>7. CASE Hop
  <2> DEFINE p == pkt.packet
  <2>1. PICK k \in pkt.outs :
          IF k = "LOCAL" THEN pkt' = None
          ELSE pkt' = [pkt EXCEPT !.at = Neighbor(pkt.at, k),
                         !.outs = Outputs(p, Neighbor(pkt.at, k), Neighbor(pkt.at, k))]
    BY <1>7 DEF Hop
  <2>2. msg' = msg /\ throttled' = throttled
    BY <1>7 DEF Hop
  <2>3. CASE k = "LOCAL"
    <3>1. ~Flying'
      BY <2>1, <2>3 DEF Flying
    <3> QED
      BY <1>2, <2>2, <3>1 DEF PacketInv, AvoidInv, TrailInv
  <2>4. CASE k # "LOCAL"
    <3> DEFINE to == Neighbor(pkt.at, k)
    <3>1. /\ Flying /\ pkt = [packet |-> p, at |-> pkt.at, outs |-> pkt.outs]
          /\ Sent(setup.algorithm, p) /\ to \in Tiles
          /\ msg # None => msg.src \in Tiles /\ msg.dst \in Tiles
      BY <1>2, <1>7, <2>1, <2>4 DEF Hop, PacketInv, InMesh
    <3>2. Avoiding => to \notin throttled /\ p.dst \notin throttled
      BY <1>2, <2>1, <2>4, <3>1 DEF AvoidInv, Running
    <3>3. Checking => Trail(p) \cap throttled = {} /\ to \in Trail(p)
      BY <1>2, <2>1, <2>4, <3>1 DEF TrailInv, Led
    <3>4. pkt' = [packet |-> p, at |-> to, outs |-> Outputs(p, to, to)]
      BY <2>1, <2>4, <3>1
    <3> HIDE DEF to, p
    <3>5. Comes(p, to)
      <4>1. pkt' # None
        BY <3>4 DEF None
      <4> QED
        BY <3>4, <4>1 DEF Comes, Flying
    <3> QED
      BY <1>1, <2>2, <3>1, <3>2, <3>3, <3>5, ComesInv
  <2> QED
    BY <2>3, <2>4
<1>8. CASE SetCleanStage
  BY <1>1, <1>3, <1>8 DEF SetCleanStage
<1>9. CASE EndPeriod
  <2>1. ~Flying' /\ msg' = msg
    BY <1>9 DEF EndPeriod, Flying
  <2> QED
    BY <1>2, <2>1 DEF PacketInv, AvoidInv, TrailInv
<1> QED
  BY <1>4, <1>5, <1>6, <1>7, <1>8, <1>9 DEF Next

THEOREM PacketsTravel == Spec => []IInv
BY TravelInit, TravelNext, PTL DEF Spec

(***************************************************************************)
(* Without pre-routing no packet leaves the mesh, under all algorithms,    *)
(* downward layers and policies: what a routing function offers beyond the *)
(* border is lateral, and on_off_neighbor takes it away (NoximRouter.cpp,  *)
(* 667-700).                                                               *)
(***************************************************************************)
THEOREM PacketsStayInMesh == Spec => [](~PreRouting => TypeOK)
<1>1. IInv => (~PreRouting => TypeOK)
  BY DEF IInv, ShutInv, PacketInv, InMesh, TypeOK
<1> QED
  BY <1>1, PacketsTravel, PTL

(***************************************************************************)
(* A packet that was admitted always has an output at every router, never  *)
(* towards a throttled tile or out of the mesh, so route never takes       *)
(* rand() modulo zero (NoximRouter.cpp, 667): whatever is hot, whenever    *)
(* the throttling changes, and whichever candidate is selected.            *)
(***************************************************************************)
THEOREM AdmittedPacketsFindTheirWay ==
  Spec => [](Avoiding \/ Checking => RouteExists)
<1>1. IInv => (Avoiding \/ Checking => RouteExists)
  <2>1. AvoidInv => RouteExists
    BY DEF AvoidInv, Running, RouteExists
  <2>2. ASSUME PacketInv, TrailInv, Flying
        PROVE  /\ pkt.outs # {}
               /\ \A k \in pkt.outs \ {"LOCAL"} :
                    Neighbor(pkt.at, k) \in Tiles \ throttled
    <3>1. Trail(pkt.packet) \subseteq Tiles \ throttled
      BY <2>2 DEF PacketInv, TrailInv, Sent, Trail, OnXYZ, Cube
    <3> QED
      BY <2>2, <3>1 DEF TrailInv, Led
  <2> QED
    BY <2>1, <2>2 DEF IInv, RouteExists, Avoiding, Checking
<1> QED
  BY <1>1, PacketsTravel, PTL
=============================================================================
