# A TLA+ model of PAT-Noxim, the 3D network-on-chip simulator

The repository holds PAT-Noxim (`PAT-Noxim/PAT_Noxim/src`), a SystemC simulator
of a 3D mesh of wormhole routers with virtual channels, credits and run-time
thermal management, and four application-mapping programs that drive HotSpot
(`HotSpot-7.0/standard/*_algorithm`). SystemC, HotSpot, ORION and TGFF are
vendored. This directory models the parts that carry the simulator's own logic,
model-checks them with TLC and proves their main properties with TLAPS.

All line numbers below are in `PAT-Noxim/PAT_Noxim/src` unless a path is given.

## 1. Inventory

| component | state | operations | correct when | hard because |
|---|---|---|---|---|
| **virtual channel of a link**: two routers, `NoximVCState` credits, `NoximBuffer` | credit counter, switch grant, req/flit and ack signals, input buffer, `_emergency` | `txProcess` upstream, `rxProcess` and `txProcess` downstream, `setCleanStage`, `EndCleanStage` with `TBDB` | credits are conserved, no flit is lost, duplicated or reordered, the sender is never stuck | the processes of a cycle run in any order; signals are seen one cycle late, members at once; a tile may be throttled with flits in flight |
| **router pipeline** (`NoximRouter::rxProcess`, `txProcess`) | input buffers, VC state (G, R, O, C), switch winners, speculation flags, reservation table, rotating start | check state, credits, switch traversal (ST), routing (RC), VC allocation (VA), speculative and two-step switch allocation (SA) | packets leave whole and where they were routed; reservations match the VC states; a grant is still valid when it is used; outputs do not block | grants are used one cycle after they were computed; VA, speculation and SA share the winners; VCs and ports compete |
| **reservation table** (`NoximReservationTable`) | input VC that holds each output VC, or free, or invalid | `clear`, `isAvailable`, `reserve`, `release`, lookups, `invalidate` | one output per input VC; invalidated ports stay so | `reserve` releases behind the caller's back; weak assertions |
| **routing functions and selection** (`NoximRouter.cpp:587-2163`) | none (reads neighbour state) | 25 routing functions, 10 selection strategies, `route()` with its filter | minimal or bounded paths, never off the mesh, no cyclic wait | adaptive functions with one VC; no candidate left |
| **thermal management** (`NoximNoC::entry`, `EmergencyDecision`, `Reconfiguration`) | `throttling`, `beltway`, the layers told to the PEs | clean stage begins and ends, six throttling policies | the throttled tiles of a column are its top; where PEs are told the layers, those are not throttled; where they are not, packets still find their way | clean stage ends by time only; information is recomputed by some policies only |
| **transport layer** (`NoximProcessingElement::TLA`) | the message queue, `_non_throt_layer` | whether a message is admitted, as which kind of packet, over which layer | an admitted packet finds a way around the throttled tiles | the path is checked once; the routers decide again at every hop |
| **processing element** | packet queues, packet being sent per VC, credits, PE reservation table | `rxProcess`, `txProcess`, cascade buffers | packets are sent once and in order | uncapped credit, nested receive |
| **vertical link** (`NoximVLink`) | reservation table, arbitration state | `Mesh`, `CrossBar_UP`, `CrossBar_DOWN` | a layer pair is connected to one sender | two crossbars share one table |
| **pair mapping algorithm** (`HotSpot-7.0/standard/pair_algorithm/new.cpp`) | mesh of cores, applications, completion times | map, 2-opt, block hot cores, free | a core runs one task; freed when done; every application is mapped in the end | loops that wait for room |

How they interact: `NoximTile` wires a router and a processing element; signals
connect neighbouring tiles (vertical ones through `NoximVLink`). The router
owns one reservation table and one VC state object. `NoximNoC::entry` runs on
the same clock edge and writes plain members of every tile (`_emergency`, buffer
sizes, the layers the PEs may use).

### Not modelled

* Statistics, power, logging, the command line, traffic and routing tables: I/O
  and floating-point accounting, on which no control state depends.
* HotSpot, ORION, TGFF and SystemC are vendored: they are almost all of the
  repository's lines, so that the share of lines that the modules translate is
  small whatever is modelled of the simulator. What the routers need from the
  SystemC kernel is in `NoximLink`. Temperatures are inputs of the throttling
  decision, any set of hot tiles.
* Routing functions whose choice depends on free slots of the neighbours (`ADWL`,
  `VBDR`), the table-based one, the two that are empty (`DTBR`, `off_on_xy2`), and the beltway and cascade
  ("semi-local") variants.
* The credit loop of the processing element (`NoximProcessingElement.cpp:25-82`,
  `189-322`): it repeats the router's with a looser bound (listed as a hazard).
* The crossbar variant of the vertical link, which is off by default: its two
  directions write one reservation table and index it with the layers of each
  other, and nothing says what it is meant to do.
* The baseline router (`arch_router = 0`).
* In the pair algorithm: reading graphs, the report, and `fillGaps`, which nothing
  calls. The three other mapping programs share its life cycle and differ in
  numeric heuristics (swarm, shapes, migration).

## 2. Modules

| module | models | state and actions |
|---|---|---|
| `BoundedFifo` | what a virtual channel promises | `chan`; `Put`, `Get`, `Lose` |
| `NoximLink` | one VC of a link | `credit`, `grant` of the sender; `wire`/`wireNext` and `ack`/`ackNext` are the read and written halves of an `sc_signal`; `buf`, `capacity`, `emergency` of the receiver; `lost` counts dropped flits (history); `ran` is the set of processes that ran in this cycle. `UpTxSend`/`UpTxIdle` are `txProcess` upstream, `DownRx` and `DownTxPop`/`DownTxIdle` the receiver, `SetCleanStage`/`EndCleanStage` are `NoximNoC::entry`, `ClockEdge` is the kernel's update phase |
| `NoximReservationTable` | `NoximReservationTable` | `rtable`; the operators work on a table value so that the router can apply several in one step; the specification is a client that calls them one at a time |
| `NoximRouter` | `rxProcess` and `txProcess` of one router | the code's members under their names; the stages of `txProcess` are operators in the code's order, each reading the primed variables the earlier stages assigned; `feed` and `open` are the neighbours' side: the packet each one is sending, and whose packet is open on an output VC |
| `MCNoximRouter` | values for the runs | the sets of input VCs that receive packets |
| `NoximRouting` | the routing functions, `on_off_neighbor` and `route()` | no state: sets of candidate outputs as functions of packet, tile and throttled tiles |
| `NoximTransport` | `NoximProcessingElement::TLA` and the check after it | no state: the packets that a message may become |
| `NoximMesh` | packets in the whole mesh | `path`, `tail`: the channels that a packet's header reserved and its tail released (reservation tables seen from the packet); `fifo`: whose flits are in each input buffer; `out`: the routed output of each header. `Inject`, `Advance`, `TailLeaves` |
| `NoximThermal` | `NoximNoC::entry`: periods, clean stage, six policies, and what routers and processing elements make of it | `throttled`, `free` (`_non_throt_layer`), `stage`, one message and one packet under way; `Generate`, `Admit`, `Hop`, `SetCleanStage`, `EndPeriod` |
| `PairMapping` | `pair_algorithm` of `pair_algorithm/new.cpp` | `core`, `wear`, `blocked`, `mapped`, `time`, `log`; the optimiser's state `opt`; one action per step of the loop |
| `MCNoximMesh`, `MCNoximThermal`, `MCPairMapping` | values for the runs | |
| `NoximTransport_proofs` | lemmas about paths and routes | |
| `CountingLemmas` | lemmas about counting, least elements and ranks | |
| `NoximLink_proofs`, `NoximReservationTable_proofs`, `NoximRouter_proofs`, `NoximMesh_proofs`, `NoximThermal_proofs`, `PairMapping_proofs` | theorems | |

`NoximRouter` instantiates `NoximReservationTable` on `rtable`. `NoximLink`
refines `BoundedFifo` with `chan <- buf \o InFlight`, the receiver's buffer
followed by what is on the wire. `NoximMesh` and `NoximThermal` extend
`NoximTransport`, which extends `NoximRouting`: the packets they send are those
that TLA admits, and every hop goes by `Route`. `NoximMesh` abstracts the link and
the router: what it takes from them is that flits of a VC stay in order
(`ImplementsFifo`), that a VC is held from header to tail (`WormholeOrder`), that
packets go where they were routed (`NoMisroute`) and that an output does not
block by itself (`Progress`).

Choices that a reader of the code will ask about:

* **Order in a cycle.** The SystemC kernel may run the processes of a clock edge
  in any order. `ran` allows every order; each runs once per cycle.
* **Credits.** `arch_with_credit = 1` (`Depth` is `buffer_depth`); the on/off
  mode sets all credits to 1, the case `Depth = 1`.
* **The output VC of a packet** is the VC it came in on: `nextFlit` sets
  `flit.vc` and the head keeps it, so the same VC of different ports competes.
* **The route of a packet** is an input of `NoximRouter` (`flit.out`, a member of
  `Sinks`): what `route()` returns, or what `pre_routing` brings.
* **The rotating start.** `start_from_port` and `start_from_port_SA` are always
  equal (both start at 0 and advance once per cycle); only their remainders
  modulo the number of ports and of VCs matter, so `start` is kept modulo the
  product.
* **Undefined behaviour.** A speculating VC without an output VC reads
  `C[output][-1]` (line 399): `Credit` returns any value. `waiting[-2][-2]++`
  (line 240) is not modelled: which member it hits depends on the layout.
* **`DFS`/`RST`** are 8 and 0, so the guards at lines 183 and 375 hold in every
  cycle. `arch_router = 0` (baseline) is not modelled.
* **Neighbours of `NoximRouter`** send well-formed packets within their credits
  and acknowledge the flits they were sent in any order and after any delay:
  more than `NoximLink` allows them. A flit dropped in an emergency costs its
  sender a credit for ever (`feed[x].lost`).
* **Selection.** A routing function returns candidates; the selection strategy
  takes one by buffer levels, temperatures or `rand()`. The client takes any.
* **One VC per packet.** A packet stays on the VC it was injected in, so packets
  of different VCs never wait for each other; `NoximMesh` has one VC.
* **Tails and lengths** in `NoximMesh`. When a tail can leave depends on packet
  length and buffer depth, so it may leave at any time after its header went on:
  a cyclic wait is found for whatever lengths it takes. `long` packets, longer
  than the buffers on their way, keep everything: the worst case for waiting, and
  the smallest state space. One run has a short packet between long ones.
* **Thermal management follows one packet at a time**: routes of packets do not
  depend on each other. Its clean stage is *assumed* to empty the network before
  `EndPeriod`; the code does not check that (a hazard, whose consequences
  `NoximLink` and `NoximRouter` show).
* **Pre-routing** is the default of the simulator and violates the filter of
  `route()` (finding 3), so the passing thermal run has it off.
* **The pairs' order.** Gravity and clustering sort the pairs of an application
  by floating-point keys; `StartMapping` takes any order.
* **Temperatures in `PairMapping`** are any of the sets in `HotSets`, but none
  when no core works: otherwise nothing need ever be mapped.
* **Vertical links** come out of reset with `ack` at 1 (`NoximVLink.cpp:13-14`),
  so `ack` starts with any value; the bound of `PLUS_MODE` absorbs it.

## 3. Properties and runs

| run | instance | shows |
|---|---|---|
| `link_cold` | 2 flits, depth 3, no throttling, with fairness | `TypeOK` (a grant always has a credit, `MINUS_MODE` never asserts), `CreditsConserved` (credits + flits + acks under way + leaked = depth), `NoLoss`, `ImplementsFifo`, `CreditReturns` |
| `link_hot` | the same with emergencies and buffer sizes 1 to 3 at any moment | `CreditsConserved` and `ImplementsFifo` still hold: flits are lost, with their credits, never reordered or duplicated |
| `table_client` | 3 input and 4 output VCs, any start | `OneOutputPerInput`, `InvalidForever` for clients that release what is reserved |
| `table_doc` | the same, a client that trusts the assertion of `release` | violation of `InvalidForever`: finding 1 |
| `router_vcs` | 3 ports, 2 VCs, one-flit buffers, 3-flit packets; both VCs of port 0 and one of the local port 2 send to port 1 | both arbiters of SA, VA and speculation: `ReservationsMatch`, `GrantsSound`, `WormholeOrder` |
| `router_hot` | 3 ports, 1 VC, two-flit buffers, two outputs, emergencies between any two cycles | the same after losses, and as long as nothing was lost `WormholeOrder` and `NoMisroute` |
| `router_live` | 2 ports compete for one output VC, two-flit buffers, with fairness | `Progress` |
| `router_rr` | the same | violation of `VAServed`: finding 2 |
| `mesh` | 3x2x2 tiles, four packets that exchange the corners of a rectangle: in the plane, at an even and an odd column, across layers, on a diagonal, around a throttled corner; ten routing functions, as TLA would admit the packets | `NoCyclicWait`, `Loopless`, `Delivered` |
| `thermal` | 3x3x3 tiles; six policies with the algorithms made for them (32 setups); up to two hot tiles in any period, four senders, all destinations, with fairness | `ThrottledPrefix`, `LayerFree`, `RouteExists`, `Delivered` |
| `thermal_pre` | one setup with pre-routing, one hot tile | violation of `ErasesThrottled`: finding 3 |
| `pair` | 2x2x4 cores, three applications that do not fit together, four sets of hot cores | `AppsWhole`, `NoOverbooking`, `ColdPlacement`, `CostFalls`, `AllMapped` |

**Bounds.** Depth 3 on the link lets a cycle have a flit on the wire, one just
written and one in the buffer at once, so that all terms of the credit sum are
non-zero together; two flits tell reordering from identity. In the router, three
ports are two competitors and an output, the least with contention; one- and
two-flit buffers reach the full, the empty and the back-to-back case, where the
tail of a packet and the head of the next are in the buffer together; packets of
two flits have a head that is followed by its tail, of three a body flit. Port 2
is local (`FirstLocal = 2`), so one competitor goes through the two-cycle RC and
the other through the pre-routed one. No counter is unbounded; `lost` and
`feed[x].lost` are bounded by the credits.

In the mesh, four packets on the corners of a rectangle are the least that can
wait for each other in a cycle, and such a cycle is what every forbidden turn
makes; the third column gives the odd-even functions an even and an odd one to
start from. 3x3x3 tiles have an interior column
with all four neighbours and a layer above and below the middle one; two hot tiles
may share a column, a layer or neither. In the pair run the three applications
need nine slots of the eight there are, so one waits; the heat includes a pattern that no box
covers, so the fallback of the slot search is used, and the wear passes
`Saturation`, so the starting point moves. Witness runs confirmed that these cases
occur, with ties in the end times and three optimiser passes.

**Fairness.** The kernel runs every process in every cycle: weak fairness of each
process and of the clock edge. `NoximLink` assumes that the receiver forwards
again and again (`SF(DownTxPop)`): that is the router's duty, and what
`Progress` is about. `NoximRouter` assumes that a neighbour finishes the packets
it began and acknowledges what it got, again and again. No fairness is assumed
of arbitration. Fair link and router runs have no throttling: a tile may be kept
in emergency. `NoximMesh` only asks that some header that can advance does, or
some tail behind an arrived header (`Moves`); the code, where all routers run in
every cycle, is fairer. `NoximThermal` has weak fairness of `Hop` alone: periods
need not end. `PairMapping` is one thread: weak fairness of `Next`.

**What the runs leave out, and why.** `FULLY_ADAPTIVE` and `NEGATIVE_FIRST` violate
`NoCyclicWait` in the mesh of `NoximMesh`; nothing in the repository promises the
contrary, so they are hazards without a property, and not findings. The planar
odd-even functions take packets of another layer past the column of their
destination, and have no scenario across layers. In `thermal`, `ZXY`
and `FULLY_ADAPTIVE` leave the path that TLA checked; `WEST_FIRST` does under the
`*_MAX` policies, when a packet that was checked along XYZ meets a throttled
bottom. `GlobalThrottle` and `DistributedThrottle` do not tell the processing
elements the new layers, and `LayerFree` does not speak of them; what becomes of
packets with a stale layer is checked by `RouteExists` and `Delivered`, with
`DISTRIBUTED` under the oblivious downward layers and `WEST_FIRST_DOWNWARD`: a
router that meets throttled tiles sends them down. In `pair`, `calculate_starting_point` compares its count before it adds a
slot, so the last slot is never used by the fallback; and the fallback, which the
comment at `new.cpp:874` says is reached only when the chip is out of space, is also
reached when the free slots lie in no one box.

**Findings.**

1. The assertions of `NoximReservationTable::release` accept entries that are not
   reserved or not valid, against `NoximReservationTable.h:36-38`. No caller in
   the repository does that today.
2. The arbiter of VA is called round robin (`NoximRouter.cpp:326`) but rotates by
   the cycle: a port can lose at every release of an output VC, when the packets
   of its rival take a multiple of the number of ports in cycles.
3. `route` is to erase the directions that are throttled (`NoximRouter.cpp:676`,
   `679`), but in pre-routing (line 370) it computes an output of the next router
   and reads the neighbours of this one: a packet is sent towards a throttled
   tile, which drops it.

A flit in flight towards a tile that enters an emergency is dropped without an
acknowledgement (`NoximRouter.cpp:48`). The clean stage is meant to drain the
network first, but the check that it did (`NoximNoC.cpp:774-784`) is commented
out. `CreditsConserved` counts what it costs (`lost`), and `NothingLost` in
`WormholeOrder` and `NoMisroute` is the same seen from the router: after a lost
tail the next packet is forwarded into the old wormhole.

## 4. Proofs

`NoximLink_proofs`, for every depth, capacity and set of flits:

* `LinkTypeOK`, `LinkCreditsConserved`: the inductive invariant is their
  conjunction. Neither is inductive alone: that a send finds a credit needs
  `grant => credit > 0`, and that `PLUS_MODE` never swallows a real
  acknowledgement needs the sum.
* `LinkNoLoss`: without throttling and resizing and with `Capacity >= Depth`, from
  the sum: a flit on the wire and a full buffer would make more than `Depth`.
  The invariant `LossInv` keeps `capacity` and `emergency` as they were.
* `LinkImplementsFifo`: every step maps to a `Put` (send), a `Get` (pop), a
  `Lose` (drop) or a stutter; `DropInFlight` shows that a dropped flit is one
  position of the channel, and the bound on `Put` comes from the credit sum.

`NoximReservationTable_proofs`: `TableTypeOK`, `TableOneOutput` and, for clients
that release only what is reserved, `TableInvalidForever`.

`NoximRouter_proofs`, for any number of ports and VCs, any depth, packet size and
sources, with and without pre-routing and speculation, and with emergencies
between any two cycles. `RouterInvariant` is `RouterInv`, in two parts:

* `Consistent`: `TypeOK`, `ReservationsMatch`, `GrantsSound` and `StatesMatch`. The
  last says which VC states come with an output VC, and that it has the number of
  the input VC: without it what VA reserves, what switch traversal uses and what
  the tail releases need not be the same output VC. One lemma per stage of
  `txProcess` (`TraversalTypes`, `RoutingFacts`, `AllocationFacts`, `SwitchedFacts`)
  says what it leaves to the next. The types are not local either: that no credit
  falls below 0 is `GrantsSound`.
* `Streams` and `NoMisroute`: as long as no flit was lost, the flits of an input VC
  are pieces of packets that its neighbour will complete (`Whole`), the state of
  the VC says how far the first one went (`Begun`), and nothing is open on an
  output VC that is free (`FreeAreClosed`). `NoMisroute` and `WormholeOrder` speak of
  one cycle; what makes them true is where the head of the packet is when its
  tail is still with the neighbour.

From it `RouterTypeOK`, `RouterReservationsMatch`, `RouterGrantsSound`,
`RouterNoMisroute` and the action property `RouterWormholeOrder`.

`NoximTransport_proofs` holds what the next two modules share, in three parts: XYZ
paths (`XYZHeads`, `OnRouteStep`, `RouteAlong`); the six minimal functions
(`RouteCloser`: on a way that TLA checked, every output that `Route` returns brings
the packet closer and keeps it in the field that was checked); and the eleven
functions that go up only in the destination's column, `LateUp` (`RouteOpen`:
between running tiles, and if what is throttled is the upper part of its column
and never the bottom, there is an output, and all outputs lead to running tiles).
`RouteInMesh`, for all sixteen functions: no output leads out of the mesh.

`NoximMesh_proofs`, for every mesh, every set of packets and buffers and packets of
any length. The invariant `IInv` has a part for each of two kinds of scenarios:

* `Minimal` (XYZ, ZXY, west-first, north-last, negative-first, fully adaptive; what
  is throttled lies outside the tiles that TLA checks): `PathInv`. A header stands
  where its output brings it closer (`Headed`), paths are joined and get closer
  (`Joined`, `Closing`), and buffers, paths and tails agree (`Buffered`, `Present`,
  `Leading`). `MinimalTypeOK` and `MinimalLoopless` follow; neither says by itself
  what the next hop may be.
* `TurnModel` (the first four of them): `RouteInv`. Channels are ranked (`Rank`), by
  phase and within a phase in the direction they lead. For ZXY a phase is
  an axis. West-first in three dimensions has WEST first, UP last, and
  between them a phase for every step east or down: its packets mix EAST, DOWN and
  one of NORTH and SOUTH, and a cycle of those would have to come back west or up.
  North-last is ranked alike, by the steps south, and XYZ
  with it. Every turn of these functions leads to a higher rank (`RankGrows`), so ranks grow along a path (`Ranked`) and a
  header stands below the channel it wants (`Routed`). So a packet waits only for
  one that is further (`WaitsForHigher`: on a higher channel, or in front of it on
  the same), and the packet of a set that is furthest waits for none of it
  (`WaitsEnd`): `TurnModelsNeverDeadlock`. For the other two, negative-first and fully
  adaptive, there is no such ranking: TLC finds cyclic waits.

`RoutesStayOrdered` is `IInv` itself.

`NoximThermal_proofs`, for every mesh and any hot tiles in any period:

* `ThrottlingFromTheTop` and `ToldLayersAreFree`, under all six policies. The
  invariant `ShutInv` adds that nothing is throttled in the clean stage, since the
  policies look at what was throttled before.
* `PacketsTravel` is the invariant `IInv` of a packet under way; from it
  `PacketsStayInMesh`: without pre-routing no packet leaves the mesh, under every
  algorithm, downward layer and policy of the model. What a function offers beyond
  the border is lateral, and the filter of `route` takes it away.
* `AdmittedPacketsFindTheirWay`: `RouteExists` in two cases, both without
  pre-routing. `Avoiding`: a `LateUp` function, any downward layer, and a policy that
  spares the bottom layer or throttles everything; the bottom is always there to go
  around, UP is only taken in the column of the destination, and what is throttled
  there is above it (`AvoidInv`, `RouteOpen`). `Checking`: XYZ under any policy, since
  TLA checked the one path that is taken (`TrailInv`). Under `VERTICAL_MAX` and
  `TAVT_MAX` the bottom can be throttled, and what TLA checked matters to the other
  functions as well: that is left to TLC.

`PairMapping_proofs`, for every mesh of even height, any applications and run times,
any heat. `PairInvariant` is `PairInv`: besides the four properties, a working core
has a task of a mapped application (`Working`), the cores of an application end
together (`Together`; otherwise `free_mesh`, which frees the application that ends
first, would leave half of it), an upper core works only over a lower one of the
same application (`Stacked`; the slot search looks at lower cores alone), an
interval that is not over has its core (`Logged`), and the mapping being optimised
puts the pairs on different, cold and free slots, both cores of them (`Planned`). The lemmas are about
`make_pairs` (`PairedApart`, `GreedyApart`, `MakePairsPlaces`: every task in exactly one
pair), `find_compact_mapping` (`SweepOnce`, `OxPlowSlots`, `FirstRowSlots`: as many
different usable slots as were asked for) and applying a mapping (`ApplyEffect`,
`PutOnce`). From it `PairTypeOK`, `PairAppsWhole`, `PairNoOverbooking`, and the action
property `PairColdPlacement`: both cores of a stack are free and cold when a task is
put on one of them, though a task that has no partner leaves the other empty.

The assumptions are those named in the modules (`LinkAssumption`,
`TableAssumption`, `RouterAssumption`, `MeshAssumption`, `ScenarioAssumption`,
`ThermalAssumption`, `PairAssumption`) and the ones in the statements. Where
the code counts or sorts (run times, slots in the order of a sweep, pairs by
weight), the lemmas use least elements and ranks in place of an induction over
data (`CountingLemmas`).

Model-checked only:

* liveness (`CreditReturns`, `Progress`, `Delivered`, `AllMapped`), out of the prover's
  reach;
* `CostFalls`: an inequality between sums over the edges of a graph, by induction
  over data;
* `NoCyclicWait` of the odd-even and downward functions, and `Loopless` and `TypeOK` of
  `NoximMesh` for the functions that are not minimal;
* `RouteExists` for the functions with downward layers under `TAVT_MAX` and
  `VERTICAL_MAX`.

## 5. Plan

What is left, the most important first:

1. Freedom from deadlock and from loops of the functions that go down, across and
   up (`DOWNWARD`, `WEST_FIRST_DOWNWARD`, `DLDR`, `DLADR`), with layers as the outer
   phases of a ranking and UP as the last.
2. `RouteExists` under the `*_MAX` policies, from what TLA checked of a downward path.
3. The credit loop of the processing element, when its intended bound is settled.
