---------------------------- MODULE NoximRouter ----------------------------
(***************************************************************************)
(* One router of the network: rxProcess, which fills the input buffers,    *)
(* and txProcess, the pipeline that moves flits to the outputs: routing    *)
(* computation (RC), virtual channel allocation (VA), switch allocation    *)
(* (SA, with its speculative variant) and switch traversal (ST).           *)
(*                                                                         *)
(* The neighbours are the environment: they send well-formed packets       *)
(* within their credits and acknowledge the flits they were sent, in any   *)
(* order and after any delay.  NoximLink models those two channels.        *)
(*                                                                         *)
(* txProcess runs its stages one after the other on shared members.  A     *)
(* stage is an operator here, on the values the earlier stages left; a     *)
(* loop that gives a resource to the first requester of a rotating scan is *)
(* the choice of the requester with the lowest rank.                       *)
(***************************************************************************)
EXTENDS Integers, Sequences

CONSTANTS
  NPorts,      \* DIRECTIONS + 2
  FirstLocal,  \* DIRECTION_LOCAL: ports from here on belong to the tile
  NVCs,        \* num_vcs
  Depth,       \* buffer_depth
  PacketSize,  \* flits of a packet
  Sources,     \* input VCs on which packets arrive
  Sinks,       \* ports that the routing function picks
  ArchRC,      \* arch_rc: the head flit brings its pre-computed route
  ArchSA,      \* arch_sa: speculative switch allocation
  Throttling,  \* TRUE: NoximNoC::entry may put the tile in emergency
  NotReserved, NotValid

Ports == 0..NPorts - 1
VCs   == 0..NVCs - 1

\* Input virtual channels, and output virtual channels.
Channels == Ports \X VCs

ASSUME RouterAssumption ==
  /\ NPorts \in Nat \ {0} /\ NVCs \in Nat \ {0} /\ FirstLocal \in Ports
  /\ Depth \in Nat \ {0} /\ PacketSize \in Nat \ {0, 1}
  /\ Sources \subseteq Channels /\ Sinks \subseteq Ports
  /\ ArchRC \in BOOLEAN /\ ArchSA \in BOOLEAN /\ Throttling \in BOOLEAN
  /\ NotReserved \notin Channels \cup Ports \cup VCs
  /\ NotValid \notin Channels \cup Ports \cup VCs
  /\ NotReserved # NotValid

VARIABLES
  buffer,     \* buffer[in]: the flits of an input VC
  G, R, O,    \* vc_state: global state, routed port, output VC of an input VC
  C,          \* vc_state: credits of an output VC
  specul,     \* speculation_sa_enale of an input VC
  win_port, win_vc, \* winner of the switch for an output port
  rtable,     \* reservation_table: output VC -> input VC
  start,      \* start_from_port = start_from_port_SA, modulo NPorts * NVCs
  emergency,  \* _emergency
  tx,         \* flit_tx/req_tx of an output port: << >> or <<vc, flit>>
  ran,        \* the process that already ran in this cycle
  feed,       \* neighbours: the packet being sent to an input VC, and how
              \* many of its flits were dropped (their credits are gone)
  open        \* history: whose packet is open on an output VC

vcVars   == <<G, R, O, C, specul, win_port, win_vc, rtable, start, tx, open>>
vars     == <<buffer, vcVars, emergency, ran, feed>>

Table == INSTANCE NoximReservationTable
           WITH Outs <- Channels, Ins <- Channels, AnyRelease <- FALSE

GlobalStates == {"idle", "routing", "vcallocating", "active"}
FlitTypes    == {"head", "body", "tail"}

\* A flit, the port it arrived on and the output its packet was routed to:
\* flit.pre_routing, or what route() returns for it.
Flits == [type : FlitTypes, src : Ports, out : Ports]

Init ==
  /\ buffer = [x \in Channels |-> << >>]
  /\ G = [x \in Channels |-> "idle"]
  /\ R = [x \in Channels |-> 0]
  /\ O = [x \in Channels |-> NotValid]
  /\ C = [y \in Channels |-> Depth]
  /\ specul = [x \in Channels |-> TRUE]
  /\ win_port = [o \in Ports |-> NotReserved]
  /\ win_vc = [o \in Ports |-> NotReserved]
  /\ rtable = [y \in Channels |-> NotReserved]
  /\ start = 0
  /\ emergency = FALSE
  /\ tx = [o \in Ports |-> << >>]
  /\ ran = {}
  /\ feed = [x \in Channels |-> [left |-> 0, out |-> 0, lost |-> 0]]
  /\ open = [y \in Channels |-> NotReserved]

\* Both processes run once in a cycle, in either order.
Runs(p) == /\ p \notin ran
           /\ ran' = IF ran = {} THEN {p} ELSE {}

-----------------------------------------------------------------------------
(* rxProcess and the neighbours that feed it *)

\* What a neighbour may send next on an input VC.
NextFlits(x) ==
  IF feed[x].left = 0
    THEN {[type |-> "head", src |-> x[1], out |-> o] : o \in Sinks \ {x[1]}}
    ELSE {[type |-> IF feed[x].left = 1 THEN "tail" ELSE "body",
           src |-> x[1], out |-> feed[x].out]}

\* What is left of the packet once f was sent.
Fed(x, f) ==
  [left |-> IF f.type = "head" THEN PacketSize - 1 ELSE feed[x].left - 1,
   out  |-> IF f.type = "tail" THEN 0 ELSE f.out,
   lost |-> feed[x].lost + IF emergency THEN 1 ELSE 0]

\* The neighbour sends within its credits.
CanReceive(x) == Len(buffer[x]) + feed[x].lost < Depth

Incoming == UNION {{x} \X NextFlits(x) : x \in {y \in Sources : CanReceive(y)}}

\* A port has one flit_rx, so at most one of its VCs receives in a cycle.
Arrivals == {in \in SUBSET Incoming :
               \A m, n \in in : m[2].src = n[2].src => m = n}

\* A flit that arrives in an emergency is ignored.
RxProcess ==
  /\ Runs("rx")
  /\ \E in \in Arrivals :
       LET receivers == {m[1] : m \in in}
           flit(x)   == (CHOOSE m \in in : m[1] = x)[2]
       IN  /\ buffer' = [x \in Channels |->
                           IF x \in receivers /\ ~emergency
                             THEN Append(buffer[x], flit(x)) ELSE buffer[x]]
           /\ feed' = [x \in Channels |->
                         IF x \in receivers THEN Fed(x, flit(x)) ELSE feed[x]]
  /\ UNCHANGED <<vcVars, emergency>>

-----------------------------------------------------------------------------
(* The stages of txProcess.  A stage reads what the earlier ones left, the *)
(* primed variables; `\E x \in {e}' names a value that several use.        *)

\* Position in a scan that starts at `start'.
PortRank(i) == (i + NPorts * NVCs - start) % NPorts
VCRank(v)   == (v + NPorts * NVCs - start) % NVCs

\* The requesters of a scan over ports, and the VCs of each port in order.
ScanRank(x) == PortRank(x[1]) * NVCs + x[2]
First(xs)   == CHOOSE x \in xs : \A y \in xs : ScanRank(x) <= ScanRank(y)

\* Check Global state.
Checked ==
  [x \in Channels |->
     IF G[x] = "vcallocating" /\ O[x] # NotValid THEN "active"
     ELSE IF G[x] = "routing" THEN "vcallocating"
     ELSE G[x]]

\* NoximVCState::credit, PLUS_MODE and MINUS_MODE.
Plus(c)  == IF c < Depth THEN c + 1 ELSE c
Minus(c) == c - 1

\* The outputs whose winner has a flit to send, and of these the outputs
\* that send a tail.
Winner(o)  == <<win_port[o], win_vc[o]>>
Leaving(o) == Head(buffer[Winner(o)])

Moving ==
  {o \in Ports : /\ NotReserved \notin {win_port[o], win_vc[o]}
                 /\ buffer[Winner(o)] # << >>
                 /\ ~emergency
                 /\ Checked[Winner(o)] = "active"}

Closing(moving) == {o \in moving : Leaving(o).type = "tail"}

\* The input VCs and the output VCs of a set of outputs.
Inputs(outs)  == {Winner(o) : o \in outs}
Outputs(outs) == {<<o, O[Winner(o)]>> : o \in outs}

SwitchTraversal(acks, moving) ==
  /\ tx' = [o \in Ports |->
              IF o \in moving THEN <<O[Winner(o)], Leaving(o)>> ELSE << >>]
  /\ buffer' = [x \in Channels |->
                  IF x \in Inputs(moving) THEN Tail(buffer[x]) ELSE buffer[x]]
  /\ C' = [y \in Channels |->
             LET c == IF y \in acks THEN Plus(C[y]) ELSE C[y]
             IN  IF y \in Outputs(moving) THEN Minus(c) ELSE c]
  /\ open' = [y \in Channels |->
                IF y \in Outputs(Closing(moving)) THEN NotReserved
                ELSE IF y \in Outputs(moving) THEN Leaving(y[1]).src
                ELSE open[y]]

\* Mutant: the tail flit does not take the output VC from its input VC.
OutputKept(tails) == O

\* Tail flits leave their input VC idle and without an output VC; R keeps its
\* value, because NoximVCState::routing ignores NOT_VALID.
StateAfterTail(tails) ==
  [x \in Channels |-> IF x \in tails THEN "idle" ELSE Checked[x]]
OutputAfterTail(tails) ==
  [x \in Channels |-> IF x \in tails THEN NotValid ELSE O[x]]

\* A pre-routed flit goes on to VA in this cycle; of the others one VC of a
\* port is routed, and waits for the next cycle.
PreRouted(x) == ArchRC /\ x[1] < FirstLocal

Routed(g) ==
  LET req == {x \in Channels : /\ g[x] = "idle"
                               /\ buffer'[x] # << >>
                               /\ Head(buffer'[x]).type = "head"}
  IN  {x \in req : PreRouted(x) \/ \A y \in req : y[1] = x[1] => x[2] <= y[2]}

\* Mutant: a pre-routed flit keeps the route of the packet before it.
RoutingComputationStale(g) ==
  \E routed \in {Routed(g)} :
    /\ G' = [x \in Channels |-> IF x \notin routed THEN g[x]
                                ELSE IF PreRouted(x) THEN "vcallocating"
                                ELSE "routing"]
    /\ R' = [x \in Channels |->
               IF x \in routed /\ ~PreRouted(x) THEN Head(buffer'[x]).out
                                                ELSE R[x]]

RoutingComputation(g) ==
  \E routed \in {Routed(g)} :
    /\ G' = [x \in Channels |-> IF x \notin routed THEN g[x]
                                ELSE IF PreRouted(x) THEN "vcallocating"
                                ELSE "routing"]
    /\ R' = [x \in Channels |->
               IF x \in routed THEN Head(buffer'[x]).out ELSE R[x]]

\* The input VCs that ask for an output VC.  flit.vc is the VC the flit came
\* in on, so the same VC of the other ports competes for it.
AllocationRequests ==
  {x \in Channels : /\ G'[x] = "vcallocating" /\ buffer'[x] # << >>
                    /\ Head(buffer'[x]).type = "head"}

Wanted(x) == <<R'[x], x[2]>>

\* Mutant: VA without reservation_table.isAvailable().
GrantedAnyway(req, t) ==
  [y \in {Wanted(x) : x \in req} |-> First({x \in req : Wanted(x) = y})]

\* The output VCs that are reserved in this cycle, and for whom.
Granted(req, t) ==
  [y \in {Wanted(x) : x \in {z \in req : Table!IsAvailable(t, Wanted(z))}}
     |-> First({x \in req : Wanted(x) = y})]

VCAllocation(req, closing) ==
  \E t \in {Table!ReleaseAll(rtable, Outputs(closing))} :
    \E grants \in {Granted(req, t)} :
      /\ rtable' = Table!ReserveAll(t, grants)
      /\ O' = [x \in Channels |->
                 IF \E y \in DOMAIN grants : grants[y] = x THEN x[2]
                 ELSE OutputAfterTail(Inputs(closing))[x]]

\* Mutant: a packet may speculate in every cycle.
MaySpeculateAgain(tails) == Channels

\* The VCs that still have the one speculation of their packet.
MaySpeculate(tails) == {x \in Channels : specul[x] \/ x \in tails}

\* Speculative SA: the first requester of each output.
Speculative(req) ==
  LET cand(o) == {x \in req : R'[x] = o}
  IN  [o \in {p \in Ports : ArchSA /\ cand(p) # {}} |-> First(cand(o))]

\* Mutant: SA step 1 without the credit check.
CanTraverseBlindly == {x \in Channels : ~emergency /\ G'[x] = "active"}

\* SA step 1: the VCs that may use the switch, with or without a flit; then
\* one VC of each input port that does not speculate.
CanTraverse ==
  {x \in Channels : ~emergency /\ G'[x] = "active" /\ C'[<<R'[x], O'[x]>>] > 0}

Candidates(can, busy) ==
  {x \in can : /\ x[1] \notin busy
               /\ \A y \in can : y[1] = x[1] => VCRank(x[2]) <= VCRank(y[2])}

\* SA step 2: the first candidate of each output.
Allocated(cand) ==
  [o \in {R'[x] : x \in cand} |-> First({x \in cand : R'[x] = o})]

\* Mutant: a speculating VC does not look at its credit.
CreditAssumed(o, x) == 1..Depth

\* What a speculating VC reads as its credit.  Without an output VC that is
\* C[o][-1], any value.
Credit(o, x) == IF O'[x] = NotValid THEN 0..Depth ELSE {C'[<<o, O'[x]>>]}

SwitchAllocation(spec) ==
  \E sa \in {Allocated(Candidates(CanTraverse,
                                  {spec[o][1] : o \in DOMAIN spec}))} :
    /\ win_port' = [o \in Ports |-> IF o \in DOMAIN spec THEN spec[o][1]
                                    ELSE IF o \in DOMAIN sa THEN sa[o][1]
                                    ELSE NotReserved]
    /\ \E lucky \in SUBSET DOMAIN spec :
         /\ \A o \in DOMAIN spec :
              \E c \in Credit(o, spec[o]) : o \in lucky <=> c > 0
         /\ win_vc' = [o \in Ports |->
                         IF o \in lucky THEN spec[o][2]
                         ELSE IF o \in DOMAIN sa \ DOMAIN spec THEN sa[o][2]
                         ELSE NotReserved]

-----------------------------------------------------------------------------
(* txProcess *)

TxProcess(acks) ==
  /\ Runs("tx")
  /\ \E moving \in {Moving} :
       LET tails == Inputs(Closing(moving))
           may   == MaySpeculate(tails)
       IN  /\ SwitchTraversal(acks, moving)
           /\ RoutingComputation(StateAfterTail(tails))
           /\ \E req \in {AllocationRequests} :
                /\ VCAllocation(req, Closing(moving))
                /\ \E spec \in {Speculative(req \cap may)} :
                     /\ specul' = [x \in Channels |->
                          x \in may /\ \A o \in DOMAIN spec : spec[o] # x]
                     /\ SwitchAllocation(spec)
  /\ start' = (start + 1) % (NPorts * NVCs)
  /\ UNCHANGED <<emergency, feed>>

\* The neighbours acknowledge any of the flits that are outstanding.
Outstanding == {y \in Channels : C[y] < Depth}

\* NoximNoC::entry, between two cycles: throttles or releases the tile.
Throttle ==
  /\ Throttling
  /\ ran = {}
  /\ emergency' = ~emergency
  /\ UNCHANGED <<buffer, vcVars, ran, feed>>

Next == \/ RxProcess
        \/ \E acks \in SUBSET Outstanding : TxProcess(acks)
        \/ Throttle

Spec == Init /\ [][Next]_vars

(***************************************************************************)
(* The kernel runs both processes in every cycle.  A neighbour finishes    *)
(* the packets it began, and forwards and acknowledges what it received.   *)
(***************************************************************************)
Fairness ==
  /\ WF_vars(RxProcess)
  /\ WF_vars(\E acks \in SUBSET Outstanding : TxProcess(acks))
  /\ \A x \in Channels :
       SF_vars(RxProcess /\ feed[x].left > 0 /\ feed'[x] # feed[x])
  /\ \A y \in Channels :
       SF_vars(\E acks \in SUBSET Outstanding : y \in acks /\ TxProcess(acks))

FairSpec == Spec /\ Fairness

-----------------------------------------------------------------------------
(* Properties *)

\* Types.  The lower bound of C is the assertion of NoximVCState::credit.
TypeOK ==
  /\ buffer \in [Channels -> Seq(Flits)]
  /\ \A x \in Channels : Len(buffer[x]) <= Depth
  /\ G \in [Channels -> GlobalStates]
  /\ R \in [Channels -> Ports]
  /\ O \in [Channels -> VCs \cup {NotValid}]
  /\ C \in [Channels -> 0..Depth]
  /\ specul \in [Channels -> BOOLEAN]
  /\ win_port \in [Ports -> Ports \cup {NotReserved}]
  /\ win_vc \in [Ports -> VCs \cup {NotReserved}]
  /\ rtable \in [Channels -> Channels \cup {NotReserved}]
  /\ start \in 0..NPorts * NVCs - 1
  /\ emergency \in BOOLEAN
  /\ tx \in [Ports -> {<< >>} \cup (VCs \X Flits)]
  /\ ran \in {{}, {"rx"}, {"tx"}}
  /\ feed \in [Channels -> [left : 0..PacketSize - 1, out : Ports,
                          lost : 0..Depth]]
  /\ open \in [Channels -> Ports \cup {NotReserved}]

\* The reservation table and the VC states tell the same story: an input VC
\* holds exactly the output VC it is routed to and was given, from VA until
\* its tail has left, and holds nothing otherwise.  reserve() asserts that
\* the entry is free and release() must free the right one.
ReservationsMatch ==
  \A x \in Channels :
    Table!HeldBy(rtable, x) = IF O[x] = NotValid THEN {} ELSE {<<R[x], O[x]>>}

\* What a winner of the switch may do in the next cycle is safe: it was
\* routed to this output, its output VC has a credit, and no other output
\* takes a flit from the same input VC.
GrantsSound ==
  \A o \in Ports : NotReserved \notin {win_port[o], win_vc[o]} =>
    LET x == Winner(o)
    IN  /\ R[x] = o
        /\ O[x] # NotValid => C[<<o, O[x]>>] > 0
        /\ \A p \in Ports \ {o} : Winner(p) # x

\* An emergency that catches a packet on its way in drops some of its flits.
NothingLost == \A x \in Channels : feed[x].lost = 0

\* A packet leaves a VC of an output head first, in one piece: no flit of
\* another packet comes between its head and its tail.  An emergency delays
\* packets but does not mix them, as long as it caught none on its way in.
TxRan == start' # start
WormholeOrder ==
  [][NothingLost /\ TxRan => \A o \in Ports : tx'[o] # << >> =>
       LET f == tx'[o][2]
           y == <<o, tx'[o][1]>>
       IN  open[y] = IF f.type = "head" THEN NotReserved ELSE f.src]_vars

\* Every flit leaves through the output its packet was routed to.
NoMisroute ==
  NothingLost => \A o \in Ports : tx[o] # << >> => tx[o][2].out = o

\* While a packet that owns a VC of an output has flits waiting for it, flits
\* keep leaving through that output: neither the VCs that win the switch with
\* nothing to send, nor a failed speculation, can block it for ever.
Waits(o) ==
  \E x \in Channels : G[x] = "active" /\ R[x] = o /\ buffer[x] # << >>
Progress == \A o \in Ports : Waits(o) ~> tx[o] # << >>

\* "RoundRobin Arbiter" (NoximRouter.cpp:326): a virtual channel that asks
\* for an output VC is served in the end.
VAServed ==
  \A x \in Channels : (G[x] = "vcallocating") ~> (G[x] = "active")

=============================================================================
