----------------------------- MODULE NoximLink -----------------------------
(***************************************************************************)
(* One virtual channel of the link between two routers: the credit counter *)
(* and switch-allocation grant of the upstream txProcess, the req/flit and *)
(* ack signals, and the input buffer that the downstream rxProcess fills   *)
(* and the downstream txProcess drains.                                    *)
(*                                                                         *)
(* All these processes are SC_METHODs of one clock edge.  SystemC runs     *)
(* them in an unspecified order; a signal written in a cycle is read in    *)
(* the next one, while plain members (the buffer, _emergency) are shared   *)
(* at once.  `ran' is the set of processes that already ran this cycle and *)
(* ClockEdge is the update phase.  NoximNoC::entry may run at any point of *)
(* a cycle: it throttles the tile (_emergency) and resizes its buffers.    *)
(***************************************************************************)
EXTENDS Integers, Sequences

CONSTANTS
  Flit,          \* the flits that may travel
  Depth,         \* NoximGlobalParams::buffer_depth, the credits of a VC
  Capacity,      \* max_buffer_size of the downstream buffer after configure
  Throttling,    \* TRUE: NoximNoC::entry may put the tile in emergency
  Resizing,      \* TRUE: NoximNoC::entry runs TBDB on the tile
  MinBuf, MaxBuf \* the sizes between which TBDB moves a buffer (2 and 8)

ASSUME LinkAssumption ==
  /\ Depth \in Nat \ {0}
  /\ Capacity \in Nat \ {0}
  /\ MinBuf \in Nat \ {0}
  /\ MaxBuf \in Nat
  /\ Throttling \in BOOLEAN
  /\ Resizing \in BOOLEAN

VARIABLES
  credit,    \* upstream: vc_state C[o][vc]
  grant,     \* upstream: win_port[o], win_vc[o] name an input VC bound for it
  wire,      \* req/flit signals as read this cycle: << >> or <<flit>>
  wireNext,  \* req_tx/flit_tx as last written
  ack,       \* ack signal as read this cycle
  ackNext,   \* ack_rx as last written
  buf,       \* downstream: buffer[i][vc]
  capacity,  \* downstream: max_buffer_size of that buffer
  emergency, \* downstream: _emergency
  lost,      \* number of flits rxProcess ignored (history)
  ran        \* processes that ran in this cycle

upVars   == <<credit, grant, wireNext>>
downVars == <<buf, lost>>
nocVars  == <<capacity, emergency>>
vars     == <<upVars, downVars, nocVars, wire, ack, ackNext, ran>>

-----------------------------------------------------------------------------
(* Helpers *)

Processes == {"upTx", "downRx", "downTx"}

\* Mutant: PLUS_MODE without its bound.
PlusUnbounded(c) == c + 1

\* NoximVCState::credit(PLUS_MODE): an extra credit is swallowed.
Plus(c) == IF c < Depth THEN c + 1 ELSE c

\* NoximVCState::credit(MINUS_MODE): asserts c > 0, which TypeOK watches.
Minus(c) == c - 1

IsFull == Len(buf) = capacity

\* A vertical link's VLink leaves its ack signal at 1 on reset.
Init ==
  /\ credit = Depth
  /\ grant = FALSE
  /\ wire = << >> /\ wireNext = << >>
  /\ ack \in BOOLEAN /\ ackNext = FALSE
  /\ buf = << >>
  /\ capacity = Capacity
  /\ emergency = FALSE
  /\ lost = 0
  /\ ran = {}

Runs(p) == p \notin ran /\ ran' = ran \cup {p}

-----------------------------------------------------------------------------
(* Processes *)

\* The credit after the acknowledgement of this cycle was counted.
Refilled == IF ack THEN Plus(credit) ELSE credit

\* Mutant: the grant does not look at the credit counter.
AllocateBlindly == grant' \in BOOLEAN

\* Switch allocation grants the output only to a VC that has a credit left.
Allocate == grant' \in {g \in BOOLEAN : g => credit' > 0}

\* Upstream txProcess moves the front flit of a granted VC over the switch.
UpTxSend ==
  /\ Runs("upTx")
  /\ grant
  /\ \E f \in Flit : wireNext' = <<f>>
  /\ credit' = Minus(Refilled)
  /\ Allocate
  /\ UNCHANGED <<downVars, nocVars, wire, ack, ackNext>>

\* No grant, or the granted VC is empty, throttled or not active.
UpTxIdle ==
  /\ Runs("upTx")
  /\ wireNext' = << >>
  /\ credit' = Refilled
  /\ Allocate
  /\ UNCHANGED <<downVars, nocVars, wire, ack, ackNext>>

\* Mutant: the flit is pushed at the front of the deque.
DownRxPushFront ==
  /\ Runs("downRx")
  /\ IF ~emergency /\ ~IsFull
       THEN buf' = wire \o buf /\ lost' = lost
       ELSE buf' = buf /\ lost' = lost + Len(wire)
  /\ UNCHANGED <<upVars, nocVars, wire, ack, ackNext>>

\* Downstream rxProcess: no else branch, a flit it cannot take is gone.
DownRx ==
  /\ Runs("downRx")
  /\ IF ~emergency /\ ~IsFull
       THEN buf' = buf \o wire /\ lost' = lost
       ELSE buf' = buf /\ lost' = lost + Len(wire)
  /\ UNCHANGED <<upVars, nocVars, wire, ack, ackNext>>

\* Mutant: the flit is forwarded but not acknowledged.
DownTxPopSilently ==
  /\ Runs("downTx")
  /\ buf # << >>
  /\ ~emergency
  /\ buf' = Tail(buf)
  /\ ackNext' = FALSE
  /\ UNCHANGED <<upVars, lost, nocVars, wire, ack>>

\* Downstream txProcess forwards the front flit and acknowledges it.
DownTxPop ==
  /\ Runs("downTx")
  /\ buf # << >>
  /\ ~emergency
  /\ buf' = Tail(buf)
  /\ ackNext' = TRUE
  /\ UNCHANGED <<upVars, lost, nocVars, wire, ack>>

\* Mutant: ack_rx is not lowered when nothing is forwarded.
DownTxIdleStaleAck ==
  /\ Runs("downTx")
  /\ UNCHANGED <<upVars, downVars, nocVars, wire, ack, ackNext>>

\* Nothing to forward, throttled, or not granted: ack_rx.write(0).
DownTxIdle ==
  /\ Runs("downTx")
  /\ ackNext' = FALSE
  /\ UNCHANGED <<upVars, downVars, nocVars, wire, ack>>

\* NoximNoC::setCleanStage: every tile leaves emergency.
SetCleanStage ==
  /\ Throttling
  /\ Runs("noc")
  /\ emergency' = FALSE
  /\ UNCHANGED <<upVars, downVars, capacity, wire, ack, ackNext>>

\* NoximRouter::TBDB on one buffer; the upstream credits are not told.
Resized == {capacity}
             \cup (IF capacity > MinBuf THEN {capacity - 1} ELSE {})
             \cup (IF capacity < MaxBuf THEN {capacity + 1} ELSE {})

\* The temperature period ends: TBDB, then EmergencyDecision.
EndCleanStage ==
  /\ Throttling \/ Resizing
  /\ Runs("noc")
  /\ capacity' \in IF Resizing THEN Resized ELSE {capacity}
  /\ emergency' \in IF Throttling THEN BOOLEAN ELSE {emergency}
  /\ UNCHANGED <<upVars, downVars, wire, ack, ackNext>>

ClockEdge ==
  /\ Processes \subseteq ran
  /\ ran' = {}
  /\ wire' = wireNext
  /\ ack' = ackNext
  /\ UNCHANGED <<upVars, ackNext, downVars, nocVars>>

Next == \/ UpTxSend \/ UpTxIdle
        \/ DownRx
        \/ DownTxPop \/ DownTxIdle
        \/ SetCleanStage \/ EndCleanStage
        \/ ClockEdge

Spec == Init /\ [][Next]_vars

(***************************************************************************)
(* The simulation kernel runs every process in every cycle.  That a        *)
(* non-empty buffer is forwarded again and again is the downstream         *)
(* router's duty, assumed here.                                            *)
(***************************************************************************)
Fairness ==
  /\ WF_vars(UpTxSend \/ UpTxIdle)
  /\ WF_vars(DownRx)
  /\ WF_vars(DownTxPop \/ DownTxIdle)
  /\ WF_vars(ClockEdge)
  /\ SF_vars(DownTxPop)

FairSpec == Spec /\ Fairness

-----------------------------------------------------------------------------
(* Derived state *)

\* Flits the downstream buffer has not seen yet, oldest first.
Unread == IF "downRx" \in ran THEN << >> ELSE wire
Sent   == IF "upTx" \in ran THEN wireNext ELSE << >>

InFlight == Unread \o Sent

\* The virtual channel as its users see it.
Channel == buf \o InFlight

\* The credit as it stands once the pending acknowledgement is counted.
Settled == IF ack /\ "upTx" \notin ran THEN Plus(credit) ELSE credit

\* The acknowledgement written in this cycle, counted from the next one on.
AcksWritten == IF ackNext /\ "downTx" \in ran THEN 1 ELSE 0

-----------------------------------------------------------------------------
(* Properties *)

\* Types; the lower bound of credit is the assertion of
\* NoximVCState::credit(MINUS_MODE), and `grant => credit > 0' is why it
\* never fires in the switch traversal stage.
TypeOK ==
  /\ credit \in 0..Depth
  /\ grant \in BOOLEAN /\ (grant => credit > 0)
  /\ wire \in Seq(Flit) /\ Len(wire) <= 1
  /\ wireNext \in Seq(Flit) /\ Len(wireNext) <= 1
  /\ ack \in BOOLEAN /\ ackNext \in BOOLEAN
  /\ buf \in Seq(Flit)
  /\ capacity \in Nat
  /\ emergency \in BOOLEAN
  /\ lost \in Nat
  /\ ran \subseteq Processes \cup {"noc"}

\* Every one of the Depth slots the upstream router was promised is a credit,
\* a flit under way, an acknowledgement under way, or was leaked by a flit
\* that rxProcess ignored: txProcess and rxProcess together neither mint nor
\* destroy credits, whatever the order they run in.
CreditsConserved ==
  Settled + AcksWritten + Len(Channel) + lost = Depth

\* A tile that is never throttled or resized receives every flit sent to it:
\* rxProcess never finds the buffer full (NoximRouter.cpp:48).
NoLoss == lost = 0

\* The only reasons to lose a flit.
MayLose == Throttling \/ Resizing \/ Capacity < Depth

\* The virtual channel is a bounded FIFO, lossy only if the receiver is
\* throttled, resized or too small.
Fifo == INSTANCE BoundedFifo WITH chan <- Channel, Lossy <- MayLose
ImplementsFifo == Fifo!Spec

\* A sender that ran out of credits gets one back: the credit loop cannot
\* stall while the receiver keeps forwarding.
CreditReturns == (credit = 0) ~> (credit > 0)

=============================================================================
