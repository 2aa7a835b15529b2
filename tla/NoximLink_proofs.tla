-------------------------- MODULE NoximLink_proofs --------------------------
(***************************************************************************)
(* Proofs about NoximLink, for every set of flits, every number of credits *)
(* and every buffer size.  LinkInv, the types together with the credit     *)
(* equation, is inductive; the other results follow from it.               *)
(***************************************************************************)
EXTENDS NoximLink, SequenceTheorems, TLAPS

LinkInv == TypeOK /\ CreditsConserved

-----------------------------------------------------------------------------
(* The flits under way are a sequence, and their number adds up.           *)

LEMMA ChannelLength ==
  ASSUME TypeOK
  PROVE  /\ Unread \in Seq(Flit) /\ Len(Unread) \in Nat
         /\ Sent \in Seq(Flit) /\ Len(Sent) \in Nat
         /\ InFlight \in Seq(Flit)
         /\ Channel \in Seq(Flit)
         /\ Len(buf) \in Nat
         /\ Len(Channel) = Len(buf) + Len(Unread) + Len(Sent)
<1>1. << >> \in Seq(Flit) /\ Len(<< >>) = 0
  BY EmptySeq
<1>2. Unread \in Seq(Flit) /\ Sent \in Seq(Flit) /\ buf \in Seq(Flit)
  BY <1>1 DEF TypeOK, Unread, Sent
<1>3. Len(Unread) \in Nat /\ Len(Sent) \in Nat /\ Len(buf) \in Nat
  BY <1>2, LenProperties
<1>4. /\ InFlight \in Seq(Flit)
      /\ Len(InFlight) = Len(Unread) + Len(Sent)
  BY <1>2, ConcatProperties DEF InFlight
<1>5. /\ Channel \in Seq(Flit)
      /\ Len(Channel) = Len(buf) + Len(InFlight)
  BY <1>2, <1>4, ConcatProperties DEF Channel
<1> QED
  BY <1>2, <1>3, <1>4, <1>5

(* The credit equation with the length of the channel spelt out, which is  *)
(* what the steps below change term by term.                               *)
Slots == Settled + AcksWritten + (Len(buf) + Len(Unread) + Len(Sent)) + lost

LEMMA CreditEquation ==
  ASSUME TypeOK
  PROVE  CreditsConserved <=> Slots = Depth
BY ChannelLength DEF CreditsConserved, Slots

-----------------------------------------------------------------------------
(* LinkInv is inductive.                                                   *)

LEMMA LinkInit == Init => LinkInv
<1> SUFFICES ASSUME Init PROVE LinkInv
  OBVIOUS
<1>1. << >> \in Seq(Flit) /\ Len(<< >>) = 0
  BY EmptySeq
<1>2. TypeOK
  <2>1. credit \in 0..Depth /\ lost \in Nat /\ capacity \in Nat
    BY LinkAssumption DEF Init
  <2>4. /\ grant \in BOOLEAN /\ (grant => credit > 0)
        /\ emergency \in BOOLEAN /\ ack \in BOOLEAN /\ ackNext \in BOOLEAN
    BY Zenon DEF Init
  <2>2. /\ wire \in Seq(Flit) /\ Len(wire) <= 1
        /\ wireNext \in Seq(Flit) /\ Len(wireNext) <= 1
        /\ buf \in Seq(Flit)
    BY <1>1 DEF Init
  <2>3. ran \subseteq Processes \cup {"noc"}
    BY DEF Init
  <2> QED
    BY <2>1, <2>2, <2>3, <2>4 DEF TypeOK
<1>3. Slots = Depth
  BY <1>1, LinkAssumption
     DEF Init, Slots, Settled, Plus, AcksWritten, Unread, Sent
<1> QED
  BY <1>2, <1>3, CreditEquation DEF LinkInv

LEMMA LinkTypes == LinkInv /\ [Next]_vars => TypeOK'
<1> SUFFICES ASSUME LinkInv, [Next]_vars PROVE TypeOK'
  OBVIOUS
<1> USE LinkAssumption
<1>1. TypeOK /\ Slots = Depth
  BY CreditEquation DEF LinkInv
<1>2. << >> \in Seq(Flit) /\ Len(<< >>) = 0
  BY EmptySeq
<1>3. \A f \in Flit : <<f>> \in Seq(Flit) /\ Len(<<f>>) = 1
  OBVIOUS
<1>4. Refilled \in 0..Depth /\ (grant => Refilled > 0)
  BY <1>1 DEF TypeOK, Refilled, Plus
<1>5. CASE UpTxSend
  BY <1>1, <1>3, <1>4, <1>5
     DEF UpTxSend, Runs, Processes, Minus, Allocate, TypeOK, downVars, nocVars
<1>6. CASE UpTxIdle
  BY <1>1, <1>2, <1>4, <1>6
     DEF UpTxIdle, Runs, Processes, Allocate, TypeOK, downVars, nocVars
<1>7. CASE DownRx
  <2>1. buf \o wire \in Seq(Flit) /\ Len(wire) \in Nat
    BY <1>1, ConcatProperties, LenProperties DEF TypeOK
  <2>2. buf' \in Seq(Flit) /\ lost' \in Nat
    <3>1. buf \in Seq(Flit) /\ lost \in Nat /\ lost + Len(wire) \in Nat
      BY <1>1, <2>1 DEF TypeOK
    <3>2. \/ buf' = buf \o wire /\ lost' = lost
          \/ buf' = buf /\ lost' = lost + Len(wire)
      BY <1>7, Zenon DEF DownRx
    <3> QED
      BY <2>1, <3>1, <3>2
  <2>3. ran' \subseteq Processes \cup {"noc"}
    BY <1>1, <1>7 DEF DownRx, Runs, Processes, TypeOK
  <2> QED
    BY <1>1, <1>7, <2>2, <2>3 DEF DownRx, TypeOK, upVars, nocVars
<1>8. CASE DownTxPop
  <2>1. Tail(buf) \in Seq(Flit)
    BY <1>1, <1>8, HeadTailProperties DEF DownTxPop, TypeOK
  <2> QED
    BY <1>1, <1>8, <2>1 DEF DownTxPop, Runs, Processes, TypeOK, upVars, nocVars
<1>9. CASE DownTxIdle
  BY <1>1, <1>9
     DEF DownTxIdle, Runs, Processes, TypeOK, upVars, downVars, nocVars
<1>10. CASE SetCleanStage
  BY <1>1, <1>10 DEF SetCleanStage, Runs, Processes, TypeOK, upVars, downVars
<1>11. CASE EndCleanStage
  <2>1. Resized \subseteq Nat
    BY <1>1 DEF Resized, TypeOK
  <2> QED
    BY <1>1, <1>11, <2>1
       DEF EndCleanStage, Runs, Processes, TypeOK, upVars, downVars
<1>12. CASE ClockEdge
  BY <1>1, <1>12 DEF ClockEdge, TypeOK, upVars, downVars, nocVars
<1>13. CASE UNCHANGED vars
  BY <1>1, <1>13 DEF vars, upVars, downVars, nocVars, TypeOK
<1> QED
  BY <1>5, <1>6, <1>7, <1>8, <1>9, <1>10, <1>11, <1>12, <1>13 DEF Next

LEMMA LinkCredits == LinkInv /\ [Next]_vars => (Slots = Depth)'
<1> SUFFICES ASSUME LinkInv, [Next]_vars PROVE (Slots = Depth)'
  OBVIOUS
<1> USE LinkAssumption
<1>1. TypeOK /\ Slots = Depth
  BY CreditEquation DEF LinkInv
<1>2. Len(<< >>) = 0
  OBVIOUS
<1>3. /\ Len(buf) \in Nat /\ Len(Unread) \in Nat /\ Len(Sent) \in Nat
      /\ Len(wire) \in Nat /\ Len(wireNext) \in Nat
  BY <1>1, ChannelLength, LenProperties DEF TypeOK
<1>4. CASE UpTxSend
  <2>1. Len(wireNext') = 1
    BY <1>4 DEF UpTxSend
  <2>2. /\ Sent = << >> /\ Sent' = wireNext'
        /\ Settled = Refilled /\ Settled' = credit'
        /\ AcksWritten' = AcksWritten
        /\ Unread' = Unread /\ buf' = buf /\ lost' = lost
    BY <1>4 DEF UpTxSend, Runs, Sent, Settled, Refilled, AcksWritten, Unread,
                downVars
  <2> QED
    BY <1>1, <1>2, <1>3, <1>4, <2>1, <2>2
       DEF UpTxSend, Slots, Minus, Refilled, Plus, AcksWritten, TypeOK
<1>5. CASE UpTxIdle
  <2>1. /\ Sent = << >> /\ Sent' = << >>
        /\ Settled = Refilled /\ Settled' = credit'
        /\ AcksWritten' = AcksWritten
        /\ Unread' = Unread /\ buf' = buf /\ lost' = lost
    BY <1>5 DEF UpTxIdle, Runs, Sent, Settled, Refilled, AcksWritten, Unread,
                downVars
  <2> QED
    BY <1>1, <1>5, <2>1 DEF UpTxIdle, Slots
<1>6. CASE DownRx
  <2>1. /\ Unread = wire /\ Unread' = << >>
        /\ Sent' = Sent /\ Settled' = Settled /\ AcksWritten' = AcksWritten
    BY <1>6 DEF DownRx, Runs, Unread, Sent, Settled, Plus, AcksWritten, upVars
  <2>2. Len(buf \o wire) = Len(buf) + Len(wire)
    BY <1>1, ConcatProperties DEF TypeOK
  <2>3. /\ Len(buf') + lost' = Len(buf) + Len(wire) + lost
        /\ Len(buf') \in Nat /\ lost' \in Nat /\ lost \in Nat
    <3>1. lost \in Nat
      BY <1>1 DEF TypeOK
    <3>2. \/ buf' = buf \o wire /\ lost' = lost
          \/ buf' = buf /\ lost' = lost + Len(wire)
      BY <1>6, Zenon DEF DownRx
    <3>3. CASE buf' = buf \o wire /\ lost' = lost
      <4>1. Len(buf') = Len(buf) + Len(wire)
        BY <2>2, <3>3
      <4> QED
        BY <1>3, <3>1, <3>3, <4>1
    <3>4. CASE buf' = buf /\ lost' = lost + Len(wire)
      BY <1>3, <3>1, <3>4
    <3> QED
      BY <3>2, <3>3, <3>4
  <2>4. Settled \in Int /\ AcksWritten \in Int
    BY <1>1 DEF TypeOK, Settled, Plus, AcksWritten
  <2>5. Slots' = Settled + AcksWritten + (Len(buf') + 0 + Len(Sent)) + lost'
    BY <1>2, <2>1 DEF Slots
  <2>6. Slots = Settled + AcksWritten + (Len(buf) + Len(wire) + Len(Sent))
                  + lost
    BY <2>1 DEF Slots
  <2> QED
    BY <1>1, <1>3, <2>3, <2>4, <2>5, <2>6
<1>7. CASE DownTxPop
  <2>1. /\ AcksWritten = 0 /\ AcksWritten' = 1
        /\ Unread' = Unread /\ Sent' = Sent /\ Settled' = Settled
        /\ lost' = lost
    BY <1>7 DEF DownTxPop, Runs, Unread, Sent, Settled, Plus, AcksWritten,
                upVars
  <2>2. Len(buf') = Len(buf) - 1
    BY <1>1, <1>7, HeadTailProperties DEF DownTxPop, TypeOK
  <2>3. Settled \in Int
    BY <1>1 DEF TypeOK, Settled, Plus
  <2> QED
    BY <1>1, <1>3, <2>1, <2>2, <2>3 DEF Slots, TypeOK
<1>8. CASE DownTxIdle
  <2>1. /\ AcksWritten = 0 /\ AcksWritten' = 0
        /\ Unread' = Unread /\ Sent' = Sent /\ Settled' = Settled
        /\ buf' = buf /\ lost' = lost
    BY <1>8 DEF DownTxIdle, Runs, Unread, Sent, Settled, Plus, AcksWritten,
                upVars, downVars
  <2> QED
    BY <1>1, <2>1 DEF Slots
<1>9. CASE SetCleanStage \/ EndCleanStage
  <2>1. /\ AcksWritten' = AcksWritten
        /\ Unread' = Unread /\ Sent' = Sent /\ Settled' = Settled
        /\ buf' = buf /\ lost' = lost
    BY <1>9 DEF SetCleanStage, EndCleanStage, Runs, Unread, Sent, Settled,
                Plus, AcksWritten, upVars, downVars
  <2> QED
    BY <1>1, <2>1 DEF Slots
<1>10. CASE ClockEdge
  <2>1. /\ Unread = << >> /\ Unread' = wireNext
        /\ Sent = wireNext /\ Sent' = << >>
        /\ Settled = credit
        /\ Settled' = IF ackNext THEN Plus(credit) ELSE credit
        /\ AcksWritten = IF ackNext THEN 1 ELSE 0
        /\ AcksWritten' = 0
        /\ buf' = buf /\ lost' = lost
    BY <1>10 DEF ClockEdge, Processes, Unread, Sent, Settled, Plus,
                 AcksWritten, upVars, downVars
  <2> QED
    BY <1>1, <1>2, <1>3, <2>1 DEF Slots, Plus, TypeOK
<1>11. CASE UNCHANGED vars
  BY <1>1, <1>11 DEF vars, upVars, downVars, nocVars, Slots, Settled, Plus,
                     AcksWritten, Unread, Sent
<1> QED
  BY <1>4, <1>5, <1>6, <1>7, <1>8, <1>9, <1>10, <1>11 DEF Next

LEMMA LinkNext == LinkInv /\ [Next]_vars => LinkInv'
<1> SUFFICES ASSUME LinkInv, [Next]_vars PROVE LinkInv'
  OBVIOUS
<1>1. TypeOK'
  BY LinkTypes
<1>2. (Slots = Depth)'
  BY LinkCredits
<1>3. CreditsConserved'
  BY <1>1, <1>2, CreditEquation, PTL
<1> QED
  BY <1>1, <1>3 DEF LinkInv

LEMMA LinkInvariant == Spec => []LinkInv
BY LinkInit, LinkNext, PTL DEF Spec

-----------------------------------------------------------------------------
(* Consequences *)

\* The types hold, and with them the assertion of the credit counter: the
\* switch traversal never spends a credit it does not have.
THEOREM LinkTypeOK == Spec => []TypeOK
<1>1. LinkInv => TypeOK
  BY DEF LinkInv
<1> QED
  BY <1>1, LinkInvariant, PTL

\* Credits are neither minted nor destroyed, in any order of the processes of
\* a cycle, for every buffer depth, throttled or not.
THEOREM LinkCreditsConserved == Spec => []CreditsConserved
<1>1. LinkInv => CreditsConserved
  BY DEF LinkInv
<1> QED
  BY <1>1, LinkInvariant, PTL

(* A buffer at least as deep as the credits of its sender, in a tile that  *)
(* is neither throttled nor resized, is never found full by rxProcess.     *)
ColdInv ==
  /\ ~emergency
  /\ capacity = Capacity
  /\ lost = 0

LossInv == ~MayLose => ColdInv

LEMMA ColdNext == LinkInv /\ LossInv /\ [Next]_vars => LossInv'
<1> SUFFICES ASSUME LinkInv, ColdInv, [Next]_vars, ~MayLose PROVE ColdInv'
  BY DEF LossInv, MayLose
<1> USE LinkAssumption
<1>1. TypeOK /\ Slots = Depth
  BY CreditEquation DEF LinkInv
<1>2. CASE DownRx
  <2>1. Unread = wire /\ Len(wire) \in Nat
    BY <1>1, <1>2, LenProperties DEF DownRx, Runs, Unread, TypeOK
  <2>2. /\ Len(buf) \in Nat /\ Len(Sent) \in Nat
        /\ Settled \in Nat /\ AcksWritten \in Nat
    BY <1>1, ChannelLength DEF TypeOK, Settled, Plus, AcksWritten
  <2>3. Len(buf) + Len(wire) <= Depth
    BY <1>1, <2>1, <2>2 DEF Slots, ColdInv, TypeOK
  <2> Depth <= Capacity
    BY DEF MayLose
  <2>4. lost' = 0
    <3>1. CASE IsFull
      <4>1. Len(wire) = 0
        BY <2>1, <2>2, <2>3, <3>1 DEF IsFull, ColdInv
      <4> QED
        BY <1>2, <3>1, <4>1 DEF DownRx, ColdInv
    <3>2. CASE ~IsFull
      BY <1>2, <3>2 DEF DownRx, ColdInv
    <3> QED
      BY <3>1, <3>2
  <2> QED
    BY <1>2, <2>4 DEF DownRx, nocVars, ColdInv
<1>3. CASE UpTxSend
  BY <1>3 DEF UpTxSend, downVars, nocVars, ColdInv
<1>4. CASE UpTxIdle
  BY <1>4 DEF UpTxIdle, downVars, nocVars, ColdInv
<1>5. CASE DownTxPop
  BY <1>5 DEF DownTxPop, nocVars, ColdInv
<1>6. CASE DownTxIdle
  BY <1>6 DEF DownTxIdle, downVars, nocVars, ColdInv
<1>7. CASE SetCleanStage \/ EndCleanStage
  BY <1>7 DEF SetCleanStage, EndCleanStage, MayLose
<1>8. CASE ClockEdge
  BY <1>8 DEF ClockEdge, downVars, nocVars, ColdInv
<1>9. CASE UNCHANGED vars
  BY <1>9 DEF vars, downVars, nocVars, ColdInv
<1> QED
  BY <1>2, <1>3, <1>4, <1>5, <1>6, <1>7, <1>8, <1>9 DEF Next

LEMMA LossInvariant == Spec => []LossInv
<1>1. Init => LossInv
  BY DEF Init, LossInv, ColdInv
<1> QED
  BY <1>1, ColdNext, LinkInvariant, PTL DEF Spec

\* No flit is lost on a link whose receiver is never throttled or resized and
\* whose buffer has room for every credit of the sender.
THEOREM LinkNoLoss ==
  ASSUME ~Throttling, ~Resizing, Depth <= Capacity
  PROVE  Spec => []NoLoss
<1>1. LossInv => NoLoss
  BY LinkAssumption DEF LossInv, MayLose, ColdInv, NoLoss
<1> QED
  BY <1>1, LossInvariant, PTL

-----------------------------------------------------------------------------
(* The link implements the bounded FIFO.                                   *)

\* Dropping the oldest flit in flight drops one flit of the channel.
LEMMA DropInFlight ==
  ASSUME NEW b \in Seq(Flit), NEW f \in Flit, NEW t \in Seq(Flit)
  PROVE  LET c == b \o (<<f>> \o t)
         IN  \E i \in 1..Len(c) :
                b \o t = SubSeq(c, 1, i - 1) \o SubSeq(c, i + 1, Len(c))
<1> DEFINE w == <<f>>
           c == b \o (w \o t)
           n == Len(b)
           m == Len(t)
<1>1. w \in Seq(Flit) /\ Len(w) = 1
  OBVIOUS
<1>2. n \in Nat /\ m \in Nat
  BY LenProperties
<1> HIDE DEF w
<1>3. w \o t \in Seq(Flit) /\ Len(w \o t) = 1 + m
  BY <1>1, ConcatProperties
<1>4. c \in Seq(Flit) /\ Len(c) = n + 1 + m
  BY <1>2, <1>3, ConcatProperties
<1>5. SubSeq(c, 1, n) = b
  <2>1. CASE n = 0
    <3>1. b = << >>
      BY <2>1, EmptySeq
    <3> QED
      BY <1>2, <2>1, <3>1, SubSeqEmpty
  <2>2. CASE n # 0
    <3>1. SubSeq(c, 1, n) = SubSeq(b, 1, n)
      <4> n \in 1..Len(b) /\ 1 \in 1..Len(b)
        BY <1>2, <2>2
      <4> QED
        BY <1>3, SubSeqOfConcat1
    <3> QED
      BY <3>1, SubSeqFull
  <2> QED
    BY <2>1, <2>2
<1>6. SubSeq(c, n + 2, Len(c)) = t
  <2>1. c = (b \o w) \o t
    BY <1>1, ConcatAssociative
  <2>2. b \o w \in Seq(Flit) /\ Len(b \o w) = n + 1
    BY <1>1, <1>2, ConcatProperties
  <2>3. CASE m = 0
    <3>1. t = << >>
      BY <2>3, EmptySeq
    <3>2. Len(c) < n + 2 /\ Len(c) \in Int /\ n + 2 \in Int
      BY <1>2, <1>4, <2>3
    <3> QED
      BY <3>1, <3>2, SubSeqEmpty
  <2>4. CASE m # 0
    <3>1. /\ n + 2 \in Len(b \o w) + 1 .. Len(b \o w) + Len(t)
          /\ Len(c) \in Len(b \o w) + 1 .. Len(b \o w) + Len(t)
      BY <1>2, <1>4, <2>2, <2>4
    <3>2. SubSeq(c, n + 2, Len(c))
            = SubSeq(t, n + 2 - Len(b \o w), Len(c) - Len(b \o w))
      BY <2>1, <2>2, <3>1, SubSeqOfConcat2
    <3>3. n + 2 - Len(b \o w) = 1 /\ Len(c) - Len(b \o w) = Len(t)
      BY <1>2, <1>4, <2>2
    <3> QED
      BY <3>2, <3>3, SubSeqFull
  <2> QED
    BY <2>3, <2>4
<1>7. b \o t = SubSeq(c, 1, (n + 1) - 1) \o SubSeq(c, n + 1 + 1, Len(c))
  <2>1. (n + 1) - 1 = n /\ n + 1 + 1 = n + 2
    BY <1>2
  <2> HIDE DEF c, n
  <2> QED
    BY <1>5, <1>6, <2>1, Zenon
<1>8. n + 1 \in 1..Len(c)
  BY <1>2, <1>4
<1>9. \E i \in 1..Len(c) :
         b \o t = SubSeq(c, 1, i - 1) \o SubSeq(c, i + 1, Len(c))
  <2> HIDE DEF c, n
  <2> QED
    BY <1>7, <1>8, Zenon
<1> QED
  BY <1>9, Zenon DEF w

\* Taking the front flit of the buffer takes the oldest of the channel.
LEMMA TailOfConcat ==
  ASSUME NEW b \in Seq(Flit), b # << >>, NEW t \in Seq(Flit)
  PROVE  b \o t # << >> /\ Tail(b \o t) = Tail(b) \o t
<1> DEFINE c == b \o t
<1>1. Len(b) \in Nat \ {0} /\ Len(t) \in Nat
  BY EmptySeq, LenProperties
<1>2. /\ c \in Seq(Flit) /\ Len(c) = Len(b) + Len(t)
      /\ \A i \in 1..Len(b) + Len(t) :
            c[i] = IF i <= Len(b) THEN b[i] ELSE t[i - Len(b)]
  BY ConcatProperties
<1>3. c # << >>
  BY <1>1, <1>2, EmptySeq
<1>4. /\ Tail(b) \in Seq(Flit) /\ Len(Tail(b)) = Len(b) - 1
      /\ \A i \in 1..Len(Tail(b)) : Tail(b)[i] = b[i + 1]
  BY HeadTailProperties
<1> HIDE DEF c
<1>5. /\ Tail(c) \in Seq(Flit) /\ Len(Tail(c)) = Len(c) - 1
      /\ \A i \in 1..Len(Tail(c)) : Tail(c)[i] = c[i + 1]
  BY <1>2, <1>3, HeadTailProperties
<1> DEFINE d == Tail(b) \o t
<1>6. /\ d \in Seq(Flit) /\ Len(d) = Len(b) - 1 + Len(t)
      /\ \A i \in 1..Len(b) - 1 + Len(t) :
            d[i] = IF i <= Len(b) - 1 THEN Tail(b)[i] ELSE t[i - (Len(b) - 1)]
  BY <1>4, ConcatProperties
<1> HIDE DEF d
<1>7. Len(Tail(c)) = Len(d)
  BY <1>1, <1>2, <1>5, <1>6
<1>8. ASSUME NEW i \in 1..Len(Tail(c)) PROVE Tail(c)[i] = d[i]
  <2>1. Tail(c)[i] = IF i + 1 <= Len(b) THEN b[i + 1] ELSE t[i + 1 - Len(b)]
    BY <1>1, <1>2, <1>5
  <2>2. d[i] = IF i <= Len(b) - 1 THEN b[i + 1] ELSE t[i - (Len(b) - 1)]
    BY <1>1, <1>2, <1>4, <1>5, <1>6
  <2>3. i + 1 - Len(b) = i - (Len(b) - 1) /\ i \in Nat
    BY <1>1, <1>2, <1>5
  <2> QED
    BY <1>1, <2>1, <2>2, <2>3
<1>9. Tail(c) = d
  BY <1>5, <1>6, <1>7, <1>8, SeqEqual
<1> QED
  BY <1>3, <1>9 DEF c, d

LEMMA FifoStep ==
  LinkInv /\ LossInv /\ [Next]_vars => [Fifo!Next]_Channel
<1> SUFFICES ASSUME LinkInv, LossInv, [Next]_vars PROVE [Fifo!Next]_Channel
  OBVIOUS
<1> USE LinkAssumption
<1>1. TypeOK /\ CreditsConserved
  BY DEF LinkInv
<1>2. /\ buf \in Seq(Flit) /\ Unread \in Seq(Flit) /\ Sent \in Seq(Flit)
      /\ InFlight \in Seq(Flit) /\ Channel \in Seq(Flit)
      /\ wire \in Seq(Flit) /\ wireNext \in Seq(Flit)
  BY <1>1, ChannelLength DEF TypeOK
<1>3. CASE UpTxSend
  <2>1. PICK f \in Flit : wireNext' = <<f>>
    BY <1>3 DEF UpTxSend
  <2>2. <<f>> \in Seq(Flit)
    OBVIOUS
  <2>3. Sent = << >> /\ Sent' = <<f>> /\ Unread' = Unread /\ buf' = buf
    BY <1>3, <2>1 DEF UpTxSend, Runs, Sent, Unread, downVars
  <2>4. InFlight = Unread /\ InFlight' = Unread \o <<f>>
    BY <1>2, <2>3, ConcatEmptySeq DEF InFlight
  <2>5. Channel' = (buf \o Unread) \o <<f>>
    BY <1>2, <2>2, <2>3, <2>4, ConcatAssociative DEF Channel
  <2>6. Channel' = Append(Channel, f)
    BY <1>2, <2>4, <2>5, AppendIsConcat DEF Channel
  <2>7. Len(Channel) < Depth
    <3>1. Settled = Refilled /\ Refilled > 0 /\ Refilled \in Nat
      BY <1>1, <1>3 DEF UpTxSend, Runs, Settled, Refilled, Plus, TypeOK
    <3>2. AcksWritten \in Nat /\ lost \in Nat /\ Len(Channel) \in Nat
      BY <1>1, <1>2, LenProperties DEF AcksWritten, TypeOK
    <3> QED
      BY <1>1, <3>1, <3>2 DEF CreditsConserved
  <2> QED
    BY <2>6, <2>7 DEF Fifo!Next, Fifo!Put
<1>4. CASE UpTxIdle
  <2>1. Sent = << >> /\ Sent' = << >> /\ Unread' = Unread /\ buf' = buf
    BY <1>4 DEF UpTxIdle, Runs, Sent, Unread, downVars
  <2> QED
    BY <2>1 DEF Channel, InFlight
<1>5. CASE DownRx
  <2>1. Unread = wire /\ Unread' = << >> /\ Sent' = Sent
    BY <1>5 DEF DownRx, Runs, Unread, Sent, upVars
  <2>2. InFlight = wire \o Sent /\ InFlight' = Sent
    BY <1>2, <2>1, ConcatEmptySeq DEF InFlight
  <2>3. CASE ~emergency /\ ~IsFull
    <3>1. buf' = buf \o wire
      BY <1>5, <2>3 DEF DownRx
    <3>2. Channel' = Channel
      BY <1>2, <2>2, <3>1, ConcatAssociative DEF Channel
    <3> QED
      BY <3>2
  <2>4. CASE ~(~emergency /\ ~IsFull)
    <3>1. buf' = buf
      BY <1>5, <2>4 DEF DownRx
    <3>2. CASE wire = << >>
      <4>1. InFlight = Sent
        BY <1>2, <2>2, <3>2, ConcatEmptySeq
      <4> QED
        BY <2>2, <3>1, <4>1 DEF Channel
    <3>3. CASE wire # << >>
      <4>1. PICK f \in Flit : wire = <<f>>
        <5>1. Len(wire) <= 1
          BY <1>1 DEF TypeOK
        <5>2. Len(wire) \in Nat \ {0}
          BY <1>2, <3>3, EmptySeq, Zenon
        <5>3. \A n \in Nat \ {0} : n <= 1 => n = 1
          OBVIOUS
        <5>4. Len(wire) = 1
          BY <5>1, <5>2, <5>3, Zenon
        <5>5. 1 \in 1..Len(wire)
          BY <5>4
        <5>6. wire[1] \in Flit
          BY <1>2, <5>5, ElementOfSeq, Zenon
        <5>7. wire = <<wire[1]>>
          BY <1>2, <5>4, <5>6, SeqEqual
        <5> QED
          BY <5>6, <5>7
      <4>2. Channel = buf \o (<<f>> \o Sent) /\ Channel' = buf \o Sent
        BY <2>2, <3>1, <4>1 DEF Channel
      <4>3. \E i \in 1..Len(Channel) :
               Channel' = SubSeq(Channel, 1, i - 1)
                            \o SubSeq(Channel, i + 1, Len(Channel))
        <5>1. \E i \in 1..Len(buf \o (<<f>> \o Sent)) :
                 buf \o Sent
                   = SubSeq(buf \o (<<f>> \o Sent), 1, i - 1)
                       \o SubSeq(buf \o (<<f>> \o Sent), i + 1,
                                  Len(buf \o (<<f>> \o Sent)))
          BY <1>2, DropInFlight, Zenon
        <5> QED
          BY <4>2, <5>1, Zenon
      <4>4. MayLose
        <5>1. Len(wire) = 1
          BY <4>1
        <5>2. lost' = lost + 1
          BY <1>5, <2>4, <5>1 DEF DownRx
        <5> QED
          BY <5>2, ColdNext DEF LossInv, ColdInv
      <4> QED
        BY <4>3, <4>4, Zenon DEF Fifo!Next, Fifo!Lose, Fifo!Without
    <3> QED
      BY <3>2, <3>3
  <2> QED
    BY <2>3, <2>4
<1>6. CASE DownTxPop
  <2>1. Unread' = Unread /\ Sent' = Sent /\ buf # << >> /\ buf' = Tail(buf)
    BY <1>6 DEF DownTxPop, Runs, Unread, Sent, upVars
  <2>2. InFlight' = InFlight
    BY <2>1 DEF InFlight
  <2>3. Channel # << >> /\ Tail(Channel) = Tail(buf) \o InFlight
    BY <1>2, <2>1, TailOfConcat DEF Channel
  <2> QED
    BY <2>1, <2>2, <2>3 DEF Channel, Fifo!Next, Fifo!Get
<1>7. CASE DownTxIdle
  BY <1>7 DEF DownTxIdle, Runs, Unread, Sent, InFlight, Channel, upVars,
              downVars
<1>8. CASE SetCleanStage \/ EndCleanStage
  BY <1>8 DEF SetCleanStage, EndCleanStage, Runs, Unread, Sent, InFlight,
              Channel, upVars, downVars
<1>9. CASE ClockEdge
  <2>1. /\ Unread = << >> /\ Unread' = wireNext
        /\ Sent = wireNext /\ Sent' = << >> /\ buf' = buf
    BY <1>9 DEF ClockEdge, Processes, Unread, Sent, upVars, downVars
  <2>2. InFlight' = InFlight
    BY <1>2, <2>1, ConcatEmptySeq DEF InFlight
  <2> QED
    BY <2>1, <2>2 DEF Channel
<1>10. CASE UNCHANGED vars
  BY <1>10 DEF vars, upVars, downVars, Unread, Sent, InFlight, Channel
<1> QED
  BY <1>3, <1>4, <1>5, <1>6, <1>7, <1>8, <1>9, <1>10 DEF Next

\* Whatever the order of the processes, the link is a bounded FIFO of its
\* flits; a throttled, resized or too small receiver can only make it drop
\* some, never reorder or duplicate them.
THEOREM LinkImplementsFifo == Spec => ImplementsFifo
<1>1. Init => Fifo!Init
  BY DEF Init, Fifo!Init, Channel, InFlight, Unread, Sent
<1> QED
  BY <1>1, FifoStep, LinkInvariant, LossInvariant, PTL
     DEF Spec, ImplementsFifo, Fifo!Spec

=============================================================================
