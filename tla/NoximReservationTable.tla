----------------------- MODULE NoximReservationTable -----------------------
(***************************************************************************)
(* The switch reservation table of a router: which input virtual channel   *)
(* holds which output virtual channel.  rtable1 and rtable2 of the code,   *)
(* the input port and the input VC, are always written together and are    *)
(* one value here.  The operators work on a table value, so that a client  *)
(* may apply several of them in one of its own steps; the specification    *)
(* below is a client that calls them one at a time.                        *)
(***************************************************************************)
EXTENDS Integers

CONSTANTS
  Outs,        \* output virtual channels, (port_out, vc_out)
  Ins,         \* input virtual channels, (port_in, vc_in)
  NotReserved, \* NOT_RESERVED, -2
  NotValid,    \* NOT_VALID, -1
  AnyRelease   \* TRUE: the caller may release whatever the assertions allow

ASSUME TableAssumption ==
  /\ NotReserved \notin Ins /\ NotValid \notin Ins
  /\ NotReserved # NotValid
  /\ AnyRelease \in BOOLEAN

VARIABLE rtable

Tables == [Outs -> Ins \cup {NotReserved, NotValid}]

-----------------------------------------------------------------------------
(* The operations, on a table t *)

IsAvailable(t, out) == t[out] = NotReserved

\* getOutputPort and getOutputVc: what an input VC holds.
HeldBy(t, in) == {out \in Outs : t[out] = in}

\* release(): overwrites the entry, whatever it was.
ReleaseAll(t, outs) == [o \in Outs |-> IF o \in outs THEN NotReserved ELSE t[o]]

Release(t, out) == ReleaseAll(t, {out})

\* Mutant: reserve() without looking for a previous reservation.
ReserveOnTop(t, g) ==
  [o \in Outs |-> IF o \in DOMAIN g THEN g[o] ELSE t[o]]

\* Mutant: reserve() that stores the output where the input belongs.
ReserveSwapped(t, g) ==
  [o \in Outs |-> IF o \in DOMAIN g THEN o ELSE t[o]]

\* reserve(), of several outputs for as many input VCs at once: the previous
\* reservation of an input VC is released.
ReserveAll(t, g) ==
  [o \in Outs |-> IF o \in DOMAIN g THEN g[o]
                  ELSE IF \E p \in DOMAIN g : t[o] = g[p] THEN NotReserved
                  ELSE t[o]]

Reserve(t, in, out) == ReserveAll(t, [o \in {out} |-> in])

\* Mutant: clear() that forgets about invalidated ports.
ClearAll(t) == [o \in Outs |-> NotReserved]

\* clear(): NOT_VALID entries remain untouched.
Clear(t) == [o \in Outs |-> IF t[o] = NotValid THEN NotValid ELSE NotReserved]

\* invalidate(), of all the VCs of an output port.
Invalidate(t, outs) == [o \in Outs |-> IF o \in outs THEN NotValid ELSE t[o]]

\* The assertion of release() as it is written: the entry is at least
\* NOT_RESERVED, the smallest value there is.
ReleaseAssert(t, out) == t[out] \in Ins \cup {NotReserved, NotValid}

-----------------------------------------------------------------------------
(* A client *)

\* The constructor calls clear() on memory it did not initialise: an entry
\* that happens to hold NOT_VALID is never freed.
Init == rtable \in [Outs -> {NotReserved, NotValid}]

DoReserve(in, out) ==
  /\ IsAvailable(rtable, out)
  /\ rtable' = Reserve(rtable, in, out)

\* The routers release what they reserved.
DoRelease(out) ==
  /\ IF AnyRelease THEN ReleaseAssert(rtable, out) ELSE rtable[out] \in Ins
  /\ rtable' = Release(rtable, out)

DoClear == rtable' = Clear(rtable)

DoInvalidate(outs) == rtable' = Invalidate(rtable, outs)

Next == \/ \E in \in Ins, out \in Outs : DoReserve(in, out)
        \/ \E out \in Outs : DoRelease(out)
        \/ DoClear
        \/ \E outs \in SUBSET Outs : DoInvalidate(outs)

Spec == Init /\ [][Next]_rtable

-----------------------------------------------------------------------------
(* Properties *)

\* Entries are input VCs or one of the two marks.
TypeOK == rtable \in Tables

\* An input VC holds at most one output VC, although the table is indexed by
\* outputs and nothing but reserve() looks for a second entry: otherwise
\* getOutputPort would name an output that is not the one released at the
\* tail, and the other would stay reserved for ever.
OneOutputPerInput ==
  \A o1, o2 \in Outs : rtable[o1] = rtable[o2] /\ rtable[o1] \in Ins => o1 = o2

\* "Makes output port no longer available for reservation/release"
\* (NoximReservationTable.h:44): a port that was invalidated stays so, across
\* clear(), reserve() and release().
InvalidForever ==
  [][\A out \in Outs : rtable[out] = NotValid => rtable'[out] = NotValid]_rtable

=============================================================================
