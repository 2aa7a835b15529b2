-------------------- MODULE NoximReservationTable_proofs --------------------
(***************************************************************************)
(* Proofs about the reservation table, for every set of virtual channels.  *)
(* The lemmas about single operations are what a client that applies       *)
(* several of them in one step needs.                                      *)
(***************************************************************************)
EXTENDS NoximReservationTable, TLAPS

AtMostOne(t) ==
  \A o1, o2 \in Outs : t[o1] = t[o2] /\ t[o1] \in Ins => o1 = o2

TableInv == TypeOK /\ AtMostOne(rtable)

-----------------------------------------------------------------------------
(* What the operations return and preserve.                                *)

LEMMA ReserveTable ==
  ASSUME NEW t \in Tables, NEW in \in Ins, NEW out \in Outs
  PROVE  /\ Reserve(t, in, out) \in Tables
         /\ AtMostOne(t) => AtMostOne(Reserve(t, in, out))
         /\ HeldBy(Reserve(t, in, out), in) = {out}
<1>1. Reserve(t, in, out) \in Tables
  BY DEF Reserve, ReserveAll, Tables
<1>2. \A o \in Outs : Reserve(t, in, out)[o]
                        = IF o = out THEN in
                          ELSE IF t[o] = in THEN NotReserved ELSE t[o]
  BY DEF Reserve, ReserveAll, HeldBy
<1>3. HeldBy(Reserve(t, in, out), in) = {out}
  BY <1>2, TableAssumption DEF HeldBy
<1>4. AtMostOne(t) => AtMostOne(Reserve(t, in, out))
  BY <1>2, TableAssumption DEF AtMostOne
<1> QED
  BY <1>1, <1>3, <1>4

LEMMA ReleaseTable ==
  ASSUME NEW t \in Tables, NEW out \in Outs
  PROVE  /\ Release(t, out) \in Tables
         /\ AtMostOne(t) => AtMostOne(Release(t, out))
<1>1. Release(t, out) \in Tables
  BY DEF Release, ReleaseAll, Tables
<1>2. \A o \in Outs : Release(t, out)[o]
                        = IF o = out THEN NotReserved ELSE t[o]
  BY DEF Release, ReleaseAll, Tables
<1> QED
  BY <1>1, <1>2, TableAssumption DEF AtMostOne

LEMMA ClearTable ==
  ASSUME NEW t \in Tables
  PROVE  Clear(t) \in Tables /\ AtMostOne(Clear(t))
BY TableAssumption DEF Clear, Tables, AtMostOne

LEMMA InvalidateTable ==
  ASSUME NEW t \in Tables, NEW outs
  PROVE  /\ Invalidate(t, outs) \in Tables
         /\ AtMostOne(t) => AtMostOne(Invalidate(t, outs))
BY TableAssumption DEF Invalidate, Tables, AtMostOne

-----------------------------------------------------------------------------
(* The invariant *)

LEMMA TableInit == Init => TableInv
BY TableAssumption DEF Init, TableInv, TypeOK, Tables, AtMostOne

LEMMA TableNext == TableInv /\ [Next]_rtable => TableInv'
<1> SUFFICES ASSUME TableInv, [Next]_rtable PROVE TableInv'
  OBVIOUS
<1>1. rtable \in Tables /\ AtMostOne(rtable)
  BY DEF TableInv, TypeOK
<1>2. ASSUME NEW in \in Ins, NEW out \in Outs, DoReserve(in, out)
      PROVE  TableInv'
  BY <1>1, <1>2, ReserveTable DEF DoReserve, TableInv, TypeOK, AtMostOne
<1>3. ASSUME NEW out \in Outs, DoRelease(out) PROVE TableInv'
  BY <1>1, <1>3, ReleaseTable DEF DoRelease, TableInv, TypeOK, AtMostOne
<1>4. CASE DoClear
  BY <1>1, <1>4, ClearTable DEF DoClear, TableInv, TypeOK, AtMostOne
<1>5. ASSUME NEW outs \in SUBSET Outs, DoInvalidate(outs) PROVE TableInv'
  BY <1>1, <1>5, InvalidateTable DEF DoInvalidate, TableInv, TypeOK, AtMostOne
<1>6. CASE UNCHANGED rtable
  BY <1>1, <1>6 DEF TableInv, TypeOK, AtMostOne
<1> QED
  BY <1>2, <1>3, <1>4, <1>5, <1>6 DEF Next

LEMMA TableInvariant == Spec => []TableInv
BY TableInit, TableNext, PTL DEF Spec

\* The table only ever holds input virtual channels and the two marks.
THEOREM TableTypeOK == Spec => []TypeOK
<1>1. TableInv => TypeOK
  BY DEF TableInv
<1> QED
  BY <1>1, TableInvariant, PTL

\* However it is used, an input virtual channel holds at most one output:
\* getOutputPort and getOutputVc have one answer.
THEOREM TableOneOutput == Spec => []OneOutputPerInput
<1>1. TableInv => OneOutputPerInput
  BY DEF TableInv, AtMostOne, OneOutputPerInput
<1> QED
  BY <1>1, TableInvariant, PTL

\* A client that releases only what is reserved never brings an invalidated
\* port back to life.
THEOREM TableInvalidForever ==
  ASSUME ~AnyRelease
  PROVE  Spec => InvalidForever
<1>1. TableInv /\ [Next]_rtable
        => [\A out \in Outs :
              rtable[out] = NotValid => rtable'[out] = NotValid]_rtable
  <2> SUFFICES ASSUME TableInv, Next, NEW out \in Outs, rtable[out] = NotValid
               PROVE  rtable'[out] = NotValid
    OBVIOUS
  <2>1. ASSUME NEW in \in Ins, NEW o \in Outs, DoReserve(in, o)
        PROVE  rtable'[out] = NotValid
    BY <2>1, TableAssumption DEF DoReserve, IsAvailable, Reserve, ReserveAll
  <2>2. ASSUME NEW o \in Outs, DoRelease(o) PROVE rtable'[out] = NotValid
    BY <2>2, TableAssumption DEF DoRelease, Release, ReleaseAll, TableInv, TypeOK, Tables
  <2>3. CASE DoClear
    BY <2>3 DEF DoClear, Clear
  <2>4. ASSUME NEW outs \in SUBSET Outs, DoInvalidate(outs)
        PROVE  rtable'[out] = NotValid
    BY <2>4 DEF DoInvalidate, Invalidate
  <2> QED
    BY <2>1, <2>2, <2>3, <2>4 DEF Next
<1> QED
  BY <1>1, TableInvariant, PTL DEF Spec, InvalidForever

=============================================================================
