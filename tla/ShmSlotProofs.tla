---------------------------- MODULE ShmSlotProofs ----------------------------
(***************************************************************************)
(* What the one-slot channel promises its reader, for any number of events *)
(* and of restarts of the sidecar.                                         *)
(***************************************************************************)
EXTENDS ShmSlot, TLAPS

-----------------------------------------------------------------------------
(* The inductive invariant.                                                *)

\* The slot is written low half, high half, number: whatever is announced is
\* in both halves by then, and the counter is behind while a push is under
\* way.
WriterOK ==
    /\ mSeq \in Nat
    /\ mSeq <= event
    /\ writer # "idle" => mSeq < event
    /\ slot.lo = event
    /\ writer = "seq" => slot.hi = event
    /\ announced <= slot.hi /\ slot.hi <= event

\* What the reader copied lies between the event announced when it loaded
\* the number and the newest one, and what it handed on is no newer.
ReaderOK ==
    /\ due <= announced
    /\ got.lo <= copy.lo
    /\ copy.lo <= event /\ copy.hi <= event
    /\ reader \in {"high", "check"} => due <= copy.lo
    /\ reader = "check" => due <= copy.hi

\* Until the first restart the numbers are those of the events.
FirstRun ==
    restarts = 0 => /\ seq = announced /\ mSeq = announced /\ seen = due
                    /\ event = IF writer = "idle" THEN announced
                               ELSE announced + 1

SlotInv == TypeOK /\ WriterOK /\ ReaderOK /\ FirstRun

LEMMA InitSlot == Init => SlotInv
BY SlotAssumption
   DEF Init, SlotInv, TypeOK, WriterOK, ReaderOK, FirstRun, Event, Halves

-----------------------------------------------------------------------------
(* The steps of the sidecar.                                               *)

LEMMA WriteLowSlot == SlotInv /\ WriteLow => SlotInv'
<1> SUFFICES ASSUME SlotInv, WriteLow PROVE SlotInv'
  OBVIOUS
<1> USE SlotAssumption DEF SlotInv, WriteLow, Event
<1>1. event' = event + 1 /\ event' \in Event /\ event \in Nat
  BY DEF TypeOK
<1>2. /\ slot' = [slot EXCEPT !.lo = event']
      /\ slot'.lo = event' /\ slot'.hi = slot.hi
      /\ slot' \in [lo : Event, hi : Event]
  BY <1>1 DEF TypeOK
<1>3. TypeOK'
  BY <1>1, <1>2 DEF TypeOK, WriterOK, consumer
<1>4. WriterOK'
  BY <1>1, <1>2 DEF WriterOK, TypeOK
<1>5. ReaderOK'
  BY <1>1 DEF ReaderOK, TypeOK, consumer
<1>6. FirstRun'
  BY <1>1 DEF FirstRun, consumer
<1> QED  BY <1>3, <1>4, <1>5, <1>6

LEMMA WriteHighSlot == SlotInv /\ WriteHigh => SlotInv'
<1> SUFFICES ASSUME SlotInv, WriteHigh PROVE SlotInv'
  OBVIOUS
<1> USE SlotAssumption DEF SlotInv, WriteHigh, Event
<1>1. /\ slot' = [slot EXCEPT !.hi = event]
      /\ slot'.hi = event /\ slot'.lo = slot.lo
      /\ slot' \in [lo : Event, hi : Event]
  BY DEF TypeOK
<1>2. TypeOK'
  BY <1>1 DEF TypeOK, consumer
<1>3. WriterOK'
  BY <1>1 DEF WriterOK, TypeOK
<1>4. ReaderOK' /\ FirstRun'
  BY DEF ReaderOK, FirstRun, consumer
<1> QED  BY <1>2, <1>3, <1>4

LEMMA StoreSeqSlot == SlotInv /\ StoreSeq => SlotInv'
<1> SUFFICES ASSUME SlotInv, StoreSeq PROVE SlotInv'
  OBVIOUS
<1> USE SlotAssumption DEF SlotInv, StoreSeq, NoteRace, Event
<1>1. mSeq' = mSeq + 1 /\ mSeq + 1 <= event /\ mSeq \in Nat /\ event \in Nat
  BY DEF WriterOK, TypeOK
<1>2. TypeOK'
  BY <1>1 DEF TypeOK, consumer
<1>3. WriterOK'
  BY <1>1 DEF WriterOK, TypeOK
<1>4. ReaderOK'
  BY DEF ReaderOK, WriterOK, TypeOK, consumer
<1>5. FirstRun'
  BY <1>1 DEF FirstRun, WriterOK, TypeOK, consumer
<1> QED  BY <1>2, <1>3, <1>4, <1>5

LEMMA RestartSlot == SlotInv /\ Restart => SlotInv'
<1> SUFFICES ASSUME SlotInv, Restart PROVE SlotInv'
  OBVIOUS
<1> USE SlotAssumption DEF SlotInv, Restart, Event
<1>1. restarts' \in 0 .. MaxRestarts /\ restarts' # 0
  BY DEF TypeOK
<1>2. TypeOK'
  BY <1>1 DEF TypeOK, consumer
<1>3. WriterOK'
  BY DEF WriterOK, TypeOK
<1>4. ReaderOK' /\ FirstRun'
  BY <1>1 DEF ReaderOK, FirstRun, consumer
<1> QED  BY <1>2, <1>3, <1>4

-----------------------------------------------------------------------------
(* The steps of the reader.                                                *)

LEMMA ReadSlot == SlotInv /\ Read => SlotInv'
<1> SUFFICES ASSUME SlotInv, Read PROVE SlotInv'
  OBVIOUS
<1> USE SlotAssumption DEF SlotInv, Event
<1>1. CASE LoadSeq
  <2>1. TypeOK'
    BY <1>1 DEF TypeOK, LoadSeq, sidecar
  <2> QED  BY <1>1, <2>1
              DEF WriterOK, ReaderOK, FirstRun, TypeOK, LoadSeq, sidecar
<1>2. CASE ReadLow
  <2>1. /\ copy' = [copy EXCEPT !.lo = slot.lo]
        /\ copy'.lo = slot.lo /\ copy'.hi = copy.hi
        /\ copy' \in [lo : Event, hi : Event]
    BY <1>2 DEF TypeOK, ReadLow
  <2>2. TypeOK'
    BY <1>2, <2>1 DEF TypeOK, ReadLow, sidecar
  <2>3. WriterOK' /\ FirstRun'
    BY <1>2 DEF WriterOK, FirstRun, ReadLow, sidecar
  <2>4. ReaderOK'
    BY <1>2, <2>1 DEF ReaderOK, WriterOK, TypeOK, ReadLow, sidecar
  <2> QED  BY <2>2, <2>3, <2>4
<1>3. CASE ReadHigh
  <2>1. /\ copy' = [copy EXCEPT !.hi = slot.hi]
        /\ copy'.hi = slot.hi /\ copy'.lo = copy.lo
        /\ copy' \in [lo : Event, hi : Event]
    BY <1>3 DEF TypeOK, ReadHigh
  <2>2. TypeOK'
    BY <1>3, <2>1 DEF TypeOK, ReadHigh, sidecar
  <2>3. WriterOK' /\ FirstRun'
    BY <1>3 DEF WriterOK, FirstRun, ReadHigh, sidecar
  <2>4. ReaderOK'
    BY <1>3, <2>1 DEF ReaderOK, WriterOK, TypeOK, ReadHigh, sidecar
  <2> QED  BY <2>2, <2>3, <2>4
<1>4. CASE Check
  <2>1. TypeOK'
    BY <1>4 DEF TypeOK, Check, sidecar
  <2> QED  BY <1>4, <2>1
              DEF WriterOK, ReaderOK, FirstRun, TypeOK, Check, sidecar
<1> QED  BY <1>1, <1>2, <1>3, <1>4 DEF Read

LEMMA NextSlot == SlotInv /\ [Next]_vars => SlotInv'
<1> SUFFICES ASSUME SlotInv, [Next]_vars PROVE SlotInv'
  OBVIOUS
<1>1. CASE UNCHANGED vars
  BY <1>1 DEF SlotInv, TypeOK, WriterOK, ReaderOK, FirstRun, Event, vars,
              sidecar, consumer
<1> QED
  BY <1>1, WriteLowSlot, WriteHighSlot, StoreSeqSlot, RestartSlot, ReadSlot
     DEF Next, Push

-----------------------------------------------------------------------------
(* The theorems.                                                           *)

\* For any number of events and restarts the counters stay in their ranges:
\* that of a process never runs ahead of the events pushed.
THEOREM SlotTypes == Spec => []TypeOK
<1>1. SlotInv => TypeOK
  BY DEF SlotInv
<1> QED  BY <1>1, InitSlot, NextSlot, PTL DEF Spec

\* Whoever saw the number of an event and then reads the slot finds that
\* event or a newer one in both halves.
THEOREM NeverOlder == Spec => []AnnouncedOrNewer
<1>1. SlotInv => AnnouncedOrNewer
  BY DEF SlotInv, ReaderOK, AnnouncedOrNewer, TypeOK, Event
<1> QED  BY <1>1, InitSlot, NextSlot, PTL DEF Spec

\* The check of the number detects every push that has come to its end since
\* the first load: what is handed on torn was overtaken by a push that is
\* still under way.
LEMMA TornStep ==
    SlotInv /\ [Next]_vars
      => [got' # got /\ got'.lo # got'.hi => writer # "idle" \/ restarts > 0]_vars
<1> SUFFICES ASSUME SlotInv, [Next]_vars, got' # got, got'.lo # got'.hi,
                    writer = "idle"
             PROVE  restarts > 0
  BY DEF SlotInv, TypeOK
<1>1. Check
  BY DEF Next, Push, Read, WriteLow, WriteHigh, StoreSeq, Restart, LoadSeq,
         ReadLow, ReadHigh, vars, consumer
<1>2. got' = copy /\ seq = seen /\ reader = "check"
  BY <1>1 DEF Check
<1>3. ASSUME restarts = 0 PROVE FALSE
  <2>1. event = due
    BY <1>2, <1>3 DEF SlotInv, FirstRun
  <2>2. /\ due <= copy.lo /\ copy.lo <= event
        /\ due <= copy.hi /\ copy.hi <= event
    BY <1>2 DEF SlotInv, ReaderOK
  <2>3. copy.lo \in Nat /\ copy.hi \in Nat /\ event \in Nat
    BY DEF SlotInv, TypeOK, Event
  <2>4. copy.lo = event /\ copy.hi = event
    BY <2>1, <2>2, <2>3
  <2> QED  BY <1>2, <2>4
<1>4. restarts \in Nat
  BY SlotAssumption DEF SlotInv, TypeOK
<1> QED  BY <1>3, <1>4

\* Until a restart, halves of two events pass the double check only while a
\* push is under way.
THEOREM TornUnderWay == Spec => TornOnlyInPush
BY InitSlot, NextSlot, TornStep, PTL DEF Spec, TornOnlyInPush
=============================================================================
