------------------------------ MODULE ShmSlot ------------------------------
(***************************************************************************)
(* The one-slot shared memory channel to FESA.  ShmSink::push (and, in     *)
(* queue mode, EventProcessor::processEvent, which is the same code)       *)
(* overwrites the event of the slot and then stores the incremented        *)
(* sequence number with release order.  The event is a plain struct: its   *)
(* copy is no atomic access, and its two halves are written and read apart. *)
(*                                                                         *)
(* The reader is external: the FESA event source loads the sequence number,*)
(* copies the event when the number is new, and loads the number again; if *)
(* it changed, it takes the new number for handled and hands nothing on.   *)
(* An event is its number.                                                 *)
(***************************************************************************)
EXTENDS Naturals

CONSTANTS MaxEvents,    \* bound: events pushed in one behaviour
          MaxRestarts   \* bound: times the sidecar is started again

ASSUME SlotAssumption == MaxEvents \in Nat /\ MaxRestarts \in Nat

VARIABLES
    slot,       \* ShmEventSlot::event, by halves
    seq,        \* ShmEventSlot::seq
    writer,     \* what push does next
    mSeq,       \* m_seq
    event,      \* the event being pushed, or the last one pushed
    announced,  \* history: the event of the last store to seq
    restarts,
    raced,      \* history: the last event whose number was stored between
                \* the reader's two loads
    reader,     \* what the reader does next
    last,       \* m_lastSeq
    seen,       \* the number it loaded first
    copy,       \* the event it copied, by halves
    due,        \* history: the event announced when it loaded the number
    got         \* the last event it handed on

sidecar  == <<slot, seq, writer, mSeq, event, announced, restarts, raced>>
consumer == <<reader, last, seen, copy, due, got>>
vars     == <<sidecar, consumer>>

Halves(n) == [lo |-> n, hi |-> n]

Init == /\ slot = Halves(0)
        /\ seq = 0
        /\ writer = "idle"
        /\ mSeq = 0
        /\ event = 0
        /\ announced = 0
        /\ restarts = 0
        /\ raced = 0
        /\ reader = "poll"
        /\ last = 0
        /\ seen = 0
        /\ copy = Halves(0)
        /\ due = 0
        /\ got = Halves(0)

-----------------------------------------------------------------------------
(* The sidecar.                                                            *)

\* Mutant of WriteLow: the number is stored first.
WriteSeqFirst == /\ writer = "idle"
                 /\ event < MaxEvents
                 /\ event' = event + 1
                 /\ announced' = event'
                 /\ seq' = mSeq + 1
                 /\ slot' = [slot EXCEPT !.lo = event']
                 /\ writer' = "high"
                 /\ UNCHANGED <<mSeq, restarts, raced, consumer>>

WriteLow == /\ writer = "idle"
            /\ event < MaxEvents
            /\ event' = event + 1
            /\ slot' = [slot EXCEPT !.lo = event']
            /\ writer' = "high"
            /\ UNCHANGED <<seq, mSeq, announced, restarts, raced, consumer>>

WriteHigh == /\ writer = "high"
             /\ slot' = [slot EXCEPT !.hi = event]
             /\ writer' = "seq"
             /\ UNCHANGED <<seq, mSeq, event, announced, restarts, raced,
                            consumer>>

\* Whether the reader is between its two loads when a number is stored.
NoteRace == raced' = IF reader = "poll" THEN raced ELSE event

\* Mutant of StoreSeq: the copy of the counter is stored before it grows.
StoreOldSeq == /\ writer = "seq"
               /\ mSeq' = mSeq + 1
               /\ seq' = mSeq
               /\ announced' = event
               /\ NoteRace
               /\ writer' = "idle"
               /\ UNCHANGED <<slot, event, restarts, consumer>>

\* Mutant of StoreSeq: the counter is advanced twice.
StoreSeqTwice == /\ writer = "seq"
                 /\ mSeq' = mSeq + 2
                 /\ seq' = mSeq'
                 /\ announced' = event
                 /\ NoteRace
                 /\ writer' = "idle"
                 /\ UNCHANGED <<slot, event, restarts, consumer>>

\* Mutant of StoreSeq: a flag that changes with every event, for a counter.
StoreFlag == /\ writer = "seq"
             /\ mSeq' = 1 - mSeq
             /\ seq' = mSeq'
             /\ announced' = event
             /\ NoteRace
             /\ writer' = "idle"
             /\ UNCHANGED <<slot, event, restarts, consumer>>

StoreSeq == /\ writer = "seq"
            /\ mSeq' = mSeq + 1
            /\ seq' = mSeq'
            /\ announced' = event
            /\ NoteRace
            /\ writer' = "idle"
            /\ UNCHANGED <<slot, event, restarts, consumer>>

\* A new process opens the slot: its own counter starts at 0, and so may the
\* one in the slot, which open is given to initialise.
Restart == /\ restarts < MaxRestarts
           /\ restarts' = restarts + 1
           /\ writer' = "idle"
           /\ mSeq' = 0
           /\ seq' \in {0, seq}
           /\ UNCHANGED <<slot, event, announced, raced, consumer>>

-----------------------------------------------------------------------------
(* The reader.                                                             *)

LoadSeq == /\ reader = "poll"
           /\ seen' = seq
           /\ due' = announced
           /\ reader' = IF seq = last THEN "poll" ELSE "low"
           /\ UNCHANGED <<sidecar, last, copy, got>>

ReadLow == /\ reader = "low"
           /\ copy' = [copy EXCEPT !.lo = slot.lo]
           /\ reader' = "high"
           /\ UNCHANGED <<sidecar, last, seen, due, got>>

ReadHigh == /\ reader = "high"
            /\ copy' = [copy EXCEPT !.hi = slot.hi]
            /\ reader' = "check"
            /\ UNCHANGED <<sidecar, last, seen, due, got>>

\* The second load: either the event is handed on, or it is given up and
\* the number just loaded counts as handled.
Check == /\ reader = "check"
         /\ last' = seq
         /\ got' = IF seq = seen THEN copy ELSE got
         /\ reader' = "poll"
         /\ UNCHANGED <<sidecar, seen, copy, due>>

Push == WriteLow \/ WriteHigh \/ StoreSeq

Read == LoadSeq \/ ReadLow \/ ReadHigh \/ Check

Next == Push \/ Restart \/ Read

Spec == Init /\ [][Next]_vars

\* The reader polls for ever, and a push that began comes to its end.
FairSpec == Spec /\ WF_vars(Read) /\ WF_vars(WriteHigh \/ StoreSeq)

-----------------------------------------------------------------------------
(* Properties.                                                             *)

Event == 0 .. MaxEvents

\* Every variable has the type of the code's variable, and the counter of a
\* process never runs ahead of the events pushed.
TypeOK ==
    /\ slot \in [lo : Event, hi : Event] /\ copy \in [lo : Event, hi : Event]
    /\ got \in [lo : Event, hi : Event]
    /\ seq \in Event /\ last \in Event /\ seen \in Event /\ mSeq <= event
    /\ event \in Event /\ announced \in Event /\ due \in Event
    /\ raced \in Event
    /\ writer \in {"idle", "high", "seq"}
    /\ reader \in {"poll", "low", "high", "check"}
    /\ restarts \in 0 .. MaxRestarts

\* Release order: whoever saw the number of an event and then reads the slot
\* finds that event or a newer one in both halves, never an older one.
AnnouncedOrNewer ==
    /\ reader \in {"high", "check"} => copy.lo >= due
    /\ reader = "check" => copy.hi >= due

\* Until the sidecar is started again, an event whose push is complete, which
\* no other push follows and whose number was not stored between the reader's
\* two loads is handed on: its number tells it from the one before.  The
\* reader gives up an event whose number was (m_lastSeq = seq2; continue) and
\* never comes back to it: if no other follows, it is lost.
HandedOn ==
    \A n \in 1 .. MaxEvents :
       announced = n /\ writer = "idle" /\ raced # n /\ restarts = 0
          ~> got.lo >= n \/ event > n \/ restarts > 0

\* The double check of the number does not detect a push that has begun and
\* not yet stored its number, but it does detect every one that has: until a
\* restart, halves of two events are handed on only while a push is under way.
TornOnlyInPush ==
    [][got' # got /\ got'.lo # got'.hi => writer # "idle" \/ restarts > 0]_vars
=============================================================================
