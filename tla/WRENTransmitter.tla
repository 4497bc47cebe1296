--------------------------- MODULE WRENTransmitter ---------------------------
(***************************************************************************)
(* The poll loop of the transmitter (transmitAll in the debug build,       *)
(* transmitLTIM in the release build) reading the WREN asynchronous ring   *)
(* over PCIe while the firmware writes it.                                 *)
(*                                                                         *)
(* The firmware is external: it writes the words of a capsule one by one   *)
(* and then moves board_off past them.  It knows nothing of the sidecar,   *)
(* whose cursor is private, and overwrites words the loop has not passed   *)
(* when the loop is too slow or does not move: the history variable lapped *)
(* remembers that it did.  Each PCIe read of the loop is one step, so the  *)
(* firmware may write between any two of them.  A 64-bit read returns two  *)
(* words at once; near the end of the ring the loop falls back to 32-bit   *)
(* reads.  A word of the ring is known by the capsule that wrote it and    *)
(* its position in that capsule.                                           *)
(***************************************************************************)
EXTENDS WRENProtocol, Sequences

CONSTANTS
    Capsules,   \* the capsules the firmware may publish
    Garbage,    \* what words that are not one whole header may decode to
    RingSize,   \* words in the ring (RING_MASK + 1)
    MaxCaps     \* bound: capsules the firmware publishes in one behaviour

Address == 0 .. RingSize - 1

ASSUME RingAssumption ==
    /\ RingSize \in Nat \ {0}
    /\ MaxCaps \in Nat
    /\ Capsules \subseteq {c \in CapsuleShape :
                              /\ c.len \in 2 .. RingSize - 1
                              /\ c.typ \in {"PULSE", "EVENT"} => c.len >= 4}
    /\ Garbage \subseteq CapsuleShape

VARIABLES
    \* the firmware
    log,        \* every capsule it began to write, oldest first
    published,  \* how many of them board_off has moved past
    wr,         \* words of the capsule being written that are in the ring
    ring,       \* async_data
    boardOff,   \* async_board_off
    lapped,     \* history: a capsule was begun that there was no room for
    \* the poll loop
    pc,         \* the PCIe read or the decision it makes next
    running,    \* g_running
    shadowOff,  \* m_shadowOff
    snap,       \* boardOff, as last read
    hdr, w1,    \* the first two words of the capsule
    cur,        \* what they decode to
    w2, w3,     \* the words that hold its time
    comp,       \* m_compInfo and m_compActive
    out,        \* packets of the last capsule the cursor passed
    done        \* history: number of the last capsule the cursor passed

firmware == <<log, published, wr, ring, boardOff, lapped>>
words    == <<hdr, w1, w2, w3>>
vars     == <<firmware, pc, running, shadowOff, snap, words, cur, comp, out,
              done>>

-----------------------------------------------------------------------------
(* Words and addresses.                                                    *)

Blank == [cap |-> 0, pos |-> 0]
Word  == [cap : Nat, pos : Nat]

\* (a + n) & RING_MASK
Wrap(a, n) == (a + n) % RingSize

\* Words from a up to b, walking forward round the ring.
Dist(a, b) == IF a <= b THEN b - a ELSE b + RingSize - a

\* Mutant of Safe64: off by one.
SafeOffByOne == shadowOff + 2 <= RingSize - 1

\* All four words of a capsule at the cursor lie below the end of the ring.
Safe64 == shadowOff + 3 <= RingSize - 1

\* The upper half of a 64-bit read: its address is not masked, and past the
\* ring there is no capsule.
Upper(a) == IF a \in Address THEN ring[a] ELSE Blank

\* A header word followed by word 1 of the same capsule.
Whole == /\ hdr.cap # 0
         /\ hdr.pos = 0
         /\ w1 = [cap |-> hdr.cap, pos |-> 1]

\* Memory nobody wrote is zero.
NullCapsule == [typ |-> "CONTEXT", len |-> 0,
                comp |-> NoComp, act |-> NoAct, ev |-> NoEvent]

\* Words of different capsules, or words that are not a header, decode to
\* whatever their bits say.
Decodes == IF Whole THEN {log[hdr.cap]}
           ELSE IF hdr = Blank THEN {NullCapsule}
           ELSE Garbage

-----------------------------------------------------------------------------
Init == /\ log = <<>>
        /\ published = 0
        /\ wr = 0
        /\ ring = [a \in Address |-> Blank]
        /\ boardOff = 0
        /\ lapped = FALSE
        /\ pc = "attach"
        /\ running = TRUE
        /\ shadowOff = 0
        /\ snap = 0
        /\ hdr = Blank /\ w1 = Blank /\ w2 = Blank /\ w3 = Blank
        /\ cur = NullCapsule
        /\ comp = [c \in Comps |-> NoEntry]
        /\ out = {}
        /\ done = 0

-----------------------------------------------------------------------------
(* The firmware.                                                           *)

Writing == published < Len(log)

\* Words published and not yet passed, plus the new capsule, leave the ring
\* short of full.  The firmware cannot know it and does not wait for it.
RoomFor(c) == pc \notin {"attach", "exit"} =>
                 Dist(shadowOff, boardOff) + c.len < RingSize

FwBegin == /\ ~Writing
           /\ Len(log) < MaxCaps
           /\ \E c \in Capsules : /\ log' = Append(log, c)
                                  /\ lapped' = (lapped \/ ~RoomFor(c))
           /\ wr' = 0
           /\ UNCHANGED <<published, ring, boardOff, pc, running, shadowOff,
                          snap, words, cur, comp, out, done>>

FwWriteWord == /\ Writing
               /\ wr < log[Len(log)].len
               /\ ring' = [ring EXCEPT ![Wrap(boardOff, wr)] =
                              [cap |-> Len(log), pos |-> wr]]
               /\ wr' = wr + 1
               /\ UNCHANGED <<log, published, boardOff, lapped, pc, running,
                              shadowOff, snap, words, cur, comp, out, done>>

FwPublish == /\ Writing
             /\ wr = log[Len(log)].len
             /\ boardOff' = Wrap(boardOff, wr)
             /\ published' = Len(log)
             /\ UNCHANGED <<log, wr, ring, lapped, pc, running, shadowOff,
                            snap, words, cur, comp, out, done>>

-----------------------------------------------------------------------------
(* The poll loop.                                                          *)

\* m_shadowOff starts at the current board_off: older capsules are skipped.
Attach == /\ pc = "attach"
          /\ shadowOff' = boardOff
          /\ done' = published
          /\ pc' = "poll"
          /\ UNCHANGED <<firmware, running, snap, words, cur, comp, out>>

\* Mutant of Poll: the comparison with m_shadowOff is gone.
PollNoCheck == /\ pc = "poll"
               /\ IF running
                  THEN snap' = boardOff /\ pc' = "header"
                  ELSE pc' = "exit" /\ UNCHANGED snap
               /\ UNCHANGED <<firmware, running, shadowOff, words, cur, comp,
                              out, done>>

\* Mutant of Poll: g_running is not tested.
PollForever == /\ pc = "poll"
               /\ snap' = boardOff
               /\ pc' = IF boardOff = shadowOff THEN "poll" ELSE "header"
               /\ UNCHANGED <<firmware, running, shadowOff, words, cur, comp,
                              out, done>>

Poll == /\ pc = "poll"
        /\ IF running
           THEN /\ snap' = boardOff
                /\ pc' = IF boardOff = shadowOff THEN "poll" ELSE "header"
           ELSE /\ pc' = "exit"
                /\ UNCHANGED snap
        /\ UNCHANGED <<firmware, running, shadowOff, words, cur, comp, out,
                       done>>

ReadHeader == /\ pc = "header"
              /\ hdr' = ring[shadowOff]
              /\ IF Safe64
                 THEN w1' = Upper(shadowOff + 1) /\ pc' = "decide"
                 ELSE w1' = w1 /\ pc' = "word1"
              /\ UNCHANGED <<firmware, running, shadowOff, snap, w2, w3, cur,
                             comp, out, done>>

ReadWord1 == /\ pc = "word1"
             /\ w1' = ring[Wrap(shadowOff, 1)]
             /\ pc' = "decide"
             /\ UNCHANGED <<firmware, running, shadowOff, snap, hdr, w2, w3,
                            cur, comp, out, done>>

Decide == /\ pc = "decide"
          /\ cur' \in Decodes
          /\ pc' = "dispatch"
          /\ UNCHANGED <<firmware, running, shadowOff, snap, words, comp, out,
                         done>>

\* The end of an iteration: its locals are gone.
EndIteration == /\ hdr' = Blank /\ w1' = Blank /\ w2' = Blank /\ w3' = Blank
                /\ cur' = NullCapsule

\* Mutant of Advance: the mask is gone.
AdvanceNoMask(n) == /\ shadowOff' = shadowOff + n
                    /\ pc' = IF shadowOff' = snap THEN "poll" ELSE "header"
                    /\ done' = IF hdr.cap # 0 /\ hdr.pos = 0 THEN hdr.cap
                               ELSE done
                    /\ EndIteration
                    /\ UNCHANGED <<firmware, running, snap>>

\* m_shadowOff moves past n words and the do-while tests it.
Advance(n) == /\ shadowOff' = Wrap(shadowOff, n)
              /\ pc' = IF shadowOff' = snap THEN "poll" ELSE "header"
              /\ done' = IF hdr.cap # 0 /\ hdr.pos = 0 THEN hdr.cap ELSE done
              /\ EndIteration
              /\ UNCHANGED <<firmware, running, snap>>

SkipZero == /\ pc = "dispatch"
            /\ cur.len = 0
            /\ Advance(1)
            /\ out' = {}
            /\ UNCHANGED comp

\* Mutant of SkipOther: it leaves the loop before the cursor moves.
SkipAbandons == /\ pc = "dispatch"
                /\ cur.len # 0
                /\ \/ cur.typ = "CONTEXT"
                   \/ cur.typ = "PULSE" /\ ~Active(comp, cur)
                /\ pc' = "poll"
                /\ EndIteration
                /\ UNCHANGED <<firmware, running, shadowOff, snap, comp, out,
                               done>>

SkipOther == /\ pc = "dispatch"
             /\ cur.len # 0
             /\ \/ cur.typ = "CONTEXT"
                \/ cur.typ = "PULSE" /\ ~Active(comp, cur)
             /\ Advance(cur.len)
             /\ out' = {}
             /\ UNCHANGED comp

\* Mutant of AcceptConfig: only the first CONFIG of a comparator is kept.
AcceptConfigOnce == /\ pc = "dispatch"
                    /\ cur.len # 0
                    /\ cur.typ = "CONFIG"
                    /\ ConfigAccepted(cur)
                    /\ comp' = [comp EXCEPT ![cur.comp] =
                                   IF @ = NoEntry THEN cur.act ELSE @]
                    /\ Advance(cur.len)
                    /\ out' = {}

AcceptConfig == /\ pc = "dispatch"
                /\ cur.len # 0
                /\ cur.typ = "CONFIG"
                /\ ConfigAccepted(cur)
                /\ comp' = [comp EXCEPT ![cur.comp] = cur.act]
                /\ Advance(cur.len)
                /\ out' = {}

\* In transmitAll the break leaves the switch.
RejectConfig == /\ pc = "dispatch"
                /\ Verbose
                /\ cur.len # 0
                /\ cur.typ = "CONFIG"
                /\ ~ConfigAccepted(cur)
                /\ Advance(cur.len)
                /\ out' = {}
                /\ UNCHANGED comp

\* In transmitLTIM the same break leaves the do-while, and with it the
\* statement that advances m_shadowOff.
AbandonConfig == /\ pc = "dispatch"
                 /\ ~Verbose
                 /\ cur.len # 0
                 /\ cur.typ = "CONFIG"
                 /\ ~ConfigAccepted(cur)
                 /\ pc' = "poll"
                 /\ EndIteration
                 /\ UNCHANGED <<firmware, running, shadowOff, snap, comp, out,
                                done>>

\* The second PCIe read of a PULSE or an EVENT: two words, or one of two.
ReadTime == /\ pc = "dispatch"
            /\ cur.len # 0
            /\ \/ cur.typ = "EVENT"
               \/ cur.typ = "PULSE" /\ Active(comp, cur)
            /\ w2' = ring[Wrap(shadowOff, 2)]
            /\ IF Safe64
               THEN w3' = Upper(shadowOff + 3) /\ pc' = "send"
               ELSE w3' = w3 /\ pc' = "word3"
            /\ UNCHANGED <<firmware, running, shadowOff, snap, hdr, w1, cur,
                           comp, out, done>>

ReadWord3 == /\ pc = "word3"
             /\ w3' = ring[Wrap(shadowOff, 3)]
             /\ pc' = "send"
             /\ UNCHANGED <<firmware, running, shadowOff, snap, hdr, w1, w2,
                            cur, comp, out, done>>

\* Mutant of Packet: an EVENT is read in the order of a PULSE.
PacketNoSwap(s, ok) ==
    [kind |-> s[1], what |-> s[2], cap |-> hdr.cap, sec |-> w2, nsec |-> w3,
     ok |-> ok]

\* A PULSE holds seconds then nanoseconds, an EVENT the other way round.
\* ok is FALSE when acquire returned no frame and the packet is dropped.
Packet(s, ok) ==
    [kind |-> s[1], what |-> s[2], cap |-> hdr.cap,
     sec  |-> IF cur.typ = "PULSE" THEN w2 ELSE w3,
     nsec |-> IF cur.typ = "PULSE" THEN w3 ELSE w2,
     ok   |-> ok]

Send == /\ pc = "send"
        /\ \E ok \in [Sends(comp, cur) -> BOOLEAN] :
              out' = {Packet(s, ok[s]) : s \in DOMAIN ok}
        /\ Advance(cur.len)
        /\ UNCHANGED comp

-----------------------------------------------------------------------------
\* SIGINT or the watchdog, at any time.
Stop == /\ running
        /\ running' = FALSE
        /\ UNCHANGED <<firmware, pc, shadowOff, snap, words, cur, comp, out,
                       done>>

Firmware == FwBegin \/ FwWriteWord \/ FwPublish

PollLoop == \/ Attach \/ Poll
            \/ ReadHeader \/ ReadWord1 \/ Decide
            \/ SkipZero \/ SkipOther
            \/ AcceptConfig \/ RejectConfig \/ AbandonConfig
            \/ ReadTime \/ ReadWord3 \/ Send

Next == Firmware \/ PollLoop \/ Stop

Spec == Init /\ [][Next]_vars

\* The poll loop owns an isolated core; the firmware owes nothing.
FairSpec == Spec /\ WF_vars(PollLoop)

-----------------------------------------------------------------------------
(* Properties.                                                             *)

Shape == [kind : {"FIRE", "ADVANCE"}, what : Mapped \cup Slots, cap : Nat,
          sec : Word, nsec : Word, ok : BOOLEAN]

\* Every variable has the type of the code's variable.  The cursor stays in
\* the ring and the comparator table holds installed entries only, whatever
\* the words of the ring decode to.
TypeOK ==
    /\ log \in Seq(Capsules)
    /\ published \in 0 .. Len(log)
    /\ Len(log) <= published + 1
    /\ wr \in Nat
    /\ ring \in [Address -> Word]
    /\ \A a \in Address : ring[a].cap <= Len(log)
    /\ boardOff \in Address
    /\ lapped \in BOOLEAN
    /\ pc \in {"attach", "poll", "header", "word1", "decide", "dispatch",
               "word3", "send", "exit"}
    /\ running \in BOOLEAN
    /\ shadowOff \in Address
    /\ snap \in Address
    /\ hdr \in Word /\ w1 \in Word /\ w2 \in Word /\ w3 \in Word
    /\ hdr.cap <= Len(log)
    /\ cur \in CapsuleShape
    /\ comp \in CompTable
    /\ out \subseteq Shape
    /\ done \in 0 .. Len(log)

\* The parts of the inductive invariant of a ring that was not lapped.
Reading  == pc \notin {"attach", "exit"}
InLoop   == pc \in {"header", "word1", "decide", "dispatch", "word3", "send"}
Backlog  == Dist(shadowOff, boardOff)
Unread(a) == Dist(shadowOff, a) < Backlog
At(k, i) == [cap |-> k, pos |-> i]

\* The unread words and the capsule being written never meet.
RoomOK == Backlog + (IF Writing THEN log[Len(log)].len ELSE 0) < RingSize

\* The cursor is at board_off when nothing is left to handle, and else on
\* the first word of the next capsule.
CursorOK == /\ done <= published
            /\ done = published <=> shadowOff = boardOff
            /\ shadowOff # boardOff => ring[shadowOff] = At(done + 1, 0)

\* The capsule that begins at a is in the ring as a whole, followed by the
\* next one or by board_off.
CapsuleOK(a) ==
    LET k == ring[a].cap
        n == log[k].len
    IN  /\ k \in 1 .. published
        /\ Dist(shadowOff, a) + n <= Backlog
        /\ \A i \in 0 .. n - 1 : ring[Wrap(a, i)] = At(k, i)
        /\ IF Wrap(a, n) = boardOff THEN k = published
           ELSE ring[Wrap(a, n)] = At(k + 1, 0)

CapsulesOK == \A a \in Address : Unread(a) /\ ring[a].pos = 0 => CapsuleOK(a)

\* What is in the ring of the capsule being written.
WritingOK == Writing =>
                /\ wr <= log[Len(log)].len
                /\ \A i \in 0 .. wr - 1 :
                      ring[Wrap(boardOff, i)] = At(Len(log), i)

\* The do-while will meet the board_off it compares with: it lies ahead, on
\* the first word of a capsule.
SnapOK == InLoop => /\ snap # shadowOff
                    /\ snap = boardOff \/ (Unread(snap) /\ ring[snap].pos = 0)

\* The words read so far are those of the next capsule.
WordsOK ==
    /\ InLoop => shadowOff # boardOff
    /\ InLoop /\ pc # "header" => hdr = At(done + 1, 0)
    /\ pc \in {"decide", "dispatch", "word3", "send"} => w1 = At(done + 1, 1)
    /\ pc \in {"dispatch", "word3", "send"} => cur = log[done + 1]
    /\ pc \in {"word3", "send"} =>
          /\ w2 = At(done + 1, 2)
          /\ cur.typ = "EVENT" \/ (cur.typ = "PULSE" /\ Active(comp, cur))
    /\ pc = "send" => w3 = At(done + 1, 3)

\* Until the firmware laps it, the loop decodes each capsule from exactly its
\* own words and stays on capsule boundaries, at every offset, through the
\* wrap and whichever width its reads have.
RingInv ==
    /\ WritingOK
    /\ ~lapped /\ Reading =>
          RoomOK /\ CursorOK /\ CapsulesOK /\ SnapOK /\ WordsOK

\* The time and source of the packets of capsule k: seconds and nanoseconds
\* are those of that capsule, in the order its type lays them out.
Half(p, w, first) ==
    LET pos == IF (log[p.cap].typ = "PULSE") = first THEN 2 ELSE 3
    IN  IF w = At(p.cap, pos) THEN p.cap ELSE 0

StreamOut == {[kind |-> p.kind, what |-> p.what, cap |-> p.cap,
               sec  |-> Half(p, p.sec, TRUE),
               nsec |-> Half(p, p.nsec, FALSE),
               ok   |-> p.ok] : p \in out}

\* Until the firmware laps it, the ring reader is an in-order, exactly-once,
\* whole-capsule consumer: no capsule is skipped, repeated, torn or
\* attributed to another time.
Stream == INSTANCE CapsuleStream
              WITH pub <- SubSeq(log, 1, published), attached <- pc # "attach",
                   out <- StreamOut

ImplementsStream ==
    /\ Stream!StreamInit
    /\ [][Stream!StreamNext \/ lapped]_(Stream!streamVars)

\* The CONFIGs of the comparator of PULSE k before it, and those of them
\* whose action installActionMap knows.
ConfigsBefore(k)  == {j \in 1 .. k - 1 : /\ log[j].typ = "CONFIG"
                                         /\ log[j].comp = log[k].comp}
AcceptedBefore(k) == {j \in ConfigsBefore(k) : ConfigAccepted(log[j])}

\* The capsule j names the action of the packet p, and is the last of js.
Attributes(p, j, js) == /\ \A i \in js : i <= j
                        /\ p.what = log[j].act

\* A FIRE sent for a PULSE names the action whose CONFIG was the last for
\* that comparator ("CONFIG always updates m_compInfo before PULSE fires",
\* docs/wren-sidecar.md).
FireAttribution ==
    \A p \in out : log[p.cap].typ = "PULSE" =>
        \E j \in ConfigsBefore(p.cap) : Attributes(p, j, ConfigsBefore(p.cap))

\* Until the firmware laps the loop, a FIRE sent for a PULSE names the action
\* of the last CONFIG for that comparator that names an installed action,
\* whatever was written, rejected or abandoned between the two.
AcceptedAttribution ==
    ~lapped => \A p \in out : log[p.cap].typ = "PULSE" =>
        \E j \in AcceptedBefore(p.cap) :
            Attributes(p, j, AcceptedBefore(p.cap))

\* Every capsule published while the loop runs is handled, unless the process
\* is told to stop or the firmware laps the loop first.
EveryCapsuleHandled ==
    \A k \in 1 .. MaxCaps :
        published >= k /\ running ~> done >= k \/ ~running \/ lapped

\* Until the firmware laps it, the poll loop returns once g_running is
\* cleared, which the destructor that removes the firmware actions depends on.
StopsWhenAsked == ~running ~> pc = "exit" \/ lapped

=============================================================================
