----------------------------- MODULE WireFormat -----------------------------
(***************************************************************************)
(* The payload of the sidecar's Ethernet frames: what sendAdvance and      *)
(* sendFire write into a transmit buffer and what the two builds of        *)
(* parseAndEnqueue read back.                                              *)
(*                                                                         *)
(* A payload is a function from positions to bytes; both hosts are little  *)
(* endian.  A buffer of the transmit ring is used again and again, so the  *)
(* bytes a packet does not write are those of an earlier one.  A message   *)
(* is the TimingEvent the receiver should make of it.                      *)
(***************************************************************************)
EXTENDS Naturals

PKT_ADVANCE == 1
PKT_FIRE    == 2

\* The positions any packet uses; the rest of the frame is padding.
Positions == 0 .. 15
Byte      == 0 .. 255
Payload   == [Positions -> Byte]

UInt16 == 0 .. 65535
UInt32 == {v \in Nat : v \div 65536 \in UInt16}

TimingEvent == [pktType : {PKT_ADVANCE, PKT_FIRE}, channel : Byte,
                eventId : UInt16, slot : UInt16, offsetMs : UInt16,
                sec : UInt32, nsec : UInt32]

\* What sendAdvance and sendFire are given; the rest of the event is 0.
Message == {m \in TimingEvent :
               IF m.pktType = PKT_ADVANCE THEN m.channel = 0 /\ m.offsetMs = 0
               ELSE m.slot = 0}

\* Weights of the bytes of an integer, lowest first.
Weight == <<1, 256, 65536, 16777216>>

\* memcpy of the n low bytes of v to position at.
Field(at, n, v) == [at |-> at, len |-> n, val |-> v]

Covers(f, i) == i \in f.at .. f.at + f.len - 1

\* The buffer p after the fields were written into it.
Written(p, fields) ==
    [i \in Positions |->
        IF \E f \in fields : Covers(f, i)
        THEN LET f == CHOOSE f \in fields : Covers(f, i)
             IN  (f.val \div Weight[i - f.at + 1]) % 256
        ELSE p[i]]

\* memcpy of two and of four bytes from position at.
Read16(p, at) == p[at] + 256 * p[at + 1]
Read32(p, at) == Read16(p, at) + 65536 * Read16(p, at + 2)

\* Mutant of SendAdvance: the type is left to the prefilled ring.
SendAdvanceNoType(p, m) ==
    Written(p, {Field(2, 2, m.eventId), Field(4, 2, m.slot),
                Field(6, 4, m.sec), Field(10, 4, m.nsec)})

SendAdvance(p, m) ==
    Written(p, {Field(0, 1, PKT_ADVANCE), Field(1, 1, 0),
                Field(2, 2, m.eventId), Field(4, 2, m.slot),
                Field(6, 4, m.sec), Field(10, 4, m.nsec)})

SendFire(p, m) ==
    Written(p, {Field(0, 1, PKT_FIRE), Field(1, 1, 0),
                Field(2, 2, m.eventId),
                Field(4, 4, m.sec), Field(8, 4, m.nsec),
                Field(12, 1, m.channel), Field(13, 1, 0),
                Field(14, 2, m.offsetMs)})

Send(p, m) == IF m.pktType = PKT_ADVANCE THEN SendAdvance(p, m)
              ELSE SendFire(p, m)

ParseAdvance(p) ==
    [pktType |-> PKT_ADVANCE, channel |-> 0, eventId |-> Read16(p, 2),
     slot |-> Read16(p, 4), offsetMs |-> 0,
     sec |-> Read32(p, 6), nsec |-> Read32(p, 10)]

ParseFire(p) ==
    [pktType |-> PKT_FIRE, channel |-> p[12], eventId |-> Read16(p, 2),
     slot |-> 0, offsetMs |-> Read16(p, 14),
     sec |-> Read32(p, 4), nsec |-> Read32(p, 8)]

\* The debug build gives up a packet of neither type; the release build
\* takes whatever arrives for a FIRE.
Recognised(verbose, p) == verbose => p[0] \in {PKT_ADVANCE, PKT_FIRE}

Parse(verbose, p) == IF verbose /\ p[0] = PKT_ADVANCE THEN ParseAdvance(p)
                     ELSE ParseFire(p)
=============================================================================
