----------------------- MODULE WRENTransmitterProofs -----------------------
(***************************************************************************)
(* Proofs about the poll loop for every ring size, capsule set, build and  *)
(* number of capsules.                                                     *)
(***************************************************************************)
EXTENDS WRENTransmitter, TLAPS

-----------------------------------------------------------------------------
(* Arithmetic of the ring.                                                 *)

LEMMA RingSizeType == RingSize \in Nat /\ RingSize > 0
BY RingAssumption

\* Masking an index keeps it in the ring, whatever is added to it.
LEMMA WrapInRing == \A a, n \in Nat : Wrap(a, n) \in Address
BY RingSizeType DEF Wrap, Address

\* From an address of the ring, in particular.
LEMMA WrapAddress == \A a \in Address, n \in Nat : Wrap(a, n) \in Address
BY WrapInRing, RingSizeType DEF Address

\* Masking is a conditional subtraction when less than a ring is added.
LEMMA WrapValue ==
    ASSUME NEW a \in Address, NEW n \in 0 .. RingSize
    PROVE  Wrap(a, n) = IF a + n < RingSize THEN a + n ELSE a + n - RingSize
BY RingSizeType DEF Wrap, Address

\* Walking n words forward from a adds n to its distance.
LEMMA DistWrap ==
    ASSUME NEW s \in Address, NEW a \in Address, NEW n \in Nat,
           Dist(s, a) + n < RingSize
    PROVE  Dist(s, Wrap(a, n)) = Dist(s, a) + n
<1>1. n \in 0 .. RingSize
  BY RingSizeType DEF Dist, Address
<1>2. Wrap(a, n) = IF a + n < RingSize THEN a + n ELSE a + n - RingSize
  BY <1>1, WrapValue
<1> QED  BY <1>1, <1>2, RingSizeType DEF Dist, Address

\* Two addresses at the same distance are the same.
LEMMA DistInjective ==
    ASSUME NEW s \in Address, NEW a \in Address, NEW b \in Address,
           Dist(s, a) = Dist(s, b)
    PROVE  a = b
BY RingSizeType DEF Dist, Address

LEMMA DistRange ==
    ASSUME NEW s \in Address, NEW a \in Address
    PROVE  Dist(s, a) \in Nat /\ Dist(s, a) < RingSize /\ Dist(s, s) = 0
BY RingSizeType DEF Dist, Address

\* Every address is reached by walking its distance.
LEMMA WrapDist ==
    ASSUME NEW s \in Address, NEW a \in Address
    PROVE  a = Wrap(s, Dist(s, a))
<1>1. Dist(s, a) \in 0 .. RingSize
  BY RingSizeType DEF Dist, Address
<1>2. Wrap(s, Dist(s, a)) = IF s + Dist(s, a) < RingSize THEN s + Dist(s, a)
                            ELSE s + Dist(s, a) - RingSize
  BY <1>1, WrapValue
<1> QED  BY <1>2, RingSizeType DEF Dist, Address

LEMMA WrapZero == \A a \in Address : Wrap(a, 0) = a
BY WrapValue, RingSizeType DEF Address

\* Moving the origin n words forward shortens the distance of what lies n or
\* more words ahead and puts the rest behind.
LEMMA DistShift ==
    ASSUME NEW s \in Address, NEW a \in Address, NEW n \in Nat, n < RingSize
    PROVE  Dist(Wrap(s, n), a) = IF Dist(s, a) >= n THEN Dist(s, a) - n
                                 ELSE Dist(s, a) + RingSize - n
<1>1. Wrap(s, n) = IF s + n < RingSize THEN s + n ELSE s + n - RingSize
  BY WrapValue, RingSizeType
<1> QED  BY <1>1, RingSizeType DEF Dist, Address

-----------------------------------------------------------------------------
(* Type correctness.                                                       *)

LEMMA CapsuleTypes == Capsules \subseteq CapsuleShape
BY RingAssumption

LEMMA GarbageTypes == Garbage \subseteq CapsuleShape
BY RingAssumption

LEMMA NullTypes == NullCapsule \in CapsuleShape
BY DEF NullCapsule, CapsuleShape, Types

LEMMA BlankType == Blank \in Word
BY DEF Blank, Word

\* Whatever the words decode to has the shape of a capsule.
LEMMA DecodesType == TypeOK => Decodes \subseteq CapsuleShape
<1> SUFFICES ASSUME TypeOK PROVE Decodes \subseteq CapsuleShape
  OBVIOUS
<1>1. ASSUME Whole PROVE log[hdr.cap] \in CapsuleShape
  <2>1. hdr.cap \in 1 .. Len(log)
    BY <1>1 DEF TypeOK, Whole, Word
  <2>2. log[hdr.cap] \in Capsules
    BY <2>1 DEF TypeOK
  <2> QED  BY <2>2, CapsuleTypes
<1> QED  BY <1>1, GarbageTypes, NullTypes DEF Decodes

\* An upper half is a word.
LEMMA UpperType == TypeOK => \A a : Upper(a) \in Word
BY BlankType DEF Upper, TypeOK

\* What a capsule makes the transmitter send is about an installed action
\* or a slot of the table.
LEMMA SendsType ==
    ASSUME NEW t \in CompTable, NEW c \in CapsuleShape, NEW s \in Sends(t, c)
    PROVE  s[1] \in {"FIRE", "ADVANCE"} /\ s[2] \in Mapped \cup Slots
<1>1. CASE c.typ = "PULSE"
  BY <1>1 DEF Sends, Active, CompTable, Entry
<1>2. CASE c.typ = "EVENT"
  BY <1>2, ProtocolAssumption
     DEF Sends, AdvanceSlots, EventActions, CapsuleShape
<1>3. CASE c.typ \notin {"PULSE", "EVENT"}
  BY <1>3 DEF Sends
<1> QED  BY <1>1, <1>2, <1>3

\* The end of an iteration keeps every type.
LEMMA AdvanceType ==
    ASSUME TypeOK, NEW n \in Nat, Advance(n), comp' \in CompTable,
           out' \subseteq Shape
    PROVE  TypeOK'
<1>1. shadowOff' \in Address
  BY WrapInRing DEF Advance, TypeOK, Address
<1>2. done' \in 0 .. Len(log)
  BY DEF Advance, TypeOK, Word
<1>3. pc' \in {"poll", "header"}
  BY DEF Advance
<1>4. /\ hdr' = Blank /\ w1' = Blank /\ w2' = Blank /\ w3' = Blank
      /\ cur' = NullCapsule
  BY DEF Advance, EndIteration
<1> QED
  BY <1>1, <1>2, <1>3, <1>4, BlankType, NullTypes
     DEF TypeOK, Advance, firmware, Blank, Address

LEMMA InitType == Init => TypeOK
<1> SUFFICES ASSUME Init PROVE TypeOK
  OBVIOUS
<1>1. 0 \in Address
  BY RingSizeType DEF Address
<1>2. comp \in CompTable
  BY DEF Init, CompTable, Entry
<1>3. log = << >> /\ log \in Seq(Capsules) /\ Len(log) = 0
  BY DEF Init
<1> QED
  BY <1>1, <1>2, <1>3, BlankType, NullTypes DEF Init, TypeOK, Blank

LEMMA NextType == TypeOK /\ [Next]_vars => TypeOK'
<1> SUFFICES ASSUME TypeOK, [Next]_vars PROVE TypeOK'
  OBVIOUS
<1>1. CASE FwBegin
  <2>1. PICK c \in Capsules : log' = Append(log, c)
    BY <1>1 DEF FwBegin
  <2>2. log' \in Seq(Capsules) /\ Len(log') = Len(log) + 1
    BY <2>1 DEF TypeOK
  <2>3. Len(log) \in Nat /\ published = Len(log)
    BY <1>1 DEF FwBegin, Writing, TypeOK
  <2>4. \A a \in Address : ring'[a].cap <= Len(log')
    <3> SUFFICES ASSUME NEW a \in Address PROVE ring'[a].cap <= Len(log')
      OBVIOUS
    <3>1. ring[a].cap \in Nat /\ ring[a].cap <= Len(log) /\ ring' = ring
      BY <1>1 DEF FwBegin, TypeOK, Word
    <3> QED  BY <3>1, <2>2, <2>3
  <2>5. hdr'.cap <= Len(log')
    BY <1>1, <2>2, <2>3 DEF FwBegin, TypeOK, Word, words
  <2> QED
    BY <1>1, <2>2, <2>3, <2>4, <2>5 DEF FwBegin, TypeOK, words
<1>2. CASE FwWriteWord
  <2>1. Wrap(boardOff, wr) \in Address
    BY WrapAddress DEF TypeOK
  <2>2. [cap |-> Len(log), pos |-> wr] \in Word
    BY DEF TypeOK, Word
  <2>3. ring' \in [Address -> Word]
    BY <1>2, <2>2 DEF FwWriteWord, TypeOK
  <2>4. \A a \in Address : ring'[a].cap <= Len(log)
    BY <1>2, <2>1 DEF FwWriteWord, TypeOK
  <2> QED
    BY <1>2, <2>3, <2>4 DEF FwWriteWord, TypeOK, words
<1>3. CASE FwPublish
  <2>1. boardOff' \in Address
    BY <1>3, WrapAddress DEF FwPublish, TypeOK
  <2> QED
    BY <1>3, <2>1 DEF FwPublish, TypeOK, words, Writing
<1>4. CASE Attach
  BY <1>4 DEF Attach, TypeOK, firmware, words
<1>5. CASE Poll
  BY <1>5 DEF Poll, TypeOK, firmware, words
<1>6. CASE ReadHeader
  BY <1>6, UpperType DEF ReadHeader, TypeOK, firmware
<1>7. CASE ReadWord1
  <2>1. Wrap(shadowOff, 1) \in Address
    BY WrapAddress DEF TypeOK
  <2> QED
    BY <1>7, <2>1 DEF ReadWord1, TypeOK, firmware
<1>8. CASE Decide
  BY <1>8, DecodesType DEF Decide, TypeOK, firmware, words
<1>9. CASE SkipZero
  BY <1>9, AdvanceType DEF SkipZero, TypeOK
<1>10. CASE SkipOther
  BY <1>10, AdvanceType DEF SkipOther, TypeOK, CapsuleShape
<1>11. CASE AcceptConfig
  <2>1. comp' \in CompTable
    BY <1>11 DEF AcceptConfig, ConfigAccepted, TypeOK, CompTable, Entry
  <2> QED
    BY <1>11, <2>1, AdvanceType DEF AcceptConfig, TypeOK, CapsuleShape
<1>12. CASE RejectConfig
  BY <1>12, AdvanceType DEF RejectConfig, TypeOK, CapsuleShape
<1>13. CASE AbandonConfig
  <2>1. /\ hdr' = Blank /\ w1' = Blank /\ w2' = Blank /\ w3' = Blank
        /\ cur' = NullCapsule
    BY <1>13 DEF AbandonConfig, EndIteration
  <2> QED
    BY <1>13, <2>1, BlankType, NullTypes
       DEF AbandonConfig, TypeOK, firmware, Blank
<1>14. CASE ReadTime
  <2>1. Wrap(shadowOff, 2) \in Address
    BY WrapAddress DEF TypeOK
  <2> QED
    BY <1>14, <2>1, UpperType DEF ReadTime, TypeOK, firmware
<1>15. CASE ReadWord3
  <2>1. Wrap(shadowOff, 3) \in Address
    BY WrapAddress DEF TypeOK
  <2> QED
    BY <1>15, <2>1 DEF ReadWord3, TypeOK, firmware
<1>16. CASE Send
  <2>1. PICK ok \in [Sends(comp, cur) -> BOOLEAN] :
           out' = {Packet(s, ok[s]) : s \in DOMAIN ok}
    BY <1>16 DEF Send
  <2>2. ASSUME NEW s \in Sends(comp, cur), NEW b \in BOOLEAN
        PROVE  Packet(s, b) \in Shape
    <3>1. s[1] \in {"FIRE", "ADVANCE"} /\ s[2] \in Mapped \cup Slots
      BY SendsType DEF TypeOK
    <3>2. hdr.cap \in Nat
      BY DEF TypeOK, Word
    <3> QED
      BY <3>1, <3>2 DEF Packet, Shape, TypeOK
  <2>3. out' \subseteq Shape
    BY <2>1, <2>2
  <2> QED
    BY <1>16, <2>3, AdvanceType DEF Send, TypeOK, CapsuleShape
<1>17. CASE Stop
  BY <1>17 DEF Stop, TypeOK, firmware, words
<1>18. CASE UNCHANGED vars
  BY <1>18 DEF vars, TypeOK, firmware, words
<1> QED
  BY <1>1, <1>2, <1>3, <1>4, <1>5, <1>6, <1>7, <1>8, <1>9, <1>10, <1>11,
     <1>12, <1>13, <1>14, <1>15, <1>16, <1>17, <1>18
     DEF Next, Firmware, PollLoop

\* For every ring size, build and firmware, lapping or not: the cursor stays
\* in the ring and only installed entries reach the table and the packets.
THEOREM TypeCorrect == Spec => []TypeOK
BY InitType, NextType, PTL DEF Spec

-----------------------------------------------------------------------------
(* The loop stays on capsule boundaries.                                   *)

Keeps == ~lapped /\ Reading

\* What the firmware may publish.
LEMMA CapsuleLen ==
    ASSUME NEW c \in Capsules
    PROVE  /\ c.len \in Nat /\ c.len >= 2 /\ c.len < RingSize
           /\ c.typ \in {"PULSE", "EVENT"} => c.len >= 4
<1>1. c.len \in 2 .. RingSize - 1 /\ (c.typ \in {"PULSE", "EVENT"} => c.len >= 4)
  BY RingAssumption
<1> QED  BY <1>1, RingSizeType

\* The capsule at the cursor, when something is left to handle.
LEMMA NextCapsule ==
    ASSUME TypeOK, RingInv, Keeps, shadowOff # boardOff
    PROVE  /\ done + 1 \in 1 .. published
           /\ log[done + 1] \in Capsules
           /\ log[done + 1].len <= Backlog
           /\ \A i \in 0 .. log[done + 1].len - 1 :
                 ring[Wrap(shadowOff, i)] = At(done + 1, i)
           /\ IF Wrap(shadowOff, log[done + 1].len) = boardOff
              THEN done + 1 = published
              ELSE ring[Wrap(shadowOff, log[done + 1].len)] = At(done + 2, 0)
<1>1. shadowOff \in Address /\ boardOff \in Address /\ done \in Nat
  BY DEF TypeOK
<1>2. Backlog > 0
  BY <1>1, DistInjective, DistRange DEF Backlog
<1>3. Unread(shadowOff)
  BY <1>1, <1>2, DistRange DEF Unread
<1>4. ring[shadowOff].pos = 0 /\ ring[shadowOff].cap = done + 1
  BY DEF RingInv, Keeps, CursorOK, At
<1>5. CapsulesOK
  BY DEF RingInv, Keeps
<1>6. /\ done + 1 \in 1 .. published
      /\ Dist(shadowOff, shadowOff) + log[done + 1].len <= Backlog
      /\ \A i \in 0 .. log[done + 1].len - 1 :
            ring[Wrap(shadowOff, i)] = At(done + 1, i)
      /\ IF Wrap(shadowOff, log[done + 1].len) = boardOff
         THEN done + 1 = published
         ELSE ring[Wrap(shadowOff, log[done + 1].len)] = At(done + 1 + 1, 0)
  BY <1>1, <1>3, <1>4, <1>5 DEF CapsulesOK, CapsuleOK
<1>7. log[done + 1] \in Capsules
  BY <1>6 DEF TypeOK
<1>8. log[done + 1].len \in Nat
  BY <1>7, CapsuleLen
<1>9. done + 1 + 1 = done + 2
  BY <1>1
<1> QED  BY <1>1, <1>6, <1>7, <1>8, <1>9, DistRange

\* The firmware begins a capsule there is room for.
LEMMA BeginRing == TypeOK /\ RingInv /\ FwBegin => RingInv'
<1> SUFFICES ASSUME TypeOK, RingInv, FwBegin PROVE RingInv'
  OBVIOUS
<1>1. PICK c \in Capsules : /\ log' = Append(log, c)
                            /\ lapped' = (lapped \/ ~RoomFor(c))
  BY DEF FwBegin
<1>2. published = Len(log) /\ Len(log) \in Nat
  BY DEF FwBegin, Writing, TypeOK
<1>3. /\ Len(log') = Len(log) + 1
      /\ log'[Len(log')] = c
      /\ \A k \in 1 .. Len(log) : log'[k] = log[k]
  BY <1>1, <1>2 DEF TypeOK
<1>4. /\ wr' = 0
      /\ UNCHANGED <<published, ring, boardOff, pc, running, shadowOff, snap,
                     hdr, w1, w2, w3, cur, comp, out, done>>
  BY DEF FwBegin, words
<1>5. WritingOK'
  <2>1. c.len \in Nat
    BY CapsuleLen
  <2> QED  BY <1>3, <1>4, <2>1 DEF WritingOK
<1>6. ASSUME Keeps, ~lapped'
      PROVE  (RoomOK /\ CursorOK /\ CapsulesOK /\ SnapOK /\ WordsOK)'
  <2>1. RoomOK /\ CursorOK /\ CapsulesOK /\ SnapOK /\ WordsOK
    BY <1>6 DEF RingInv, Keeps
  <2>2. Backlog + c.len < RingSize
    BY <1>1, <1>6 DEF RoomFor, Backlog, Keeps, Reading
  <2>3. Backlog' = Backlog
    BY <1>4 DEF Backlog, Dist
  <2>4. Writing' /\ log'[Len(log')].len = c.len
    BY <1>2, <1>3, <1>4 DEF Writing
  <2>5. RoomOK'
    BY <2>2, <2>3, <2>4 DEF RoomOK
  <2>6. CursorOK'
    BY <2>1, <1>4 DEF CursorOK, At
  <2>7. CapsulesOK'
    BY <2>1, <1>2, <1>3, <1>4
       DEF CapsulesOK, CapsuleOK, Unread, Backlog, Dist, Wrap, At
  <2>8. SnapOK'
    BY <2>1, <1>4 DEF SnapOK, Unread, Backlog, Dist, InLoop
  <2>9. InLoop => done + 1 \in 1 .. Len(log)
    BY <1>2, <1>6, <2>1, NextCapsule DEF WordsOK
  <2>10. WordsOK'
    BY <2>1, <2>9, <1>3, <1>4 DEF WordsOK, InLoop, At, Active
  <2> QED  BY <2>6, <2>7, <2>8, <2>10, <2>5
<1> QED
  BY <1>1, <1>4, <1>5, <1>6 DEF RingInv, Keeps, Reading

\* The firmware writes past the unread words.
LEMMA WriteRing == TypeOK /\ RingInv /\ FwWriteWord => RingInv'
<1> SUFFICES ASSUME TypeOK, RingInv, FwWriteWord PROVE RingInv'
  OBVIOUS
<1> DEFINE A == Wrap(boardOff, wr)
           c == log[Len(log)]
<1>1. Len(log) \in Nat /\ Writing /\ Len(log) \in 1 .. Len(log) /\ wr \in Nat
  BY DEF FwWriteWord, Writing, TypeOK
<1>2. c \in Capsules
  BY <1>1 DEF TypeOK
<1>3. c.len \in Nat /\ c.len < RingSize /\ wr < c.len
  BY <1>2, CapsuleLen DEF FwWriteWord
<1>4. /\ ring' = [ring EXCEPT ![A] = At(Len(log), wr)]
      /\ wr' = wr + 1
      /\ UNCHANGED <<log, published, boardOff, lapped, pc, running, shadowOff, snap,
                     hdr, w1, w2, w3, cur, comp, out, done>>
  BY DEF FwWriteWord, words, At
<1>5. boardOff \in Address /\ shadowOff \in Address /\ snap \in Address
  BY DEF TypeOK
<1>6. A \in Address /\ \A a \in Address : a # A => ring'[a] = ring[a]
  BY <1>1, <1>4, <1>5, WrapAddress DEF TypeOK
<1>7. ring'[A] = At(Len(log), wr)
  BY <1>4, <1>6 DEF TypeOK
<1>8. WritingOK'
  <2>1. ASSUME NEW i \in 0 .. wr
        PROVE  ring'[Wrap(boardOff, i)] = At(Len(log), i)
    <3>1. CASE i = wr
      BY <3>1, <1>7
    <3>2. CASE i # wr
      <4>1. i \in 0 .. wr - 1 /\ i \in Nat /\ i < c.len
        BY <3>2, <1>1, <1>3
      <4>2. ring[Wrap(boardOff, i)] = At(Len(log), i)
        BY <4>1, <1>1 DEF RingInv, WritingOK
      <4>3. Dist(boardOff, boardOff) = 0
        BY <1>5, DistRange
      <4>4. /\ Dist(boardOff, boardOff) + i < RingSize
            /\ Dist(boardOff, boardOff) + wr < RingSize
        BY <4>1, <4>3, <1>1, <1>3, RingSizeType
      <4>5. Dist(boardOff, Wrap(boardOff, i)) = i /\ Dist(boardOff, A) = wr
        BY <4>1, <4>3, <4>4, <1>1, <1>5, DistWrap
      <4> QED
        BY <3>2, <4>1, <4>2, <4>5, <1>5, <1>6, WrapAddress
    <3> QED  BY <3>1, <3>2
  <2> QED
    BY <2>1, <1>1, <1>3, <1>4 DEF WritingOK
<1>9. ASSUME Keeps
      PROVE  (RoomOK /\ CursorOK /\ CapsulesOK /\ SnapOK /\ WordsOK)'
  <2>1. RoomOK /\ CursorOK /\ CapsulesOK /\ SnapOK /\ WordsOK
    BY <1>9 DEF RingInv, Keeps
  <2>2. Backlog \in Nat /\ Backlog + c.len < RingSize
    BY <2>1, <1>1, <1>5, DistRange DEF RoomOK, Backlog
  <2>3. Dist(shadowOff, boardOff) + wr < RingSize
    BY <2>2, <1>1, <1>3, RingSizeType DEF Backlog
  <2>4. Dist(shadowOff, A) = Backlog + wr
    BY <2>3, <1>1, <1>5, DistWrap DEF Backlog
  <2>5. \A a \in Address : Unread(a) => ring'[a] = ring[a]
    BY <2>2, <2>4, <1>1, <1>6 DEF Unread
  <2>6. Backlog' = Backlog /\ \A a : Unread(a)' <=> Unread(a)
    BY <1>4 DEF Backlog, Unread, Dist
  <2>7. shadowOff # boardOff => Unread(shadowOff)
    BY <1>5, <2>2, DistInjective, DistRange DEF Unread, Backlog
  <2>8. RoomOK'
    BY <2>1, <2>6, <1>4 DEF RoomOK, Writing
  <2>9. CursorOK'
    BY <2>1, <2>5, <2>7, <1>4, <1>5 DEF CursorOK, At
  <2>10. CapsulesOK'
    <3> SUFFICES ASSUME NEW a \in Address, Unread(a), ring'[a].pos = 0
                 PROVE  CapsuleOK(a)'
      BY <2>6 DEF CapsulesOK
    <3> DEFINE k == ring[a].cap
    <3>1. ring[a].pos = 0 /\ ring'[a] = ring[a]
      BY <2>5
    <3>2. /\ k \in 1 .. published
          /\ Dist(shadowOff, a) + log[k].len <= Backlog
          /\ \A i \in 0 .. log[k].len - 1 : ring[Wrap(a, i)] = At(k, i)
          /\ IF Wrap(a, log[k].len) = boardOff THEN k = published
             ELSE ring[Wrap(a, log[k].len)] = At(k + 1, 0)
      BY <2>1, <3>1 DEF CapsulesOK, CapsuleOK
    <3>3. log[k].len \in Nat
      BY <3>2, CapsuleLen DEF TypeOK
    <3>4. Dist(shadowOff, a) \in Nat /\ Backlog < RingSize
      BY <1>5, DistRange DEF Backlog
    <3>5. ASSUME NEW i \in 0 .. log[k].len - 1
          PROVE  ring'[Wrap(a, i)] = At(k, i)
      <4>1. i \in Nat /\ Dist(shadowOff, a) + i < Backlog
        BY <3>2, <3>3, <3>4, <2>2
      <4>2. Dist(shadowOff, a) + i < RingSize
        BY <4>1, <3>4, <2>2, RingSizeType
      <4>3. Dist(shadowOff, Wrap(a, i)) = Dist(shadowOff, a) + i
        BY <4>1, <4>2, <1>5, DistWrap
      <4>4. Unread(Wrap(a, i)) /\ Wrap(a, i) \in Address
        BY <4>1, <4>3, WrapAddress DEF Unread
      <4> QED  BY <4>4, <2>5, <3>2
    <3>6. ASSUME Wrap(a, log[k].len) # boardOff
          PROVE  ring'[Wrap(a, log[k].len)] = At(k + 1, 0)
      <4>1. Dist(shadowOff, a) + log[k].len < RingSize
        BY <3>2, <3>3, <3>4, <2>2, RingSizeType
      <4>2. Dist(shadowOff, Wrap(a, log[k].len))
              = Dist(shadowOff, a) + log[k].len
        BY <4>1, <3>3, <1>5, DistWrap
      <4>3. Wrap(a, log[k].len) \in Address
        BY <3>3, WrapAddress
      <4>4. Dist(shadowOff, Wrap(a, log[k].len)) # Backlog
        BY <3>6, <4>3, <1>5, DistInjective DEF Backlog
      <4>5. Unread(Wrap(a, log[k].len))
        BY <4>2, <4>4, <3>2, <3>3, <3>4, <2>2 DEF Unread
      <4> QED  BY <3>6, <4>3, <4>5, <2>5, <3>2
    <3> QED
      BY <3>1, <3>2, <3>5, <3>6, <2>6, <1>4 DEF CapsuleOK, Wrap, Dist, At
  <2>11. SnapOK'
    BY <2>1, <2>5, <2>6, <1>4, <1>5 DEF SnapOK, InLoop
  <2>12. WordsOK'
    BY <2>1, <1>4 DEF WordsOK, InLoop, At, Active
  <2> QED  BY <2>8, <2>9, <2>10, <2>11, <2>12
<1> QED
  BY <1>4, <1>8, <1>9 DEF RingInv, Keeps, Reading

\* Publishing joins the written capsule to the unread ones.
LEMMA PublishRing == TypeOK /\ RingInv /\ FwPublish => RingInv'
<1> SUFFICES ASSUME TypeOK, RingInv, FwPublish PROVE RingInv'
  OBVIOUS
<1> DEFINE new == Len(log)
           c   == log[new]
           B   == Wrap(boardOff, wr)
<1>1. new \in Nat /\ Writing /\ new \in 1 .. new /\ new = published + 1
  BY DEF FwPublish, Writing, TypeOK
<1>2. c \in Capsules
  BY <1>1 DEF TypeOK
<1>3. c.len \in Nat /\ c.len < RingSize /\ c.len >= 2 /\ wr = c.len
  BY <1>2, CapsuleLen DEF FwPublish
<1>4. /\ boardOff' = B
      /\ published' = new
      /\ UNCHANGED <<log, wr, ring, lapped, pc, running, shadowOff, snap, hdr, w1, w2,
                     w3, cur, comp, out, done>>
  BY DEF FwPublish, words
<1>5. /\ boardOff \in Address /\ shadowOff \in Address /\ snap \in Address
      /\ B \in Address /\ published \in Nat /\ done \in Nat
  <2>1. /\ boardOff \in Address /\ shadowOff \in Address /\ snap \in Address
        /\ published \in Nat /\ done \in Nat
    BY <1>1 DEF TypeOK
  <2>2. wr \in Nat
    BY <1>3
  <2>3. B \in Address
    BY <2>1, <2>2, WrapAddress
  <2> QED  BY <2>1, <2>3
<1>6. \A i \in 0 .. c.len - 1 : ring[Wrap(boardOff, i)] = At(new, i)
  BY <1>1, <1>3 DEF RingInv, WritingOK
<1>7. ring[boardOff] = At(new, 0)
  BY <1>3, <1>5, <1>6, WrapZero
<1>8. WritingOK'
  BY <1>1, <1>4 DEF WritingOK, Writing
<1>9. ASSUME Keeps
      PROVE  (RoomOK /\ CursorOK /\ CapsulesOK /\ SnapOK /\ WordsOK)'
  <2>1. RoomOK /\ CursorOK /\ CapsulesOK /\ SnapOK /\ WordsOK
    BY <1>9 DEF RingInv, Keeps
  <2>2. Backlog \in Nat /\ Backlog + c.len < RingSize
    BY <2>1, <1>1, <1>5, DistRange DEF RoomOK, Backlog
  <2>3. Dist(shadowOff, B) = Backlog + c.len
    <3>1. Dist(shadowOff, boardOff) + wr < RingSize
      BY <2>2, <1>3 DEF Backlog
    <3> QED
      BY <3>1, <1>3, <1>5, DistWrap DEF Backlog
  <2>4. Backlog' = Backlog + c.len
    BY <2>3, <1>4 DEF Backlog, Dist
  <2>5. \A a \in Address : Unread(a)' <=> Dist(shadowOff, a) < Backlog + c.len
    BY <2>4, <1>4 DEF Unread, Dist
  <2>6. B # shadowOff
    <3>1. Dist(shadowOff, shadowOff) = 0
      BY <1>5, DistRange
    <3> QED  BY <3>1, <2>2, <2>3, <1>3
  <2>7. RoomOK'
    <3>1. ~Writing'
      BY <1>1, <1>4 DEF Writing
    <3>2. Backlog + c.len + 0 < RingSize
      BY <2>2, <1>3
    <3> QED  BY <2>2, <2>4, <3>1, <3>2, <1>3 DEF RoomOK
  <2>8. CursorOK'
    <3>1. done <= published' /\ done # published'
      BY <2>1, <1>1, <1>4, <1>5 DEF CursorOK
    <3>2. ring[shadowOff] = At(done + 1, 0)
      BY <2>1, <1>1, <1>7 DEF CursorOK
    <3> QED
      BY <3>1, <3>2, <2>6, <1>4 DEF CursorOK, At
  <2>9. CapsulesOK'
    <3> SUFFICES ASSUME NEW a \in Address, Dist(shadowOff, a) < Backlog + c.len,
                        ring[a].pos = 0
                 PROVE  CapsuleOK(a)'
      BY <2>5, <1>4 DEF CapsulesOK
    <3>1. Dist(shadowOff, a) \in Nat
      BY <1>5, DistRange
    <3>2. CASE Unread(a)
      <4> DEFINE k == ring[a].cap
                 n == log[k].len
      <4>1. /\ k \in 1 .. published
            /\ Dist(shadowOff, a) + n <= Backlog
            /\ \A i \in 0 .. n - 1 : ring[Wrap(a, i)] = At(k, i)
            /\ IF Wrap(a, n) = boardOff THEN k = published
               ELSE ring[Wrap(a, n)] = At(k + 1, 0)
        BY <2>1, <3>2 DEF CapsulesOK, CapsuleOK
      <4>2. n \in Nat /\ k \in 1 .. new
        BY <4>1, <1>1, CapsuleLen DEF TypeOK
      <4>3. Dist(shadowOff, a) + n < RingSize
        <5>1. Dist(shadowOff, a) + n <= Backlog
          BY <4>1
        <5>2. Backlog < RingSize
          BY <2>2, <1>3, RingSizeType
        <5> QED  BY <5>1, <5>2, <4>2, <3>1, <2>2, RingSizeType
      <4>4. Dist(shadowOff, Wrap(a, n)) = Dist(shadowOff, a) + n
        BY <4>2, <4>3, <1>5, DistWrap
      <4>5. Wrap(a, n) # B
        BY <4>1, <4>2, <4>4, <2>2, <2>3, <3>1, <1>3
      <4>6. ring[Wrap(a, n)] = At(k + 1, 0)
        BY <4>1, <1>1, <1>7
      <4>7. Dist(shadowOff, a) + n <= Backlog + c.len
        <5>1. Dist(shadowOff, a) + n <= Backlog
          BY <4>1
        <5>2. Dist(shadowOff, a) + n \in Nat
          BY <4>2, <3>1
        <5>3. Backlog <= Backlog + c.len /\ Backlog + c.len \in Nat
          BY <1>3, <2>2
        <5> HIDE DEF n, c
        <5> QED  BY <5>1, <5>2, <5>3, <2>2
      <4>8. CapsuleOK(a)' <=>
               /\ k \in 1 .. new
               /\ Dist(shadowOff, a) + n <= Backlog + c.len
               /\ \A i \in 0 .. n - 1 : ring[Wrap(a, i)] = At(k, i)
               /\ IF Wrap(a, n) = B THEN k = new
                  ELSE ring[Wrap(a, n)] = At(k + 1, 0)
        BY <1>4, <2>4 DEF CapsuleOK, Dist, Wrap, At
      <4> QED
        BY <4>1, <4>2, <4>5, <4>6, <4>7, <4>8
    <3>3. CASE ~Unread(a)
      <4> DEFINE i == Dist(shadowOff, a) - Backlog
      <4>1. i \in 0 .. c.len - 1 /\ i \in Nat
        BY <3>1, <3>3, <2>2, <1>3 DEF Unread
      <4>2. Dist(shadowOff, boardOff) + i < RingSize
        BY <4>1, <2>2, <1>3, RingSizeType DEF Backlog
      <4>3. Dist(shadowOff, Wrap(boardOff, i)) = Dist(shadowOff, a)
        BY <4>1, <4>2, <1>5, <2>2, <3>1, DistWrap DEF Backlog
      <4>4. a = Wrap(boardOff, i)
        BY <4>1, <4>3, <1>5, WrapAddress, DistInjective
      <4>5. ring[a] = At(new, i)
        BY <4>1, <4>4, <1>6
      <4>6. a = boardOff
        BY <4>4, <4>5, <1>5, WrapZero DEF At
      <4>7. ring[a].cap = new
        BY <4>5 DEF At
      <4>8. Dist(shadowOff, a) = Backlog
        BY <4>6 DEF Backlog
      <4> HIDE DEF i
      <4>9. CapsuleOK(a)' <=>
               /\ new \in 1 .. new
               /\ Backlog + c.len <= Backlog + c.len
               /\ \A j \in 0 .. c.len - 1 : ring[Wrap(a, j)] = At(new, j)
               /\ IF Wrap(a, c.len) = B THEN new = new
                  ELSE ring[Wrap(a, c.len)] = At(new + 1, 0)
        BY <1>4, <2>4, <4>7, <4>8 DEF CapsuleOK, Dist, Wrap, At
      <4> QED
        BY <4>6, <4>9, <1>1, <1>3, <1>6, <2>2
    <3> QED  BY <3>2, <3>3
  <2>10. SnapOK'
    <3> SUFFICES ASSUME InLoop PROVE SnapOK'
      BY <1>4 DEF SnapOK, InLoop
    <3>1. snap # shadowOff /\ (snap = boardOff \/ (Unread(snap) /\ ring[snap].pos = 0))
      BY <2>1 DEF SnapOK
    <3>2. Dist(shadowOff, snap) < Backlog + c.len /\ ring[snap].pos = 0
      <4>1. CASE snap = boardOff
        <5>1. Backlog < Backlog + c.len
          BY <1>3, <2>2
        <5>2. Dist(shadowOff, snap) = Backlog
          BY <4>1 DEF Backlog
        <5> QED  BY <4>1, <5>1, <5>2, <1>7 DEF At
      <4>2. CASE Unread(snap) /\ ring[snap].pos = 0
        <5>1. Dist(shadowOff, snap) \in Nat
          BY <1>5, DistRange
        <5>2. Dist(shadowOff, snap) < Backlog
          BY <4>2 DEF Unread
        <5> QED  BY <4>2, <5>1, <5>2, <1>3, <2>2
      <4> QED  BY <3>1, <4>1, <4>2
    <3>3. Unread(snap)'
      BY <3>2, <2>4, <1>4 DEF Unread, Dist
    <3> QED  BY <3>1, <3>2, <3>3, <1>4 DEF SnapOK
  <2>11. WordsOK'
    BY <2>1, <2>6, <1>4 DEF WordsOK, InLoop, At, Active
  <2> QED  BY <2>7, <2>8, <2>9, <2>10, <2>11
<1> QED
  BY <1>4, <1>8, <1>9 DEF RingInv, Keeps, Reading

\* The loop attaches to an empty backlog.
LEMMA AttachRing == TypeOK /\ RingInv /\ Attach => RingInv'
<1> SUFFICES ASSUME TypeOK, RingInv, Attach PROVE RingInv'
  OBVIOUS
<1>1. /\ shadowOff' = boardOff /\ done' = published /\ pc' = "poll"
      /\ UNCHANGED <<log, published, wr, ring, boardOff, lapped, running, snap, hdr,
                     w1, w2, w3, cur, comp, out>>
  BY DEF Attach, firmware, words
<1>2. WritingOK'
  BY <1>1 DEF RingInv, WritingOK, Writing, Wrap, At
<1>3. Backlog' = 0
  <2>1. boardOff \in Address
    BY DEF TypeOK
  <2>2. Dist(boardOff, boardOff) = 0
    BY <2>1, DistRange
  <2> QED  BY <1>1, <2>2 DEF Backlog, Dist
<1>4. RoomOK'
  <2>1. Writing => log[Len(log)].len \in Nat /\ log[Len(log)].len < RingSize
    <3> SUFFICES ASSUME Writing
                 PROVE  log[Len(log)].len \in Nat /\ log[Len(log)].len < RingSize
      OBVIOUS
    <3>1. log[Len(log)] \in Capsules
      BY DEF TypeOK, Writing
    <3> QED  BY <3>1, CapsuleLen
  <2> QED  BY <1>1, <1>3, <2>1, RingSizeType DEF RoomOK, Writing
<1>5. CursorOK'
  BY <1>1 DEF CursorOK, TypeOK
<1>6. CapsulesOK'
  <2>1. \A a \in Address : ~Unread(a)'
    <3> SUFFICES ASSUME NEW a \in Address PROVE ~(Dist(shadowOff, a)' < 0)
      BY <1>3 DEF Unread
    <3>1. Dist(boardOff, a) \in Nat
      BY DistRange DEF TypeOK
    <3> QED  BY <3>1, <1>1 DEF Dist
  <2> QED  BY <2>1 DEF CapsulesOK
<1>7. SnapOK' /\ WordsOK'
  BY <1>1 DEF SnapOK, WordsOK, InLoop
<1> QED
  BY <1>2, <1>4, <1>5, <1>6, <1>7 DEF RingInv

\* Moving past the next capsule leaves the cursor on the one after it.
LEMMA AdvanceRing ==
    ASSUME TypeOK, RingInv, pc \in {"dispatch", "send"}, Advance(cur.len)
    PROVE  RingInv'
<1> DEFINE c == log[done + 1]
           n == c.len
           S == Wrap(shadowOff, n)
<1>1. /\ shadowOff' = Wrap(shadowOff, cur.len)
      /\ pc' = IF shadowOff' = snap THEN "poll" ELSE "header"
      /\ UNCHANGED <<log, published, wr, ring, boardOff, lapped, running, snap>>
  BY DEF Advance, firmware
<1>2. WritingOK'
  BY <1>1 DEF RingInv, WritingOK, Writing, Wrap, At
<1>3. ASSUME Keeps
      PROVE  (RoomOK /\ CursorOK /\ CapsulesOK /\ SnapOK /\ WordsOK)'
  <2>1. RoomOK /\ CursorOK /\ CapsulesOK /\ SnapOK /\ WordsOK
    BY <1>3 DEF RingInv, Keeps
  <2>2. shadowOff # boardOff /\ hdr = At(done + 1, 0) /\ cur = c
    BY <2>1 DEF WordsOK, InLoop
  <2>3. /\ done + 1 \in 1 .. published
        /\ c \in Capsules
        /\ n <= Backlog
        /\ \A i \in 0 .. n - 1 : ring[Wrap(shadowOff, i)] = At(done + 1, i)
        /\ IF S = boardOff THEN done + 1 = published
           ELSE ring[S] = At(done + 2, 0)
    BY <1>3, <2>2, NextCapsule
  <2>4. /\ n \in Nat /\ n >= 2 /\ n < RingSize
        /\ shadowOff \in Address /\ boardOff \in Address /\ snap \in Address
        /\ done \in Nat /\ published \in Nat /\ S \in Address
    <3>1. Len(log) \in Nat
      BY DEF TypeOK
    <3>2. n \in Nat /\ n >= 2 /\ n < RingSize
      BY <2>3, CapsuleLen
    <3>3. /\ shadowOff \in Address /\ boardOff \in Address /\ snap \in Address
          /\ done \in Nat /\ published \in Nat
      BY <3>1 DEF TypeOK
    <3> HIDE DEF n
    <3>4. S \in Address
      BY <3>2, <3>3, WrapAddress
    <3> QED  BY <3>2, <3>3, <3>4
  <2>5. Backlog \in Nat /\ Backlog < RingSize
    BY <2>4, DistRange DEF Backlog
  <2>6. shadowOff' = S /\ done' = done + 1
    BY <1>1, <2>2, <2>4 DEF Advance, At
  <2>7. \A a \in Address :
           /\ Dist(shadowOff, a) \in Nat /\ Dist(shadowOff, a) < RingSize
           /\ Dist(shadowOff, a)' = IF Dist(shadowOff, a) >= n
                                    THEN Dist(shadowOff, a) - n
                                    ELSE Dist(shadowOff, a) + RingSize - n
    <3> SUFFICES ASSUME NEW a \in Address
                 PROVE  /\ Dist(shadowOff, a) \in Nat
                        /\ Dist(shadowOff, a) < RingSize
                        /\ Dist(S, a) = IF Dist(shadowOff, a) >= n
                                        THEN Dist(shadowOff, a) - n
                                        ELSE Dist(shadowOff, a) + RingSize - n
      BY <2>6 DEF Dist
    <3>1. Dist(shadowOff, a) \in Nat /\ Dist(shadowOff, a) < RingSize
      BY <2>4, DistRange
    <3> QED  BY <2>4, <3>1, DistShift
  <2>8. Backlog' = Backlog - n
    <3>1. Backlog' = Dist(S, boardOff)
      BY <1>1, <2>6 DEF Backlog, Dist
    <3>2. Dist(S, boardOff) = Dist(shadowOff, boardOff) - n
      BY <2>3, <2>4, DistShift DEF Backlog
    <3> QED  BY <3>1, <3>2 DEF Backlog
  <2>9. \A a \in Address : Unread(a)' <=> Unread(a) /\ Dist(shadowOff, a) >= n
    BY <2>3, <2>4, <2>5, <2>7, <2>8, RingSizeType DEF Unread
  <2>10. RoomOK'
    <3>1. Backlog' <= Backlog /\ Backlog' \in Nat
      BY <2>3, <2>4, <2>5, <2>8
    <3>2. Writing => log[Len(log)].len \in Nat
      <4>1. Writing => log[Len(log)] \in Capsules
        BY DEF TypeOK, Writing
      <4> QED  BY <4>1, CapsuleLen
    <3> QED  BY <2>1, <2>5, <3>1, <3>2, <1>1, RingSizeType DEF RoomOK, Writing
  <2>11. S # boardOff => Unread(S) /\ ring[S] = At(done + 2, 0)
    <3> SUFFICES ASSUME S # boardOff
                 PROVE  Unread(S) /\ ring[S] = At(done + 2, 0)
      OBVIOUS
    <3>1. Dist(shadowOff, shadowOff) = 0
      BY <2>4, DistRange
    <3>2. Dist(shadowOff, shadowOff) + n < RingSize
      BY <3>1, <2>4
    <3>3. Dist(shadowOff, S) = n
      BY <3>1, <3>2, <2>4, DistWrap
    <3>4. n # Backlog
      BY <3>3, <2>4, DistInjective DEF Backlog
    <3> QED  BY <3>3, <3>4, <2>3, <2>4, <2>5 DEF Unread
  <2>12. S # boardOff => done + 2 <= published
    <3> SUFFICES ASSUME S # boardOff PROVE done + 2 <= published
      OBVIOUS
    <3>1. CapsuleOK(S) /\ ring[S].cap = done + 2
      BY <2>1, <2>4, <2>11 DEF CapsulesOK, At
    <3> QED  BY <3>1, <2>4 DEF CapsuleOK
  <2>13. CursorOK'
    <3>1. done + 1 + 1 = done + 2
      BY <2>4
    <3>2. ring'[S] = ring[S] /\ boardOff' = boardOff /\ published' = published
      BY <1>1
    <3>3. S # boardOff => ring[S] = At(done + 1 + 1, 0) /\ done + 1 # published
      BY <2>4, <2>11, <2>12, <3>1
    <3>4. S = boardOff => done + 1 = published
      BY <2>3
    <3>5. done + 1 <= published
      BY <2>3, <2>4
    <3> QED
      BY <2>6, <3>2, <3>3, <3>4, <3>5 DEF CursorOK, At
  <2>14. CapsulesOK'
    <3> SUFFICES ASSUME NEW a \in Address, Unread(a),
                        Dist(shadowOff, a) >= n, ring[a].pos = 0
                 PROVE  CapsuleOK(a)'
      BY <2>9, <1>1 DEF CapsulesOK
    <3> DEFINE k == ring[a].cap
               m == log[k].len
    <3>1. /\ k \in 1 .. published
          /\ Dist(shadowOff, a) + m <= Backlog
          /\ \A i \in 0 .. m - 1 : ring[Wrap(a, i)] = At(k, i)
          /\ IF Wrap(a, m) = boardOff THEN k = published
             ELSE ring[Wrap(a, m)] = At(k + 1, 0)
      BY <2>1 DEF CapsulesOK, CapsuleOK
    <3>2. m \in Nat
      BY <3>1, CapsuleLen DEF TypeOK
    <3>3. Dist(shadowOff, a)' + m <= Backlog'
      BY <3>1, <3>2, <2>4, <2>5, <2>7, <2>8
    <3> QED
      BY <3>1, <3>3, <1>1 DEF CapsuleOK, Wrap, At
  <2>15. ASSUME S # snap
         PROVE  /\ snap = boardOff \/ (Unread(snap)' /\ ring[snap].pos = 0)
                /\ S # boardOff
    <3>1. snap # shadowOff /\ (snap = boardOff \/ (Unread(snap) /\ ring[snap].pos = 0))
      BY <2>1 DEF SnapOK, InLoop
    <3>2. CASE snap = boardOff
      BY <3>2, <2>15
    <3>3. CASE snap # boardOff
      <4>1. Unread(snap) /\ ring[snap].pos = 0
        BY <3>1, <3>3
      <4> DEFINE d == Dist(shadowOff, snap)
      <4>2. d \in Nat
        BY <2>4, <2>7
      <4>3. d >= n
        <5> SUFFICES ASSUME d < n PROVE FALSE
          BY <4>2, <2>4
        <5>1. snap = Wrap(shadowOff, d)
          BY <2>4, WrapDist
        <5>2. d \in 0 .. n - 1
          BY <4>2, <2>4
        <5>3. ring[snap] = At(done + 1, d)
          BY <5>1, <5>2, <2>3
        <5>4. d = 0
          BY <4>1, <5>3 DEF At
        <5>5. snap = Wrap(shadowOff, 0)
          BY <5>1, <5>4
        <5>6. Wrap(shadowOff, 0) = shadowOff
          BY <2>4, WrapZero
        <5> QED
          BY <5>5, <5>6, <3>1
      <4>4. Unread(snap)'
        <5>1. Dist(S, snap) = d - n
          BY <4>3, <2>4, DistShift
        <5>2. d - n < Backlog - n
          BY <4>1, <4>2, <2>4, <2>5 DEF Unread
        <5> QED
          BY <5>1, <5>2, <2>6, <2>8, <1>1 DEF Unread, Dist
      <4>5. n # Backlog
        BY <4>1, <4>2, <4>3, <2>4, <2>5 DEF Unread
      <4>6. S # boardOff
        <5>1. Dist(S, boardOff) = Backlog - n
          BY <2>3, <2>4, DistShift DEF Backlog
        <5>2. Dist(boardOff, boardOff) = 0
          BY <2>4, DistRange
        <5> QED  BY <5>1, <5>2, <4>5, <2>4, <2>5
      <4> QED  BY <4>1, <4>4, <4>6
    <3> QED  BY <3>2, <3>3
  <2>16. InLoop' => S # snap /\ pc' = "header"
    BY <1>1, <2>6 DEF InLoop
  <2>17. SnapOK'
    BY <1>1, <2>6, <2>15, <2>16 DEF SnapOK
  <2>18. WordsOK'
    BY <1>1, <2>6, <2>15, <2>16 DEF WordsOK
  <2> QED  BY <2>10, <2>13, <2>14, <2>17, <2>18
<1>4. Reading /\ lapped' = lapped
  BY <1>1 DEF Reading
<1> QED
  BY <1>2, <1>3, <1>4 DEF RingInv, Keeps

\* The words read at the cursor are the next capsule's.
LEMMA ReadRing ==
    ASSUME TypeOK, RingInv, Keeps, InLoop, NEW i \in 0 .. 3,
           i < log[done + 1].len
    PROVE  /\ ring[Wrap(shadowOff, i)] = At(done + 1, i)
           /\ Safe64 => Upper(shadowOff + i) = At(done + 1, i)
<1>1. shadowOff # boardOff
  BY DEF RingInv, Keeps, WordsOK
<1>2. ring[Wrap(shadowOff, i)] = At(done + 1, i)
  <2>1. log[done + 1].len \in Nat
    BY <1>1, NextCapsule, CapsuleLen
  <2>2. i \in 0 .. log[done + 1].len - 1
    BY <2>1
  <2> QED  BY <1>1, <2>2, NextCapsule
<1>3. ASSUME Safe64 PROVE Upper(shadowOff + i) = ring[Wrap(shadowOff, i)]
  <2>1. shadowOff \in Nat /\ shadowOff \in Address
    BY RingSizeType DEF TypeOK, Address
  <2>2. i \in 0 .. RingSize /\ shadowOff + i < RingSize
    BY <1>3, <2>1, RingSizeType DEF Safe64
  <2>3. Wrap(shadowOff, i) = shadowOff + i
    BY <2>1, <2>2, WrapValue
  <2>4. shadowOff + i \in Address
    BY <2>1, <2>2, RingSizeType DEF Address
  <2> QED  BY <2>3, <2>4 DEF Upper
<1> QED  BY <1>2, <1>3

\* Steps that leave the ring, the cursor and the firmware alone disturb only
\* the loop's copies.
LEMMA LocalRing ==
    ASSUME TypeOK, RingInv,
           UNCHANGED <<log, published, wr, ring, boardOff, lapped, shadowOff,
                       done>>,
           Reading' => Reading,
           Keeps => (SnapOK /\ WordsOK)'
    PROVE  RingInv'
<1>1. WritingOK'
  BY DEF RingInv, WritingOK, Writing, Wrap, At
<1>2. ASSUME Keeps PROVE (RoomOK /\ CursorOK /\ CapsulesOK)'
  <2>1. RoomOK /\ CursorOK /\ CapsulesOK
    BY <1>2 DEF RingInv, Keeps
  <2> QED
    BY <2>1 DEF RoomOK, CursorOK, CapsulesOK, CapsuleOK, Unread, Backlog, Dist,
                Wrap, At, Writing
<1> QED  BY <1>1, <1>2 DEF RingInv, Keeps

LEMMA NextRing == TypeOK /\ RingInv /\ [Next]_vars => RingInv'
<1> SUFFICES ASSUME TypeOK, RingInv, [Next]_vars PROVE RingInv'
  OBVIOUS
<1> DEFINE c == log[done + 1]
<1>parts. ASSUME Keeps
      PROVE  SnapOK /\ WordsOK /\ CursorOK
  BY <1>parts DEF RingInv, Keeps
<1>next. ASSUME Keeps, InLoop
      PROVE  /\ shadowOff # boardOff
             /\ done + 1 \in 1 .. published
             /\ c \in Capsules
             /\ c.len \in Nat /\ c.len >= 2
             /\ c.typ \in {"PULSE", "EVENT"} => c.len >= 4
  BY <1>parts, <1>next, NextCapsule, CapsuleLen DEF WordsOK
<1>1. CASE FwBegin
  BY <1>1, BeginRing
<1>2. CASE FwWriteWord
  BY <1>2, WriteRing
<1>3. CASE FwPublish
  BY <1>3, PublishRing
<1>4. CASE Attach
  BY <1>4, AttachRing
<1>5. CASE Poll
  <2>1. Reading' => Reading
    BY <1>5 DEF Poll, Reading
  <2>2. Keeps => (SnapOK /\ WordsOK)'
    BY <1>parts, <1>5 DEF Poll, firmware, SnapOK, WordsOK, InLoop, words
  <2> QED
    BY <1>5, <2>1, <2>2, LocalRing DEF Poll, firmware
<1>6. CASE ReadHeader
  <2>1. Reading' => Reading
    BY <1>6 DEF ReadHeader, Reading
  <2>2. ASSUME Keeps PROVE SnapOK' /\ WordsOK'
    <3>1. InLoop /\ InLoop'
      BY <1>6 DEF ReadHeader, InLoop
    <3>2. hdr' = At(done + 1, 0)
      BY <1>parts, <1>6, <1>next, <2>2, <3>1 DEF ReadHeader, CursorOK
    <3>3. pc' = "decide" => w1' = At(done + 1, 1)
      BY <1>6, <1>next, <2>2, <3>1, ReadRing DEF ReadHeader
    <3>4. SnapOK'
      BY <1>parts, <1>6, <2>2, <3>1
         DEF ReadHeader, firmware, SnapOK, Unread, Backlog, Dist
    <3>5. WordsOK'
      BY <1>6, <1>next, <2>2, <3>1, <3>2, <3>3
         DEF ReadHeader, firmware, WordsOK, InLoop, At
    <3> QED  BY <3>4, <3>5
  <2> QED
    BY <1>6, <2>1, <2>2, LocalRing DEF ReadHeader, firmware
<1>7. CASE ReadWord1
  <2>1. Reading' => Reading
    BY <1>7 DEF ReadWord1, Reading
  <2>2. ASSUME Keeps PROVE SnapOK' /\ WordsOK'
    <3>1. InLoop /\ InLoop'
      BY <1>7 DEF ReadWord1, InLoop
    <3>2. w1' = At(done + 1, 1)
      BY <1>7, <1>next, <2>2, <3>1, ReadRing DEF ReadWord1
    <3>3. SnapOK'
      BY <1>parts, <1>7, <2>2, <3>1
         DEF ReadWord1, firmware, SnapOK, Unread, Backlog, Dist
    <3>4. WordsOK'
      BY <1>parts, <1>7, <2>2, <3>1, <3>2
         DEF ReadWord1, firmware, WordsOK, InLoop, At
    <3> QED  BY <3>3, <3>4
  <2> QED
    BY <1>7, <2>1, <2>2, LocalRing DEF ReadWord1, firmware
<1>8. CASE Decide
  <2>1. Reading' => Reading
    BY <1>8 DEF Decide, Reading
  <2>2. ASSUME Keeps PROVE SnapOK' /\ WordsOK'
    <3>1. InLoop /\ InLoop'
      BY <1>8 DEF Decide, InLoop
    <3>2. hdr = At(done + 1, 0) /\ w1 = At(done + 1, 1)
      BY <1>parts, <1>8, <2>2, <3>1 DEF Decide, WordsOK
    <3>3. Whole /\ hdr.cap = done + 1
      BY <1>next, <2>2, <3>1, <3>2 DEF Whole, At
    <3>4. cur' = c
      BY <1>8, <3>3 DEF Decide, Decodes
    <3>5. SnapOK'
      BY <1>parts, <1>8, <2>2, <3>1
         DEF Decide, firmware, SnapOK, Unread, Backlog, Dist
    <3>6. WordsOK'
      BY <1>parts, <1>8, <2>2, <3>1, <3>2, <3>4
         DEF Decide, firmware, words, WordsOK, InLoop, At
    <3> QED  BY <3>5, <3>6
  <2> QED
    BY <1>8, <2>1, <2>2, LocalRing DEF Decide, firmware
<1>9. CASE SkipZero
  <2>1. ~Keeps
    <3> SUFFICES ASSUME Keeps PROVE FALSE
      OBVIOUS
    <3>1. InLoop /\ pc = "dispatch" /\ cur.len = 0
      BY <1>9 DEF SkipZero, InLoop
    <3>2. cur = c
      BY <1>parts, <3>1 DEF WordsOK
    <3> QED  BY <1>next, <3>1, <3>2
  <2>2. lapped
    BY <1>9, <2>1 DEF SkipZero, Keeps, Reading
  <2>3. UNCHANGED <<log, published, wr, ring, boardOff, lapped>>
    BY <1>9 DEF SkipZero, Advance, firmware
  <2>4. WritingOK'
    BY <2>3 DEF RingInv, WritingOK, Writing, Wrap, At
  <2> QED  BY <2>2, <2>3, <2>4 DEF RingInv
<1>10. CASE SkipOther
  BY <1>10, AdvanceRing DEF SkipOther
<1>11. CASE AcceptConfig
  BY <1>11, AdvanceRing DEF AcceptConfig
<1>12. CASE RejectConfig
  BY <1>12, AdvanceRing DEF RejectConfig
<1>13. CASE AbandonConfig
  <2>1. Reading' => Reading
    BY <1>13 DEF AbandonConfig, Reading
  <2>2. (SnapOK /\ WordsOK)'
    BY <1>13 DEF AbandonConfig, SnapOK, WordsOK, InLoop
  <2> QED
    BY <1>13, <2>1, <2>2, LocalRing DEF AbandonConfig, firmware
<1>14. CASE ReadTime
  <2>1. Reading' => Reading
    BY <1>14 DEF ReadTime, Reading
  <2>2. ASSUME Keeps PROVE SnapOK' /\ WordsOK'
    <3>1. /\ InLoop /\ InLoop'
          /\ cur.typ = "EVENT" \/ (cur.typ = "PULSE" /\ Active(comp, cur))
      BY <1>14 DEF ReadTime, InLoop
    <3>2. cur = c
      BY <1>parts, <1>14, <2>2 DEF ReadTime, WordsOK
    <3>3. 2 < c.len /\ 3 < c.len
      BY <1>next, <2>2, <3>1, <3>2
    <3>4. w2' = At(done + 1, 2)
      BY <1>14, <2>2, <3>1, <3>3, ReadRing DEF ReadTime
    <3>5. pc' = "send" => w3' = At(done + 1, 3)
      BY <1>14, <2>2, <3>1, <3>3, ReadRing DEF ReadTime
    <3>6. SnapOK'
      BY <1>parts, <1>14, <2>2, <3>1
         DEF ReadTime, firmware, SnapOK, Unread, Backlog, Dist
    <3>7. hdr' = At(done + 1, 0) /\ w1' = At(done + 1, 1)
      BY <1>parts, <1>14, <2>2, <3>1 DEF ReadTime, WordsOK
    <3>8. WordsOK'
      BY <1>next, <1>14, <2>2, <3>1, <3>2, <3>4, <3>5, <3>7
         DEF ReadTime, firmware, WordsOK, InLoop, At, Active
    <3> QED  BY <3>6, <3>8
  <2> QED
    BY <1>14, <2>1, <2>2, LocalRing DEF ReadTime, firmware
<1>15. CASE ReadWord3
  <2>1. Reading' => Reading
    BY <1>15 DEF ReadWord3, Reading
  <2>2. ASSUME Keeps PROVE SnapOK' /\ WordsOK'
    <3>1. InLoop /\ InLoop'
      BY <1>15 DEF ReadWord3, InLoop
    <3>2. /\ cur = c
          /\ cur.typ = "EVENT" \/ (cur.typ = "PULSE" /\ Active(comp, cur))
      BY <1>parts, <1>15, <2>2 DEF ReadWord3, WordsOK
    <3>3. 3 < c.len
      BY <1>next, <2>2, <3>1, <3>2
    <3>4. w3' = At(done + 1, 3)
      BY <1>15, <2>2, <3>1, <3>3, ReadRing DEF ReadWord3
    <3>5. SnapOK'
      BY <1>parts, <1>15, <2>2, <3>1
         DEF ReadWord3, firmware, SnapOK, Unread, Backlog, Dist
    <3>6. WordsOK'
      BY <1>parts, <1>15, <2>2, <3>1, <3>2, <3>4
         DEF ReadWord3, firmware, WordsOK, InLoop, At, Active
    <3> QED  BY <3>5, <3>6
  <2> QED
    BY <1>15, <2>1, <2>2, LocalRing DEF ReadWord3, firmware
<1>16. CASE Send
  BY <1>16, AdvanceRing DEF Send
<1>17. CASE Stop
  <2>1. Reading' => Reading
    BY <1>17 DEF Stop, Reading
  <2>2. Keeps => (SnapOK /\ WordsOK)'
    BY <1>parts, <1>17
       DEF Stop, firmware, words, SnapOK, WordsOK, InLoop, Unread, Backlog,
           Dist, At, Active
  <2> QED
    BY <1>17, <2>1, <2>2, LocalRing DEF Stop, firmware
<1>18. CASE UNCHANGED vars
  <2>1. Reading' => Reading
    BY <1>18 DEF vars, Reading
  <2>2. Keeps => (SnapOK /\ WordsOK)'
    BY <1>parts, <1>18
       DEF vars, firmware, words, SnapOK, WordsOK, InLoop, Unread, Backlog,
           Dist, At, Active
  <2> QED
    BY <1>18, <2>1, <2>2, LocalRing DEF vars, firmware
<1> QED
  BY <1>1, <1>2, <1>3, <1>4, <1>5, <1>6, <1>7, <1>8, <1>9, <1>10, <1>11,
     <1>12, <1>13, <1>14, <1>15, <1>16, <1>17, <1>18
     DEF Next, Firmware, PollLoop

LEMMA InitRing == Init => RingInv
BY DEF Init, RingInv, WritingOK, Writing, Reading

\* For every ring size, capsule set and build: a firmware that does not lap
\* the cursor is read capsule by capsule, each decoded from its own words.
THEOREM RingCorrect == Spec => []RingInv
BY InitType, NextType, InitRing, NextRing, PTL DEF Spec
=============================================================================
