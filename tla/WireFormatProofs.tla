-------------------------- MODULE WireFormatProofs --------------------------
(***************************************************************************)
(* What is parsed is what was sent: for every message of the two types,    *)
(* over every earlier content of the transmit buffer.                      *)
(***************************************************************************)
EXTENDS WireFormat, TLAPS

-----------------------------------------------------------------------------
(* Bytes and integers.                                                     *)

\* The range as inequalities. (The bound is hidden: a literal of this size
\* in an interval is slow for the provers.)
LEMMA UInt16Range ==
    /\ \A n \in UInt16 : n \in Nat /\ n < 65536
    /\ \A n \in Nat : n < 65536 => n \in UInt16
<1> DEFINE top == 65535
<1>1. top \in Nat /\ \A n \in Nat : n <= top <=> n < 65536
  BY SMT
<1>2. UInt16 = 0 .. top
  BY DEF UInt16
<1> HIDE DEF top
<1> QED  BY <1>1, <1>2

LEMMA TwoBytes ==
    ASSUME NEW v \in UInt16
    PROVE  ((v \div 1) % 256) + 256 * ((v \div 256) % 256) = v
<1>1. v \in Nat /\ v < 65536
  BY UInt16Range
<1>2. v \div 1 = v
  BY <1>1, SMT
<1>3. (v \div 256) % 256 = v \div 256
  BY <1>1, SMT
<1>4. (v % 256) + 256 * (v \div 256) = v
  BY <1>1, SMT
<1> QED  BY <1>2, <1>3, <1>4, SMT

\* The four bytes of an integer.
LEMMA BytesOf ==
    ASSUME NEW a \in Byte, NEW b \in Byte, NEW c \in Byte, NEW d \in Byte,
           NEW v \in Nat, v = a + 256 * b + 65536 * c + 16777216 * d
    PROVE  /\ (v \div 1) % 256 = a
           /\ (v \div 256) % 256 = b
           /\ (v \div 65536) % 256 = c
           /\ (v \div 16777216) % 256 = d
<1>1. v \div 1 = a + 256 * (b + 256 * c + 65536 * d)
  BY DEF Byte
<1>2. v \div 256 = b + 256 * (c + 256 * d)
  BY DEF Byte
<1>3. v \div 65536 = c + 256 * d
  BY DEF Byte
<1>4. v \div 16777216 = d
  BY DEF Byte
<1>5. \A x \in Byte, y \in Nat : (x + 256 * y) % 256 = x
  BY DEF Byte
<1>6. /\ b + 256 * c + 65536 * d \in Nat /\ c + 256 * d \in Nat
      /\ d % 256 = d
  BY DEF Byte
<1>7. d \in Nat
  BY DEF Byte
<1> QED  BY <1>1, <1>2, <1>3, <1>4, <1>5, <1>6, <1>7

LEMMA FourBytes ==
    ASSUME NEW v \in Nat, v \div 65536 \in UInt16
    PROVE  (((v \div 1) % 256) + 256 * ((v \div 256) % 256))
             + 65536 * (((v \div 65536) % 256)
                          + 256 * ((v \div 16777216) % 256)) = v
<1> DEFINE lo == v % 65536
           hi == v \div 65536
<1>1. lo \in UInt16 /\ hi \in UInt16 /\ v = lo + 65536 * hi
  <2>1. v = lo + 65536 * hi /\ lo \in Nat /\ lo < 65536
    BY SMT
  <2> HIDE DEF lo, hi
  <2>2. lo \in UInt16
    BY <2>1, UInt16Range
  <2>3. hi \in UInt16
    BY DEF hi
  <2> QED  BY <2>1, <2>2, <2>3
<1> HIDE DEF lo, hi
<1>2. ASSUME NEW x \in UInt16
      PROVE  /\ x % 256 \in Byte /\ x \div 256 \in Byte
             /\ x = (x % 256) + 256 * (x \div 256)
  <2>1. x \in Nat /\ x < 65536
    BY UInt16Range
  <2>2. x % 256 \in Nat /\ x % 256 <= 255
    BY <2>1, SMT
  <2>3. x \div 256 \in Nat /\ x \div 256 <= 255
    BY <2>1, SMT
  <2>4. x = (x % 256) + 256 * (x \div 256)
    BY <2>1, SMT
  <2>5. \A n \in Nat : n <= 255 => n \in Byte
    BY DEF Byte
  <2> QED  BY <2>2, <2>3, <2>4, <2>5
<1>3. PICK a \in Byte, b \in Byte, c \in Byte, d \in Byte :
         lo = a + 256 * b /\ hi = c + 256 * d
  BY <1>1, <1>2
<1>4. v = a + 256 * b + 65536 * c + 16777216 * d
  BY <1>1, <1>3, SMT DEF Byte
<1>5. (v \div 1) % 256 = a
  BY <1>4, BytesOf, SMT
<1>6. (v \div 256) % 256 = b
  BY <1>4, BytesOf, SMT
<1>7. (v \div 65536) % 256 = c
  BY <1>4, BytesOf, SMT
<1>8. (v \div 16777216) % 256 = d
  BY <1>4, BytesOf, SMT
<1>9. (a + 256 * b) + 65536 * (c + 256 * d) = v
  BY <1>4, SMT DEF Byte
<1> QED  BY <1>5, <1>6, <1>7, <1>8, <1>9, SMT

-----------------------------------------------------------------------------
(* A buffer after fields that do not overlap were written into it.         *)

LEMMA WrittenByte ==
    ASSUME NEW p, NEW fields, NEW f \in fields, NEW i \in Positions,
           Covers(f, i), \A g \in fields : Covers(g, i) => g = f
    PROVE  Written(p, fields)[i] = (f.val \div Weight[i - f.at + 1]) % 256
<1>1. (CHOOSE g \in fields : Covers(g, i)) = f
  OBVIOUS
<1> QED  BY <1>1 DEF Written

\* Whatever is written, the buffer holds bytes.
LEMMA WrittenType ==
    ASSUME NEW p \in Payload, NEW fields,
           \A f \in fields : f.val \in Nat /\ f.at \in Nat /\ f.len \in 1 .. 4
    PROVE  Written(p, fields) \in Payload
<1>1. ASSUME NEW i \in Positions PROVE Written(p, fields)[i] \in Byte
  <2>1. CASE \E f \in fields : Covers(f, i)
    <3>1. PICK f \in fields :
             /\ Covers(f, i)
             /\ Written(p, fields)[i] = (f.val \div Weight[i - f.at + 1]) % 256
      <4> DEFINE f == CHOOSE g \in fields : Covers(g, i)
      <4>1. f \in fields /\ Covers(f, i)
        BY <2>1
      <4>2. Written(p, fields)[i] = (f.val \div Weight[i - f.at + 1]) % 256
        BY <2>1 DEF Written
      <4> QED  BY <4>1, <4>2
    <3>2. i - f.at \in 0 .. 3
      BY <3>1 DEF Covers, Positions
    <3>3. Weight[i - f.at + 1] \in Nat \ {0}
      BY <3>2 DEF Weight
    <3>4. f.val \div Weight[i - f.at + 1] \in Nat
      BY <3>3
    <3> QED  BY <3>1, <3>4 DEF Byte
  <2>2. CASE ~\E f \in fields : Covers(f, i)
    BY <2>2 DEF Written, Payload
  <2> QED  BY <2>1, <2>2
<1> QED  BY <1>1 DEF Written, Payload

\* The field f lies in the buffer and is overwritten by no other.
Apart(f, fields) ==
    /\ f \in fields
    /\ \A i \in f.at .. f.at + f.len - 1 :
          i \in Positions /\ \A g \in fields : Covers(g, i) => g = f

LEMMA ByteBack ==
    ASSUME NEW p, NEW fields, NEW at \in Nat, NEW n \in 1 .. 4, NEW v,
           Apart(Field(at, n, v), fields), NEW k \in 0 .. n - 1
    PROVE  Written(p, fields)[at + k] = (v \div Weight[k + 1]) % 256
<1> DEFINE f == Field(at, n, v)
<1>1. f.at = at /\ f.len = n /\ f.val = v
  BY DEF Field
<1>2. at + k \in f.at .. f.at + f.len - 1
  BY <1>1
<1>3. /\ f \in fields /\ at + k \in Positions /\ Covers(f, at + k)
      /\ \A g \in fields : Covers(g, at + k) => g = f
  BY <1>2 DEF Apart, Covers
<1> HIDE DEF f
<1>4. PICK i \in Positions : i = at + k
  BY <1>3
<1>5. Covers(f, i) /\ \A g \in fields : Covers(g, i) => g = f
  BY <1>3, <1>4
<1>6. Written(p, fields)[i] = (f.val \div Weight[i - f.at + 1]) % 256
  BY <1>3, <1>5, WrittenByte
<1>7. i - f.at + 1 = k + 1
  BY <1>1, <1>4
<1>8. Written(p, fields)[i] = (v \div Weight[k + 1]) % 256
  BY <1>1, <1>6, <1>7, Zenon
<1> QED  BY <1>4, <1>8, Zenon

LEMMA Back8 ==
    ASSUME NEW p, NEW fields, NEW at \in Nat, NEW v \in Byte,
           Apart(Field(at, 1, v), fields)
    PROVE  Written(p, fields)[at] = v
<1>1. Written(p, fields)[at + 0] = (v \div Weight[0 + 1]) % 256
  BY ByteBack
<1>2. Weight[0 + 1] = 1
  BY DEF Weight
<1>3. (v \div 1) % 256 = v
  BY DEF Byte
<1> QED  BY <1>1, <1>2, <1>3

LEMMA Back16 ==
    ASSUME NEW p, NEW fields, NEW at \in Nat, NEW v \in UInt16,
           Apart(Field(at, 2, v), fields)
    PROVE  Read16(Written(p, fields), at) = v
<1>1. /\ Written(p, fields)[at + 0] = (v \div Weight[0 + 1]) % 256
      /\ Written(p, fields)[at + 1] = (v \div Weight[1 + 1]) % 256
  BY ByteBack
<1>2. Weight[0 + 1] = 1 /\ Weight[1 + 1] = 256
  BY DEF Weight
<1>3. /\ Written(p, fields)[at] = (v \div 1) % 256
      /\ Written(p, fields)[at + 1] = (v \div 256) % 256
  BY <1>1, <1>2
<1> QED  BY <1>3, TwoBytes DEF Read16

LEMMA Back32 ==
    ASSUME NEW p, NEW fields, NEW at \in Nat, NEW v \in UInt32,
           Apart(Field(at, 4, v), fields)
    PROVE  Read32(Written(p, fields), at) = v
<1>1. /\ Written(p, fields)[at + 0] = (v \div Weight[0 + 1]) % 256
      /\ Written(p, fields)[at + 1] = (v \div Weight[1 + 1]) % 256
      /\ Written(p, fields)[at + 2] = (v \div Weight[2 + 1]) % 256
      /\ Written(p, fields)[at + 3] = (v \div Weight[3 + 1]) % 256
  BY ByteBack
<1>2. /\ Weight[0 + 1] = 1 /\ Weight[1 + 1] = 256
      /\ Weight[2 + 1] = 65536 /\ Weight[3 + 1] = 16777216
  BY SMT DEF Weight
<1>3. /\ Written(p, fields)[at] = (v \div 1) % 256
      /\ Written(p, fields)[at + 1] = (v \div 256) % 256
      /\ Written(p, fields)[at + 2] = (v \div 65536) % 256
      /\ Written(p, fields)[at + 2 + 1] = (v \div 16777216) % 256
  BY <1>1, <1>2, SMT
<1>4. v \in Nat /\ v \div 65536 \in UInt16
  BY DEF UInt32
<1>5. Read32(Written(p, fields), at)
        = (((v \div 1) % 256) + 256 * ((v \div 256) % 256))
             + 65536 * (((v \div 65536) % 256)
                          + 256 * ((v \div 16777216) % 256))
  BY <1>3, SMT DEF Read32, Read16
<1> QED  BY <1>4, <1>5, FourBytes, SMT

-----------------------------------------------------------------------------
(* The two packets.                                                        *)

LEMMA AdvanceBack ==
    ASSUME NEW p, NEW m \in Message, m.pktType = PKT_ADVANCE
    PROVE  SendAdvance(p, m)[0] = PKT_ADVANCE /\ ParseAdvance(SendAdvance(p, m)) = m
<1> DEFINE fs == {Field(0, 1, PKT_ADVANCE), Field(1, 1, 0),
                  Field(2, 2, m.eventId), Field(4, 2, m.slot),
                  Field(6, 4, m.sec), Field(10, 4, m.nsec)}
           q == Written(p, fs)
<1>1. /\ m \in TimingEvent /\ m.channel = 0 /\ m.offsetMs = 0
      /\ m.eventId \in UInt16 /\ m.slot \in UInt16
      /\ m.sec \in UInt32 /\ m.nsec \in UInt32
  BY DEF Message, TimingEvent
<1>2. /\ Apart(Field(0, 1, PKT_ADVANCE), fs)
      /\ Apart(Field(2, 2, m.eventId), fs)
      /\ Apart(Field(4, 2, m.slot), fs)
      /\ Apart(Field(6, 4, m.sec), fs)
      /\ Apart(Field(10, 4, m.nsec), fs)
  BY DEF Apart, Field, Covers, Positions
<1>3. q = SendAdvance(p, m)
  BY DEF SendAdvance
<1> HIDE DEF fs
<1>4. /\ q[0] = PKT_ADVANCE
      /\ Read16(q, 2) = m.eventId /\ Read16(q, 4) = m.slot
      /\ Read32(q, 6) = m.sec /\ Read32(q, 10) = m.nsec
  <2>1. PKT_ADVANCE \in Byte
    BY SMT DEF Byte, PKT_ADVANCE
  <2>2. q[0] = PKT_ADVANCE
    BY <1>2, <2>1, Back8
  <2>3. Read16(q, 2) = m.eventId /\ Read16(q, 4) = m.slot
    BY <1>1, <1>2, Back16
  <2>4. Read32(q, 6) = m.sec /\ Read32(q, 10) = m.nsec
    BY <1>1, <1>2, Back32
  <2> QED  BY <2>2, <2>3, <2>4
<1> HIDE DEF q
<1>5. ParseAdvance(q) = m
  BY <1>1, <1>4 DEF ParseAdvance, TimingEvent
<1> QED  BY <1>3, <1>4, <1>5

LEMMA FireBack ==
    ASSUME NEW p, NEW m \in Message, m.pktType = PKT_FIRE
    PROVE  SendFire(p, m)[0] = PKT_FIRE /\ ParseFire(SendFire(p, m)) = m
<1> DEFINE fs == {Field(0, 1, PKT_FIRE), Field(1, 1, 0),
                  Field(2, 2, m.eventId),
                  Field(4, 4, m.sec), Field(8, 4, m.nsec),
                  Field(12, 1, m.channel), Field(13, 1, 0),
                  Field(14, 2, m.offsetMs)}
           q == Written(p, fs)
<1>1. /\ m \in TimingEvent /\ m.slot = 0
      /\ m.eventId \in UInt16 /\ m.offsetMs \in UInt16
      /\ m.sec \in UInt32 /\ m.nsec \in UInt32 /\ m.channel \in Byte
  BY DEF Message, TimingEvent, PKT_ADVANCE, PKT_FIRE
<1>2. /\ Apart(Field(0, 1, PKT_FIRE), fs)
      /\ Apart(Field(2, 2, m.eventId), fs)
      /\ Apart(Field(4, 4, m.sec), fs)
      /\ Apart(Field(8, 4, m.nsec), fs)
      /\ Apart(Field(12, 1, m.channel), fs)
      /\ Apart(Field(14, 2, m.offsetMs), fs)
  BY DEF Apart, Field, Covers, Positions
<1>3. q = SendFire(p, m)
  BY DEF SendFire
<1> HIDE DEF fs
<1>4. q[0] = PKT_FIRE /\ q[12] = m.channel
  <2>1. PKT_FIRE \in Byte
    BY SMT DEF Byte, PKT_FIRE
  <2>2. q[0] = PKT_FIRE
    BY <1>2, <2>1, Back8
  <2>3. q[12] = m.channel
    BY <1>1, <1>2, Back8
  <2> QED  BY <2>2, <2>3
<1>5. Read16(q, 2) = m.eventId /\ Read16(q, 14) = m.offsetMs
  BY <1>1, <1>2, Back16
<1>6. Read32(q, 4) = m.sec /\ Read32(q, 8) = m.nsec
  BY <1>1, <1>2, Back32
<1> HIDE DEF q
<1>7. ParseFire(q) = m
  BY <1>1, <1>4, <1>5, <1>6 DEF ParseFire, TimingEvent
<1> QED  BY <1>3, <1>4, <1>7

LEMMA SendType ==
    ASSUME NEW p \in Payload, NEW m \in Message
    PROVE  Send(p, m) \in Payload
<1>1. /\ m.eventId \in Nat /\ m.slot \in Nat /\ m.offsetMs \in Nat
      /\ m.sec \in Nat /\ m.nsec \in Nat /\ m.channel \in Nat
  <2>1. Byte \subseteq Nat
    BY SMT DEF Byte
  <2>2. UInt16 \subseteq Nat
    BY UInt16Range
  <2>3. UInt32 \subseteq Nat
    BY DEF UInt32
  <2> QED  BY <2>1, <2>2, <2>3 DEF Message, TimingEvent
<1>2. SendAdvance(p, m) \in Payload
  <2> DEFINE fs == {Field(0, 1, PKT_ADVANCE), Field(1, 1, 0),
                    Field(2, 2, m.eventId), Field(4, 2, m.slot),
                    Field(6, 4, m.sec), Field(10, 4, m.nsec)}
  <2>1. \A f \in fs : f.val \in Nat /\ f.at \in Nat /\ f.len \in 1 .. 4
    BY <1>1 DEF Field, PKT_ADVANCE
  <2> HIDE DEF fs
  <2>2. Written(p, fs) \in Payload
    BY <2>1, WrittenType
  <2> QED  BY <2>2 DEF SendAdvance, fs
<1>3. SendFire(p, m) \in Payload
  <2> DEFINE fs == {Field(0, 1, PKT_FIRE), Field(1, 1, 0),
                    Field(2, 2, m.eventId),
                    Field(4, 4, m.sec), Field(8, 4, m.nsec),
                    Field(12, 1, m.channel), Field(13, 1, 0),
                    Field(14, 2, m.offsetMs)}
  <2>1. \A f \in fs : f.val \in Nat /\ f.at \in Nat /\ f.len \in 1 .. 4
    BY <1>1 DEF Field, PKT_FIRE
  <2> HIDE DEF fs
  <2>2. Written(p, fs) \in Payload
    BY <2>1, WrittenType
  <2> QED  BY <2>2 DEF SendFire, fs
<1> QED  BY <1>2, <1>3 DEF Send

\* Two halves make an integer of 32 bits.
LEMMA Joined ==
    ASSUME NEW x \in Nat, NEW y \in Nat, x < 65536
    PROVE  x + 65536 * y \in Nat /\ (x + 65536 * y) \div 65536 = y
<1>1. x + 65536 * y \in Nat
  BY SMT
<1>2. (x + 65536 * y) \div 65536 = y
  BY SMT
<1> QED  BY <1>1, <1>2, SMT

LEMMA JoinedType ==
    ASSUME NEW x \in UInt16, NEW y \in UInt16
    PROVE  x + 65536 * y \in UInt32
<1>1. x \in Nat /\ y \in Nat /\ x < 65536
  BY UInt16Range
<1>2. x + 65536 * y \in Nat /\ (x + 65536 * y) \div 65536 = y
  BY <1>1, Joined
<1> QED  BY <1>2 DEF UInt32

LEMMA ReadType ==
    ASSUME NEW p \in Payload, NEW at \in 0 .. 12
    PROVE  Read16(p, at) \in UInt16 /\ Read16(p, at + 2) \in UInt16
           /\ Read32(p, at) \in UInt32
<1>1. /\ p[at] \in Byte /\ p[at + 1] \in Byte
      /\ p[at + 2] \in Byte /\ p[at + 2 + 1] \in Byte
  BY DEF Payload, Positions
<1>2. \A x \in Byte, y \in Byte : x + 256 * y \in UInt16
  <2>1. \A x \in Byte, y \in Byte : x + 256 * y \in Nat /\ x + 256 * y < 65536
    BY SMT DEF Byte
  <2> QED  BY <2>1, UInt16Range
<1>3. Read16(p, at) \in UInt16 /\ Read16(p, at + 2) \in UInt16
  BY <1>1, <1>2, SMT DEF Read16
<1> QED  BY <1>3, JoinedType, SMT DEF Read32

\* Any payload, a stranger's too, is parsed to an event of the right widths.
LEMMA ParseType ==
    ASSUME NEW p \in Payload, NEW verbose \in BOOLEAN
    PROVE  Parse(verbose, p) \in TimingEvent
<1>0. 0 \in Byte /\ 0 \in UInt16
  BY UInt16Range DEF Byte
<1>1. ParseAdvance(p) \in TimingEvent
  <2>1. Read16(p, 2) \in UInt16 /\ Read16(p, 4) \in UInt16
        /\ Read32(p, 6) \in UInt32 /\ Read32(p, 10) \in UInt32
    BY ReadType
  <2> QED  BY <1>0, <2>1 DEF ParseAdvance, TimingEvent
<1>2. ParseFire(p) \in TimingEvent
  <2>1. Read16(p, 2) \in UInt16 /\ Read32(p, 4) \in UInt32
        /\ Read32(p, 8) \in UInt32
    BY ReadType
  <2>2. Read16(p, 14) \in UInt16
    <3>1. Read16(p, 12 + 2) \in UInt16
      BY ReadType
    <3> QED  BY <3>1
  <2>3. p[12] \in Byte
    BY DEF Payload, Positions
  <2> QED  BY <1>0, <2>1, <2>2, <2>3 DEF ParseFire, TimingEvent
<1> QED  BY <1>1, <1>2 DEF Parse

\* What sendAdvance or sendFire was given is what the parseAndEnqueue of the
\* same build makes of the packet, whatever the transmit buffer held before.
THEOREM ParsedAsSent ==
    ASSUME NEW p, NEW m \in Message, NEW verbose \in BOOLEAN,
           m.pktType = PKT_ADVANCE => verbose
    PROVE  /\ Recognised(verbose, Send(p, m))
           /\ Parse(verbose, Send(p, m)) = m
<1>1. CASE m.pktType = PKT_ADVANCE
  BY <1>1, AdvanceBack DEF Send, Parse, Recognised
<1>2. CASE m.pktType = PKT_FIRE
  BY <1>2, FireBack DEF Send, Parse, Recognised, PKT_ADVANCE, PKT_FIRE
<1>3. m.pktType \in {PKT_ADVANCE, PKT_FIRE}
  BY DEF Message, TimingEvent
<1> QED  BY <1>1, <1>2, <1>3
=============================================================================
