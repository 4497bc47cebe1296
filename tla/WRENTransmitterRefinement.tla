---------------------- MODULE WRENTransmitterRefinement ----------------------
(***************************************************************************)
(* Until the firmware laps it, the poll loop implements CapsuleStream, and *)
(* a FIRE names the action of the last CONFIG the code accepts, for every  *)
(* build, ring size, capsule set and number of capsules.  Both rest on the *)
(* inductive invariant RingInv.                                            *)
(***************************************************************************)
EXTENDS WRENTransmitterProofs, SequenceTheorems

-----------------------------------------------------------------------------
(* The published prefix of the log.                                        *)

LEMMA PrefixProperties ==
    ASSUME NEW S, NEW s \in Seq(S), NEW n \in 0 .. Len(s)
    PROVE  /\ SubSeq(s, 1, n) \in Seq(S)
           /\ Len(SubSeq(s, 1, n)) = n
           /\ \A i \in 1 .. n : SubSeq(s, 1, n)[i] = s[i]
<1>1. Len(s) \in Nat /\ \A i \in 1 .. n : s[i] \in S
  BY ElementOfSeq, LenProperties
<1>2. /\ SubSeq(s, 1, n) \in Seq(S)
      /\ Len(SubSeq(s, 1, n)) = IF 1 <= n THEN n - 1 + 1 ELSE 0
      /\ \A i \in 1 .. n - 1 + 1 : SubSeq(s, 1, n)[i] = s[1 + i - 1]
  BY <1>1, SubSeqProperties
<1> QED  BY <1>1, <1>2

\* A capsule begun beyond the prefix does not change it.
LEMMA PrefixOfAppend ==
    ASSUME NEW S, NEW s \in Seq(S), NEW e \in S, NEW n \in 0 .. Len(s)
    PROVE  SubSeq(Append(s, e), 1, n) = SubSeq(s, 1, n)
<1>1. /\ Append(s, e) \in Seq(S)
      /\ Len(Append(s, e)) = Len(s) + 1 /\ Len(s) \in Nat
      /\ \A i \in 1 .. Len(s) : Append(s, e)[i] = s[i]
  BY AppendProperties, LenProperties
<1>2. /\ SubSeq(s, 1, n) \in Seq(S)
      /\ Len(SubSeq(s, 1, n)) = n
      /\ \A i \in 1 .. n : SubSeq(s, 1, n)[i] = s[i]
  BY PrefixProperties
<1>3. n \in 0 .. Len(Append(s, e))
  BY <1>1
<1>4. /\ SubSeq(Append(s, e), 1, n) \in Seq(S)
      /\ Len(SubSeq(Append(s, e), 1, n)) = n
      /\ \A i \in 1 .. n : SubSeq(Append(s, e), 1, n)[i] = Append(s, e)[i]
  BY <1>1, <1>3, PrefixProperties
<1>5. \A i \in 1 .. n :
         SubSeq(Append(s, e), 1, n)[i] = SubSeq(s, 1, n)[i]
  BY <1>1, <1>2, <1>4
<1> QED  BY <1>2, <1>4, <1>5, SeqEqual

\* Publishing the capsule that was written appends it.
LEMMA PrefixGrows ==
    ASSUME NEW S, NEW s \in Seq(S), NEW n \in Nat, n + 1 = Len(s)
    PROVE  SubSeq(s, 1, n + 1) = Append(SubSeq(s, 1, n), s[n + 1])
<1>1. 1 \in 1 .. Len(s) /\ n + 1 \in 1 .. Len(s) /\ n \in 0 .. Len(s)
  OBVIOUS
<1>2. SubSeq(s, 1, n + 1) = SubSeq(s, 1, n + 1 - 1) \o <<s[n + 1]>>
  BY <1>1, SubSeqRecursiveSecond
<1>3. s[n + 1] \in S /\ SubSeq(s, 1, n) \in Seq(S)
  BY <1>1, ElementOfSeq, PrefixProperties
<1>4. Append(SubSeq(s, 1, n), s[n + 1]) = SubSeq(s, 1, n) \o <<s[n + 1]>>
  BY <1>3, AppendIsConcat
<1> QED  BY <1>2, <1>4

-----------------------------------------------------------------------------
(* What the poll loop is about to handle.                                  *)

\* The packets of the last capsule come from one the cursor has passed.
PacketsOK == ~lapped => /\ pc = "attach" => out = {}
                        /\ \A p \in out : p.cap \in 1 .. done

\* At the end of an iteration the loop holds the next capsule, read whole.
LEMMA HeldCapsule ==
    ASSUME TypeOK, RingInv, ~lapped, pc \in {"dispatch", "send"}
    PROVE  /\ hdr = At(done + 1, 0)
           /\ cur = log[done + 1]
           /\ done \in Nat /\ published \in Nat /\ done + 1 \in 1 .. published
           /\ cur \in Capsules
           /\ cur.len # 0
           /\ pc = "send" => /\ w2 = At(done + 1, 2)
                             /\ w3 = At(done + 1, 3)
                             /\ \/ cur.typ = "EVENT"
                                \/ cur.typ = "PULSE" /\ Active(comp, cur)
<1>1. Keeps /\ InLoop
  BY DEF Keeps, Reading, InLoop
<1>2. WordsOK
  BY <1>1 DEF RingInv, Keeps
<1>3. shadowOff # boardOff
  BY <1>1, <1>2 DEF WordsOK
<1>4. done + 1 \in 1 .. published /\ log[done + 1] \in Capsules
  BY <1>1, <1>3, NextCapsule
<1>5. log[done + 1].len >= 2
  BY <1>4, CapsuleLen
<1>6. done \in Nat /\ published \in Nat
  BY DEF TypeOK
<1> QED  BY <1>1, <1>2, <1>4, <1>5, <1>6 DEF WordsOK

\* No step takes back that the firmware lapped the loop.
LEMMA LappedStable == [Next]_vars /\ ~lapped' => ~lapped
BY DEF Next, Firmware, PollLoop, FwBegin, FwWriteWord, FwPublish, Attach, Poll,
       ReadHeader, ReadWord1, Decide, SkipZero, SkipOther, AcceptConfig,
       RejectConfig, AbandonConfig, ReadTime, ReadWord3, Send, Stop, Advance,
       vars, firmware

\* Then done counts it.
LEMMA AdvanceCounts ==
    ASSUME TypeOK, RingInv, ~lapped, pc \in {"dispatch", "send"}, NEW n,
           Advance(n)
    PROVE  done' = done + 1
BY HeldCapsule DEF Advance, At

LEMMA InitPackets == Init => PacketsOK
BY DEF Init, PacketsOK

LEMMA NextPackets == TypeOK /\ RingInv /\ PacketsOK /\ [Next]_vars => PacketsOK'
<1> SUFFICES ASSUME TypeOK, RingInv, PacketsOK, [Next]_vars, ~lapped
             PROVE  /\ pc' = "attach" => out' = {}
                    /\ \A p \in out' : p.cap \in 1 .. done'
  BY LappedStable DEF PacketsOK
<1>1. /\ pc = "attach" => out = {}
      /\ \A p \in out : p.cap \in 1 .. done
  BY DEF PacketsOK
<1>2. CASE out' = {}
  BY <1>2
<1>3. CASE Send
  <2>1. done' = done + 1 /\ hdr.cap = done + 1 /\ done \in Nat
    BY <1>3, HeldCapsule, AdvanceCounts DEF Send, At
  <2>2. (\A p \in out' : p.cap = hdr.cap) /\ pc' # "attach"
    BY <1>3 DEF Send, Packet, Advance
  <2> QED  BY <2>1, <2>2
<1>4. CASE UNCHANGED out /\ UNCHANGED done /\ (pc' = "attach" => pc = "attach")
  BY <1>1, <1>4
<1>5. CASE Attach
  <2>1. pc = "attach" /\ out' = out
    BY <1>5 DEF Attach
  <2> QED  BY <1>1, <2>1
<1> QED
  BY <1>2, <1>3, <1>4, <1>5
     DEF Next, Firmware, PollLoop, FwBegin, FwWriteWord, FwPublish, Poll,
         ReadHeader, ReadWord1, Decide, SkipZero, SkipOther, AcceptConfig,
         RejectConfig, AbandonConfig, ReadTime, ReadWord3, Stop, vars

-----------------------------------------------------------------------------
(* Every step of the poll loop is a step of CapsuleStream or none.         *)

\* The packets keep their meaning while capsules are added to the log.
LEMMA SamePackets ==
    ASSUME TypeOK, PacketsOK, ~lapped, UNCHANGED out,
           \A k \in 1 .. Len(log) : log'[k] = log[k]
    PROVE  StreamOut' = StreamOut
<1>1. \A p \in out : p.cap \in 1 .. Len(log)
  <2>1. Len(log) \in Nat /\ done \in 0 .. Len(log)
    BY DEF TypeOK
  <2> QED  BY <2>1 DEF PacketsOK
<1>2. \A p \in out : log'[p.cap] = log[p.cap]
  BY <1>1
<1>3. \A p \in out, first \in BOOLEAN :
         /\ Half(p, p.sec, first)' = Half(p, p.sec, first)
         /\ Half(p, p.nsec, first)' = Half(p, p.nsec, first)
  BY <1>2 DEF Half, At
<1> QED  BY <1>3 DEF StreamOut

\* A firmware step that only appends to the log is invisible, and so is a
\* step of the loop that handles nothing.
LEMMA InvisibleStep ==
    ASSUME TypeOK, PacketsOK, ~lapped, UNCHANGED <<published, comp, out, done>>,
           log' = log \/ \E c \in Capsules : log' = Append(log, c),
           (pc = "attach") <=> (pc' = "attach")
    PROVE  UNCHANGED Stream!streamVars
<1>1. log \in Seq(Capsules) /\ published \in 0 .. Len(log)
  BY DEF TypeOK
<1>2. SubSeq(log', 1, published) = SubSeq(log, 1, published)
  BY <1>1, PrefixOfAppend
<1>3. \A k \in 1 .. Len(log) : log'[k] = log[k]
  BY <1>1, AppendProperties
<1>4. StreamOut' = StreamOut
  BY <1>3, SamePackets
<1> QED  BY <1>2, <1>4 DEF Stream!streamVars

LEMMA PublishRefines ==
    ASSUME TypeOK, PacketsOK, ~lapped, FwPublish
    PROVE  Stream!Publish
<1>1. /\ log \in Seq(Capsules) /\ Len(log) \in Nat
      /\ published \in Nat /\ published + 1 = Len(log)
  BY DEF TypeOK, FwPublish, Writing
<1>2. log[Len(log)] \in Capsules
  BY <1>1, ElementOfSeq
<1>3. SubSeq(log, 1, published + 1)
        = Append(SubSeq(log, 1, published), log[published + 1])
  BY <1>1, PrefixGrows
<1>4. /\ log' = log /\ published' = published + 1
      /\ UNCHANGED <<pc, comp, out, done>>
  BY <1>1 DEF FwPublish
<1>5. StreamOut' = StreamOut
  BY <1>4, SamePackets
<1> QED  BY <1>1, <1>2, <1>3, <1>4, <1>5 DEF Stream!Publish

LEMMA AttachRefines ==
    ASSUME TypeOK, PacketsOK, ~lapped, Attach
    PROVE  Stream!Attach
<1>1. /\ pc = "attach" /\ pc' = "poll" /\ done' = published
      /\ UNCHANGED <<log, published, comp, out>>
  BY DEF Attach, firmware
<1>2. Len(SubSeq(log, 1, published)) = published
  BY PrefixProperties DEF TypeOK
<1>3. StreamOut' = StreamOut
  BY <1>1, SamePackets
<1> QED  BY <1>1, <1>2, <1>3 DEF Stream!Attach

\* The instance shares the operators of WRENProtocol.
LEMMA SameOperators ==
    \A t, c : /\ Stream!Configured(t, c) = Configured(t, c)
              /\ Stream!Sends(t, c) = Sends(t, c)
BY DEF Configured, Sends, Active, ConfigAccepted, EventActions, AdvanceSlots,
       Stream!Configured, Stream!Sends, Stream!Active, Stream!ConfigAccepted,
       Stream!EventActions, Stream!AdvanceSlots

\* What Handle asks of a step that handles capsule done + 1.
LEMMA HandleStep ==
    ASSUME TypeOK, RingInv, ~lapped, pc \in {"dispatch", "send"},
           Advance(cur.len), comp' = Configured(comp, cur),
           NEW ok \in [Sends(comp, cur) -> BOOLEAN],
           StreamOut' = {Stream!StreamPacket(s, done + 1, ok[s]) :
                            s \in DOMAIN ok}
    PROVE  Stream!Handle
<1> DEFINE p == SubSeq(log, 1, published)
<1>1. /\ cur = log[done + 1]
      /\ done \in Nat /\ published \in Nat /\ done + 1 \in 1 .. published
  BY HeldCapsule
<1>2. done' = done + 1
  BY AdvanceCounts
<1>3. log' = log /\ published' = published /\ pc' # "attach" /\ pc # "attach"
  BY DEF Advance, firmware
<1>4. Len(p) = published /\ p[done + 1] = cur
  BY <1>1, PrefixProperties DEF TypeOK
<1>5. done < Len(p)
  <2>1. published \in Nat
    BY <1>1
  <2> HIDE DEF p
  <2> QED  BY <1>1, <1>4, <2>1
<1>6. p' = p /\ (pc # "attach")' = (pc # "attach")
  BY <1>3
<1>7. comp' = Stream!Configured(comp, p[done'])
  BY <1>2, <1>4, SameOperators
<1>8. /\ ok \in [Stream!Sends(comp, p[done']) -> BOOLEAN]
      /\ StreamOut' = {Stream!StreamPacket(s, done', ok[s]) : s \in DOMAIN ok}
  BY <1>2, <1>4, SameOperators
<1> HIDE DEF p
<1>9. \E k \in [Stream!Sends(comp, p[done']) -> BOOLEAN] :
         StreamOut' = {Stream!StreamPacket(s, done', k[s]) : s \in DOMAIN k}
  BY <1>8
<1> QED
  BY <1>2, <1>3, <1>5, <1>6, <1>7, <1>9 DEF Stream!Handle, p

\* A capsule that sends nothing.
LEMMA SilentRefines ==
    ASSUME TypeOK, RingInv, ~lapped, pc = "dispatch", Advance(cur.len),
           out' = {}, comp' = Configured(comp, cur), Sends(comp, cur) = {}
    PROVE  Stream!Handle
<1> DEFINE none == [s \in {} |-> TRUE]
<1>1. none \in [Sends(comp, cur) -> BOOLEAN] /\ DOMAIN none = {}
  OBVIOUS
<1>2. StreamOut' = {}
  BY DEF StreamOut
<1>3. StreamOut' = {Stream!StreamPacket(s, done + 1, none[s]) :
                       s \in DOMAIN none}
  BY <1>1, <1>2
<1> HIDE DEF none
<1> QED  BY <1>1, <1>3, HandleStep

\* The packets of a capsule, with the time that was read for it.
LEMMA SendRefines ==
    ASSUME TypeOK, RingInv, ~lapped, Send
    PROVE  Stream!Handle
<1>1. pc = "send" /\ Advance(cur.len) /\ comp' = comp
  BY DEF Send
<1>2. /\ hdr = At(done + 1, 0) /\ cur = log[done + 1]
      /\ w2 = At(done + 1, 2) /\ w3 = At(done + 1, 3)
      /\ cur.typ \in {"EVENT", "PULSE"}
  BY <1>1, HeldCapsule
<1>3. comp' = Configured(comp, cur)
  BY <1>1, <1>2 DEF Configured
<1>4. PICK ok \in [Sends(comp, cur) -> BOOLEAN] :
         out' = {Packet(s, ok[s]) : s \in DOMAIN ok}
  BY DEF Send
<1>5. log' = log
  BY <1>1 DEF Advance, firmware
<1> DEFINE H(p, w, first) ==
               LET pos == IF (log'[p.cap].typ = "PULSE") = first THEN 2 ELSE 3
               IN  IF w = At(p.cap, pos) THEN p.cap ELSE 0
           Seen(p) == [kind |-> p.kind, what |-> p.what, cap |-> p.cap,
                       sec  |-> H(p, p.sec, TRUE),
                       nsec |-> H(p, p.nsec, FALSE),
                       ok   |-> p.ok]
<1>6. StreamOut' = {Seen(p) : p \in out'}
  BY DEF StreamOut, Half, At
<1>7. ASSUME NEW s \in DOMAIN ok
      PROVE  Seen(Packet(s, ok[s])) = Stream!StreamPacket(s, done + 1, ok[s])
  <2> DEFINE p == Packet(s, ok[s])
  <2>1. p.cap = done + 1
    BY <1>2 DEF Packet, At
  <2>2. log'[p.cap] = cur
    BY <1>2, <1>5, <2>1
  <2>3. H(p, p.sec, TRUE) = done + 1 /\ H(p, p.nsec, FALSE) = done + 1
    <3>1. CASE cur.typ = "PULSE"
      <4>1. p.sec = At(done + 1, 2) /\ p.nsec = At(done + 1, 3)
        BY <1>2, <3>1 DEF Packet
      <4>2. (log'[p.cap].typ = "PULSE") = TRUE
        BY <2>2, <3>1
      <4> HIDE DEF p
      <4> QED  BY <2>1, <4>1, <4>2
    <3>2. CASE cur.typ = "EVENT"
      <4>1. p.sec = At(done + 1, 3) /\ p.nsec = At(done + 1, 2)
        BY <1>2, <3>2 DEF Packet
      <4>2. (log'[p.cap].typ = "PULSE") = FALSE
        BY <2>2, <3>2
      <4> HIDE DEF p
      <4> QED  BY <2>1, <4>1, <4>2
    <3> QED  BY <1>2, <3>1, <3>2
  <2>4. p.kind = s[1] /\ p.what = s[2] /\ p.ok = ok[s]
    BY DEF Packet
  <2> HIDE DEF p
  <2>5. Seen(p) = Stream!StreamPacket(s, done + 1, ok[s])
    BY <2>1, <2>3, <2>4 DEF Stream!StreamPacket
  <2> HIDE DEF Seen
  <2> QED  BY <2>5 DEF p
<1> HIDE DEF Seen
<1>8. StreamOut' = {Stream!StreamPacket(s, done + 1, ok[s]) : s \in DOMAIN ok}
  BY <1>4, <1>6, <1>7
<1> QED  BY <1>1, <1>3, <1>8, HandleStep

LEMMA InitRefines == Init => Stream!StreamInit
<1> SUFFICES ASSUME Init PROVE Stream!StreamInit
  OBVIOUS
<1>1. log = <<>> /\ published = 0 /\ pc = "attach" /\ out = {}
  BY DEF Init
<1>2. SubSeq(log, 1, published) = <<>>
  BY <1>1, SubSeqEmpty
<1>3. StreamOut = {}
  BY <1>1 DEF StreamOut
<1> QED  BY <1>1, <1>2, <1>3 DEF Init, Stream!StreamInit

LEMMA NextRefines ==
    ASSUME TypeOK, RingInv, PacketsOK, ~lapped, [Next]_vars
    PROVE  [Stream!StreamNext]_(Stream!streamVars)
<1>1. CASE FwBegin
  BY <1>1, InvisibleStep DEF FwBegin
<1>2. CASE FwWriteWord \/ Poll \/ Stop
  BY <1>2, InvisibleStep DEF FwWriteWord, Poll, Stop, firmware
<1>3. CASE FwPublish
  BY <1>3, PublishRefines DEF Stream!StreamNext
<1>4. CASE Attach
  BY <1>4, AttachRefines DEF Stream!StreamNext
<1>5. CASE ReadHeader \/ ReadWord1 \/ Decide
  BY <1>5, InvisibleStep DEF ReadHeader, ReadWord1, Decide, firmware
<1>6. CASE SkipZero
  BY <1>6, HeldCapsule DEF SkipZero
<1>7. CASE SkipOther
  <2>1. /\ pc = "dispatch" /\ Advance(cur.len) /\ out' = {} /\ comp' = comp
        /\ \/ cur.typ = "CONTEXT"
           \/ cur.typ = "PULSE" /\ ~Active(comp, cur)
    BY <1>7 DEF SkipOther
  <2>2. comp' = Configured(comp, cur) /\ Sends(comp, cur) = {}
    BY <2>1 DEF Configured, Sends
  <2> QED  BY <2>1, <2>2, SilentRefines DEF Stream!StreamNext
<1>8. CASE AcceptConfig
  <2>1. /\ pc = "dispatch" /\ Advance(cur.len) /\ out' = {}
        /\ cur.typ = "CONFIG" /\ ConfigAccepted(cur)
        /\ comp' = [comp EXCEPT ![cur.comp] = cur.act]
    BY <1>8 DEF AcceptConfig
  <2>2. comp' = Configured(comp, cur) /\ Sends(comp, cur) = {}
    BY <2>1 DEF Configured, Sends
  <2> QED  BY <2>1, <2>2, SilentRefines DEF Stream!StreamNext
<1>9. CASE RejectConfig
  <2>1. /\ pc = "dispatch" /\ Advance(cur.len) /\ out' = {} /\ comp' = comp
        /\ cur.typ = "CONFIG" /\ ~ConfigAccepted(cur)
    BY <1>9 DEF RejectConfig
  <2>2. comp' = Configured(comp, cur) /\ Sends(comp, cur) = {}
    BY <2>1 DEF Configured, Sends
  <2> QED  BY <2>1, <2>2, SilentRefines DEF Stream!StreamNext
<1>10. CASE AbandonConfig \/ ReadTime \/ ReadWord3
  BY <1>10, InvisibleStep DEF AbandonConfig, ReadTime, ReadWord3, firmware
<1>11. CASE Send
  BY <1>11, SendRefines DEF Stream!StreamNext
<1>12. CASE UNCHANGED vars
  BY <1>12, InvisibleStep DEF vars, firmware
<1> QED
  BY <1>1, <1>2, <1>3, <1>4, <1>5, <1>6, <1>7, <1>8, <1>9, <1>10, <1>11, <1>12
     DEF Next, Firmware, PollLoop

\* For every ring size, capsule set and build: until the firmware laps it, the
\* loop takes whole capsules in order and exactly once, and sends for each of
\* them what Sends says, with the time of that capsule.
THEOREM Refinement == Spec => ImplementsStream
<1>1. TypeOK /\ RingInv /\ PacketsOK /\ [Next]_vars
        => [Stream!StreamNext \/ lapped]_(Stream!streamVars)
  BY NextRefines
<1>2. Spec => []TypeOK /\ []RingInv
  BY TypeCorrect, RingCorrect, PTL
<1> QED
  BY <1>1, <1>2, InitRefines, InitPackets, NextPackets, PTL
     DEF Spec, ImplementsStream

-----------------------------------------------------------------------------
(* A FIRE names the action of the last CONFIG the code accepts.            *)

\* Capsule e puts an installed action on comparator c.
Puts(e, c) == e.typ = "CONFIG" /\ e.comp = c /\ ConfigAccepted(e)

\* In log l, the last such capsule before capsule k put action a on it.
PutOn(l, k, c, a) ==
    \E j \in 1 .. k - 1 : /\ Puts(l[j], c) /\ l[j].act = a
                          /\ \A i \in j + 1 .. k - 1 : ~Puts(l[i], c)

\* The comparator table and the packets sent from it.
TableOK ==
    /\ pc = "attach" => \A c \in Comps : comp[c] = NoEntry
    /\ \A c \in Comps : comp[c] # NoEntry => PutOn(log, done + 1, c, comp[c])

OutOK == \A p \in out : log[p.cap].typ = "PULSE"
                           => PutOn(log, p.cap, log[p.cap].comp, p.what)

AttributionOK == ~lapped => TableOK /\ OutOK

LEMMA PutOnLast ==
    ASSUME TypeOK, NEW p \in out, p.cap \in 1 .. Len(log),
           PutOn(log, p.cap, log[p.cap].comp, p.what)
    PROVE  \E j \in AcceptedBefore(p.cap) :
              Attributes(p, j, AcceptedBefore(p.cap))
<1> DEFINE k == p.cap
           c == log[k].comp
<1>1. k \in Nat /\ Len(log) \in Nat
  BY DEF TypeOK
<1>2. PICK j \in 1 .. k - 1 :
         /\ Puts(log[j], c) /\ log[j].act = p.what
         /\ \A i \in j + 1 .. k - 1 : ~Puts(log[i], c)
  BY DEF PutOn
<1>3. \A i : i \in AcceptedBefore(k) <=> i \in 1 .. k - 1 /\ Puts(log[i], c)
  BY DEF AcceptedBefore, ConfigsBefore, Puts
<1>4. \A i \in AcceptedBefore(k) : i <= j
  BY <1>1, <1>2, <1>3
<1>5. j \in AcceptedBefore(k)
  BY <1>2, <1>3
<1> QED  BY <1>2, <1>4, <1>5 DEF Attributes

\* What the firmware begins to write is not before any capsule of the log.
LEMMA PutOnStable ==
    ASSUME NEW l, NEW m, NEW n \in Nat, \A j \in 1 .. n : m[j] = l[j],
           NEW k \in 1 .. n + 1, NEW c, NEW a, PutOn(l, k, c, a)
    PROVE  PutOn(m, k, c, a)
<1>1. \A j \in 1 .. k - 1 : m[j] = l[j]
  OBVIOUS
<1> QED  BY <1>1 DEF PutOn

\* A capsule that puts nothing on c leaves the last one in place.
LEMMA PutOnKept ==
    ASSUME NEW l, NEW k \in Nat \ {0}, NEW c, NEW a, PutOn(l, k, c, a),
           ~Puts(l[k], c)
    PROVE  PutOn(l, k + 1, c, a)
<1>1. PICK j \in 1 .. k - 1 : /\ Puts(l[j], c) /\ l[j].act = a
                             /\ \A i \in j + 1 .. k - 1 : ~Puts(l[i], c)
  BY DEF PutOn
<1>2. j \in 1 .. (k + 1) - 1
  OBVIOUS
<1>3. \A i \in j + 1 .. (k + 1) - 1 : ~Puts(l[i], c)
  BY <1>1
<1> QED  BY <1>1, <1>2, <1>3 DEF PutOn

LEMMA InitAttribution == Init => AttributionOK
BY DEF Init, AttributionOK, TableOK, OutOK

\* The log may grow and nothing else that matters changes.
LEMMA QuietAttribution ==
    ASSUME TypeOK, PacketsOK, AttributionOK, ~lapped,
           UNCHANGED <<comp, out, done>>,
           log' = log \/ \E c \in Capsules : log' = Append(log, c),
           pc' = "attach" => pc = "attach"
    PROVE  TableOK' /\ OutOK'
<1>1. log \in Seq(Capsules) /\ Len(log) \in Nat /\ done \in 0 .. Len(log)
  BY DEF TypeOK
<1>2. \A j \in 1 .. Len(log) : log'[j] = log[j]
  BY <1>1, AppendProperties
<1>3. TableOK /\ OutOK
  BY DEF AttributionOK
<1>4. TableOK'
  <2>1. ASSUME NEW c \in Comps, comp[c] # NoEntry
        PROVE  PutOn(log', done + 1, c, comp[c])
    <3>1. PutOn(log, done + 1, c, comp[c])
      BY <1>3, <2>1 DEF TableOK
    <3>2. done + 1 \in 1 .. Len(log) + 1
      BY <1>1
    <3> QED  BY <1>1, <1>2, <3>1, <3>2, PutOnStable
  <2> QED  BY <1>3, <2>1 DEF TableOK
<1>5. OutOK'
  <2>1. ASSUME NEW p \in out, log'[p.cap].typ = "PULSE"
        PROVE  PutOn(log', p.cap, log'[p.cap].comp, p.what)
    <3>1. p.cap \in 1 .. Len(log)
      BY <1>1 DEF PacketsOK
    <3>2. log'[p.cap] = log[p.cap]
      BY <1>2, <3>1
    <3>3. PutOn(log, p.cap, log[p.cap].comp, p.what)
      BY <1>3, <2>1, <3>2 DEF OutOK
    <3>4. p.cap \in 1 .. Len(log) + 1
      BY <1>1, <3>1
    <3>5. PutOn(log', p.cap, log[p.cap].comp, p.what)
      BY <1>1, <1>2, <3>3, <3>4, PutOnStable
    <3> QED  BY <3>2, <3>5
  <2> QED  BY <2>1 DEF OutOK
<1> QED  BY <1>4, <1>5

\* A capsule that is no CONFIG, or one that is rejected: the table stays.
LEMMA KeptTable ==
    ASSUME TypeOK, RingInv, ~lapped, TableOK, pc \in {"dispatch", "send"},
           Advance(cur.len), UNCHANGED comp,
           cur.typ # "CONFIG" \/ ~ConfigAccepted(cur)
    PROVE  TableOK'
<1>1. cur = log[done + 1] /\ done \in Nat /\ done' = done + 1
  BY HeldCapsule, AdvanceCounts
<1>2. log' = log /\ pc' # "attach"
  BY DEF Advance, firmware
<1>3. ASSUME NEW c \in Comps, comp[c] # NoEntry
      PROVE  PutOn(log, done + 1 + 1, c, comp[c])
  <2>1. PutOn(log, done + 1, c, comp[c])
    BY <1>3 DEF TableOK
  <2>2. done + 1 \in Nat \ {0} /\ ~Puts(log[done + 1], c)
    BY <1>1 DEF Puts
  <2> QED  BY <2>1, <2>2, PutOnKept
<1> QED  BY <1>1, <1>2, <1>3 DEF TableOK

\* A CONFIG that is accepted.
LEMMA ConfigTable ==
    ASSUME TypeOK, RingInv, ~lapped, TableOK, AcceptConfig
    PROVE  TableOK'
<1>0. pc = "dispatch" /\ Advance(cur.len)
  BY DEF AcceptConfig
<1>1. cur = log[done + 1] /\ done \in Nat /\ done' = done + 1
  BY <1>0, HeldCapsule, AdvanceCounts
<1>2. log' = log /\ pc' # "attach"
  BY <1>0 DEF Advance, firmware
<1>3. /\ cur.typ = "CONFIG" /\ cur.comp \in Comps
      /\ ConfigAccepted(cur)
      /\ comp' = [comp EXCEPT ![cur.comp] = cur.act]
      /\ comp \in [Comps -> Entry]
  BY DEF AcceptConfig, ConfigAccepted, TypeOK, CompTable
<1>4. PutOn(log, done + 1 + 1, cur.comp, cur.act)
  <2>1. done + 1 \in 1 .. (done + 1 + 1) - 1
    BY <1>1
  <2>2. \A i \in done + 1 + 1 .. (done + 1 + 1) - 1 : FALSE
    BY <1>1
  <2>3. Puts(log[done + 1], cur.comp)
    BY <1>1, <1>3 DEF Puts
  <2> QED  BY <1>1, <2>1, <2>2, <2>3 DEF PutOn
<1>5. ASSUME NEW c \in Comps, comp'[c] # NoEntry
      PROVE  PutOn(log, done + 1 + 1, c, comp'[c])
  <2>1. CASE c = cur.comp
    <3>1. comp'[c] = cur.act
      BY <1>3, <2>1
    <3> QED  BY <1>4, <2>1, <3>1
  <2>2. CASE c # cur.comp
    <3>1. comp'[c] = comp[c]
      BY <1>3, <2>2
    <3>2. PutOn(log, done + 1, c, comp[c])
      BY <1>5, <3>1 DEF TableOK
    <3>3. done + 1 \in Nat \ {0} /\ ~Puts(log[done + 1], c)
      BY <1>1, <2>2 DEF Puts
    <3> QED  BY <3>1, <3>2, <3>3, PutOnKept
  <2> QED  BY <2>1, <2>2
<1> QED  BY <1>1, <1>2, <1>5 DEF TableOK

\* The packets of a PULSE name the entry of its comparator.
LEMMA SentFromTable ==
    ASSUME TypeOK, RingInv, ~lapped, TableOK, Send
    PROVE  OutOK'
<1>0. pc = "send" /\ Advance(cur.len)
  BY DEF Send
<1>1. /\ hdr = At(done + 1, 0) /\ cur = log[done + 1]
      /\ cur.typ = "EVENT" \/ (cur.typ = "PULSE" /\ Active(comp, cur))
  BY <1>0, HeldCapsule
<1>2. log' = log
  BY <1>0 DEF Advance, firmware
<1>3. ASSUME NEW p \in out', log[p.cap].typ = "PULSE"
      PROVE  PutOn(log, p.cap, log[p.cap].comp, p.what)
  <2>1. PICK s \in Sends(comp, cur) : p.what = s[2] /\ p.cap = hdr.cap
    BY DEF Send, Packet
  <2>2. p.cap = done + 1 /\ log[p.cap] = cur
    BY <1>1, <2>1 DEF At
  <2>3. cur.typ = "PULSE" /\ Active(comp, cur)
    BY <1>1, <1>3, <2>2
  <2>4. Sends(comp, cur) = {<<"FIRE", comp[cur.comp]>>}
    BY <2>3 DEF Sends
  <2>5. p.what = comp[cur.comp]
    BY <2>1, <2>4
  <2> QED  BY <2>2, <2>3, <2>5 DEF TableOK, Active
<1> QED  BY <1>2, <1>3 DEF OutOK

LEMMA NextAttribution ==
    TypeOK /\ RingInv /\ PacketsOK /\ AttributionOK /\ [Next]_vars
      => AttributionOK'
<1> SUFFICES ASSUME TypeOK, RingInv, PacketsOK, AttributionOK, [Next]_vars,
                    ~lapped
             PROVE  TableOK' /\ OutOK'
  BY LappedStable DEF AttributionOK
<1>1. TableOK /\ OutOK
  BY DEF AttributionOK
<1> DEFINE Quiet ==
              /\ UNCHANGED <<comp, out, done>>
              /\ log' = log \/ \E c \in Capsules : log' = Append(log, c)
              /\ pc' = "attach" => pc = "attach"
<1>2. CASE Quiet
  BY <1>2, QuietAttribution
<1>3. CASE Attach
  <2>1. UNCHANGED <<log, comp, out>> /\ pc = "attach" /\ pc' # "attach"
    BY <1>3 DEF Attach, firmware
  <2>2. \A c \in Comps : comp'[c] = NoEntry
    BY <1>1, <2>1 DEF TableOK
  <2> QED  BY <1>1, <2>1, <2>2 DEF TableOK, OutOK
<1>4. CASE SkipZero
  BY <1>4, HeldCapsule DEF SkipZero
<1>5. CASE SkipOther
  <2>1. /\ pc = "dispatch" /\ Advance(cur.len) /\ UNCHANGED comp
        /\ cur.typ # "CONFIG" /\ out' = {}
    BY <1>5 DEF SkipOther
  <2> QED  BY <1>1, <2>1, KeptTable DEF OutOK
<1>6. CASE AcceptConfig
  <2>1. out' = {}
    BY <1>6 DEF AcceptConfig
  <2> QED  BY <1>1, <1>6, <2>1, ConfigTable DEF OutOK
<1>7. CASE RejectConfig
  <2>1. /\ pc = "dispatch" /\ Advance(cur.len) /\ UNCHANGED comp
        /\ ~ConfigAccepted(cur) /\ out' = {}
    BY <1>7 DEF RejectConfig
  <2> QED  BY <1>1, <2>1, KeptTable DEF OutOK
<1>8. CASE Send
  <2>1. /\ pc = "send" /\ Advance(cur.len) /\ UNCHANGED comp
    BY <1>8 DEF Send
  <2>2. cur.typ # "CONFIG"
    BY <2>1, HeldCapsule
  <2> QED  BY <1>1, <1>8, <2>1, <2>2, KeptTable, SentFromTable
<1>9. CASE UNCHANGED vars
  <2>1. Quiet
    BY <1>9 DEF vars, firmware
  <2> QED  BY <1>2, <2>1
<1>10. CASE FwBegin \/ FwWriteWord \/ FwPublish \/ Stop
  <2>1. Quiet
    BY <1>10 DEF FwBegin, FwWriteWord, FwPublish, Stop, firmware
  <2> QED  BY <1>2, <2>1
<1>11. CASE \/ Poll \/ ReadHeader \/ ReadWord1 \/ Decide \/ AbandonConfig
            \/ ReadTime \/ ReadWord3
  <2>1. Quiet
    BY <1>11 DEF Poll, ReadHeader, ReadWord1, Decide, AbandonConfig,
                 ReadTime, ReadWord3, firmware
  <2> QED  BY <1>2, <2>1
<1> HIDE DEF Quiet
<1> QED
  BY <1>3, <1>4, <1>5, <1>6, <1>7, <1>8, <1>9, <1>10, <1>11
     DEF Next, Firmware, PollLoop

LEMMA Attributed ==
    TypeOK /\ PacketsOK /\ AttributionOK => AcceptedAttribution
<1> SUFFICES ASSUME TypeOK, PacketsOK, AttributionOK, ~lapped,
                    NEW p \in out, log[p.cap].typ = "PULSE"
             PROVE  \E j \in AcceptedBefore(p.cap) :
                       Attributes(p, j, AcceptedBefore(p.cap))
  BY DEF AcceptedAttribution
<1>1. p.cap \in 1 .. Len(log)
  BY DEF TypeOK, PacketsOK
<1>2. PutOn(log, p.cap, log[p.cap].comp, p.what)
  BY DEF AttributionOK, OutOK
<1> QED  BY <1>1, <1>2, PutOnLast

\* For every build, ring size and capsule set: until the firmware laps the
\* loop, the FIRE sent for a PULSE names the action of the last CONFIG of that
\* comparator that names an installed action.  That it is the last CONFIG of
\* all, as the documentation has it, is refuted by run tx_stale.
THEOREM Attribution == Spec => []AcceptedAttribution
<1>1. Spec => []TypeOK /\ []RingInv
  BY TypeCorrect, RingCorrect, PTL
<1> QED
  BY <1>1, Attributed, InitPackets, NextPackets, InitAttribution,
     NextAttribution, PTL DEF Spec
=============================================================================
