---------------------------- MODULE SidecarProofs ----------------------------
(***************************************************************************)
(* What FESA is shown, from end to end: for any number of capsules, events *)
(* and restarts, whatever the link loses, and in both builds.              *)
(***************************************************************************)
EXTENDS Sidecar, ShmSlotProofs, SequenceTheorems, FiniteSetTheorems

-----------------------------------------------------------------------------
(* The slot does not know where its events come from.                      *)

LEMMA SlotStep == [SidecarNext]_sidecarVars => [Next]_vars
BY DEF SidecarNext, FirmwarePublishes, TransmitterAttaches, Transmit, Lose,
       Receive, EndPush, ReceiverRestarts, FesaReads, Next, Push, sidecarVars

\* The slot keeps its promises when it is fed from the link.
THEOREM SidecarSlot ==
    SidecarSpec => []TypeOK /\ []AnnouncedOrNewer /\ TornOnlyInPush
<1>1. SidecarInit => Init
  BY DEF SidecarInit
<1>2. SlotInv => TypeOK /\ AnnouncedOrNewer
  BY DEF SlotInv, ReaderOK, AnnouncedOrNewer, TypeOK, Event
<1> QED  BY <1>1, <1>2, SlotStep, InitSlot, NextSlot, TornStep, PTL
         DEF SidecarSpec, TornOnlyInPush

-----------------------------------------------------------------------------
(* The inductive invariant.                                                *)

Packet == [kind : {"FIRE", "ADVANCE"}, what : Mapped \cup Slots, cap : Nat,
           sec : Nat, nsec : Nat, ok : BOOLEAN]

\* Capsule j of log l puts action a on comparator c.
Puts(l, j, c) == l[j].typ = "CONFIG" /\ ConfigAccepted(l[j]) /\ l[j].comp = c

\* Before capsule k the last one to do so put a.
PutLast(l, k, c, a) ==
    \E j \in 1 .. k - 1 : /\ Puts(l, j, c) /\ l[j].act = a
                          /\ \A h \in j + 1 .. k - 1 : ~Puts(l, h, c)

\* What a packet says is what its capsule means.
Meant(l, p) ==
    LET c == l[p.cap]
    IN  CASE c.typ = "PULSE" -> PutLast(l, p.cap, c.comp, p.what)
          [] c.typ = "EVENT" -> \/ p.what \in EventActions(c.ev)
                                \/ p.what \in AdvanceSlots(c.ev)
          [] OTHER -> FALSE

\* Packet p is about a capsule handled by now.
Past(l, n, p) == p.cap \in 1 .. n /\ Meant(l, p)

TransmitterOK ==
    /\ pub \in Seq(Capsules)
    /\ done \in 0 .. Len(pub)
    /\ comp \in CompTable
    /\ ~attached => \A c \in Comps : comp[c] = NoEntry
    /\ \A c \in Comps : comp[c] # NoEntry => PutLast(pub, done + 1, c, comp[c])

\* The packets that left, in the slot or on their way, are in the order of
\* their capsules; event n is the n-th of them taken.
PacketsOK ==
    /\ link \in Seq(Packet) /\ taken \in Seq(Packet)
    /\ Len(taken) = event
    /\ \A i \in 1 .. Len(link) : Past(pub, done, link[i])
    /\ \A i \in 1 .. Len(taken) : Past(pub, done, taken[i])
    /\ \A i, j \in 1 .. Len(link) : i < j => link[i].cap <= link[j].cap
    /\ \A i, j \in 1 .. Len(taken) : i < j => taken[i].cap <= taken[j].cap
    /\ \A i \in 1 .. Len(taken), j \in 1 .. Len(link) :
          taken[i].cap <= link[j].cap

SidecarInv == SlotInv /\ TransmitterOK /\ PacketsOK

-----------------------------------------------------------------------------
(* The log grows at its end.                                               *)

LEMMA PutLastStable ==
    ASSUME NEW l, NEW m, NEW n \in Nat, \A j \in 1 .. n : m[j] = l[j],
           NEW k \in 1 .. n + 1, NEW c, NEW a, PutLast(l, k, c, a)
    PROVE  PutLast(m, k, c, a)
<1>1. \A j \in 1 .. k - 1 : m[j] = l[j]
  OBVIOUS
<1> QED  BY <1>1 DEF PutLast, Puts

LEMMA PastStable ==
    ASSUME NEW l, NEW m, NEW n \in Nat, \A j \in 1 .. n : m[j] = l[j],
           NEW k \in 0 .. n, NEW p, Past(l, k, p)
    PROVE  Past(m, k, p)
<1>1. p.cap \in 1 .. k /\ p.cap \in 1 .. n + 1 /\ m[p.cap] = l[p.cap]
  BY DEF Past
<1>2. \A c, a : PutLast(l, p.cap, c, a) => PutLast(m, p.cap, c, a)
  BY <1>1, PutLastStable
<1> QED  BY <1>1, <1>2 DEF Past, Meant

\* A packet of the past stays one.
LEMMA PastLater ==
    ASSUME NEW l, NEW n \in Nat, NEW p, Past(l, n, p) PROVE Past(l, n + 1, p)
BY DEF Past

LEMMA PublishOK ==
    TransmitterOK /\ PacketsOK /\ FirmwarePublishes
      => TransmitterOK' /\ PacketsOK'
<1> SUFFICES ASSUME TransmitterOK, PacketsOK, FirmwarePublishes
             PROVE  TransmitterOK' /\ PacketsOK'
  OBVIOUS
<1>1. PICK c \in Capsules : pub' = Append(pub, c)
  BY DEF FirmwarePublishes, Publish
<1>2. /\ UNCHANGED <<attached, done, comp, link, taken, event>>
      /\ pub \in Seq(Capsules) /\ Len(pub) \in Nat /\ done \in 0 .. Len(pub)
  BY DEF FirmwarePublishes, Publish, TransmitterOK, vars, sidecar
<1>3. /\ pub' \in Seq(Capsules) /\ Len(pub') = Len(pub) + 1
      /\ \A j \in 1 .. Len(pub) : pub'[j] = pub[j]
  BY <1>1, <1>2, AppendProperties
<1>4. TransmitterOK'
  <2>1. ASSUME NEW d \in Comps, comp[d] # NoEntry
        PROVE  PutLast(pub', done + 1, d, comp[d])
    <3>1. PutLast(pub, done + 1, d, comp[d]) /\ done + 1 \in 1 .. Len(pub) + 1
      BY <1>2, <2>1 DEF TransmitterOK
    <3> QED  BY <1>2, <1>3, <3>1, PutLastStable
  <2> QED  BY <1>2, <1>3, <2>1 DEF TransmitterOK
<1>5. PacketsOK'
  <2>1. \A p : Past(pub, done, p) => Past(pub', done, p)
    BY <1>2, <1>3, PastStable
  <2> QED  BY <1>2, <2>1 DEF PacketsOK
<1> QED  BY <1>4, <1>5

-----------------------------------------------------------------------------
(* The transmitter handles a capsule.                                      *)

\* A capsule that puts nothing on c leaves the last one in place.
LEMMA PutLastKept ==
    ASSUME NEW l, NEW k \in Nat \ {0}, NEW c, NEW a, PutLast(l, k, c, a),
           ~Puts(l, k, c)
    PROVE  PutLast(l, k + 1, c, a)
<1>1. PICK j \in 1 .. k - 1 : /\ Puts(l, j, c) /\ l[j].act = a
                              /\ \A h \in j + 1 .. k - 1 : ~Puts(l, h, c)
  BY DEF PutLast
<1>2. j \in 1 .. (k + 1) - 1
  OBVIOUS
<1>3. \A h \in j + 1 .. (k + 1) - 1 : ~Puts(l, h, c)
  BY <1>1
<1> QED  BY <1>1, <1>2, <1>3 DEF PutLast

LEMMA HandleTable ==
    ASSUME TransmitterOK, Handle PROVE TransmitterOK'
<1> DEFINE c == pub[done + 1]
<1>1. /\ done' = done + 1 /\ UNCHANGED <<pub, attached>> /\ attached
      /\ comp' = Configured(comp, c)
      /\ pub \in Seq(Capsules) /\ done \in Nat /\ done + 1 \in 1 .. Len(pub)
      /\ comp \in [Comps -> Entry]
  BY DEF Handle, TransmitterOK, CompTable
<1>2. CASE Puts(pub, done + 1, c.comp)
  <2>1. /\ c.comp \in Comps /\ c.act \in Entry
        /\ comp' = [comp EXCEPT ![c.comp] = c.act]
    BY <1>1, <1>2 DEF Puts, Configured, ConfigAccepted, Entry
  <2>2. PutLast(pub, done + 1 + 1, c.comp, c.act)
    <3>1. done + 1 \in 1 .. (done + 1 + 1) - 1
      BY <1>1
    <3>2. \A h \in done + 1 + 1 .. (done + 1 + 1) - 1 : FALSE
      BY <1>1
    <3> QED  BY <1>2, <3>1, <3>2 DEF PutLast
  <2>3. ASSUME NEW d \in Comps, comp'[d] # NoEntry
        PROVE  PutLast(pub, done + 1 + 1, d, comp'[d])
    <3>1. CASE d = c.comp
      <4>1. comp'[d] = c.act
        BY <1>1, <2>1, <3>1
      <4> QED  BY <2>2, <3>1, <4>1
    <3>2. CASE d # c.comp
      <4>1. comp'[d] = comp[d]
        BY <1>1, <2>1, <3>2
      <4>2. PutLast(pub, done + 1, d, comp[d])
        BY <2>3, <4>1 DEF TransmitterOK
      <4>3. done + 1 \in Nat \ {0} /\ ~Puts(pub, done + 1, d)
        BY <1>1, <3>2 DEF Puts
      <4> QED  BY <4>1, <4>2, <4>3, PutLastKept
    <3> QED  BY <3>1, <3>2
  <2>4. comp' \in CompTable
    BY <1>1, <2>1 DEF CompTable
  <2> QED  BY <1>1, <2>3, <2>4 DEF TransmitterOK
<1>3. CASE ~Puts(pub, done + 1, c.comp)
  <2>1. comp' = comp
    BY <1>1, <1>3 DEF Puts, Configured
  <2>2. ASSUME NEW d \in Comps, comp[d] # NoEntry
        PROVE  PutLast(pub, done + 1 + 1, d, comp[d])
    <3>1. PutLast(pub, done + 1, d, comp[d])
      BY <2>2 DEF TransmitterOK
    <3>2. done + 1 \in Nat \ {0} /\ ~Puts(pub, done + 1, d)
      BY <1>1, <1>3 DEF Puts
    <3> QED  BY <3>1, <3>2, PutLastKept
  <2> QED  BY <1>1, <2>1, <2>2 DEF TransmitterOK
<1> QED  BY <1>2, <1>3

\* A packet per element of a finite set is finitely many packets.
LEMMA TaggedFinite ==
    ASSUME NEW S, IsFiniteSet(S), NEW tag
    PROVE  IsFiniteSet({<<tag, s>> : s \in S})
<1> DEFINE f == [s \in S |-> <<tag, s>>]
<1>1. f \in Surjection(S, {<<tag, s>> : s \in S})
  BY DEF Surjection
<1> QED  BY <1>1, FS_Surjection

\* What one capsule sends is about finitely many actions and slots.
LEMMA SendsFinite ==
    ASSUME NEW t \in CompTable, NEW c \in Capsules
    PROVE  /\ IsFiniteSet(Sends(t, c))
           /\ \A s \in Sends(t, c) : /\ s[1] \in {"FIRE", "ADVANCE"}
                                     /\ s[2] \in Mapped \cup Slots
<1>1. CASE c.typ = "PULSE" /\ Active(t, c)
  <2>1. Sends(t, c) = {<<"FIRE", t[c.comp]>>} /\ t[c.comp] \in Mapped
    BY <1>1 DEF Sends, Active, CompTable, Entry
  <2>2. IsFiniteSet({<<"FIRE", t[c.comp]>>})
    BY FS_Singleton
  <2> QED  BY <2>1, <2>2
<1>2. CASE c.typ = "EVENT"
  <2> DEFINE A == AdvanceSlots(c.ev)
             B == EventActions(c.ev)
  <2>1. A \subseteq Slots /\ B \subseteq Mapped
    BY StreamAssumption, ProtocolAssumption
       DEF AdvanceSlots, EventActions, CapsuleShape
  <2>2. IsFiniteSet(A) /\ IsFiniteSet(B)
    BY <2>1, ProtocolAssumption, FS_Subset
  <2>3. Sends(t, c) = {<<"ADVANCE", s>> : s \in A} \cup {<<"FIRE", a>> : a \in B}
    BY <1>2 DEF Sends
  <2> HIDE DEF A, B
  <2>4. /\ IsFiniteSet({<<"ADVANCE", s>> : s \in A})
        /\ IsFiniteSet({<<"FIRE", a>> : a \in B})
    BY <2>2, TaggedFinite
  <2>5. IsFiniteSet(Sends(t, c))
    BY <2>3, <2>4, FS_Union
  <2>6. \A s \in Sends(t, c) : /\ s[1] \in {"FIRE", "ADVANCE"}
                               /\ s[2] \in Mapped \cup Slots
    BY <2>1, <2>3
  <2> QED  BY <2>5, <2>6
<1>3. CASE c.typ # "EVENT" /\ ~(c.typ = "PULSE" /\ Active(t, c))
  <2>1. Sends(t, c) = {}
    BY <1>3 DEF Sends
  <2> QED  BY <2>1, FS_EmptySet
<1> QED  BY <1>1, <1>2, <1>3

\* The packets of the capsule that is handled.
LEMMA HandlePackets ==
    ASSUME TransmitterOK, Handle
    PROVE  /\ IsFiniteSet(out')
           /\ \A p \in out' : /\ p \in Packet /\ p.cap = done + 1
                              /\ Past(pub, done + 1, p)
<1> DEFINE c == pub[done + 1]
<1>1. /\ done' = done + 1 /\ done \in Nat /\ done + 1 \in 1 .. Len(pub)
      /\ pub \in Seq(Capsules) /\ comp \in CompTable
  BY DEF Handle, TransmitterOK
<1>2. c \in Capsules
  BY <1>1, ElementOfSeq
<1> DEFINE S == Sends(comp, c)
<1>3. PICK ok \in [S -> BOOLEAN] :
         out' = {StreamPacket(s, done + 1, ok[s]) : s \in S}
  BY <1>1 DEF Handle
<1>4. /\ IsFiniteSet(S)
      /\ \A s \in S : s[1] \in {"FIRE", "ADVANCE"} /\ s[2] \in Mapped \cup Slots
  BY <1>1, <1>2, SendsFinite
<1>5. IsFiniteSet(out')
  <2> DEFINE f == [s \in S |-> StreamPacket(s, done + 1, ok[s])]
  <2>1. f \in Surjection(S, out')
    BY <1>3 DEF Surjection
  <2> HIDE DEF f, S
  <2> QED  BY <1>4, <2>1, FS_Surjection
<1>6. ASSUME NEW p \in out'
      PROVE  p \in Packet /\ p.cap = done + 1 /\ Past(pub, done + 1, p)
  <2>1. PICK s \in S : p = StreamPacket(s, done + 1, ok[s])
    BY <1>3
  <2>2. p \in Packet /\ p.cap = done + 1 /\ p.what = s[2]
    BY <1>1, <1>3, <1>4, <2>1 DEF StreamPacket, Packet
  <2>3. Meant(pub, p)
    <3>1. CASE c.typ = "PULSE"
      <4>1. Active(comp, c) /\ s = <<"FIRE", comp[c.comp]>>
        BY <3>1 DEF Sends
      <4>2. PutLast(pub, done + 1, c.comp, p.what)
        BY <2>2, <4>1 DEF TransmitterOK, Active
      <4> QED  BY <2>2, <3>1, <4>2 DEF Meant
    <3>2. CASE c.typ = "EVENT"
      <4>1. p.what \in EventActions(c.ev) \/ p.what \in AdvanceSlots(c.ev)
        BY <2>2, <3>2 DEF Sends
      <4> QED  BY <2>2, <3>2, <4>1 DEF Meant
    <3>3. CASE c.typ \notin {"PULSE", "EVENT"}
      BY <3>3 DEF Sends
    <3> QED  BY <3>1, <3>2, <3>3
  <2> QED  BY <1>1, <2>2, <2>3 DEF Past
<1> QED  BY <1>5, <1>6

\* They enter the link behind those of earlier capsules.
LEMMA TransmitOK ==
    TransmitterOK /\ PacketsOK /\ Transmit => TransmitterOK' /\ PacketsOK'
<1> SUFFICES ASSUME TransmitterOK, PacketsOK, Transmit
             PROVE  TransmitterOK' /\ PacketsOK'
  OBVIOUS
<1>1. Handle /\ UNCHANGED <<taken, event>>
  BY DEF Transmit, vars, sidecar
<1>2. TransmitterOK'
  BY <1>1, HandleTable
<1>3. /\ done' = done + 1 /\ pub' = pub /\ done \in Nat
  BY <1>1 DEF Handle, TransmitterOK
<1> DEFINE sent == {p \in out' : p.ok}
<1>4. PICK s \in SetToSeqs(sent) : link' = link \o s
  BY DEF Transmit
<1>5. IsFiniteSet(sent) /\ sent \subseteq Packet
  <2>1. IsFiniteSet(out') /\ sent \in SUBSET out' /\ sent \subseteq Packet
    BY <1>1, HandlePackets
  <2> QED  BY <2>1, FS_Subset
<1>6. \A p \in sent : p.cap = done + 1 /\ Past(pub, done + 1, p)
  BY <1>1, HandlePackets
<1> HIDE DEF sent
<1>7. s \in Seq(Packet) /\ \A i \in 1 .. Len(s) : s[i] \in sent
  <2>1. Cardinality(sent) \in Nat /\ s \in [1 .. Cardinality(sent) -> sent]
    BY <1>5, FS_CardinalityType DEF SetToSeqs
  <2>2. s \in Seq(sent)
    BY <2>1
  <2> QED  BY <1>5, <2>2, SeqMonotonic, ElementOfSeq
<1>8. /\ link' \in Seq(Packet) /\ Len(link') = Len(link) + Len(s)
      /\ Len(link) \in Nat /\ Len(s) \in Nat
      /\ \A i \in 1 .. Len(link') :
            link'[i] = IF i <= Len(link) THEN link[i] ELSE s[i - Len(link)]
  BY <1>4, <1>7, ConcatProperties, LenProperties DEF PacketsOK
<1>9. \A i \in 1 .. Len(link') :
         \/ i <= Len(link) /\ link'[i] = link[i]
         \/ /\ i > Len(link)
            /\ link'[i].cap = done + 1 /\ Past(pub, done + 1, link'[i])
  BY <1>6, <1>7, <1>8
<1>10. /\ \A i \in 1 .. Len(link) :
             link[i].cap \in 1 .. done /\ Past(pub, done + 1, link[i])
       /\ \A i \in 1 .. Len(taken) :
             taken[i].cap \in 1 .. done /\ Past(pub, done + 1, taken[i])
  BY <1>3, PastLater DEF PacketsOK, Past
<1>11. \A i \in 1 .. Len(link') : Past(pub, done + 1, link'[i])
  BY <1>8, <1>9, <1>10
<1>12. \A i, j \in 1 .. Len(link') : i < j => link'[i].cap <= link'[j].cap
  <2> SUFFICES ASSUME NEW i \in 1 .. Len(link'), NEW j \in 1 .. Len(link'),
                      i < j
               PROVE  link'[i].cap <= link'[j].cap
    OBVIOUS
  <2>1. CASE j <= Len(link)
    <3>1. /\ i \in 1 .. Len(link) /\ j \in 1 .. Len(link)
          /\ link'[i] = link[i] /\ link'[j] = link[j]
      BY <1>8, <2>1
    <3> QED  BY <3>1 DEF PacketsOK
  <2>2. CASE j > Len(link)
    <3>1. link'[j].cap = done + 1
      BY <1>8, <1>9, <2>2
    <3>2. link'[i].cap \in 1 .. done + 1
      BY <1>11 DEF Past
    <3> QED  BY <1>3, <3>1, <3>2
  <2> QED  BY <1>8, <2>1, <2>2
<1>13. \A i \in 1 .. Len(taken), j \in 1 .. Len(link') :
          taken[i].cap <= link'[j].cap
  <2> SUFFICES ASSUME NEW i \in 1 .. Len(taken), NEW j \in 1 .. Len(link')
               PROVE  taken[i].cap <= link'[j].cap
    OBVIOUS
  <2>1. CASE j <= Len(link)
    BY <1>8, <2>1 DEF PacketsOK
  <2>2. CASE j > Len(link)
    <3>1. link'[j].cap = done + 1
      BY <1>8, <1>9, <2>2
    <3> QED  BY <1>3, <1>10, <3>1
  <2> QED  BY <1>8, <2>1, <2>2
<1>14. PacketsOK'
  BY <1>1, <1>3, <1>8, <1>10, <1>11, <1>12, <1>13 DEF PacketsOK
<1> QED  BY <1>2, <1>14

-----------------------------------------------------------------------------
(* The link and the slot.                                                  *)

\* Nothing but the slot moves, or the reader.
LEMMA QuietOK ==
    ASSUME TransmitterOK, PacketsOK,
           UNCHANGED <<pub, done, comp, link, taken, event>>,
           attached' = attached
    PROVE  TransmitterOK' /\ PacketsOK'
BY DEF TransmitterOK, PacketsOK

LEMMA AttachOK ==
    TransmitterOK /\ PacketsOK /\ TransmitterAttaches
      => TransmitterOK' /\ PacketsOK'
<1> SUFFICES ASSUME TransmitterOK, PacketsOK, TransmitterAttaches
             PROVE  TransmitterOK' /\ PacketsOK'
  OBVIOUS
<1>1. /\ ~attached /\ attached' = TRUE /\ done' = Len(pub)
      /\ UNCHANGED <<pub, comp, link, taken, event>>
      /\ Len(pub) \in Nat /\ done \in 0 .. Len(pub)
  BY DEF TransmitterAttaches, Attach, vars, sidecar, TransmitterOK
<1>2. \A c \in Comps : comp[c] = NoEntry
  BY <1>1 DEF TransmitterOK
<1>3. TransmitterOK'
  BY <1>1, <1>2 DEF TransmitterOK
<1>4. \A p : Past(pub, done, p) => Past(pub, done', p)
  BY <1>1 DEF Past
<1>5. PacketsOK'
  BY <1>1, <1>4 DEF PacketsOK
<1> QED  BY <1>3, <1>5

\* The tail of the link.
LEMMA LinkTail ==
    ASSUME PacketsOK, link # <<>>, link' = Tail(link)
    PROVE  /\ link' \in Seq(Packet) /\ Head(link) = link[1]
           /\ Len(link) \in Nat /\ 1 \in 1 .. Len(link)
           /\ \A i \in 1 .. Len(link') : /\ i + 1 \in 1 .. Len(link)
                                         /\ link'[i] = link[i + 1]
           /\ \A i, j \in 1 .. Len(link') :
                 i < j => link'[i].cap <= link'[j].cap
<1>1. link \in Seq(Packet) /\ Len(link) \in Nat /\ Len(link) # 0
  BY EmptySeq, LenProperties DEF PacketsOK
<1>2. /\ link' \in Seq(Packet) /\ Len(link') = Len(link) - 1
      /\ \A i \in 1 .. Len(link') : link'[i] = link[i + 1]
  BY <1>1, HeadTailProperties
<1>3. ASSUME NEW i \in 1 .. Len(link'), NEW j \in 1 .. Len(link'), i < j
      PROVE  link'[i].cap <= link'[j].cap
  <2>1. i + 1 \in 1 .. Len(link) /\ j + 1 \in 1 .. Len(link) /\ i + 1 < j + 1
    BY <1>1, <1>2, <1>3
  <2>2. link[i + 1].cap <= link[j + 1].cap
    BY <2>1 DEF PacketsOK
  <2> QED  BY <1>2, <2>2
<1> QED  BY <1>1, <1>2, <1>3

LEMMA LoseOK ==
    TransmitterOK /\ PacketsOK /\ Lose => TransmitterOK' /\ PacketsOK'
<1> SUFFICES ASSUME TransmitterOK, PacketsOK, Lose
             PROVE  TransmitterOK' /\ PacketsOK'
  OBVIOUS
<1>1. /\ UNCHANGED <<pub, attached, done, comp, taken, event>>
      /\ link # <<>> /\ link' = Tail(link)
  BY DEF Lose, streamVars, vars, sidecar
<1>2. /\ link' \in Seq(Packet) /\ Len(link) \in Nat
      /\ \A i \in 1 .. Len(link') : /\ i + 1 \in 1 .. Len(link)
                                    /\ link'[i] = link[i + 1]
  BY <1>1, LinkTail
<1>3. TransmitterOK'
  BY <1>1 DEF TransmitterOK
<1>4. \A i, j \in 1 .. Len(link') : i < j => link'[i].cap <= link'[j].cap
  BY <1>1, LinkTail
<1>5. PacketsOK'
  BY <1>1, <1>2, <1>4 DEF PacketsOK
<1> QED  BY <1>3, <1>5

LEMMA ReceiveOK ==
    TransmitterOK /\ PacketsOK /\ Receive => TransmitterOK' /\ PacketsOK'
<1> SUFFICES ASSUME TransmitterOK, PacketsOK, Receive
             PROVE  TransmitterOK' /\ PacketsOK'
  OBVIOUS
<1>1. /\ UNCHANGED <<pub, attached, done, comp>> /\ event' = event + 1
      /\ link # <<>> /\ link' = Tail(link)
      /\ taken' = Append(taken, Head(link))
  BY DEF Receive, WriteLow, streamVars
<1>2. /\ link' \in Seq(Packet) /\ Len(link) \in Nat /\ 1 \in 1 .. Len(link)
      /\ Head(link) = link[1] /\ link[1] \in Packet
      /\ \A i \in 1 .. Len(link') : /\ i + 1 \in 1 .. Len(link)
                                    /\ link'[i] = link[i + 1]
  BY <1>1, LinkTail, ElementOfSeq DEF PacketsOK
<1>3. /\ taken' \in Seq(Packet) /\ Len(taken') = Len(taken) + 1
      /\ Len(taken) \in Nat
      /\ \A i \in 1 .. Len(taken) : taken'[i] = taken[i]
      /\ taken'[Len(taken) + 1] = link[1]
  BY <1>1, <1>2, AppendProperties, LenProperties DEF PacketsOK
<1>4. \A i \in 1 .. Len(taken') :
         \/ i \in 1 .. Len(taken) /\ taken'[i] = taken[i]
         \/ i = Len(taken) + 1 /\ taken'[i] = link[1]
  BY <1>3
<1>5. TransmitterOK'
  BY <1>1 DEF TransmitterOK
<1>6. \A i, j \in 1 .. Len(link') : i < j => link'[i].cap <= link'[j].cap
  BY <1>1, LinkTail
<1>7. \A i, j \in 1 .. Len(taken') : i < j => taken'[i].cap <= taken'[j].cap
  <2> SUFFICES ASSUME NEW i \in 1 .. Len(taken'), NEW j \in 1 .. Len(taken'),
                      i < j
               PROVE  taken'[i].cap <= taken'[j].cap
    OBVIOUS
  <2>1. i \in 1 .. Len(taken) /\ taken'[i] = taken[i]
    BY <1>3, <1>4
  <2> QED  BY <1>2, <1>4, <2>1 DEF PacketsOK
<1>8. \A i \in 1 .. Len(taken'), j \in 1 .. Len(link') :
         taken'[i].cap <= link'[j].cap
  <2> SUFFICES ASSUME NEW i \in 1 .. Len(taken'), NEW j \in 1 .. Len(link')
               PROVE  taken'[i].cap <= link'[j].cap
    OBVIOUS
  <2>1. j + 1 \in 1 .. Len(link) /\ link'[j] = link[j + 1] /\ 1 < j + 1
    BY <1>2
  <2> QED  BY <1>2, <1>4, <2>1 DEF PacketsOK
<1>9. /\ \A i \in 1 .. Len(link') : Past(pub, done, link'[i])
      /\ \A i \in 1 .. Len(taken') : Past(pub, done, taken'[i])
  BY <1>2, <1>4 DEF PacketsOK
<1>10. Len(taken') = event'
  BY <1>1, <1>3 DEF PacketsOK
<1>11. PacketsOK'
  BY <1>1, <1>2, <1>3, <1>6, <1>7, <1>8, <1>9, <1>10 DEF PacketsOK
<1> QED  BY <1>5, <1>11

LEMMA InitSidecar == SidecarInit => SidecarInv
<1> SUFFICES ASSUME SidecarInit PROVE SidecarInv
  OBVIOUS
<1>1. SlotInv
  BY InitSlot DEF SidecarInit
<1>2. pub = <<>> /\ link = <<>> /\ taken = <<>> /\ event = 0 /\ done = 0
  BY DEF SidecarInit, StreamInit, Init
<1>3. comp \in CompTable /\ \A c \in Comps : comp[c] = NoEntry
  BY DEF SidecarInit, StreamInit, CompTable, Entry
<1>4. TransmitterOK
  BY <1>2, <1>3 DEF TransmitterOK
<1>5. PacketsOK
  BY <1>2 DEF PacketsOK
<1> QED  BY <1>1, <1>4, <1>5 DEF SidecarInv

LEMMA NextSidecar ==
    SidecarInv /\ [SidecarNext]_sidecarVars => SidecarInv'
<1> SUFFICES ASSUME SidecarInv, [SidecarNext]_sidecarVars PROVE SidecarInv'
  OBVIOUS
<1>1. SlotInv'
  BY SlotStep, NextSlot DEF SidecarInv
<1>2. TransmitterOK /\ PacketsOK
  BY DEF SidecarInv
<1>3. CASE \/ EndPush \/ ReceiverRestarts \/ FesaReads
           \/ UNCHANGED sidecarVars
  <2>1. UNCHANGED <<pub, attached, done, comp, link, taken, event>>
    BY <1>3 DEF EndPush, WriteHigh, StoreSeq, ReceiverRestarts, Restart,
                FesaReads, Read, LoadSeq, ReadLow, ReadHigh, Check,
                sidecarVars, streamVars, vars, sidecar
  <2>2. TransmitterOK' /\ PacketsOK'
    BY <1>2, <2>1, QuietOK
  <2> QED  BY <1>1, <2>2 DEF SidecarInv
<1>4. CASE \/ FirmwarePublishes \/ TransmitterAttaches \/ Transmit
           \/ Lose \/ Receive
  BY <1>1, <1>2, <1>4, PublishOK, AttachOK, TransmitOK, LoseOK, ReceiveOK
     DEF SidecarInv
<1> QED  BY <1>3, <1>4 DEF SidecarNext

-----------------------------------------------------------------------------
(* The theorems.                                                           *)

LEMMA PutLastAccepted ==
    ASSUME TransmitterOK, NEW k \in 1 .. Len(pub), NEW a,
           PutLast(pub, k, pub[k].comp, a)
    PROVE  a = LastAccepted(k)
<1> DEFINE c == pub[k].comp
           before == {j \in 1 .. k - 1 : /\ pub[j].typ = "CONFIG"
                                         /\ ConfigAccepted(pub[j])
                                         /\ pub[j].comp = c}
           newest == CHOOSE j \in before : \A h \in before : h <= j
<1>1. Len(pub) \in Nat
  BY DEF TransmitterOK
<1>2. PICK j \in 1 .. k - 1 : /\ Puts(pub, j, c) /\ pub[j].act = a
                              /\ \A h \in j + 1 .. k - 1 : ~Puts(pub, h, c)
  BY DEF PutLast
<1>3. j \in before /\ \A h \in before : h <= j
  BY <1>1, <1>2 DEF Puts
<1>4. newest \in before /\ \A h \in before : h <= newest
  BY <1>3
<1>5. newest = j
  <2>1. newest \in 1 .. k - 1 /\ j \in 1 .. k - 1 /\ newest <= j /\ j <= newest
    BY <1>3, <1>4
  <2> HIDE DEF newest
  <2> QED  BY <1>1, <2>1
<1>6. LastAccepted(k) = pub[newest].act
  BY DEF LastAccepted
<1> QED  BY <1>2, <1>5, <1>6

\* What FESA took whole is one of the packets taken.
LEMMA GotTaken ==
    SidecarInv => got.lo \in Nat /\ got.lo <= Len(taken) /\ Len(taken) \in Nat
BY SlotAssumption
   DEF SidecarInv, SlotInv, TypeOK, ReaderOK, PacketsOK, Event

LEMMA InvShown == SidecarInv => ShownAsMeant
<1> SUFFICES ASSUME SidecarInv, Whole(got)
             PROVE  LET p == taken[got.lo]
                        c == pub[p.cap]
                    IN  CASE c.typ = "PULSE" -> p.what = LastAccepted(p.cap)
                          [] c.typ = "EVENT" -> \/ p.what \in EventActions(c.ev)
                                                \/ p.what \in AdvanceSlots(c.ev)
                          [] OTHER -> FALSE
  BY DEF ShownAsMeant
<1> DEFINE p == taken[got.lo]
<1>1. got.lo \in 1 .. Len(taken)
  BY GotTaken DEF Whole
<1>2. Past(pub, done, p)
  BY <1>1 DEF SidecarInv, PacketsOK
<1>3. p.cap \in 1 .. Len(pub)
  BY <1>2 DEF SidecarInv, TransmitterOK, Past
<1>4. pub[p.cap].typ = "PULSE" => p.what = LastAccepted(p.cap)
  BY <1>2, <1>3, PutLastAccepted DEF Past, Meant, SidecarInv
<1> QED  BY <1>2, <1>4 DEF Past, Meant

\* An event that FESA takes whole is about the action that the firmware
\* meant: the link may lose packets, the receiver may restart, and either
\* build may drop a CONFIG.
THEOREM AsMeant == SidecarSpec => []ShownAsMeant
BY InitSidecar, NextSidecar, InvShown, PTL DEF SidecarSpec

LEMMA OrderStep ==
    SidecarInv /\ SidecarInv' /\ [SidecarNext]_sidecarVars
      => [got' # got /\ Whole(got) /\ Whole(got')
            => taken'[got'.lo].cap >= taken[got.lo].cap]_sidecarVars
<1> SUFFICES ASSUME SidecarInv, SidecarInv', [SidecarNext]_sidecarVars,
                    got' # got, Whole(got), Whole(got')
             PROVE  taken'[got'.lo].cap >= taken[got.lo].cap
  OBVIOUS
<1>1. Check /\ taken' = taken
  BY DEF SidecarNext, FirmwarePublishes, TransmitterAttaches, Transmit, Lose,
         Receive, EndPush, ReceiverRestarts, FesaReads, sidecarVars, Read,
         WriteLow, WriteHigh, StoreSeq, Restart, LoadSeq, ReadLow, ReadHigh,
         vars, consumer
<1>2. got' = copy /\ got.lo <= copy.lo
  BY <1>1 DEF Check, SidecarInv, SlotInv, ReaderOK
<1>3. got.lo \in 1 .. Len(taken) /\ got'.lo \in 1 .. Len(taken)
  <2>1. /\ copy.lo \in Nat /\ event \in Nat /\ copy.lo <= event
        /\ Len(taken) = event
    BY SlotAssumption
       DEF SidecarInv, SlotInv, TypeOK, ReaderOK, PacketsOK, Event
  <2> QED  BY <1>2, <2>1, GotTaken DEF Whole
<1>4. \A i \in 1 .. Len(taken) : taken[i].cap \in Nat
  BY DEF SidecarInv, PacketsOK, Past
<1>5. CASE got.lo = got'.lo
  BY <1>1, <1>3, <1>4, <1>5
<1>6. CASE got.lo < got'.lo
  <2>1. taken[got.lo].cap <= taken[got'.lo].cap
    BY <1>3, <1>6 DEF SidecarInv, PacketsOK
  <2> QED  BY <1>1, <1>3, <1>4, <2>1
<1> QED  BY <1>2, <1>3, <1>5, <1>6

\* Whatever is lost and restarted, FESA is never taken back to an earlier
\* capsule.
THEOREM InCapsuleOrder == SidecarSpec => ShownInOrder
BY InitSidecar, NextSidecar, OrderStep, PTL DEF SidecarSpec, ShownInOrder
=============================================================================
