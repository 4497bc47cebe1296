--------------------- MODULE WRENCTIMConfiguratorProofs ---------------------
(***************************************************************************)
(* The start and the end of the transmitter: with a firmware that answers  *)
(* in time the mailbox is synchronous, the action map is the firmware's    *)
(* and the destructor leaves nothing behind; for any number of targets and *)
(* any size of the tables.                                                 *)
(***************************************************************************)
EXTENDS WRENCTIMConfigurator, SequenceTheorems, FiniteSetTheorems, TLAPS

-----------------------------------------------------------------------------
(* Types.                                                                  *)

Settings == {OldSetting[a] : a \in Acts} \cup {CondSetting}
Infos    == [channel : 0 .. 255, offset : [ms : Nat, ns : Nat]]
Request  == Commands \X [1 .. 2 -> Word]
ReadEv   == Events \cup {NoEvent, WidthEvent}
MapEntry == [act : Nat, ev : ReadEv, info : Infos]
Index    == Acts \cup Conds \cup {None}

\* The registers hold words, and a command by the time they are ready.
RegisterType ==
    /\ h2b \in [data : [1 .. 2 -> Word], cmd : Commands \cup {None},
                ready : BOOLEAN]
    /\ h2b.ready \/ mb = "csr" => h2b.cmd \in Commands
    /\ fw \in Request \cup {None}
    /\ b2h \in [of : Request \cup {None}, ok : BOOLEAN, cond : Index,
                ev : ReadEv, set : Settings, ready : BOOLEAN]
    /\ reply \in [of : Request \cup {None}, ok : BOOLEAN, cond : Index,
                  ev : ReadEv, set : Settings]

TableType ==
    /\ conds \in [Conds -> Events \cup {None}]
    /\ acts \in [Acts -> Conds \cup {None}]

HostType ==
    /\ mb \in {"data", "more", "cmd", "csr", "wait", "ack", "returned"}
    /\ step \in Commands \cup {"LOOP", "EXIT"}
    /\ step \in {"LOOP", "EXIT"} => mb = "data"
    /\ mb = "more" => Len(Words) = 2
    /\ i \in Counter
    /\ condIdx \in Index
    /\ info \in Infos
    /\ map \in Seq(MapEntry)
    /\ step \in SetupSteps => map = <<>>
    /\ step \in ScanSteps => Len(map) <= i
    /\ Len(map) <= ScanSize + NTargets
    /\ kills \in 0 .. MaxKills

TypeInv == RegisterType /\ TableType /\ HostType

-----------------------------------------------------------------------------
(* The synchronous mailbox.                                                *)

\* The command of the step, with its data words.
DataIs(d) == \A j \in 1 .. Len(Words) : d[j] = Words[j]
Asks(c)   == c[1] = step /\ DataIs(c[2])

\* The answer to a query says what the tables hold.
Tells(r) ==
    /\ step = "GET_ACTION" =>
          IF acts[i] # None
          THEN r.ok /\ r.cond = acts[i] /\ r.set = OldSetting[i]
          ELSE ~r.ok
    /\ step = "GET_COND" =>
          IF condIdx \in Conds /\ conds[condIdx] # None
          THEN r.ok /\ r.ev = conds[condIdx] ELSE ~r.ok

Idle == ~h2b.ready /\ fw = None /\ ~b2h.ready

\* Whose turn it is.
MailboxOK ==
    /\ mb \in {"data", "more", "cmd", "csr", "returned"} => Idle
    /\ mb = "more" => h2b.data[1] = Words[1]
    /\ mb \in {"cmd", "csr", "wait"} => DataIs(h2b.data)
    /\ mb \in {"csr", "wait"} => h2b.cmd = step
    /\ mb = "wait" =>
          \/ h2b.ready /\ fw = None /\ ~b2h.ready
          \/ ~h2b.ready /\ fw # None /\ Asks(fw) /\ ~b2h.ready
          \/ /\ ~h2b.ready /\ fw = None /\ b2h.ready
             /\ b2h.of # None /\ Asks(b2h.of) /\ Tells(b2h)
    /\ mb = "ack" => ~h2b.ready /\ fw = None
    /\ mb \in {"ack", "returned"} =>
          reply.of # None /\ Asks(reply.of) /\ Tells(reply)

-----------------------------------------------------------------------------
(* The map.                                                                *)

EventIn(cs, c) == IF cs[c] = None THEN NoEvent ELSE cs[c]

\* m lists the actions below n of the table as, in order.
Lists(m, n, as, cs) ==
    /\ \A k \in 1 .. Len(m) :
          /\ m[k].act \in 0 .. n - 1
          /\ as[m[k].act] # None
          /\ m[k].ev = EventIn(cs, as[m[k].act])
          /\ m[k].info = InfoOf(OldSetting[m[k].act])
    /\ \A a \in 0 .. n - 1 : as[a] # None => \E k \in 1 .. Len(m) : m[k].act = a
    /\ \A k, l \in 1 .. Len(m) : l < k => m[l].act < m[k].act

MapOK ==
    /\ step \in ScanSteps => Lists(map, i, acts, conds)
    /\ step = "GET_COND" => /\ acts[i] # None /\ condIdx = acts[i]
                            /\ info = InfoOf(OldSetting[i])
    /\ step = "LOOP" => \E m \in Seq(MapEntry) :
                           Lists(m, ScanSize, acts, conds) /\ map = m \o CtimEntries

-----------------------------------------------------------------------------
(* The tables.                                                             *)

Answered == mb \in {"ack", "returned"} \/ (mb = "wait" /\ b2h.ready)

ActionGone(t)    == Refused(t) \/ acts[CtimAct(t)] = None
ConditionGone(t) == Refused(t) \/ conds[CtimCond(t)] = None
Gone(t)          == ActionGone(t) /\ ConditionGone(t)

\* The firmware starts with nothing at the indices of the targets.
Fresh == /\ \A t \in Targets : /\ OldActs[CtimAct(t)] = None
                               /\ OldConds[CtimCond(t)] = None
         /\ \A a \in Acts, t \in Targets : OldActs[a] # CtimCond(t)

CleanOK ==
    /\ step = "DEL_ACTION" /\ Answered => ActionGone(i)
    /\ step = "DEL_COND" => ActionGone(i)
    /\ step = "DEL_COND" /\ Answered => ConditionGone(i)
    /\ step \in CleanupSteps => \A t \in 0 .. i - 1 : Gone(t)
    /\ step = "EXIT" => \A t \in Targets : Gone(t)

TablesOK ==
    /\ OthersUntouched
    /\ \A a \in Acts, t \in Targets : acts[a] = CtimCond(t) => a = CtimAct(t)

-----------------------------------------------------------------------------
(* The constants.                                                          *)

LEMMA Constants ==
    /\ NTargets \in Nat /\ ScanSize \in Nat /\ ScanSize >= 1
    /\ MaxActs \in Nat /\ MaxConds \in Nat /\ ScanSize <= MaxActs
    /\ MaxKills \in Nat
    /\ None \notin Request
BY MailboxAssumption DEF Request

LEMMA TargetFacts ==
    ASSUME NEW t \in Targets
    PROVE  /\ t \in Nat /\ t < NTargets
           /\ TargetEvent[t] \in Events
           /\ CtimAct(t) \in Acts /\ CtimAct(t) \in Nat
           /\ CtimCond(t) \in Conds /\ CtimCond(t) \in Nat
           /\ CtimAct(t) >= ScanSize
<1>1. /\ CtimCondBase \in Nat /\ CtimActBase \in Nat /\ CtimActBase >= ScanSize
      /\ ScanSize \in Nat /\ NTargets \in Nat
  BY MailboxAssumption, Constants
<1>2. t \in Nat /\ t < NTargets
  BY <1>1 DEF Targets
<1>3. /\ TargetEvent[t] \in Events /\ CtimAct(t) \in Acts
      /\ CtimCond(t) \in Conds
  BY MailboxAssumption
<1>4. CtimAct(t) \in Nat /\ CtimCond(t) \in Nat /\ CtimAct(t) >= ScanSize
  BY <1>1, <1>2 DEF CtimAct, CtimCond
<1> QED  BY <1>2, <1>3, <1>4

\* Targets have indices of their own.
LEMMA Apart ==
    ASSUME NEW t \in Targets, NEW u \in Targets, t # u
    PROVE  CtimAct(t) # CtimAct(u) /\ CtimCond(t) # CtimCond(u)
<1>1. CtimCondBase \in Nat /\ CtimActBase \in Nat
  BY MailboxAssumption
<1>2. t \in Nat /\ u \in Nat
  BY TargetFacts
<1> QED  BY <1>1, <1>2 DEF CtimAct, CtimCond

LEMMA InfoType == ASSUME NEW s \in Settings PROVE InfoOf(s) \in Infos
<1>1. IsSetting(s)
  BY MailboxAssumption DEF Settings
<1>2. (s.pulser + 1) % 256 \in 0 .. 255
  BY <1>1 DEF IsSetting
<1>3. s.idelay \in Nat
  BY <1>1 DEF IsSetting
<1>4. /\ s.idelay \div 10000 \in Nat /\ (s.idelay % 10000) * 100 \in Nat
  BY <1>3, SMT
<1>5. /\ s.idelay \div 1000000 \in Nat /\ s.idelay % 1000000 \in Nat
  BY <1>3, SMT
<1>6. OffsetOf(s) \in [ms : Nat, ns : Nat]
  <2>1. CASE s.clock = 23
    BY <1>3, <2>1, SMT DEF OffsetOf
  <2>2. CASE s.clock = 25
    BY <1>4, <2>2, SMT DEF OffsetOf
  <2>3. CASE s.clock # 23 /\ s.clock # 25
    BY <1>5, <2>3, SMT DEF OffsetOf
  <2> QED  BY <2>1, <2>2, <2>3
<1> QED  BY <1>2, <1>6 DEF InfoOf, Infos

LEMMA CtimEntriesType ==
    /\ CtimEntries \in Seq(MapEntry) /\ Len(CtimEntries) = NTargets
    /\ \A k \in 1 .. NTargets : /\ k - 1 \in Targets
                                /\ CtimEntries[k].act = CtimAct(k - 1)
<1> DEFINE E(k) == [act |-> CtimAct(k - 1), ev |-> TargetEvent[k - 1],
                    info |-> [channel |-> 255, offset  |-> [ms |-> 65535, ns |-> 0]]]
<1>1. ASSUME NEW k \in 1 .. NTargets
      PROVE  k - 1 \in Targets /\ E(k) \in MapEntry
  <2>1. k - 1 \in Targets
    BY Constants DEF Targets
  <2>2. CtimAct(k - 1) \in Nat /\ TargetEvent[k - 1] \in Events
    BY <2>1, TargetFacts
  <2>3. [channel |-> 255, offset  |-> [ms |-> 65535, ns |-> 0]] \in Infos
    BY SMT DEF Infos
  <2> QED  BY <2>1, <2>2, <2>3 DEF MapEntry, ReadEv
<1>2. CtimEntries = [k \in 1 .. NTargets |-> E(k)]
  BY DEF CtimEntries
<1>3. \A k \in 1 .. NTargets : E(k).act = CtimAct(k - 1)
  OBVIOUS
<1> HIDE DEF E
<1>4. CtimEntries \in [1 .. NTargets -> MapEntry]
  BY <1>1, <1>2
<1>5. CtimEntries \in Seq(MapEntry)
  BY <1>4, Constants, SeqDef
<1>6. Len(CtimEntries) = NTargets
  BY <1>4, <1>5, Constants, LenProperties
<1> QED  BY <1>1, <1>2, <1>3, <1>5, <1>6

LEMMA CounterIs ==
    /\ step \in SetupSteps \cup CleanupSteps => Counter = Targets
    /\ step \in ScanSteps => Counter = 0 .. ScanSize - 1
    /\ step \in {"LOOP", "EXIT"} => Counter = {0}
BY DEF Counter, SetupSteps, CleanupSteps, ScanSteps

\* The words of a command are one or two.
LEMMA WordsType ==
    ASSUME HostType, step \in Commands
    PROVE  /\ Len(Words) \in {1, 2}
           /\ \A j \in 1 .. Len(Words) : Words[j] \in Word
<1>1. CASE step \in SetupSteps \cup CleanupSteps
  <2>1. i \in Targets
    BY <1>1, CounterIs DEF HostType
  <2>2. /\ 0 \in Word /\ CtimAct(i) \in Word /\ CtimCond(i) \in Word
        /\ TargetEvent[i] \in Word
    BY <2>1, TargetFacts DEF Word
  <2> QED  BY <1>1, <2>2 DEF Words, SetupSteps, CleanupSteps
<1>2. CASE step \in ScanSteps
  <2>1. i \in Nat /\ condIdx \in Word
    BY <1>2, CounterIs, Constants DEF HostType, Index, Word, Acts, Conds
  <2> QED  BY <1>2, <2>1 DEF Words, ScanSteps, Word
<1> QED  BY <1>1, <1>2 DEF Commands

-----------------------------------------------------------------------------
(* Types are kept, by any firmware and by a process killed at any time.    *)

\* What the process does after a call, when nothing is killed.
AfterCall == \/ Subscribed \/ ConditionSet \/ ActionSet
             \/ GotAction \/ GotCondition \/ FirstDeleted \/ SecondDeleted

LEMMA NextCases ==
    [Next]_vars => \/ FwTake \/ FwChange \/ FwReject \/ FwQuery
                   \/ WriteData \/ WriteMore \/ WriteCommand \/ WriteReady
                   \/ ReadReply \/ Ack \/ Timeout \/ AfterCall \/ Stop \/ Kill
                   \/ UNCHANGED vars
BY DEF Next, Firmware, Process, MailboxCall, AfterCall

\* A call's end touches nothing but the host's own variables.
LEMMA AfterCallFacts ==
    AfterCall => /\ mb = "returned" /\ mb' = "data"
                 /\ UNCHANGED <<h2b, b2h, firmware, reply, kills>>
BY DEF AfterCall, Subscribed, ConditionSet, ActionSet, GotAction,
       GotCondition, FirstDeleted, SecondDeleted, Returned

LEMMA AnswerType ==
    ASSUME TypeInv, fw # None, NEW ok \in BOOLEAN, NEW c \in Index,
           NEW e \in ReadEv, NEW s \in Settings, FwAnswer(ok, c, e, s)
    PROVE  RegisterType'
<1>1. fw \in Request
  BY DEF TypeInv, RegisterType
<1>2. b2h' = [of |-> fw, ok |-> ok, cond |-> c, ev |-> e, set |-> s,
              ready |-> TRUE]
  BY DEF FwAnswer
<1>3. b2h' \in [of : Request \cup {None}, ok : BOOLEAN, cond : Index,
                ev : ReadEv, set : Settings, ready : BOOLEAN]
  BY <1>1, <1>2
<1>4. fw' = None /\ UNCHANGED <<h2b, mb, reply>>
  BY DEF FwAnswer
<1> QED  BY <1>3, <1>4 DEF TypeInv, RegisterType

LEMMA RegisterStep ==
    ASSUME TypeInv, [Next]_vars PROVE RegisterType'
<1>0. RegisterType /\ TableType /\ HostType
  BY DEF TypeInv
<1>1. CASE FwTake
  <2>1. /\ h2b' = [h2b EXCEPT !.ready = FALSE] /\ fw' = <<h2b.cmd, h2b.data>>
        /\ h2b.ready /\ UNCHANGED <<b2h, mb, reply>>
    BY <1>1 DEF FwTake
  <2>2. h2b.cmd \in Commands /\ h2b.data \in [1 .. 2 -> Word]
    BY <1>0, <2>1 DEF RegisterType
  <2>3. fw' \in Request
    BY <2>1, <2>2 DEF Request
  <2>4. /\ h2b' \in [data : [1 .. 2 -> Word], cmd : Commands \cup {None},
                     ready : BOOLEAN]
        /\ h2b'.cmd \in Commands
    BY <1>0, <2>1, <2>2 DEF RegisterType
  <2> QED  BY <1>0, <2>1, <2>3, <2>4 DEF RegisterType
<1>2. CASE FwChange \/ FwReject
  <2>1. PICK ok \in BOOLEAN : FwAnswer(ok, b2h.cond, b2h.ev, b2h.set)
    BY <1>2 DEF FwChange, FwReject
  <2>2. fw # None
    BY <1>2 DEF FwChange, FwReject
  <2>3. b2h.cond \in Index /\ b2h.ev \in ReadEv /\ b2h.set \in Settings
    BY <1>0 DEF RegisterType
  <2> QED  BY <2>1, <2>2, <2>3, AnswerType
<1>3. CASE FwQuery
  <2> DEFINE w == fw[2][1]
  <2>1. fw # None
    BY <1>3 DEF FwQuery
  <2>2. b2h.cond \in Index /\ b2h.ev \in ReadEv /\ b2h.set \in Settings
    BY <1>0 DEF RegisterType
  <2>3. CASE w \in Acts /\ FwAnswer(TRUE, acts[w], WidthEvent, OldSetting[w])
    <3>1. acts[w] \in Index /\ WidthEvent \in ReadEv /\ OldSetting[w] \in Settings
      BY <1>0, <2>3 DEF TableType, Index, ReadEv, Settings
    <3> QED  BY <2>1, <2>3, <3>1, AnswerType
  <2>4. CASE /\ w \in Conds /\ conds[w] # None
             /\ \E a \in {b \in Acts : acts[b] = w} \cup {None} :
                   FwAnswer(TRUE, a, conds[w], CondSetting)
    <3>1. PICK a \in Index : FwAnswer(TRUE, a, conds[w], CondSetting)
      BY <2>4 DEF Index
    <3>2. conds[w] \in ReadEv /\ CondSetting \in Settings
      BY <1>0, <2>4 DEF TableType, ReadEv, Settings
    <3> QED  BY <2>1, <3>1, <3>2, AnswerType
  <2>5. CASE FwAnswer(FALSE, b2h.cond, b2h.ev, b2h.set)
    BY <2>1, <2>2, <2>5, AnswerType
  <2> QED  BY <1>3, <2>3, <2>4, <2>5 DEF FwQuery
<1>4. CASE WriteData \/ WriteMore
  <2>1. PICK j \in 1 .. 2 :
           /\ h2b' = [h2b EXCEPT !.data[j] = Words[j]]
           /\ j <= Len(Words) /\ step \in Commands /\ UNCHANGED <<fw, b2h, reply>>
           /\ mb' \in {"cmd", "more"}
    <3>1. CASE WriteData
      <4>1. step \in Commands /\ Len(Words) \in {1, 2}
        BY <1>0, <3>1, WordsType DEF WriteData
      <4> QED  BY <3>1, <4>1 DEF WriteData, firmware
    <3>2. CASE WriteMore
      <4>1. mb = "more" /\ step \in Commands
        BY <1>0, <3>2 DEF WriteMore, HostType
      <4>2. Len(Words) = 2
        BY <1>0, <4>1 DEF HostType
      <4> QED  BY <3>2, <4>1, <4>2 DEF WriteMore, firmware
    <3> QED  BY <1>4, <3>1, <3>2
  <2>2. Words[j] \in Word
    BY <1>0, <2>1, WordsType
  <2>3. /\ h2b' \in [data : [1 .. 2 -> Word], cmd : Commands \cup {None},
                     ready : BOOLEAN]
        /\ h2b'.ready = h2b.ready /\ h2b'.cmd = h2b.cmd
    BY <1>0, <2>1, <2>2 DEF RegisterType
  <2> QED  BY <1>0, <2>1, <2>3 DEF RegisterType
<1>5. CASE WriteCommand
  <2>1. /\ h2b' = [h2b EXCEPT !.cmd = step] /\ UNCHANGED <<fw, b2h, reply>>
        /\ mb = "cmd" /\ mb' = "csr"
    BY <1>5 DEF WriteCommand, firmware
  <2>2. step \in Commands
    BY <1>0, <2>1 DEF HostType
  <2>3. /\ h2b' \in [data : [1 .. 2 -> Word], cmd : Commands \cup {None},
                     ready : BOOLEAN]
        /\ h2b'.cmd \in Commands
    BY <1>0, <2>1, <2>2 DEF RegisterType
  <2> QED  BY <1>0, <2>1, <2>3 DEF RegisterType
<1>6. CASE WriteReady
  <2>1. /\ h2b' = [h2b EXCEPT !.ready = TRUE] /\ UNCHANGED <<fw, b2h, reply>>
        /\ mb = "csr" /\ mb' = "wait"
    BY <1>6 DEF WriteReady, firmware
  <2>2. /\ h2b' \in [data : [1 .. 2 -> Word], cmd : Commands \cup {None},
                     ready : BOOLEAN]
        /\ h2b'.cmd \in Commands
    BY <1>0, <2>1 DEF RegisterType
  <2> QED  BY <1>0, <2>1, <2>2 DEF RegisterType
<1>7. CASE ReadReply
  <2>1. /\ reply' = [of |-> b2h.of, ok |-> b2h.ok, cond |-> b2h.cond,
                     ev |-> b2h.ev, set |-> b2h.set]
        /\ UNCHANGED <<h2b, b2h, fw>> /\ mb' = "ack"
    BY <1>7 DEF ReadReply, firmware
  <2>2. reply' \in [of : Request \cup {None}, ok : BOOLEAN, cond : Index,
                    ev : ReadEv, set : Settings]
    BY <1>0, <2>1 DEF RegisterType
  <2> QED  BY <1>0, <2>1, <2>2 DEF RegisterType
<1>8. CASE Ack
  <2>1. /\ b2h' = [b2h EXCEPT !.ready = FALSE] /\ UNCHANGED <<h2b, fw, reply>>
        /\ mb' = "returned"
    BY <1>8 DEF Ack, firmware
  <2>2. b2h' \in [of : Request \cup {None}, ok : BOOLEAN, cond : Index,
                  ev : ReadEv, set : Settings, ready : BOOLEAN]
    BY <1>0, <2>1 DEF RegisterType
  <2> QED  BY <1>0, <2>1, <2>2 DEF RegisterType
<1>9. CASE Timeout \/ Kill
  <2>1. /\ reply' = NoReply /\ UNCHANGED <<h2b, b2h, fw>>
        /\ mb' \in {"returned", "data"}
    BY <1>9 DEF Timeout, Kill, Start, firmware
  <2>2. NoReply \in [of : Request \cup {None}, ok : BOOLEAN, cond : Index,
                     ev : ReadEv, set : Settings]
    BY DEF NoReply, Index, ReadEv, Settings
  <2> QED  BY <1>0, <2>1, <2>2 DEF RegisterType
<1>10. CASE AfterCall \/ Stop \/ UNCHANGED vars
  <2>1. /\ UNCHANGED <<h2b, b2h, fw, reply>>
        /\ mb' \in {mb, "data"}
    BY <1>10, AfterCallFacts DEF Stop, vars, firmware
  <2> QED  BY <1>0, <2>1 DEF RegisterType
<1> QED  BY <1>1, <1>2, <1>3, <1>4, <1>5, <1>6, <1>7, <1>8, <1>9, <1>10,
            NextCases

LEMMA TableStep ==
    ASSUME TypeInv, [Next]_vars PROVE TableType'
<1>0. TableType /\ RegisterType
  BY DEF TypeInv
<1>1. CASE FwChange
  <2> DEFINE w == fw[2]
  <2>1. fw \in Request /\ Possible(fw[1], w) /\ fw[1] \in Commands
    BY <1>0, <1>1 DEF FwChange, RegisterType, Request
  <2>2. /\ conds' = CASE fw[1] = "SET_COND" -> [conds EXCEPT ![w[1]] = w[2]]
                      [] fw[1] = "DEL_COND" -> [conds EXCEPT ![w[1]] = None]
                      [] OTHER -> conds
        /\ acts' = CASE fw[1] = "SET_ACTION" -> [acts EXCEPT ![w[1]] = w[2]]
                     [] fw[1] = "DEL_ACTION" -> [acts EXCEPT ![w[1]] = None]
                     [] OTHER -> acts
    BY <1>1 DEF FwChange
  <2> HIDE DEF w
  <2>3. conds' \in [Conds -> Events \cup {None}]
    BY <1>0, <2>1, <2>2 DEF TableType, Possible
  <2>4. acts' \in [Acts -> Conds \cup {None}]
    BY <1>0, <2>1, <2>2 DEF TableType, Possible
  <2> QED  BY <2>3, <2>4 DEF TableType
<1>2. CASE ~FwChange
  <2>1. UNCHANGED <<conds, acts>>
    BY <1>2, NextCases, AfterCallFacts
       DEF FwTake, FwReject, FwQuery, WriteData, WriteMore, WriteCommand,
           WriteReady, ReadReply, Ack, Timeout, Stop, Kill, vars, firmware
  <2> QED  BY <1>0, <2>1 DEF TableType
<1> QED  BY <1>1, <1>2

\* Steps inside a mailbox call, and those of the firmware.
LEMMA HostQuiet ==
    ASSUME HostType, UNCHANGED host,
           mb' \in {"data", "more", "cmd", "csr", "wait", "ack", "returned"},
           mb' # mb => step \in Commands /\ (mb' = "more" => Len(Words) = 2)
    PROVE  HostType'
<1>1. UNCHANGED <<step, i, condIdx, info, map, kills>>
  BY DEF host
<1>2. Counter' = Counter
  BY <1>1 DEF Counter
<1>3. /\ step \in {"LOOP", "EXIT"} => mb' = "data"
      /\ mb' = "more" => Len(Words)' = 2
  BY <1>1 DEF HostType, Commands, SetupSteps, ScanSteps, CleanupSteps, Words
<1> QED  BY <1>1, <1>2, <1>3 DEF HostType

\* Where a step without a counter, or one with the counter at its start, goes.
LEMMA StartType ==
    ASSUME step' = IF NTargets > 0 THEN "SUBSCRIBE" ELSE "GET_ACTION", i' = 0
    PROVE  step' \in {"SUBSCRIBE", "GET_ACTION"} /\ i' \in Counter'
<1>1. CASE NTargets > 0
  <2>1. step' = "SUBSCRIBE" /\ 0 \in Targets
    BY <1>1, Constants DEF Targets
  <2> QED  BY <2>1 DEF Counter, SetupSteps, ScanSteps, CleanupSteps
<1>2. CASE ~(NTargets > 0)
  <2>1. step' = "GET_ACTION" /\ 0 \in 0 .. ScanSize - 1
    BY <1>2, Constants
  <2> QED  BY <2>1 DEF Counter, SetupSteps, ScanSteps, CleanupSteps
<1> QED  BY <1>1, <1>2

LEMMA NextTargetType ==
    ASSUME HostType, step \in SetupSteps, mb' = "data", NextTarget,
           UNCHANGED <<condIdx, info, map, kills>>
    PROVE  HostType'
<1>1. /\ i \in Nat /\ i < NTargets /\ map = <<>> /\ Len(map) = 0
  BY CounterIs, TargetFacts, EmptySeq DEF HostType
<1>2. CASE step' = "SUBSCRIBE" /\ i' = i + 1 /\ i + 1 < NTargets
  <2>1. i' \in Targets
    BY <1>1, <1>2, Constants DEF Targets
  <2>2. step' \in SetupSteps /\ Counter' = Targets
    BY <1>2 DEF Counter, SetupSteps, ScanSteps, CleanupSteps
  <2> QED  BY <1>1, <1>2, <2>1, <2>2, Constants
           DEF HostType, Commands, SetupSteps, ScanSteps
<1>3. CASE step' = "GET_ACTION" /\ i' = 0
  <2>1. i' \in 0 .. ScanSize - 1
    BY <1>3, Constants
  <2>2. Counter' = 0 .. ScanSize - 1
    BY <1>3 DEF Counter, SetupSteps, ScanSteps, CleanupSteps
  <2> QED  BY <1>1, <1>3, <2>1, <2>2, Constants
           DEF HostType, Commands, SetupSteps, ScanSteps
<1> QED  BY <1>2, <1>3 DEF NextTarget

LEMMA NextIndexType ==
    ASSUME HostType, step \in ScanSteps, mb' = "data",
           NEW found \in Seq(MapEntry), Len(found) <= 1, NextIndex(found),
           condIdx' \in Index, info' \in Infos, UNCHANGED kills
    PROVE  HostType'
<1>1. /\ i \in 0 .. ScanSize - 1 /\ map \in Seq(MapEntry) /\ Len(map) \in Nat
      /\ Len(map) <= i /\ Len(found) \in Nat
  BY CounterIs, LenProperties DEF HostType
<1>2. map \o found \in Seq(MapEntry) /\ Len(map \o found) = Len(map) + Len(found)
  BY <1>1, ConcatProperties
<1>3. CASE i + 1 < ScanSize
  <2>1. step' = "GET_ACTION" /\ i' = i + 1 /\ map' = map \o found
    BY <1>3 DEF NextIndex
  <2>2. Counter' = 0 .. ScanSize - 1
    BY <2>1 DEF Counter, SetupSteps, ScanSteps, CleanupSteps
  <2>3. /\ i' \in Counter' /\ Len(map') <= i'
        /\ Len(map') <= ScanSize + NTargets
    BY <1>1, <1>2, <1>3, <2>1, <2>2, Constants
  <2> QED  BY <1>2, <2>1, <2>3 DEF HostType, Commands, SetupSteps, ScanSteps
<1>4. CASE ~(i + 1 < ScanSize)
  <2>1. step' = "LOOP" /\ i' = 0 /\ map' = map \o found \o CtimEntries
    BY <1>4 DEF NextIndex
  <2>2. Counter' = {0}
    BY <2>1 DEF Counter, SetupSteps, ScanSteps, CleanupSteps
  <2>3. /\ map' \in Seq(MapEntry)
        /\ Len(map') = Len(map) + Len(found) + NTargets
    <3> DEFINE m == map \o found
    <3>1. m \in Seq(MapEntry) /\ Len(m) = Len(map) + Len(found)
      BY <1>2
    <3>2. map' = m \o CtimEntries
      BY <2>1
    <3> HIDE DEF m
    <3>3. CtimEntries \in Seq(MapEntry) /\ Len(CtimEntries) = NTargets
      BY CtimEntriesType
    <3>4. /\ m \o CtimEntries \in Seq(MapEntry)
          /\ Len(m \o CtimEntries) = Len(m) + Len(CtimEntries)
      BY <3>1, <3>3, ConcatProperties
    <3> QED  BY <3>1, <3>2, <3>3, <3>4
  <2>4. Len(map') <= ScanSize + NTargets
    BY <1>1, <2>3, Constants
  <2> QED  BY <2>1, <2>2, <2>3, <2>4
           DEF HostType, Commands, SetupSteps, ScanSteps
<1> QED  BY <1>3, <1>4

LEMMA FoundType ==
    ASSUME TypeInv
    PROVE  LET e == [act |-> i, ev |-> IF reply.ok THEN reply.ev ELSE NoEvent,
                     info |-> info]
           IN  step = "GET_COND" => e \in MapEntry
<1>1. ASSUME step = "GET_COND" PROVE i \in Nat
  <2>1. Counter = 0 .. ScanSize - 1
    BY <1>1, CounterIs DEF ScanSteps
  <2> QED  BY <2>1, Constants DEF TypeInv, HostType
<1>2. (IF reply.ok THEN reply.ev ELSE NoEvent) \in ReadEv
  BY DEF TypeInv, RegisterType, ReadEv
<1>3. info \in Infos
  BY DEF TypeInv, HostType
<1> QED  BY <1>1, <1>2, <1>3 DEF MapEntry

LEMMA HostStep ==
    ASSUME TypeInv, [Next]_vars PROVE HostType'
<1>0. HostType /\ RegisterType
  BY DEF TypeInv
<1>1. CASE \/ FwTake \/ FwChange \/ FwReject \/ FwQuery \/ WriteData
           \/ WriteMore \/ WriteCommand \/ WriteReady \/ ReadReply \/ Ack \/ Timeout
           \/ UNCHANGED vars
  <2>1. /\ UNCHANGED host
        /\ mb' \in {mb, "more", "cmd", "csr", "wait", "ack", "returned"}
        /\ mb' # mb => /\ mb # "data" \/ step \in Commands
                       /\ mb' = "more" => step \in Commands /\ Len(Words) # 1
    BY <1>1 DEF FwTake, FwChange, FwReject, FwQuery, FwAnswer, WriteData,
                WriteMore, WriteCommand, WriteReady, ReadReply, Ack, Timeout,
                vars
  <2>2. mb' # mb => step \in Commands /\ (mb' = "more" => Len(Words) = 2)
    BY <1>0, <2>1, WordsType DEF HostType
  <2>3. mb' \in {"data", "more", "cmd", "csr", "wait", "ack", "returned"}
    BY <1>0, <2>1 DEF HostType
  <2> QED  BY <1>0, <2>1, <2>2, <2>3, HostQuiet
<1>2. CASE Subscribed \/ ConditionSet
  <2>1. /\ mb' = "data" /\ step \in {"SUBSCRIBE", "SET_COND"}
        /\ UNCHANGED <<condIdx, info, map, kills>>
        /\ \/ NextTarget
           \/ step' \in {"SET_COND", "SET_ACTION"} /\ UNCHANGED i
    BY <1>2 DEF Subscribed, ConditionSet, Returned
  <2>2. step \in SetupSteps
    BY <2>1 DEF SetupSteps
  <2>3. CASE NextTarget
    BY <1>0, <2>1, <2>2, <2>3, NextTargetType
  <2>4. CASE step' \in {"SET_COND", "SET_ACTION"} /\ UNCHANGED i
    <3>1. Counter = Targets
      BY <2>2, CounterIs
    <3>2. Counter' = Targets
      BY <2>4 DEF Counter, SetupSteps, ScanSteps, CleanupSteps
    <3> QED  BY <1>0, <2>1, <2>2, <2>4, <3>1, <3>2
             DEF HostType, Commands, SetupSteps, ScanSteps
  <2> QED  BY <2>1, <2>3, <2>4
<1>3. CASE ActionSet
  <2>1. /\ mb' = "data" /\ step \in SetupSteps /\ NextTarget
        /\ UNCHANGED <<condIdx, info, map, kills>>
    BY <1>3 DEF ActionSet, Returned, SetupSteps
  <2> QED  BY <1>0, <2>1, NextTargetType
<1>4. CASE GotAction
  <2>1. mb' = "data" /\ step = "GET_ACTION" /\ UNCHANGED kills
    BY <1>4 DEF GotAction, Returned
  <2>2. step \in ScanSteps
    BY <2>1 DEF ScanSteps
  <2>3. CASE reply.ok
    <3>1. /\ condIdx' = reply.cond /\ info' = InfoOf(reply.set)
          /\ step' = "GET_COND" /\ UNCHANGED <<i, map>>
      BY <1>4, <2>3 DEF GotAction
    <3>2. condIdx' \in Index /\ info' \in Infos
      BY <1>0, <3>1, InfoType DEF RegisterType
    <3>3. Counter = 0 .. ScanSize - 1
      BY <2>2, CounterIs
    <3>4. Counter' = 0 .. ScanSize - 1
      BY <3>1 DEF Counter, SetupSteps, CleanupSteps, ScanSteps
    <3> QED  BY <1>0, <2>1, <2>2, <3>1, <3>2, <3>3, <3>4
             DEF HostType, Commands, SetupSteps, ScanSteps
  <2>4. CASE ~reply.ok
    <3>1. NextIndex(<<>>) /\ UNCHANGED <<condIdx, info>>
      BY <1>4, <2>4 DEF GotAction
    <3>2. <<>> \in Seq(MapEntry) /\ Len(<<>>) <= 1
      BY EmptySeq
    <3>3. condIdx' \in Index /\ info' \in Infos
      BY <1>0, <3>1 DEF HostType
    <3> QED  BY <1>0, <2>1, <2>2, <3>1, <3>2, <3>3, NextIndexType
  <2> QED  BY <2>3, <2>4
<1>5. CASE GotCondition
  <2> DEFINE e == [act |-> i, ev |-> IF reply.ok THEN reply.ev ELSE NoEvent,
                   info |-> info]
  <2>1. /\ mb' = "data" /\ step = "GET_COND" /\ NextIndex(<<e>>)
        /\ UNCHANGED <<condIdx, info, kills>>
    BY <1>5 DEF GotCondition, Returned
  <2>2. e \in MapEntry
    BY <2>1, FoundType
  <2> HIDE DEF e
  <2>3. <<e>> \in Seq(MapEntry) /\ Len(<<e>>) <= 1
    BY <2>2
  <2>4. step \in ScanSteps /\ condIdx' \in Index /\ info' \in Infos
    BY <1>0, <2>1 DEF HostType, ScanSteps
  <2> QED  BY <1>0, <2>1, <2>3, <2>4, NextIndexType
<1>6. CASE Stop
  <2>1. /\ step = "LOOP" /\ i' = 0
        /\ step' = IF NTargets > 0 THEN "DEL_ACTION" ELSE "EXIT"
        /\ UNCHANGED <<condIdx, info, mb, map, kills>>
    BY <1>6 DEF Stop, CleanupOrder
  <2>2. CASE NTargets > 0
    <3>1. step' = "DEL_ACTION" /\ 0 \in Targets
      BY <2>1, <2>2, Constants DEF Targets
    <3>2. Counter' = Targets
      BY <3>1 DEF Counter, SetupSteps, CleanupSteps, ScanSteps
    <3> QED  BY <1>0, <2>1, <3>1, <3>2
             DEF HostType, Commands, SetupSteps, CleanupSteps, ScanSteps
  <2>3. CASE ~(NTargets > 0)
    <3>1. step' = "EXIT" /\ Counter' = {0}
      BY <2>1, <2>3 DEF Counter, SetupSteps, CleanupSteps, ScanSteps
    <3> QED  BY <1>0, <2>1, <3>1
             DEF HostType, SetupSteps, ScanSteps
  <2> QED  BY <2>2, <2>3
<1>7. CASE FirstDeleted
  <2>1. /\ mb' = "data" /\ step = "DEL_ACTION" /\ step' = "DEL_COND"
        /\ UNCHANGED <<i, condIdx, info, map, kills>>
    BY <1>7 DEF FirstDeleted, Returned, CleanupOrder
  <2>2. Counter = Targets /\ Counter' = Targets
    BY <2>1 DEF Counter, SetupSteps, CleanupSteps, ScanSteps
  <2> QED  BY <1>0, <2>1, <2>2
           DEF HostType, Commands, SetupSteps, CleanupSteps, ScanSteps
<1>8. CASE SecondDeleted
  <2>1. /\ mb' = "data" /\ step = "DEL_COND"
        /\ UNCHANGED <<condIdx, info, map, kills>>
        /\ \/ i + 1 < NTargets /\ step' = "DEL_ACTION" /\ i' = i + 1
           \/ step' = "EXIT" /\ i' = 0
    BY <1>8 DEF SecondDeleted, Returned, CleanupOrder
  <2>2. CASE i + 1 < NTargets /\ step' = "DEL_ACTION" /\ i' = i + 1
    <3>1. i \in Targets
      BY <1>0, <2>1, CounterIs DEF HostType, CleanupSteps
    <3>2. i + 1 \in Targets
      BY <2>2, <3>1, Constants DEF Targets
    <3>3. Counter' = Targets
      BY <2>2 DEF Counter, SetupSteps, CleanupSteps, ScanSteps
    <3> QED  BY <1>0, <2>1, <2>2, <3>2, <3>3
             DEF HostType, Commands, SetupSteps, CleanupSteps, ScanSteps
  <2>3. CASE step' = "EXIT" /\ i' = 0
    <3>1. Counter' = {0}
      BY <2>3 DEF Counter, SetupSteps, CleanupSteps, ScanSteps
    <3> QED  BY <1>0, <2>1, <2>3, <3>1 DEF HostType, SetupSteps, ScanSteps
  <2> QED  BY <2>1, <2>2, <2>3
<1>9. CASE Kill
  <2>1. /\ step' = IF NTargets > 0 THEN "SUBSCRIBE" ELSE "GET_ACTION"
        /\ i' = 0 /\ mb' = "data" /\ condIdx' = None
        /\ info' = InfoOf(CondSetting) /\ map' = <<>> /\ kills' = kills + 1
        /\ kills < MaxKills
    BY <1>9 DEF Kill, Start
  <2>2. step' \in {"SUBSCRIBE", "GET_ACTION"} /\ i' \in Counter'
    BY <2>1, StartType
  <2>3. info' \in Infos /\ condIdx' \in Index
    BY <2>1, InfoType DEF Settings, Index
  <2>4. map' \in Seq(MapEntry) /\ Len(map') = 0
    BY <2>1, EmptySeq
  <2>5. kills' \in 0 .. MaxKills
    BY <1>0, <2>1, Constants DEF HostType
  <2>6. i' = 0 /\ 0 <= ScanSize + NTargets
    BY <2>1, Constants
  <2> QED  BY <2>1, <2>2, <2>3, <2>4, <2>5, <2>6
           DEF HostType, Commands, SetupSteps, ScanSteps
<1> QED  BY <1>1, <1>2, <1>3, <1>4, <1>5, <1>6, <1>7, <1>8, <1>9, NextCases
         DEF AfterCall

LEMMA TypeStart == Init => TypeInv
<1> SUFFICES ASSUME Init PROVE TypeInv
  OBVIOUS
<1>1. /\ h2b = [data |-> <<None, None>>, cmd |-> None, ready |-> FALSE]
      /\ b2h = [of |-> None, ok |-> FALSE, cond |-> None, ev |-> NoEvent,
                set |-> CondSetting, ready |-> FALSE]
      /\ fw = None /\ reply = NoReply /\ mb = "data"
  BY DEF Init
<1>2. <<None, None>> \in [1 .. 2 -> Word]
  BY DEF Word
<1>3. RegisterType
  BY <1>1, <1>2 DEF RegisterType, NoReply, Index, ReadEv, Settings
<1>4. TableType
  BY MailboxAssumption DEF Init, TableType
<1>5. HostType
  <2>1. /\ step = IF NTargets > 0 THEN "SUBSCRIBE" ELSE "GET_ACTION"
        /\ i = 0 /\ condIdx = None /\ info = InfoOf(CondSetting)
        /\ map = <<>> /\ kills = 0
    BY DEF Init
  <2>2. map \in Seq(MapEntry) /\ Len(map) = 0
    BY <2>1, EmptySeq
  <2>3. info \in Infos /\ condIdx \in Index
    BY <2>1, InfoType DEF Settings, Index
  <2>4. step \in {"SUBSCRIBE", "GET_ACTION"} /\ i \in Counter
    <3>1. CASE NTargets > 0
      <4>1. step = "SUBSCRIBE" /\ 0 \in Targets
        BY <2>1, <3>1, Constants DEF Targets
      <4> QED  BY <2>1, <4>1 DEF Counter, SetupSteps, ScanSteps, CleanupSteps
    <3>2. CASE ~(NTargets > 0)
      <4>1. step = "GET_ACTION" /\ 0 \in 0 .. ScanSize - 1
        BY <2>1, <3>2, Constants
      <4> QED  BY <2>1, <4>1 DEF Counter, SetupSteps, ScanSteps, CleanupSteps
    <3> QED  BY <3>1, <3>2
  <2>5. kills \in 0 .. MaxKills /\ 0 <= ScanSize + NTargets
    BY <2>1, Constants
  <2> QED  BY <1>1, <2>1, <2>2, <2>3, <2>4, <2>5
           DEF HostType, Commands, SetupSteps, ScanSteps
<1> QED  BY <1>3, <1>4, <1>5 DEF TypeInv

LEMMA TypeStep == TypeInv /\ [Next]_vars => TypeInv'
BY RegisterStep, TableStep, HostStep DEF TypeInv

\* The loop counters, the tables and the registers have their types, however
\* late the firmware answers and however often the process is killed.
THEOREM MailboxTypes == Spec => []TypeOK
<1>1. ASSUME TypeInv PROVE TypeOK
  <2>1. RegisterType /\ TableType /\ HostType
    BY <1>1 DEF TypeInv
  <2>2. fw # None => fw[1] \in Commands
    BY <2>1 DEF RegisterType, Request
  <2>3. DOMAIN reply = {"of", "ok", "cond", "ev", "set"}
    BY <2>1 DEF RegisterType
  <2>4. info.channel \in 0 .. 255
    BY <2>1 DEF HostType, Infos
  <2> QED  BY <2>1, <2>2, <2>3, <2>4
           DEF TypeOK, RegisterType, TableType, HostType
<1> QED  BY <1>1, TypeStart, TypeStep, PTL DEF Spec

-----------------------------------------------------------------------------
(* The mailbox is synchronous as long as the firmware answers in time and  *)
(* the process is not killed.                                              *)

Undisturbed == Timely /\ MaxKills = 0

LEMMA UndisturbedCases ==
    ASSUME Undisturbed, TypeInv, [Next]_vars
    PROVE  \/ FwTake \/ FwChange \/ FwReject \/ FwQuery
           \/ WriteData \/ WriteMore \/ WriteCommand \/ WriteReady
           \/ ReadReply \/ Ack \/ AfterCall \/ Stop \/ UNCHANGED vars
<1>1. ~Timeout
  BY DEF Undisturbed, Timeout
<1>2. ~Kill
  BY DEF Undisturbed, Kill, TypeInv, HostType
<1> QED  BY <1>1, <1>2, NextCases

LEMMA WordsSame ==
    UNCHANGED host => UNCHANGED <<step, i, condIdx, info, map, kills, Words>>
BY DEF host, Words

\* The first word is the index the step is about.
LEMMA FirstWord ==
    /\ step = "GET_ACTION" => Len(Words) = 1 /\ Words[1] = i
    /\ step = "GET_COND"   => Len(Words) = 1 /\ Words[1] = condIdx
    /\ step = "SET_COND"   => Len(Words) = 2 /\ Words[1] = CtimCond(i)
                              /\ Words[2] = TargetEvent[i]
    /\ step = "SET_ACTION" => Len(Words) = 2 /\ Words[1] = CtimAct(i)
                              /\ Words[2] = CtimCond(i)
    /\ step = "DEL_ACTION" => Len(Words) = 1 /\ Words[1] = CtimAct(i)
    /\ step = "DEL_COND"   => Len(Words) = 1 /\ Words[1] = CtimCond(i)
BY DEF Words

\* A command in the firmware is the one the process waits for.
LEMMA FwAsked ==
    ASSUME TypeInv, MailboxOK, fw # None
    PROVE  /\ mb = "wait" /\ ~h2b.ready /\ ~b2h.ready
           /\ fw \in Request /\ Asks(fw) /\ step \in Commands
<1>1. mb = "wait"
  BY DEF MailboxOK, Idle, TypeInv, HostType
<1>2. step \in Commands
  BY <1>1 DEF TypeInv, HostType
<1>3. fw \in Request
  BY DEF TypeInv, RegisterType
<1> QED  BY <1>1, <1>2, <1>3 DEF MailboxOK

\* An answer that tells what the tables hold is given to the process.
LEMMA FwAnswers ==
    ASSUME TypeInv, MailboxOK, fw # None, UNCHANGED <<conds, acts>>,
           NEW ok, NEW c, NEW e, NEW s, FwAnswer(ok, c, e, s),
           Tells([of |-> fw, ok |-> ok, cond |-> c, ev |-> e, set |-> s,
                  ready |-> TRUE])
    PROVE  MailboxOK'
<1>1. /\ mb = "wait" /\ ~h2b.ready /\ fw \in Request /\ Asks(fw)
      /\ DataIs(h2b.data) /\ h2b.cmd = step
  BY FwAsked DEF MailboxOK
<1>2. /\ b2h' = [of |-> fw, ok |-> ok, cond |-> c, ev |-> e, set |-> s,
                 ready |-> TRUE]
      /\ fw' = None /\ UNCHANGED <<h2b, host, mb, reply>>
  BY DEF FwAnswer
<1>3. UNCHANGED <<step, i, condIdx, Words>>
  BY <1>2, WordsSame
<1>4. b2h'.of = fw /\ b2h'.ready
  BY <1>2
<1>5. Tells(b2h)'
  BY <1>2, <1>3 DEF Tells
<1>6. Asks(b2h.of)' /\ DataIs(h2b.data)'
  BY <1>1, <1>2, <1>3, <1>4 DEF Asks, DataIs
<1> QED  BY <1>1, <1>2, <1>3, <1>4, <1>5, <1>6 DEF MailboxOK

\* A change is asked for in no step of the scan.
LEMMA ChangeStep ==
    ASSUME TypeInv, MailboxOK, FwChange \/ FwReject
    PROVE  /\ fw # None /\ fw[1] = step /\ step \notin ScanSteps
<1>1. fw # None /\ fw[1] \notin ScanSteps
  BY DEF FwChange, FwReject
<1> QED  BY <1>1, FwAsked DEF Asks

LEMMA MailboxStep ==
    ASSUME Undisturbed, TypeInv, MailboxOK, [Next]_vars PROVE MailboxOK'
<1>0. RegisterType /\ HostType
  BY DEF TypeInv
<1>1. CASE FwTake
  <2>1. /\ h2b' = [h2b EXCEPT !.ready = FALSE] /\ fw' = <<h2b.cmd, h2b.data>>
        /\ h2b.ready /\ UNCHANGED <<b2h, conds, acts, host, mb, reply>>
    BY <1>1 DEF FwTake
  <2>2. mb = "wait" /\ ~b2h.ready
    BY <1>0, <2>1 DEF MailboxOK, Idle, HostType
  <2>3. UNCHANGED <<step, Words>>
    BY <2>1, WordsSame
  <2>4. h2b'.ready = FALSE /\ h2b'.cmd = h2b.cmd /\ h2b'.data = h2b.data
    BY <1>0, <2>1 DEF RegisterType
  <2>5. fw' # None
    <3>1. fw' \in Request
      BY <1>0, <2>1 DEF RegisterType, Request
    <3> QED  BY <3>1, Constants
  <2>6. Asks(fw)' /\ DataIs(h2b.data)'
    BY <2>1, <2>2, <2>3, <2>4 DEF MailboxOK, Asks, DataIs
  <2> QED  BY <2>1, <2>2, <2>3, <2>4, <2>5, <2>6 DEF MailboxOK
<1>2. CASE FwChange \/ FwReject
  <2>1. fw # None /\ step \notin ScanSteps /\ fw[1] = step
    BY <1>2, ChangeStep
  <2>2. PICK ok \in BOOLEAN : FwAnswer(ok, b2h.cond, b2h.ev, b2h.set)
    BY <1>2 DEF FwChange, FwReject
  <2>3. /\ mb = "wait" /\ ~h2b.ready /\ fw \in Request /\ Asks(fw)
        /\ DataIs(h2b.data) /\ h2b.cmd = step
    BY <2>1, FwAsked DEF MailboxOK
  <2>4. /\ b2h'.of = fw /\ b2h'.ready
        /\ fw' = None /\ UNCHANGED <<h2b, host, mb, reply>>
    BY <2>2 DEF FwAnswer
  <2>5. UNCHANGED <<step, Words>>
    BY <2>4, WordsSame
  <2>6. Tells(b2h)'
    BY <2>1, <2>5 DEF Tells, ScanSteps
  <2>7. Asks(b2h.of)' /\ DataIs(h2b.data)'
    BY <2>3, <2>4, <2>5 DEF Asks, DataIs
  <2>8. fw # None
    BY <2>1
  <2> QED  BY <2>3, <2>4, <2>5, <2>6, <2>7, <2>8 DEF MailboxOK
<1>3. CASE FwQuery
  <2> DEFINE w == fw[2][1]
  <2>1. fw # None /\ UNCHANGED <<conds, acts>>
    BY <1>3 DEF FwQuery
  <2>2. /\ fw[1] = step /\ Asks(fw) /\ step \in ScanSteps
    BY <1>3, <2>1, FwAsked DEF FwQuery, Asks, ScanSteps
  <2>3. /\ step = "GET_ACTION" => w = i
        /\ step = "GET_COND" => w = condIdx
    BY <2>2, FirstWord DEF Asks, DataIs
  <2>4. i \in Acts
    <3>1. i \in 0 .. ScanSize - 1
      BY <1>0, <2>2, CounterIs DEF HostType
    <3> QED  BY <3>1, Constants DEF Acts
  <2> HIDE DEF w
  <2>5. CASE /\ step = "GET_ACTION" /\ w \in Acts /\ acts[w] # None
             /\ FwAnswer(TRUE, acts[w], WidthEvent, OldSetting[w])
    <3>1. Tells([of |-> fw, ok |-> TRUE, cond |-> acts[w], ev |-> WidthEvent,
                 set |-> OldSetting[w], ready |-> TRUE])
      BY <2>3, <2>5 DEF Tells
    <3> QED  BY <2>1, <2>5, <3>1, FwAnswers
  <2>6. CASE /\ step = "GET_COND" /\ w \in Conds /\ conds[w] # None
             /\ \E a \in {b \in Acts : acts[b] = w} \cup {None} :
                   FwAnswer(TRUE, a, conds[w], CondSetting)
    <3>1. PICK a : FwAnswer(TRUE, a, conds[w], CondSetting)
      BY <2>6
    <3>2. Tells([of |-> fw, ok |-> TRUE, cond |-> a, ev |-> conds[w],
                 set |-> CondSetting, ready |-> TRUE])
      BY <2>3, <2>6 DEF Tells
    <3> QED  BY <2>1, <3>1, <3>2, FwAnswers
  <2>7. CASE /\ FwAnswer(FALSE, b2h.cond, b2h.ev, b2h.set)
             /\ \/ step = "GET_ACTION" /\ (w \in Acts => acts[w] = None)
                \/ step = "GET_COND" /\ (w \in Conds => conds[w] = None)
    <3>1. Tells([of |-> fw, ok |-> FALSE, cond |-> b2h.cond, ev |-> b2h.ev,
                 set |-> b2h.set, ready |-> TRUE])
      BY <2>3, <2>4, <2>7 DEF Tells
    <3> QED  BY <2>1, <2>7, <3>1, FwAnswers
  <2> QED  BY <1>3, <2>2, <2>5, <2>6, <2>7 DEF FwQuery, w
<1>4. CASE WriteData
  <2>1. /\ h2b' = [h2b EXCEPT !.data[1] = Words[1]]
        /\ UNCHANGED <<fw, b2h, host>> /\ mb = "data" /\ step \in Commands
        /\ mb' = IF Len(Words) = 1 THEN "cmd" ELSE "more"
    BY <1>4 DEF WriteData, firmware
  <2>2. UNCHANGED Words
    BY <2>1, WordsSame
  <2>3. h2b'.ready = h2b.ready /\ h2b'.data[1] = Words[1]
    BY <1>0, <2>1 DEF RegisterType
  <2>4. Len(Words) = 1 => DataIs(h2b.data)'
    BY <2>2, <2>3 DEF DataIs
  <2>5. Idle'
    BY <2>1, <2>3 DEF MailboxOK, Idle
  <2> QED  BY <2>1, <2>2, <2>3, <2>4, <2>5 DEF MailboxOK
<1>12. CASE WriteMore
  <2>1. /\ h2b' = [h2b EXCEPT !.data[2] = Words[2]]
        /\ UNCHANGED <<fw, b2h, host>> /\ mb = "more" /\ mb' = "cmd"
    BY <1>12 DEF WriteMore, firmware
  <2>2. UNCHANGED Words /\ Len(Words) = 2 /\ h2b.data[1] = Words[1]
    BY <1>0, <2>1, WordsSame DEF MailboxOK, HostType
  <2>3. /\ h2b'.ready = h2b.ready
        /\ h2b'.data[1] = h2b.data[1] /\ h2b'.data[2] = Words[2]
    BY <1>0, <2>1 DEF RegisterType
  <2>4. DataIs(h2b.data)'
    BY <2>2, <2>3 DEF DataIs
  <2>5. Idle'
    BY <2>1, <2>3 DEF MailboxOK, Idle
  <2> QED  BY <2>1, <2>4, <2>5 DEF MailboxOK
<1>5. CASE WriteCommand
  <2>1. /\ h2b' = [h2b EXCEPT !.cmd = step] /\ UNCHANGED <<fw, b2h, host>>
        /\ mb = "cmd" /\ mb' = "csr"
    BY <1>5 DEF WriteCommand, firmware
  <2>2. UNCHANGED <<step, Words>>
    BY <2>1, WordsSame
  <2>3. h2b'.cmd = step /\ h2b'.ready = h2b.ready /\ h2b'.data = h2b.data
    BY <1>0, <2>1 DEF RegisterType
  <2>4. DataIs(h2b.data)'
    BY <2>1, <2>2, <2>3 DEF MailboxOK, DataIs
  <2>5. Idle'
    BY <2>1, <2>3 DEF MailboxOK, Idle
  <2> QED  BY <2>1, <2>2, <2>3, <2>4, <2>5 DEF MailboxOK
<1>6. CASE WriteReady
  <2>1. /\ h2b' = [h2b EXCEPT !.ready = TRUE] /\ UNCHANGED <<fw, b2h, host>>
        /\ mb = "csr" /\ mb' = "wait"
    BY <1>6 DEF WriteReady, firmware
  <2>2. UNCHANGED <<step, Words>>
    BY <2>1, WordsSame
  <2>3. h2b'.cmd = h2b.cmd /\ h2b'.ready = TRUE /\ h2b'.data = h2b.data
    BY <1>0, <2>1 DEF RegisterType
  <2>4. DataIs(h2b.data)'
    BY <2>1, <2>2, <2>3 DEF MailboxOK, DataIs
  <2>5. fw' = None /\ ~b2h'.ready
    BY <2>1 DEF MailboxOK, Idle
  <2> QED  BY <2>1, <2>2, <2>3, <2>4, <2>5 DEF MailboxOK
<1>7. CASE ReadReply
  <2>1. /\ reply' = [of |-> b2h.of, ok |-> b2h.ok, cond |-> b2h.cond,
                     ev |-> b2h.ev, set |-> b2h.set]
        /\ UNCHANGED <<h2b, b2h, firmware, host>> /\ mb = "wait" /\ mb' = "ack"
        /\ b2h.ready
    BY <1>7 DEF ReadReply
  <2>2. UNCHANGED <<step, i, condIdx, Words, acts, conds>>
    BY <2>1, WordsSame DEF firmware
  <2>3. /\ ~h2b.ready /\ fw = None /\ b2h.of # None /\ Asks(b2h.of)
        /\ Tells(b2h)
    BY <2>1 DEF MailboxOK
  <2>4. reply'.of # None /\ Asks(reply.of)' /\ Tells(reply)'
    BY <2>1, <2>2, <2>3 DEF Asks, DataIs, Tells
  <2> QED  BY <2>1, <2>3, <2>4 DEF MailboxOK, firmware
<1>8. CASE Ack
  <2>1. /\ b2h' = [b2h EXCEPT !.ready = FALSE]
        /\ UNCHANGED <<h2b, firmware, host, reply>> /\ mb = "ack"
        /\ mb' = "returned"
    BY <1>8 DEF Ack
  <2>2. UNCHANGED <<step, i, condIdx, Words, acts, conds, fw>>
    BY <2>1, WordsSame DEF firmware
  <2>3. b2h'.ready = FALSE
    BY <1>0, <2>1 DEF RegisterType
  <2>4. Idle'
    BY <2>1, <2>2, <2>3 DEF MailboxOK, Idle
  <2>5. reply'.of # None /\ Asks(reply.of)' /\ Tells(reply)'
    BY <2>1, <2>2 DEF MailboxOK, Asks, DataIs, Tells
  <2> QED  BY <2>1, <2>4, <2>5 DEF MailboxOK
<1>9. CASE AfterCall
  <2>1. /\ mb = "returned" /\ mb' = "data"
        /\ UNCHANGED <<h2b, b2h, firmware>>
    BY <1>9, AfterCallFacts
  <2> QED  BY <2>1 DEF MailboxOK, Idle, firmware
<1>10. CASE Stop
  <2>1. mb = "data" /\ UNCHANGED <<h2b, b2h, firmware, mb>>
    BY <1>0, <1>10 DEF Stop, HostType
  <2> QED  BY <2>1 DEF MailboxOK, Idle, firmware
<1>11. CASE UNCHANGED vars
  <2>1. UNCHANGED <<h2b, b2h, firmware, host, mb, reply>>
    BY <1>11 DEF vars
  <2>2. UNCHANGED <<step, i, condIdx, Words, acts, conds, fw>>
    BY <2>1, WordsSame DEF firmware
  <2> QED  BY <2>1, <2>2 DEF MailboxOK, Idle, Asks, DataIs, Tells
<1> QED  BY <1>1, <1>2, <1>3, <1>4, <1>5, <1>6, <1>7, <1>8, <1>9, <1>10,
            <1>11, <1>12, UndisturbedCases

LEMMA MailboxStart == Init => MailboxOK
BY DEF Init, MailboxOK, Idle

\* A reply is the answer to the command the call sent.
THEOREM SynchronousMailbox == Undisturbed => (Spec => []ReplyMatches)
<1> SUFFICES ASSUME Undisturbed PROVE Spec => []ReplyMatches
  OBVIOUS
<1>1. TypeInv /\ MailboxOK /\ [Next]_vars => MailboxOK'
  BY MailboxStep
<1>2. MailboxOK => ReplyMatches
  BY DEF MailboxOK, ReplyMatches, Asks, DataIs
<1> QED  BY <1>1, <1>2, TypeStart, TypeStep, MailboxStart, PTL DEF Spec

-----------------------------------------------------------------------------
(* The map is built entry by entry.                                        *)

LEMMA ListsNone == ASSUME NEW as, NEW cs PROVE Lists(<<>>, 0, as, cs)
BY DEF Lists

LEMMA ListsSkip ==
    ASSUME NEW as, NEW cs, NEW m \in Seq(MapEntry), NEW n \in Nat,
           Lists(m, n, as, cs), as[n] = None
    PROVE  Lists(m, n + 1, as, cs)
<1>1. \A a \in 0 .. (n + 1) - 1 : a \in 0 .. n - 1 \/ a = n
  OBVIOUS
<1>2. \A a \in 0 .. n - 1 : a \in 0 .. (n + 1) - 1
  OBVIOUS
<1> QED  BY <1>1, <1>2 DEF Lists

LEMMA ListsAdd ==
    ASSUME NEW as, NEW cs, NEW m \in Seq(MapEntry), NEW n \in Nat,
           NEW e \in MapEntry, Lists(m, n, as, cs), as[n] # None,
           e.act = n, e.ev = EventIn(cs, as[n]), e.info = InfoOf(OldSetting[n])
    PROVE  Lists(m \o <<e>>, n + 1, as, cs)
<1> DEFINE r == m \o <<e>>
           L == Len(m)
<1>1. /\ L \in Nat /\ Len(r) = L + 1
      /\ \A k \in 1 .. L : r[k] = m[k]
      /\ r[L + 1] = e
  BY ConcatProperties, LenProperties
<1>2. \A k \in 1 .. Len(r) : k \in 1 .. L \/ k = L + 1
  BY <1>1
<1>3. \A k \in 1 .. L : k \in 1 .. Len(r)
  BY <1>1
<1>4. L + 1 \in 1 .. Len(r)
  BY <1>1
<1> HIDE DEF r
<1>5. \A a \in 0 .. (n + 1) - 1 : a \in 0 .. n - 1 \/ a = n
  OBVIOUS
<1>6. \A a \in 0 .. n - 1 : a \in 0 .. (n + 1) - 1 /\ a < n
  OBVIOUS
<1>7. n \in 0 .. (n + 1) - 1
  OBVIOUS
<1>8. ASSUME NEW k \in 1 .. Len(r)
      PROVE  /\ r[k].act \in 0 .. (n + 1) - 1
             /\ as[r[k].act] # None
             /\ r[k].ev = EventIn(cs, as[r[k].act])
             /\ r[k].info = InfoOf(OldSetting[r[k].act])
  BY <1>1, <1>2, <1>6, <1>7 DEF Lists
<1>9. ASSUME NEW a \in 0 .. (n + 1) - 1, as[a] # None
      PROVE  \E k \in 1 .. Len(r) : r[k].act = a
  <2>1. CASE a = n
    BY <1>1, <1>4, <2>1
  <2>2. CASE a \in 0 .. n - 1
    <3>1. PICK k \in 1 .. L : m[k].act = a
      BY <1>9, <2>2 DEF Lists
    <3> QED  BY <1>1, <1>3, <3>1
  <2> QED  BY <1>5, <2>1, <2>2
<1>10. ASSUME NEW k \in 1 .. Len(r), NEW l \in 1 .. Len(r), l < k
       PROVE  r[l].act < r[k].act
  <2>1. l \in 1 .. L
    BY <1>1, <1>2, <1>10
  <2>2. r[l] = m[l] /\ m[l].act < n
    BY <1>1, <1>6, <2>1 DEF Lists
  <2>3. CASE k = L + 1
    BY <1>1, <2>2, <2>3
  <2>4. CASE k \in 1 .. L
    BY <1>1, <1>10, <2>1, <2>2, <2>4 DEF Lists
  <2> QED  BY <1>2, <2>3, <2>4
<1>11. Lists(r, n + 1, as, cs)
  BY <1>8, <1>9, <1>10 DEF Lists
<1> QED  BY <1>11 DEF r

LEMMA MapNextIndex ==
    ASSUME HostType, step \in ScanSteps, NEW found \in Seq(MapEntry),
           NextIndex(found), Lists(map \o found, i + 1, acts, conds),
           UNCHANGED <<acts, conds>>
    PROVE  MapOK'
<1>1. i \in 0 .. ScanSize - 1 /\ ScanSize \in Nat
  BY CounterIs, Constants DEF HostType
<1>2. map \o found \in Seq(MapEntry)
  BY ConcatProperties DEF HostType
<1>3. CASE i + 1 < ScanSize
  BY <1>3 DEF NextIndex, MapOK
<1>4. CASE ~(i + 1 < ScanSize)
  <2>1. i + 1 = ScanSize
    BY <1>1, <1>4
  <2>2. step' = "LOOP" /\ map' = map \o found \o CtimEntries
    BY <1>4 DEF NextIndex
  <2>3. \E m \in Seq(MapEntry) :
           Lists(m, ScanSize, acts', conds') /\ map' = m \o CtimEntries
    BY <1>2, <2>1, <2>2
  <2>4. CtimEntries' = CtimEntries
    BY DEF CtimEntries
  <2> QED  BY <2>2, <2>3, <2>4 DEF MapOK, ScanSteps
<1> QED  BY <1>3, <1>4

LEMMA MapNextTarget ==
    ASSUME HostType, step \in SetupSteps, NextTarget, UNCHANGED map PROVE MapOK'
<1>1. map' = <<>>
  BY DEF HostType
<1>2. CASE step' = "SUBSCRIBE"
  BY <1>2 DEF MapOK, ScanSteps
<1>3. CASE step' = "GET_ACTION" /\ i' = 0
  BY <1>1, <1>3, ListsNone DEF MapOK, ScanSteps
<1> QED  BY <1>2, <1>3 DEF NextTarget

LEMMA MapStep ==
    ASSUME Undisturbed, TypeInv, MailboxOK, MapOK, [Next]_vars PROVE MapOK'
<1>0. RegisterType /\ TableType /\ HostType
  BY DEF TypeInv
<1>1. CASE FwChange \/ FwReject
  <2>1. fw # None /\ step \notin ScanSteps
    BY <1>1, ChangeStep
  <2>2. step \in Commands
    BY <2>1, FwAsked
  <2>3. UNCHANGED step
    BY <1>1, WordsSame DEF FwChange, FwReject, FwAnswer
  <2> QED  BY <2>1, <2>2, <2>3
           DEF MapOK, Commands, SetupSteps, ScanSteps, CleanupSteps
<1>2. CASE \/ FwTake \/ FwQuery \/ WriteData \/ WriteMore \/ WriteCommand \/ WriteReady
           \/ ReadReply \/ Ack \/ UNCHANGED vars
  <2>1. UNCHANGED <<host, acts, conds>>
    BY <1>2 DEF FwTake, FwQuery, FwAnswer, WriteData, WriteMore, WriteCommand,
                WriteReady, ReadReply, Ack, vars, firmware
  <2>2. UNCHANGED <<step, i, condIdx, info, map>>
    BY <2>1, WordsSame
  <2>3. CtimEntries' = CtimEntries
    BY DEF CtimEntries
  <2> QED  BY <2>1, <2>2, <2>3 DEF MapOK
<1>3. CASE Subscribed \/ ConditionSet \/ ActionSet
  <2>1. /\ step \in SetupSteps /\ UNCHANGED map
        /\ NextTarget \/ step' \in {"SET_COND", "SET_ACTION"}
    BY <1>3 DEF Subscribed, ConditionSet, ActionSet, Returned, SetupSteps
  <2>2. CASE NextTarget
    BY <1>0, <2>1, <2>2, MapNextTarget
  <2>3. CASE step' \in {"SET_COND", "SET_ACTION"}
    BY <2>3 DEF MapOK, ScanSteps
  <2> QED  BY <2>1, <2>2, <2>3
<1>4. CASE GotAction
  <2>1. /\ step = "GET_ACTION" /\ mb = "returned" /\ UNCHANGED <<acts, conds>>
    BY <1>4 DEF GotAction, Returned, firmware
  <2>2. step \in ScanSteps
    BY <2>1 DEF ScanSteps
  <2>3. Lists(map, i, acts, conds) /\ Tells(reply)
    BY <2>1, <2>2 DEF MapOK, MailboxOK
  <2>4. i \in Nat /\ map \in Seq(MapEntry)
    BY <1>0, <2>2, CounterIs, Constants DEF HostType
  <2>5. CASE acts[i] # None
    <3>1. /\ condIdx' = acts[i] /\ info' = InfoOf(OldSetting[i])
          /\ step' = "GET_COND" /\ UNCHANGED <<i, map>>
      BY <1>4, <2>1, <2>3, <2>5 DEF GotAction, Tells
    <3> QED  BY <2>1, <2>3, <2>5, <3>1 DEF MapOK
  <2>6. CASE acts[i] = None
    <3>1. NextIndex(<<>>)
      BY <1>4, <2>1, <2>3, <2>6 DEF GotAction, Tells
    <3>2. <<>> \in Seq(MapEntry) /\ map \o <<>> = map
      BY <2>4, ConcatEmptySeq
    <3>3. Lists(map \o <<>>, i + 1, acts, conds)
      BY <2>3, <2>4, <2>6, <3>2, ListsSkip
    <3> QED  BY <1>0, <2>1, <2>2, <3>1, <3>2, <3>3, MapNextIndex
  <2> QED  BY <2>5, <2>6
<1>5. CASE GotCondition
  <2> DEFINE e == [act |-> i, ev |-> IF reply.ok THEN reply.ev ELSE NoEvent,
                   info |-> info]
  <2>1. /\ step = "GET_COND" /\ mb = "returned" /\ UNCHANGED <<acts, conds>>
        /\ NextIndex(<<e>>)
    BY <1>5 DEF GotCondition, Returned, firmware
  <2>2. step \in ScanSteps
    BY <2>1 DEF ScanSteps
  <2>3. /\ Lists(map, i, acts, conds) /\ Tells(reply)
        /\ acts[i] # None /\ condIdx = acts[i] /\ info = InfoOf(OldSetting[i])
    BY <2>1, <2>2 DEF MapOK, MailboxOK
  <2>4. i \in 0 .. ScanSize - 1 /\ map \in Seq(MapEntry)
    BY <1>0, <2>2, CounterIs DEF HostType
  <2>5. i \in Nat /\ i \in Acts
    BY <2>4, Constants DEF Acts
  <2>6. acts[i] \in Conds
    BY <1>0, <2>3, <2>5 DEF TableType
  <2>7. e \in MapEntry
    BY <2>1, FoundType
  <2>8. /\ e.act = i /\ e.ev = EventIn(conds, acts[i])
        /\ e.info = InfoOf(OldSetting[i])
    BY <2>1, <2>3, <2>6 DEF Tells, EventIn
  <2> HIDE DEF e
  <2>9. Lists(map \o <<e>>, i + 1, acts, conds)
    BY <2>3, <2>4, <2>5, <2>7, <2>8, ListsAdd
  <2>10. <<e>> \in Seq(MapEntry)
    BY <2>7
  <2> QED  BY <1>0, <2>1, <2>2, <2>9, <2>10, MapNextIndex
<1>6. CASE Stop \/ FirstDeleted \/ SecondDeleted
  <2>1. step' \in {"DEL_ACTION", "DEL_COND", "EXIT"}
    BY <1>6 DEF Stop, FirstDeleted, SecondDeleted, CleanupOrder
  <2> QED  BY <2>1 DEF MapOK, ScanSteps
<1> QED  BY <1>1, <1>2, <1>3, <1>4, <1>5, <1>6, UndisturbedCases DEF AfterCall

LEMMA MapStart == Init => MapOK
<1> SUFFICES ASSUME Init PROVE MapOK
  OBVIOUS
<1>1. step \in {"SUBSCRIBE", "GET_ACTION"} /\ i = 0 /\ map = <<>>
  BY DEF Init
<1> QED  BY <1>1, ListsNone DEF MapOK, ScanSteps

\* The entries below the scan are those of the list, the others the CTIMs'.
LEMMA Entries ==
    ASSUME NEW as, NEW cs, NEW m \in Seq(MapEntry), Lists(m, ScanSize, as, cs),
           NEW r, r = m \o CtimEntries
    PROVE  /\ Len(m) \in Nat /\ Len(r) = Len(m) + NTargets
           /\ {k \in 1 .. Len(r) : r[k].act < ScanSize} = 1 .. Len(m)
           /\ \A k \in 1 .. Len(m) : r[k] = m[k]
           /\ \A k \in Len(m) + 1 .. Len(r) :
                 /\ k - Len(m) \in 1 .. NTargets
                 /\ r[k] = CtimEntries[k - Len(m)]
<1> DEFINE L == Len(m)
<1>1. /\ L \in Nat /\ NTargets \in Nat /\ ScanSize \in Nat
      /\ CtimEntries \in Seq(MapEntry) /\ Len(CtimEntries) = NTargets
  BY LenProperties, CtimEntriesType, Constants
<1>2. /\ Len(r) = L + NTargets
      /\ \A k \in 1 .. L + NTargets :
            r[k] = IF k <= L THEN m[k] ELSE CtimEntries[k - L]
  BY <1>1, ConcatProperties
<1>3. ASSUME NEW k \in 1 .. L
      PROVE  /\ k \in 1 .. Len(r) /\ r[k] = m[k] /\ r[k].act < ScanSize
  <2>1. k \in 1 .. Len(r) /\ r[k] = m[k]
    BY <1>1, <1>2
  <2>2. m[k].act \in 0 .. ScanSize - 1
    BY DEF Lists
  <2> QED  BY <1>1, <2>1, <2>2
<1>4. ASSUME NEW k \in L + 1 .. Len(r)
      PROVE  /\ k - L \in 1 .. NTargets /\ r[k] = CtimEntries[k - L]
             /\ ~(r[k].act < ScanSize)
  <2>1. k - L \in 1 .. NTargets /\ r[k] = CtimEntries[k - L]
    BY <1>1, <1>2
  <2>2. PICK j \in 1 .. NTargets : j = k - L
    BY <2>1
  <2>3. CtimEntries[j].act = CtimAct(j - 1) /\ j - 1 \in Targets
    BY CtimEntriesType
  <2>4. CtimAct(j - 1) >= ScanSize /\ CtimAct(j - 1) \in Nat
    BY <2>3, TargetFacts
  <2> QED  BY <1>1, <2>1, <2>2, <2>3, <2>4
<1>5. \A k \in 1 .. Len(r) : k \in 1 .. L \/ k \in L + 1 .. Len(r)
  BY <1>1, <1>2
<1> QED  BY <1>1, <1>2, <1>3, <1>4, <1>5

\* The map the poll loop is given is the firmware's.
THEOREM MapIsTheFirmwares == Undisturbed => (Spec => []MapCorrect)
<1> SUFFICES ASSUME Undisturbed PROVE Spec => []MapCorrect
  OBVIOUS
<1>1. ASSUME MapOK PROVE MapCorrect
  <2> SUFFICES ASSUME step = "LOOP"
               PROVE  LET scanned == {k \in 1 .. Len(map) : map[k].act < ScanSize}
                      IN  /\ {map[k].act : k \in scanned} =
                                {a \in 0 .. ScanSize - 1 : acts[a] # None}
                          /\ \A k \in scanned :
                                /\ map[k].ev = EventOfCond(acts[map[k].act])
                                /\ \A l \in scanned : l < k => map[l].act < map[k].act
                          /\ Len(map) = Cardinality(scanned) + NTargets
    BY DEF MapCorrect
  <2>1. PICK m \in Seq(MapEntry) :
           Lists(m, ScanSize, acts, conds) /\ map = m \o CtimEntries
    BY <1>1 DEF MapOK
  <2> DEFINE scanned == {k \in 1 .. Len(map) : map[k].act < ScanSize}
  <2>2. /\ Len(m) \in Nat /\ Len(map) = Len(m) + NTargets
        /\ scanned = 1 .. Len(m)
        /\ \A k \in 1 .. Len(m) : map[k] = m[k]
    BY <2>1, Entries
  <2> HIDE DEF scanned
  <2>3. {map[k].act : k \in scanned} = {a \in 0 .. ScanSize - 1 : acts[a] # None}
    BY <2>1, <2>2 DEF Lists
  <2>4. ASSUME NEW k \in scanned
        PROVE  /\ map[k].ev = EventOfCond(acts[map[k].act])
               /\ \A l \in scanned : l < k => map[l].act < map[k].act
    BY <2>1, <2>2 DEF Lists, EventIn, EventOfCond
  <2>5. Cardinality(scanned) = Len(m)
    <3>1. 1 \in Int /\ Len(m) \in Int
      BY <2>2
    <3>2. Cardinality(1 .. Len(m)) = IF 1 > Len(m) THEN 0 ELSE Len(m) - 1 + 1
      BY <3>1, FS_Interval
    <3> QED  BY <2>2, <3>2
  <2>6. Len(map) = Cardinality(scanned) + NTargets
    BY <2>2, <2>5
  <2> QED  BY <2>3, <2>4, <2>6 DEF scanned
<1>2. TypeInv /\ MailboxOK /\ [Next]_vars => MailboxOK'
  BY MailboxStep
<1>3. TypeInv /\ MailboxOK /\ MapOK /\ [Next]_vars => MapOK'
  BY MapStep
<1> QED  BY <1>1, <1>2, <1>3, TypeStart, TypeStep, MailboxStart, MapStart, PTL
         DEF Spec

-----------------------------------------------------------------------------
(* What the process does to the tables.  Nothing of somebody else's may be *)
(* at the indices of the targets when the process starts (Fresh).          *)

\* Every command but a query is about the current target.
LEMMA FwWords ==
    ASSUME TypeInv, MailboxOK, fw # None, fw[1] \notin ScanSteps
    PROVE  /\ step \in SetupSteps \cup CleanupSteps /\ fw[1] = step
           /\ i \in Targets
           /\ step = "SET_COND" => /\ fw[2][1] = CtimCond(i)
                                   /\ fw[2][2] = TargetEvent[i]
           /\ step = "SET_ACTION" => /\ fw[2][1] = CtimAct(i)
                                     /\ fw[2][2] = CtimCond(i)
           /\ step = "DEL_ACTION" => fw[2][1] = CtimAct(i)
           /\ step = "DEL_COND" => fw[2][1] = CtimCond(i)
<1>1. Asks(fw) /\ step \in Commands
  BY FwAsked
<1>2. fw[1] = step /\ \A j \in 1 .. Len(Words) : fw[2][j] = Words[j]
  BY <1>1 DEF Asks, DataIs
<1>3. step \in SetupSteps \cup CleanupSteps
  BY <1>1, <1>2 DEF Commands
<1>4. i \in Targets
  BY <1>3, CounterIs DEF TypeInv, HostType
<1> QED  BY <1>2, <1>3, <1>4, FirstWord

\* The tables change by the command of the step.
LEMMA TablesChange ==
    ASSUME TypeInv, MailboxOK, FwChange
    PROVE  /\ step = "SUBSCRIBE" => UNCHANGED <<conds, acts>>
           /\ step = "SET_COND" =>
                 /\ conds' = [conds EXCEPT ![CtimCond(i)] = TargetEvent[i]]
                 /\ UNCHANGED acts
           /\ step = "SET_ACTION" =>
                 /\ acts' = [acts EXCEPT ![CtimAct(i)] = CtimCond(i)]
                 /\ UNCHANGED conds
           /\ step = "DEL_ACTION" =>
                 acts' = [acts EXCEPT ![CtimAct(i)] = None] /\ UNCHANGED conds
           /\ step = "DEL_COND" =>
                 conds' = [conds EXCEPT ![CtimCond(i)] = None] /\ UNCHANGED acts
           /\ step \in SetupSteps \cup CleanupSteps /\ i \in Targets
           /\ UNCHANGED <<refused, step, i, mb>>
<1> DEFINE w == fw[2]
<1>1. fw # None /\ fw[1] \notin ScanSteps
  BY DEF FwChange
<1>2. /\ step \in SetupSteps \cup CleanupSteps /\ fw[1] = step
      /\ i \in Targets
      /\ step = "SET_COND" => w[1] = CtimCond(i) /\ w[2] = TargetEvent[i]
      /\ step = "SET_ACTION" => w[1] = CtimAct(i) /\ w[2] = CtimCond(i)
      /\ step = "DEL_ACTION" => w[1] = CtimAct(i)
      /\ step = "DEL_COND" => w[1] = CtimCond(i)
  BY <1>1, FwWords
<1>3. /\ conds' = CASE fw[1] = "SET_COND" -> [conds EXCEPT ![w[1]] = w[2]]
                    [] fw[1] = "DEL_COND" -> [conds EXCEPT ![w[1]] = None]
                    [] OTHER -> conds
      /\ acts' = CASE fw[1] = "SET_ACTION" -> [acts EXCEPT ![w[1]] = w[2]]
                   [] fw[1] = "DEL_ACTION" -> [acts EXCEPT ![w[1]] = None]
                   [] OTHER -> acts
      /\ UNCHANGED <<refused, host, mb>>
  BY DEF FwChange, FwAnswer
<1>4. UNCHANGED <<step, i>>
  BY <1>3, WordsSame
<1> HIDE DEF w
<1> QED  BY <1>2, <1>3, <1>4

\* Whatever else happens, the tables stay as they are.
LEMMA TablesKept ==
    ASSUME [Next]_vars, ~FwChange
    PROVE  /\ UNCHANGED <<conds, acts>>
           /\ ~FwReject => UNCHANGED refused
BY NextCases, AfterCallFacts
   DEF FwTake, FwReject, FwQuery, WriteData, WriteMore, WriteCommand,
       WriteReady, ReadReply, Ack, Timeout, Stop, Kill, vars, firmware

LEMMA TablesStep ==
    ASSUME Fresh, TypeInv, MailboxOK, TablesOK, [Next]_vars PROVE TablesOK'
<1>0. TableType
  BY DEF TypeInv
<1>1. CASE ~FwChange
  BY <1>1, TablesKept DEF TablesOK, OthersUntouched
<1>2. CASE FwChange
  <2>1. step \in SetupSteps \cup CleanupSteps /\ i \in Targets
    BY <1>2, TablesChange
  <2>2. /\ CtimAct(i) \in Acts /\ CtimCond(i) \in Conds
        /\ OldActs[CtimAct(i)] = None /\ OldConds[CtimCond(i)] = None
    BY <2>1, TargetFacts DEF Fresh
  <2>3. CASE step = "SUBSCRIBE"
    BY <1>2, <2>3, TablesChange DEF TablesOK, OthersUntouched
  <2>4. CASE step \in {"SET_COND", "DEL_COND"}
    <3>1. PICK e : conds' = [conds EXCEPT ![CtimCond(i)] = e]
      BY <1>2, <2>4, TablesChange
    <3>2. UNCHANGED acts
      BY <1>2, <2>4, TablesChange
    <3>3. \A c \in Conds : OldConds[c] # None => conds'[c] = OldConds[c]
      BY <1>0, <2>2, <3>1 DEF TablesOK, OthersUntouched, TableType
    <3> QED  BY <3>2, <3>3 DEF TablesOK, OthersUntouched
  <2>5. CASE step \in {"SET_ACTION", "DEL_ACTION"}
    <3>1. PICK c \in {CtimCond(i), None} :
             acts' = [acts EXCEPT ![CtimAct(i)] = c]
      BY <1>2, <2>5, TablesChange
    <3>2. UNCHANGED conds
      BY <1>2, <2>5, TablesChange
    <3>3. \A a \in Acts : OldActs[a] # None => acts'[a] = OldActs[a]
      BY <1>0, <2>2, <3>1 DEF TablesOK, OthersUntouched, TableType
    <3>4. ASSUME NEW a \in Acts, NEW t \in Targets, acts'[a] = CtimCond(t)
          PROVE  a = CtimAct(t)
      <4>1. CASE a # CtimAct(i)
        BY <1>0, <3>1, <3>4, <4>1 DEF TablesOK, TableType
      <4>2. CASE a = CtimAct(i)
        <5>1. c = CtimCond(t)
          BY <1>0, <2>2, <3>1, <3>4, <4>2 DEF TableType
        <5>2. CtimCond(t) # None
          BY TargetFacts, MailboxAssumption
        <5>3. i = t
          BY <2>1, <3>1, <5>1, <5>2, Apart
        <5> QED  BY <4>2, <5>3
      <4> QED  BY <4>1, <4>2
    <3> QED  BY <3>2, <3>3, <3>4 DEF TablesOK, OthersUntouched
  <2> QED  BY <2>1, <2>3, <2>4, <2>5 DEF SetupSteps, CleanupSteps
<1> QED  BY <1>1, <1>2

LEMMA TablesStart == Init /\ Fresh => TablesOK
BY MailboxAssumption DEF Init, Fresh, TablesOK, OthersUntouched

\* The process leaves what is not its own alone.
THEOREM LeavesOthersAlone == Undisturbed /\ Fresh => (Spec => []OthersUntouched)
<1> SUFFICES ASSUME Undisturbed /\ Fresh PROVE Spec => []OthersUntouched
  OBVIOUS
<1>1. TypeInv /\ MailboxOK /\ [Next]_vars => MailboxOK'
  BY MailboxStep
<1>2. TypeInv /\ MailboxOK /\ TablesOK /\ [Next]_vars => TablesOK'
  BY TablesStep
<1>3. Init => TablesOK
  BY TablesStart
<1>4. TablesOK => OthersUntouched
  BY DEF TablesOK
<1> QED  BY <1>1, <1>2, <1>3, <1>4, TypeStart, TypeStep, MailboxStart, PTL
         DEF Spec

-----------------------------------------------------------------------------
(* The destructor.                                                         *)

\* What is gone in the cleanup stays gone, and so does a refusal.
LEMMA GoneStays ==
    ASSUME Undisturbed, TypeInv, MailboxOK, [Next]_vars,
           step \in CleanupSteps \cup {"LOOP", "EXIT"}, NEW t \in Targets
    PROVE  /\ ActionGone(t) => ActionGone(t)'
           /\ ConditionGone(t) => ConditionGone(t)'
<1>1. Refused(t) => Refused(t)'
  <2>1. refused \subseteq refused'
    BY NextCases, TablesKept, TablesChange DEF FwReject
  <2> QED  BY <2>1 DEF Refused
<1>2. CASE ~FwChange
  BY <1>1, <1>2, TablesKept DEF ActionGone, ConditionGone
<1>3. CASE FwChange
  <2>1. /\ step \in {"DEL_ACTION", "DEL_COND"}
        /\ i \in Targets
    BY <1>3, TablesChange DEF SetupSteps, CleanupSteps
  <2>2. CtimAct(t) \in Acts /\ CtimCond(t) \in Conds
    BY TargetFacts
  <2>3. acts[CtimAct(t)] = None => acts'[CtimAct(t)] = None
    BY <1>3, <2>1, <2>2, TablesChange DEF TypeInv, TableType
  <2>4. conds[CtimCond(t)] = None => conds'[CtimCond(t)] = None
    BY <1>3, <2>1, <2>2, TablesChange DEF TypeInv, TableType
  <2> QED  BY <1>1, <2>3, <2>4 DEF ActionGone, ConditionGone
<1> QED  BY <1>2, <1>3

\* The firmware's answer to a deletion: done, nothing to do, or refused.
LEMMA Deleted ==
    ASSUME TypeInv, MailboxOK, TablesOK, CleanOK, FwChange \/ FwReject,
           step \in CleanupSteps
    PROVE  /\ step = "DEL_ACTION" => ActionGone(i)'
           /\ step = "DEL_COND" => ConditionGone(i)'
<1>1. fw # None /\ fw[1] \notin ScanSteps
  BY DEF FwChange, FwReject
<1>2. /\ fw[1] = step /\ i \in Targets
      /\ step = "DEL_ACTION" => fw[2][1] = CtimAct(i)
      /\ step = "DEL_COND" => fw[2][1] = CtimCond(i)
  BY <1>1, FwWords
<1>3. CtimAct(i) \in Acts /\ CtimCond(i) \in Conds
  BY <1>2, TargetFacts
<1>4. UNCHANGED <<step, i>>
  BY WordsSame DEF FwChange, FwReject, FwAnswer
<1>5. step \in {"DEL_ACTION", "DEL_COND"}
  BY DEF CleanupSteps
<1>6. CASE FwChange
  <2>1. /\ step = "DEL_ACTION" => acts'[CtimAct(i)] = None
        /\ step = "DEL_COND" => conds'[CtimCond(i)] = None
    BY <1>3, <1>6, TablesChange DEF TypeInv, TableType
  <2> QED  BY <1>4, <2>1 DEF ActionGone, ConditionGone
<1>7. CASE FwReject /\ fw \in refused'
  <2>1. Refused(i)'
    BY <1>2, <1>4, <1>5, <1>7 DEF Refused
  <2> QED  BY <2>1 DEF ActionGone, ConditionGone
<1>8. CASE FwReject /\ ~Possible(fw[1], fw[2]) /\ UNCHANGED refused
  <2>1. UNCHANGED <<conds, acts>>
    BY <1>8 DEF FwReject
  <2>2. Refused(i)' <=> Refused(i)
    BY <1>4, <1>8 DEF Refused
  <2>3. CASE step = "DEL_ACTION"
    <3>1. acts[CtimAct(i)] = None
      BY <1>2, <1>3, <1>8, <2>3 DEF Possible
    <3> QED  BY <1>4, <2>1, <2>3, <3>1 DEF ActionGone
  <2>4. CASE step = "DEL_COND"
    <3>1. conds[CtimCond(i)] = None \/ Referenced(CtimCond(i))
      BY <1>2, <1>3, <1>8, <2>4 DEF Possible
    <3>2. CASE Referenced(CtimCond(i))
      <4>1. acts[CtimAct(i)] = CtimCond(i)
        BY <1>2, <3>2 DEF Referenced, TablesOK
      <4>2. CtimCond(i) # None
        BY <1>3, MailboxAssumption
      <4>3. Refused(i)
        BY <2>4, <4>1, <4>2 DEF CleanOK, ActionGone
      <4> QED  BY <1>4, <2>2, <2>4, <4>3 DEF ConditionGone
    <3>3. CASE conds[CtimCond(i)] = None
      BY <1>4, <2>1, <2>4, <3>3 DEF ConditionGone
    <3> QED  BY <3>1, <3>2, <3>3
  <2> QED  BY <1>5, <2>3, <2>4
<1> QED  BY <1>6, <1>7, <1>8 DEF FwReject

LEMMA CleanStep ==
    ASSUME Undisturbed, TypeInv, MailboxOK, TablesOK, CleanOK, [Next]_vars
    PROVE  CleanOK'
<1>0. HostType
  BY DEF TypeInv
<1>1. CASE step \notin CleanupSteps \cup {"LOOP", "EXIT"}
  <2>1. step' \notin CleanupSteps \cup {"EXIT"}
    <3>1. CASE UNCHANGED host
      BY <1>1, <3>1 DEF host
    <3>2. CASE ~UNCHANGED host
      BY <1>1, <3>2, UndisturbedCases
         DEF FwTake, FwChange, FwReject, FwQuery, FwAnswer, WriteData, WriteMore,
             WriteCommand, WriteReady, ReadReply, Ack, vars, AfterCall,
             Subscribed, ConditionSet, ActionSet, NextTarget, GotAction,
             GotCondition, NextIndex, Stop, FirstDeleted, SecondDeleted,
             Returned, CleanupOrder, CleanupSteps
    <3> QED  BY <3>1, <3>2
  <2> QED  BY <2>1 DEF CleanOK, CleanupSteps
<1>2. CASE step \in CleanupSteps \cup {"LOOP", "EXIT"}
  <2>1. \A t \in Targets : /\ ActionGone(t) => ActionGone(t)'
                           /\ ConditionGone(t) => ConditionGone(t)'
    BY <1>2, GoneStays
  <2>2. \A t \in Targets : Gone(t) => Gone(t)'
    BY <2>1 DEF Gone
  <2>3. step \in CleanupSteps => i \in Targets
    BY <1>0, CounterIs DEF HostType
  <2>4. \A t \in 0 .. i - 1 : step \in CleanupSteps => t \in Targets
    BY <2>3, Constants DEF Targets
  <2>5. CASE /\ UNCHANGED <<step, i>>
             /\ \/ Answered' => Answered
                \/ FwChange \/ FwReject
    <3>1. step = "DEL_ACTION" /\ Answered' => ActionGone(i)'
      <4>1. CASE Answered' => Answered
        BY <2>1, <2>3, <2>5, <4>1 DEF CleanOK, CleanupSteps, ActionGone
      <4>2. CASE FwChange \/ FwReject
        BY <4>2, Deleted DEF CleanupSteps
      <4> QED  BY <2>5, <4>1, <4>2
    <3>2. step = "DEL_COND" => ActionGone(i)'
      BY <2>1, <2>3, <2>5 DEF CleanOK, CleanupSteps, ActionGone
    <3>3. step = "DEL_COND" /\ Answered' => ConditionGone(i)'
      <4>1. CASE Answered' => Answered
        BY <2>1, <2>3, <2>5, <4>1 DEF CleanOK, CleanupSteps, ConditionGone
      <4>2. CASE FwChange \/ FwReject
        BY <4>2, Deleted DEF CleanupSteps
      <4> QED  BY <2>5, <4>1, <4>2
    <3>4. step \in CleanupSteps => \A t \in 0 .. i - 1 : Gone(t)'
      BY <2>2, <2>4 DEF CleanOK
    <3>5. step = "EXIT" => \A t \in Targets : Gone(t)'
      BY <2>2 DEF CleanOK
    <3> QED  BY <2>5, <3>1, <3>2, <3>3, <3>4, <3>5 DEF CleanOK
  <2>6. CASE Stop
    <3>1. /\ i' = 0 /\ mb = "data" /\ UNCHANGED mb
          /\ step' = IF NTargets > 0 THEN "DEL_ACTION" ELSE "EXIT"
      BY <1>0, <2>6 DEF Stop, HostType, CleanupOrder
    <3>2. ~Answered'
      BY <3>1 DEF Answered
    <3>3. \A t \in 0 .. i' - 1 : FALSE
      BY <3>1
    <3>4. ~(NTargets > 0) => \A t \in Targets : FALSE
      BY Constants DEF Targets
    <3> QED  BY <3>1, <3>2, <3>3, <3>4 DEF CleanOK
  <2>7. CASE FirstDeleted
    <3>1. /\ step = "DEL_ACTION" /\ mb = "returned" /\ mb' = "data"
          /\ step' = "DEL_COND" /\ UNCHANGED i
      BY <2>7 DEF FirstDeleted, Returned, CleanupOrder
    <3>2. ActionGone(i)
      BY <3>1 DEF CleanOK, Answered
    <3>3. step \in CleanupSteps /\ i \in Targets
      BY <2>3, <3>1 DEF CleanupSteps
    <3>4. ActionGone(i)'
      BY <2>1, <3>1, <3>2, <3>3 DEF ActionGone
    <3>5. \A t \in 0 .. i - 1 : Gone(t)'
      BY <2>2, <2>4, <3>3 DEF CleanOK
    <3>6. ~Answered'
      BY <3>1 DEF Answered
    <3> QED  BY <3>1, <3>4, <3>5, <3>6 DEF CleanOK
  <2>8. CASE SecondDeleted
    <3>1. /\ step = "DEL_COND" /\ mb = "returned" /\ mb' = "data"
          /\ IF i + 1 < NTargets THEN step' = "DEL_ACTION" /\ i' = i + 1
             ELSE step' = "EXIT" /\ i' = 0
      BY <2>8 DEF SecondDeleted, Returned, CleanupOrder
    <3>2. step \in CleanupSteps /\ i \in Targets
      BY <2>3, <3>1 DEF CleanupSteps
    <3>3. Gone(i)
      BY <3>1 DEF CleanOK, Answered, Gone
    <3>4. \A t \in 0 .. i : t \in 0 .. i - 1 \/ t = i
      BY <3>2, Constants DEF Targets
    <3>5. \A t \in 0 .. i : t \in Targets /\ Gone(t)
      BY <2>4, <3>2, <3>3, <3>4 DEF CleanOK
    <3>6. \A t \in 0 .. i : Gone(t)'
      BY <2>2, <3>5
    <3>7. ~Answered'
      BY <3>1 DEF Answered
    <3>8. CASE i + 1 < NTargets
      <4>1. \A t \in 0 .. i' - 1 : t \in 0 .. i
        BY <3>1, <3>2, <3>8, TargetFacts
      <4>2. step' = "DEL_ACTION"
        BY <3>1, <3>8
      <4> QED  BY <3>6, <3>7, <4>1, <4>2 DEF CleanOK
    <3>9. CASE ~(i + 1 < NTargets)
      <4>1. \A t \in Targets : t \in 0 .. i
        BY <3>2, <3>9, Constants DEF Targets
      <4>2. step' = "EXIT"
        BY <3>1, <3>9
      <4> QED  BY <3>6, <4>1, <4>2 DEF CleanOK, CleanupSteps
    <3> QED  BY <3>8, <3>9
  <2>9. CASE \/ FwTake \/ FwQuery \/ WriteData \/ WriteMore \/ WriteCommand \/ WriteReady
             \/ ReadReply \/ Ack \/ UNCHANGED vars \/ FwChange \/ FwReject
    <3>1. UNCHANGED <<step, i>>
      <4>1. UNCHANGED host
        BY <2>9 DEF FwTake, FwQuery, FwAnswer, FwChange, FwReject, WriteData, WriteMore,
                    WriteCommand, WriteReady, ReadReply, Ack, vars
      <4> QED  BY <4>1, WordsSame
    <3>2. ~FwQuery
      <4>1. FwQuery => fw # None /\ fw[1] \in ScanSteps
        BY DEF FwQuery, ScanSteps
      <4>2. fw # None => fw[1] = step /\ step \in Commands
        BY FwAsked DEF Asks
      <4> QED  BY <1>2, <4>1, <4>2 DEF CleanupSteps, ScanSteps
    <3>3. (Answered' => Answered) \/ FwChange \/ FwReject
      <4>1. CASE WriteReady
        <5>1. ~b2h.ready /\ UNCHANGED b2h /\ mb' = "wait"
          BY <4>1 DEF WriteReady, MailboxOK, Idle
        <5> QED  BY <5>1 DEF Answered
      <4>2. CASE \/ FwTake \/ WriteData \/ WriteMore \/ WriteCommand \/ ReadReply \/ Ack
                 \/ UNCHANGED vars
        BY <4>2 DEF FwTake, WriteData, WriteMore, WriteCommand, ReadReply, Ack, vars,
                    Answered
      <4> QED  BY <2>9, <3>2, <4>1, <4>2
    <3> QED  BY <2>5, <3>1, <3>3
  <2>10. ~(\/ Subscribed \/ ConditionSet \/ ActionSet \/ GotAction
           \/ GotCondition)
    BY <1>2 DEF Subscribed, ConditionSet, ActionSet, GotAction, GotCondition,
                Returned, CleanupSteps
  <2> QED  BY <2>6, <2>7, <2>8, <2>9, <2>10, UndisturbedCases DEF AfterCall
<1> QED  BY <1>1, <1>2

LEMMA CleanStart == Init => CleanOK
BY DEF Init, CleanOK, CleanupSteps

\* The destructor leaves nothing of a target behind.
THEOREM CleansUp == Undisturbed /\ Fresh => (Spec => []CleanExit)
<1> SUFFICES ASSUME Undisturbed /\ Fresh PROVE Spec => []CleanExit
  OBVIOUS
<1>1. TypeInv /\ MailboxOK /\ [Next]_vars => MailboxOK'
  BY MailboxStep
<1>2. TypeInv /\ MailboxOK /\ TablesOK /\ [Next]_vars => TablesOK'
  BY TablesStep
<1>3. TypeInv /\ MailboxOK /\ TablesOK /\ CleanOK /\ [Next]_vars => CleanOK'
  BY CleanStep
<1>4. Init => TablesOK
  BY TablesStart
<1>5. CleanOK => CleanExit
  BY DEF CleanOK, CleanExit, Gone, ActionGone, ConditionGone
<1> QED  BY <1>1, <1>2, <1>3, <1>4, <1>5, TypeStart, TypeStep, MailboxStart,
            CleanStart, PTL DEF Spec
=============================================================================
