----------------------- MODULE TransmitterProcessProofs -----------------------
(***************************************************************************)
(* The whole transmitter process runs the configurator and nothing else    *)
(* that touches the mailbox, so that what is proved of the configurator    *)
(* holds of the process; and the table the poll loop looks events up in    *)
(* says of each action what the firmware does with it.                     *)
(***************************************************************************)
EXTENDS TransmitterProcess, WRENCTIMConfiguratorProofs

-----------------------------------------------------------------------------
(* The process and the configurator.                                       *)

LEMMA ProcessCases ==
    [MainThread \/ SigInt \/ WatchdogElapsed \/ FirmwareStep]_tpVars =>
        \/ Configure \/ LoopReturns \/ FirmwareStep \/ InstallActionMap
        \/ /\ UNCHANGED <<vars, meta>>
           /\ stage' # stage =>
                 stage' \in {"signal", "load", "dispatch", "watchdog",
                             "receiver", "open", "configure", "unconnected",
                             "ended"}
           /\ stage' # stage /\ stage' # "ended" =>
                 stage \in {"arguments", "signal", "load", "dispatch",
                            "watchdog", "open"}
BY DEF MainThread, Arguments, InstallHandler, LoadConfig, DispatchTransport,
       SpawnTxWatchdog, OpenDevice, FirstAccess, Return, SigInt,
       WatchdogElapsed, EndWith, tpVars, process

\* The process, whatever launched it and whatever signal it gets, does with
\* the mailbox and the tables what the configurator does.
THEOREM ProcessRunsConfigurator == ProcessSpec => Spec
<1>1. [MainThread \/ SigInt \/ WatchdogElapsed \/ FirmwareStep]_tpVars
         => [Next]_vars
  BY ProcessCases DEF Configure, LoopReturns, FirmwareStep, InstallActionMap,
                      Next
<1> QED  BY <1>1, PTL DEF ProcessSpec, Spec

-----------------------------------------------------------------------------
(* The table of the poll loop.                                             *)

\* The entry a map gives index a.
EntryOf(m, a) == EntryFor(m, a, NotInstalled)

BeforeLoop == {"arguments", "signal", "load", "dispatch", "watchdog", "open",
               "unconnected", "configure"}

MetaOK ==
    /\ DOMAIN meta = 0 .. MaxActIdx - 1
    /\ stage \in BeforeLoop => \A a \in DOMAIN meta : meta[a] = NotInstalled
    /\ stage = "loop" => /\ step = "LOOP"
                         /\ \A a \in DOMAIN meta : meta[a] = EntryOf(map, a)

LEMMA MetaStep ==
    ASSUME MetaOK,
           [MainThread \/ SigInt \/ WatchdogElapsed \/ FirmwareStep]_tpVars
    PROVE  MetaOK'
<1>1. CASE Configure
  BY <1>1 DEF Configure, process, MetaOK, BeforeLoop
<1>2. CASE LoopReturns
  BY <1>2 DEF LoopReturns, MetaOK, BeforeLoop
<1>3. CASE FirmwareStep
  <2>1. UNCHANGED <<host, stage, meta>>
    BY <1>3 DEF FirmwareStep, Firmware, FwTake, FwChange, FwReject, FwQuery,
                FwAnswer, process
  <2> QED  BY <2>1, WordsSame DEF MetaOK
<1>4. CASE InstallActionMap
  <2>1. /\ stage = "configure" /\ stage' = "loop" /\ step = "LOOP"
        /\ meta' = [a \in DOMAIN meta |-> Installed(a)] /\ UNCHANGED vars
    BY <1>4 DEF InstallActionMap
  <2>2. UNCHANGED <<step, map>>
    BY <2>1, WordsSame DEF vars
  <2>3. \A a \in DOMAIN meta : meta[a] = NotInstalled
    BY <2>1 DEF MetaOK, BeforeLoop
  <2>4. \A a \in DOMAIN meta : Installed(a) = EntryOf(map, a)
    BY <2>3 DEF Installed, EntryOf
  <2>5. /\ DOMAIN meta' = DOMAIN meta
        /\ \A a \in DOMAIN meta : meta'[a] = EntryOf(map, a)
    BY <2>1, <2>4
  <2> QED  BY <2>1, <2>2, <2>5 DEF MetaOK, BeforeLoop
<1>5. CASE /\ UNCHANGED <<vars, meta>>
           /\ stage' # stage =>
                 stage' \in {"signal", "load", "dispatch", "watchdog",
                             "receiver", "open", "configure", "unconnected",
                             "ended"}
           /\ stage' # stage /\ stage' # "ended" =>
                 stage \in {"arguments", "signal", "load", "dispatch",
                            "watchdog", "open"}
  <2>1. UNCHANGED <<step, map, meta>>
    BY <1>5, WordsSame DEF vars
  <2>2. /\ stage' \in BeforeLoop => stage \in BeforeLoop
        /\ stage' = "loop" => stage = "loop"
    BY <1>5 DEF BeforeLoop
  <2> QED  BY <2>1, <2>2 DEF MetaOK
<1> QED  BY <1>1, <1>2, <1>3, <1>4, <1>5, ProcessCases

LEMMA MetaStart == Init /\ ProcessInit => MetaOK
BY DEF ProcessInit, MetaOK

-----------------------------------------------------------------------------
(* An entry is that of the only element with its index.                    *)

LEMMA EntryNone ==
    ASSUME NEW m, NEW a, \A k \in 1 .. Len(m) : m[k].act # a
    PROVE  EntryOf(m, a) = NotInstalled
<1> DEFINE of == {k \in 1 .. Len(m) : m[k].act = a}
<1>1. of = {}
  OBVIOUS
<1> QED  BY <1>1 DEF EntryOf, EntryFor

LEMMA EntryOnly ==
    ASSUME NEW m, NEW a, NEW k \in 1 .. Len(m), m[k].act = a,
           \A j \in 1 .. Len(m) : m[j].act = a => j = k
    PROVE  EntryOf(m, a) = [ev |-> m[k].ev, channel |-> m[k].info.channel,
                            offsetMs |-> Low16(m[k].info.offset.ms)]
<1> DEFINE of == {j \in 1 .. Len(m) : m[j].act = a}
           last == CHOOSE j \in of : \A l \in of : l <= j
<1>1. of = {k}
  OBVIOUS
<1>2. k <= k
  OBVIOUS
<1>3. EntryOf(m, a) = IF of = {} THEN NotInstalled
                      ELSE [ev |-> m[last].ev, channel |-> m[last].info.channel,
                            offsetMs |-> Low16(m[last].info.offset.ms)]
  BY DEF EntryOf, EntryFor
<1> HIDE DEF of
<1>4. last = k
  BY <1>1, <1>2
<1> HIDE DEF last
<1> QED  BY <1>1, <1>3, <1>4

-----------------------------------------------------------------------------
(* The entries say what the firmware does.                                 *)

\* A delay below the sentinel survives its cast to 16 bits.
LEMMA DelayKept ==
    ASSUME NEW s, IsSetting(s)
    PROVE  DelayIs(s, Low16(InfoOf(s).offset.ms))
<1>1. s.idelay \in Nat
  BY DEF IsSetting
<1>2. InfoOf(s).offset = OffsetOf(s)
  BY DEF InfoOf
<1>3. \A n \in Nat : n < 65535 => Low16(n) = n
  BY SMT DEF Low16
<1>4. s.idelay \div 10000 \in Nat /\ s.idelay \div 1000000 \in Nat
  BY <1>1, SMT
<1>5. s.idelay \div TicksPerMs(s.clock) = OffsetOf(s).ms
  <2>1. CASE s.clock = 23
    <3>1. s.idelay \div 1 = s.idelay
      BY <1>1, SMT
    <3> QED  BY <2>1, <3>1, SMT DEF TicksPerMs, OffsetOf
  <2>2. CASE s.clock = 25
    BY <2>2, SMT DEF TicksPerMs, OffsetOf
  <2>3. CASE s.clock # 23 /\ s.clock # 25
    BY <2>3, SMT DEF TicksPerMs, OffsetOf
  <2> QED  BY <2>1, <2>2, <2>3
<1>6. OffsetOf(s).ms \in Nat
  BY <1>1, <1>4, SMT DEF OffsetOf
<1> QED  BY <1>2, <1>3, <1>5, <1>6 DEF DelayIs

LEMMA NextByte ==
    ASSUME NEW p \in 0 .. 255, p < 255 PROVE (p + 1) % 256 = p + 1
<1>1. \A d \in 0 .. 255 : d % 256 = d
  BY SMT
<1>2. p + 1 \in 0 .. 255
  BY SMT
<1> QED  BY <1>1, <1>2, Zenon

\* The sentinels of a target.
LEMMA CtimEntryIs ==
    ASSUME NEW k \in 1 .. NTargets
    PROVE  /\ CtimEntries[k].ev = TargetEvent[k - 1]
           /\ CtimEntries[k].info.channel = 255
           /\ Low16(CtimEntries[k].info.offset.ms) = 65535
BY SMT DEF CtimEntries, Low16

\* No pulser is the last that a byte numbers: the channels are 1 to 255.
SmallPulsers == \A a \in Acts : OldSetting[a].pulser < 255

\* What one entry of the table says.
MetaSays(a, e) ==
    \/ /\ a < ScanSize /\ acts[a] # None
       /\ e.ev = EventOfCond(acts[a])
       /\ e.channel = OldSetting[a].pulser + 1
       /\ DelayIs(OldSetting[a], e.offsetMs)
    \/ \E t \in Targets : /\ a = CtimAct(t)
                          /\ e.ev = TargetEvent[t]
                          /\ e.channel = 255 /\ e.offsetMs = 65535
    \/ /\ a < ScanSize => acts[a] = None
       /\ \A t \in Targets : a # CtimAct(t)
       /\ e = NotInstalled

LEMMA EntrySays ==
    ASSUME SmallPulsers, NEW m \in Seq(MapEntry),
           Lists(m, ScanSize, acts, conds), NEW r, r = m \o CtimEntries,
           NEW a \in Nat
    PROVE  MetaSays(a, EntryOf(r, a))
<1> DEFINE L == Len(m)
<1>1. /\ L \in Nat /\ ScanSize \in Nat /\ ScanSize <= MaxActs
      /\ MaxActs \in Nat /\ NTargets \in Nat /\ Len(r) = L + NTargets
  BY Entries, Constants
<1>2. ASSUME NEW k \in 1 .. L
      PROVE  /\ k \in 1 .. Len(r) /\ r[k] = m[k] /\ m[k].act \in 0 .. ScanSize - 1
             /\ acts[m[k].act] # None
  BY <1>1, Entries DEF Lists
<1>3. ASSUME NEW k \in L + 1 .. Len(r)
      PROVE  \E t \in Targets : /\ k = L + t + 1 /\ r[k].act = CtimAct(t)
                                /\ r[k].act >= ScanSize /\ r[k].act \in Nat
  <2>1. k - L \in 1 .. NTargets /\ r[k] = CtimEntries[k - L]
    BY <1>3, Entries
  <2>2. PICK j \in 1 .. NTargets : j = k - L
    BY <2>1
  <2>3. j - 1 \in Targets /\ CtimEntries[j].act = CtimAct(j - 1)
    BY CtimEntriesType
  <2>4. PICK t \in Targets : t = j - 1
    BY <2>3
  <2>5. k = L + t + 1
    BY <1>1, <2>2, <2>4
  <2>6. CtimAct(t) >= ScanSize /\ CtimAct(t) \in Nat
    BY TargetFacts
  <2> QED  BY <2>1, <2>2, <2>3, <2>4, <2>5, <2>6
<1>4. \A k \in 1 .. Len(r) : k \in 1 .. L \/ k \in L + 1 .. Len(r)
  BY <1>1
<1>5. CASE a < ScanSize /\ acts[a] # None
  <2>1. a \in 0 .. ScanSize - 1 /\ a \in Acts
    BY <1>1, <1>5 DEF Acts
  <2>2. PICK k \in 1 .. L : m[k].act = a
    BY <1>5, <2>1 DEF Lists
  <2>3. ASSUME NEW j \in 1 .. Len(r), r[j].act = a PROVE j = k
    <3>1. j \in 1 .. L
      BY <1>1, <1>3, <1>4, <1>5, <2>3
    <3>2. m[j].act = m[k].act
      BY <1>2, <2>2, <2>3, <3>1
    <3>3. ~(j < k) /\ ~(k < j)
      BY <1>1, <1>2, <2>2, <3>1, <3>2 DEF Lists
    <3> QED  BY <1>1, <3>1, <3>3
  <2>4. EntryOf(r, a) = [ev |-> m[k].ev, channel |-> m[k].info.channel,
                         offsetMs |-> Low16(m[k].info.offset.ms)]
    <3>1. k \in 1 .. Len(r) /\ r[k] = m[k] /\ r[k].act = a
      BY <1>2, <2>2
    <3>2. EntryOf(r, a) = [ev |-> r[k].ev, channel |-> r[k].info.channel,
                           offsetMs |-> Low16(r[k].info.offset.ms)]
      BY <2>3, <3>1, EntryOnly
    <3> QED  BY <3>1, <3>2
  <2>5. /\ m[k].ev = EventIn(conds, acts[a])
        /\ m[k].info = InfoOf(OldSetting[a])
    BY <2>2 DEF Lists
  <2>6. IsSetting(OldSetting[a]) /\ OldSetting[a].pulser < 255
    BY <2>1, MailboxAssumption DEF SmallPulsers
  <2>7. InfoOf(OldSetting[a]).channel = OldSetting[a].pulser + 1
    <3>1. InfoOf(OldSetting[a]).channel = (OldSetting[a].pulser + 1) % 256
      BY DEF InfoOf
    <3>2. OldSetting[a].pulser \in 0 .. 255
      BY <2>6 DEF IsSetting
    <3> QED  BY <2>6, <3>1, <3>2, NextByte
  <2>8. DelayIs(OldSetting[a], Low16(InfoOf(OldSetting[a]).offset.ms))
    BY <2>6, DelayKept
  <2> QED  BY <1>5, <2>4, <2>5, <2>7, <2>8 DEF MetaSays, EventIn, EventOfCond
<1>6. ASSUME NEW t \in Targets, a = CtimAct(t)
      PROVE  MetaSays(a, EntryOf(r, a))
  <2>1. t \in Nat /\ t < NTargets /\ a >= ScanSize
    BY <1>6, TargetFacts
  <2>2. PICK k \in L + 1 .. Len(r) : k = L + t + 1
    <3> HIDE DEF L
    <3>1. L + t + 1 \in L + 1 .. Len(r)
      BY <1>1, <2>1
    <3> QED  BY <3>1
  <2>3. k \in 1 .. Len(r) /\ k - L \in 1 .. NTargets /\ k - L = t + 1
    BY <1>1, <2>1, <2>2
  <2>4. PICK j \in 1 .. NTargets : j = k - L
    BY <2>3
  <2>5. r[k] = CtimEntries[j]
    BY <2>4, Entries
  <2>6. j - 1 = t
    BY <1>1, <2>1, <2>3, <2>4
  <2>7. r[k].act = a
    BY <1>6, <2>5, <2>6, CtimEntriesType
  <2>8. ASSUME NEW l \in 1 .. Len(r), r[l].act = a PROVE l = k
    <3>1. l \in L + 1 .. Len(r)
      <4>1. l \in 1 .. L => r[l].act < ScanSize
        BY <1>1, <1>2
      <4> QED  BY <1>1, <1>4, <2>1, <2>8, <4>1
    <3>2. PICK u \in Targets : l = L + u + 1 /\ r[l].act = CtimAct(u)
      BY <1>3, <3>1
    <3>3. u = t
      BY <1>6, <2>8, <3>2, Apart
    <3> QED  BY <2>2, <3>2, <3>3
  <2>9. EntryOf(r, a) = [ev |-> r[k].ev, channel |-> r[k].info.channel,
                         offsetMs |-> Low16(r[k].info.offset.ms)]
    BY <2>3, <2>7, <2>8, EntryOnly
  <2>10. /\ r[k].ev = TargetEvent[t] /\ r[k].info.channel = 255
         /\ Low16(r[k].info.offset.ms) = 65535
    BY <2>5, <2>6, CtimEntryIs
  <2> QED  BY <1>6, <2>9, <2>10, SMT DEF MetaSays
<1>7. CASE /\ a < ScanSize => acts[a] = None
           /\ \A t \in Targets : a # CtimAct(t)
  <2>1. ASSUME NEW k \in 1 .. Len(r) PROVE r[k].act # a
    <3>1. CASE k \in 1 .. L
      BY <1>1, <1>2, <1>7, <3>1
    <3>2. CASE k \in L + 1 .. Len(r)
      BY <1>3, <1>7, <3>2
    <3> QED  BY <1>4, <3>1, <3>2
  <2>2. EntryOf(r, a) = NotInstalled
    BY <2>1, EntryNone
  <2> QED  BY <1>7, <2>2 DEF MetaSays
<1> QED  BY <1>5, <1>6, <1>7

\* The poll loop looks its events up in a table that is right.
THEOREM TableIsRight == Undisturbed /\ SmallPulsers => (ProcessSpec => []MetaCorrect)
<1> SUFFICES ASSUME Undisturbed /\ SmallPulsers PROVE ProcessSpec => []MetaCorrect
  OBVIOUS
<1>1. ASSUME MapOK, MetaOK PROVE MetaCorrect
  <2> SUFFICES ASSUME stage = "loop", NEW a \in DOMAIN meta
               PROVE  MetaSays(a, meta[a])
    BY DEF MetaCorrect, MetaSays
  <2>1. a \in Nat
    BY <1>1, ProcessAssumption DEF MetaOK
  <2>2. step = "LOOP" /\ meta[a] = EntryOf(map, a)
    BY <1>1 DEF MetaOK
  <2>3. PICK m \in Seq(MapEntry) :
           Lists(m, ScanSize, acts, conds) /\ map = m \o CtimEntries
    BY <1>1, <2>2 DEF MapOK
  <2> QED  BY <2>1, <2>2, <2>3, EntrySays
<1>2. TypeInv /\ MailboxOK /\ [Next]_vars => MailboxOK'
  BY MailboxStep
<1>3. TypeInv /\ MailboxOK /\ MapOK /\ [Next]_vars => MapOK'
  BY MapStep
<1>4. Spec => []MapOK
  BY <1>2, <1>3, TypeStart, TypeStep, MailboxStart, MapStart, PTL DEF Spec
<1>5. ProcessSpec => []MetaOK
  BY MetaStart, MetaStep, PTL DEF ProcessSpec
<1> QED  BY <1>1, <1>4, <1>5, ProcessRunsConfigurator, PTL
=============================================================================
