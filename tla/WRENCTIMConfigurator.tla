------------------------ MODULE WRENCTIMConfigurator ------------------------
(***************************************************************************)
(* The start and the end of the transmitter: WRENCTIMConfigurator talks to *)
(* the WREN firmware through the PCIe mailbox, creates one condition and   *)
(* one action per CTIM target, reads the actions the firmware knows into   *)
(* m_actionMap, and deletes its own ones in the destructor.                *)
(*                                                                         *)
(* A mailbox call writes the H2B registers, waits for B2H_CSR, reads the   *)
(* reply and clears B2H_CSR; after a million polls without a reply it      *)
(* gives up and leaves the registers as they are.  Both sides run freely,  *)
(* so each of these is a step.  The firmware is external: its tables have  *)
(* one entry per index, an action names its condition.                     *)
(***************************************************************************)
EXTENDS Naturals, Sequences, FiniteSets

CONSTANTS
    NTargets,       \* m_targets.size(): 0 when CTIMs are disabled
    TargetEvent,    \* eventId of each target
    CtimCondBase,   \* kCtimCondBase
    CtimActBase,    \* kCtimActBase
    ScanSize,       \* discoverActions asks for the actions below it
    MaxActs,        \* MAX_RX_ACTIONS
    MaxConds,       \* MAX_RX_CONDS
    Events,         \* event identifiers
    NoEvent,        \* 0: the condition query failed
    WidthEvent,     \* word 2 of an action, taken for an event identifier
    OldConds,       \* conditions the firmware had before: index to event
    OldActs,        \* actions the firmware had before: index to condition
    OldSetting,     \* pulser, clock source and delay of those actions
    CondSetting,    \* what the same words of a condition read as
    None,           \* no table entry, no command, no reply
    Timely,         \* the firmware answers before the polls run out
    Rejects,        \* the firmware may reject a change
    MaxKills        \* bound: times the process is killed and started again

Acts  == 0 .. MaxActs - 1
Conds == 0 .. MaxConds - 1

CtimCond(t) == CtimCondBase + t

\* Mutant of CtimAct: the condition base is used.
CtimActAtCond(t) == CtimCondBase + t

CtimAct(t) == CtimActBase + t
Targets    == 0 .. NTargets - 1

SetupSteps   == {"SUBSCRIBE", "SET_COND", "SET_ACTION"}
ScanSteps    == {"GET_ACTION", "GET_COND"}
CleanupSteps == {"DEL_ACTION", "DEL_COND"}
Commands     == SetupSteps \cup ScanSteps \cup CleanupSteps

\* What a data register holds: an index, an event, or nothing yet.
Word == Nat \cup Events \cup {None}

\* Words 1 and 5 of an action: pulser_idx, bits 10 to 14 of inputs, idelay.
IsSetting(s) == /\ DOMAIN s = {"pulser", "clock", "idelay"}
                /\ s.pulser \in 0 .. 255
                /\ s.clock \in 0 .. 31
                /\ s.idelay \in Nat

ASSUME MailboxAssumption ==
    /\ {NTargets, CtimCondBase, CtimActBase, MaxActs, MaxConds, MaxKills}
          \subseteq Nat
    /\ ScanSize \in 1 .. MaxActs
    /\ TargetEvent \in [Targets -> Events]
    /\ CtimActBase >= ScanSize
    /\ \A t \in Targets : CtimAct(t) \in Acts /\ CtimCond(t) \in Conds
    /\ OldConds \in [Conds -> Events \cup {None}]
    /\ OldActs \in [Acts -> Conds \cup {None}]
    /\ \A a \in Acts : IsSetting(OldSetting[a])
    /\ IsSetting(CondSetting)
    /\ {Timely, Rejects} \subseteq BOOLEAN
    /\ None \notin Conds /\ None \notin Events
    /\ None \notin Commands \X [1 .. 2 -> Word]

VARIABLES
    \* the mailbox and the firmware
    h2b,        \* H2B registers: two data words, command, ready bit
    b2h,        \* B2H registers: error bit, data words, ready bit
    fw,         \* the command the firmware executes
    conds,      \* its condition table
    acts,       \* its action table
    refused,    \* history: changes it rejected for reasons of its own
    \* the process
    step,       \* the mailbox command of the process
    i,          \* its loop counter
    condIdx,    \* cond_idx of the last action read
    info,       \* its channel and its offset
    mb,         \* where the mailbox call is
    reply,      \* the reply the call has read
    map,        \* m_actionMap
    kills

firmware == <<fw, conds, acts, refused>>
host     == <<step, i, condIdx, info, map, kills>>
vars     == <<h2b, b2h, firmware, host, mb, reply>>

\* Mutant of CleanupOrder: the condition goes first.
CleanupSwapped == [first |-> "DEL_COND", second |-> "DEL_ACTION"]

\* cleanupAll deletes the action of a target before its condition.
CleanupOrder == [first |-> "DEL_ACTION", second |-> "DEL_COND"]

\* The data words of the command of a step: all of those it writes.
Words == CASE step = "SUBSCRIBE"  -> <<0, TargetEvent[i]>>
           [] step = "SET_COND"   -> <<CtimCond(i), TargetEvent[i]>>
           [] step = "SET_ACTION" -> <<CtimAct(i), CtimCond(i)>>
           [] step = "GET_ACTION" -> <<i>>
           [] step = "GET_COND"   -> <<condIdx>>
           [] step = "DEL_ACTION" -> <<CtimAct(i)>>
           [] step = "DEL_COND"   -> <<CtimCond(i)>>

NoReply == [of |-> None, ok |-> FALSE, cond |-> None, ev |-> NoEvent,
            set |-> CondSetting]

\* Mutant of OffsetOf: every clock counts milliseconds.
OffsetInMs(set) == [ms |-> set.idelay, ns |-> 0]

\* offsetNs, split at the millisecond: the ticks are those of a clock of
\* 1 kHz, of 10 MHz, or else of 1 GHz.
OffsetOf(set) ==
    CASE set.clock = 23 -> [ms |-> set.idelay, ns |-> 0]
      [] set.clock = 25 -> [ms |-> set.idelay \div 10000,
                            ns |-> (set.idelay % 10000) * 100]
      [] OTHER -> [ms |-> set.idelay \div 1000000,
                   ns |-> set.idelay % 1000000]

\* wrentest counts channels from 1, in a byte.
InfoOf(set) == [channel |-> (set.pulser + 1) % 256, offset |-> OffsetOf(set)]

\* Where the constructor begins.
Start == /\ step' = IF NTargets > 0 THEN "SUBSCRIBE" ELSE "GET_ACTION"
         /\ i' = 0
         /\ mb' = "data"

Init == /\ h2b = [data |-> <<None, None>>, cmd |-> None, ready |-> FALSE]
        /\ b2h = [of |-> None, ok |-> FALSE, cond |-> None, ev |-> NoEvent,
                  set |-> CondSetting, ready |-> FALSE]
        /\ fw = None
        /\ conds = OldConds
        /\ acts = OldActs
        /\ refused = {}
        /\ step = IF NTargets > 0 THEN "SUBSCRIBE" ELSE "GET_ACTION"
        /\ i = 0
        /\ condIdx = None
        /\ info = InfoOf(CondSetting)
        /\ mb = "data"
        /\ reply = NoReply
        /\ map = <<>>
        /\ kills = 0

-----------------------------------------------------------------------------
(* The firmware.                                                           *)

FwTake == /\ h2b.ready
          /\ fw = None
          /\ fw' = <<h2b.cmd, h2b.data>>
          /\ h2b' = [h2b EXCEPT !.ready = FALSE]
          /\ UNCHANGED <<b2h, conds, acts, refused, host, mb, reply>>

\* The reply takes the place of one that nobody has read.
FwAnswer(ok, cond, ev, set) ==
    /\ b2h' = [of |-> fw, ok |-> ok, cond |-> cond, ev |-> ev, set |-> set,
               ready |-> TRUE]
    /\ fw' = None
    /\ UNCHANGED <<h2b, host, mb, reply>>

\* A condition some action refers to.
Referenced(c) == \E a \in Acts : acts[a] = c

\* A change the tables allow.
Possible(cmd, w) ==
    CASE cmd = "SUBSCRIBE"  -> TRUE
      [] cmd = "SET_COND"   -> w[1] \in Conds /\ w[2] \in Events
      [] cmd = "SET_ACTION" -> /\ w[1] \in Acts /\ w[2] \in Conds
                               /\ conds[w[2]] # None
      [] cmd = "DEL_ACTION" -> w[1] \in Acts /\ acts[w[1]] # None
      [] cmd = "DEL_COND"   -> /\ w[1] \in Conds /\ conds[w[1]] # None
                               /\ ~Referenced(w[1])

FwChange ==
    /\ fw # None /\ fw[1] \notin ScanSteps
    /\ LET cmd == fw[1]
           w   == fw[2]
       IN  /\ Possible(cmd, w)
           /\ conds' = CASE cmd = "SET_COND" -> [conds EXCEPT ![w[1]] = w[2]]
                         [] cmd = "DEL_COND" -> [conds EXCEPT ![w[1]] = None]
                         [] OTHER -> conds
           /\ acts' = CASE cmd = "SET_ACTION" -> [acts EXCEPT ![w[1]] = w[2]]
                        [] cmd = "DEL_ACTION" -> [acts EXCEPT ![w[1]] = None]
                        [] OTHER -> acts
    /\ FwAnswer(TRUE, b2h.cond, b2h.ev, b2h.set)
    /\ UNCHANGED refused

\* The change is impossible, or refused for a reason the model leaves out.
FwReject ==
    /\ fw # None /\ fw[1] \notin ScanSteps
    /\ \/ ~Possible(fw[1], fw[2]) /\ UNCHANGED refused
       \/ Rejects /\ refused' = refused \cup {fw}
    /\ FwAnswer(FALSE, b2h.cond, b2h.ev, b2h.set)
    /\ UNCHANGED <<conds, acts>>

\* Word 0 of a condition holds an action, where that of an action holds its
\* condition; word 2 of an action is its width.
FwQuery ==
    LET w == fw[2][1]
    IN  /\ fw # None
        /\ \/ /\ fw[1] = "GET_ACTION"
              /\ w \in Acts /\ acts[w] # None
              /\ FwAnswer(TRUE, acts[w], WidthEvent, OldSetting[w])
           \/ /\ fw[1] = "GET_COND"
              /\ w \in Conds /\ conds[w] # None
              /\ \E a \in {b \in Acts : acts[b] = w} \cup {None} :
                    FwAnswer(TRUE, a, conds[w], CondSetting)
           \/ /\ fw[1] = "GET_ACTION" /\ (w \in Acts => acts[w] = None)
              /\ FwAnswer(FALSE, b2h.cond, b2h.ev, b2h.set)
           \/ /\ fw[1] = "GET_COND" /\ (w \in Conds => conds[w] = None)
              /\ FwAnswer(FALSE, b2h.cond, b2h.ev, b2h.set)
        /\ UNCHANGED <<conds, acts, refused>>

-----------------------------------------------------------------------------
(* A mailbox call: mbSend and mbSendRecv.                                  *)

\* The data words are written one by one; a command of one word leaves the
\* second word of the one before.
WriteData == /\ mb = "data"
             /\ step \in Commands
             /\ h2b' = [h2b EXCEPT !.data[1] = Words[1]]
             /\ mb' = IF Len(Words) = 1 THEN "cmd" ELSE "more"
             /\ UNCHANGED <<b2h, firmware, host, reply>>

WriteMore == /\ mb = "more"
             /\ h2b' = [h2b EXCEPT !.data[2] = Words[2]]
             /\ mb' = "cmd"
             /\ UNCHANGED <<b2h, firmware, host, reply>>

WriteCommand == /\ mb = "cmd"
                /\ h2b' = [h2b EXCEPT !.cmd = step]
                /\ mb' = "csr"
                /\ UNCHANGED <<b2h, firmware, host, reply>>

WriteReady == /\ mb = "csr"
              /\ h2b' = [h2b EXCEPT !.ready = TRUE]
              /\ mb' = "wait"
              /\ UNCHANGED <<b2h, firmware, host, reply>>

ReadReply == /\ mb = "wait"
             /\ b2h.ready
             /\ reply' = [of |-> b2h.of, ok |-> b2h.ok, cond |-> b2h.cond,
                          ev |-> b2h.ev, set |-> b2h.set]
             /\ mb' = "ack"
             /\ UNCHANGED <<h2b, b2h, firmware, host>>

\* Mutant of Ack: B2H_CSR is not cleared.
AckNothing == /\ mb = "ack"
              /\ mb' = "returned"
              /\ UNCHANGED <<h2b, b2h, firmware, host, reply>>

Ack == /\ mb = "ack"
       /\ b2h' = [b2h EXCEPT !.ready = FALSE]
       /\ mb' = "returned"
       /\ UNCHANGED <<h2b, firmware, host, reply>>

\* Mutant of Timeout: the call starts over.
TimeoutRetry == /\ mb = "wait"
                /\ ~Timely
                /\ ~b2h.ready
                /\ reply' = NoReply
                /\ mb' = "data"
                /\ UNCHANGED <<h2b, b2h, firmware, host>>

\* The polls ran out: the command stays where it is.
Timeout == /\ mb = "wait"
           /\ ~Timely
           /\ ~b2h.ready
           /\ reply' = NoReply
           /\ mb' = "returned"
           /\ UNCHANGED <<h2b, b2h, firmware, host>>

-----------------------------------------------------------------------------
(* What follows a call.                                                    *)

Returned(s) == /\ mb = "returned"
               /\ step = s
               /\ mb' = "data"
               /\ UNCHANGED <<h2b, b2h, firmware, reply, kills>>

\* Mutant of NextTarget: one target too many.
NextTargetTooMany == IF i < NTargets
                     THEN step' = "SUBSCRIBE" /\ i' = i + 1
                     ELSE step' = "GET_ACTION" /\ i' = 0

\* The next target of setupAll, then discoverActions.
NextTarget == IF i + 1 < NTargets
              THEN step' = "SUBSCRIBE" /\ i' = i + 1
              ELSE step' = "GET_ACTION" /\ i' = 0

Subscribed == /\ Returned("SUBSCRIBE")
              /\ IF reply.ok THEN step' = "SET_COND" /\ UNCHANGED i
                 ELSE NextTarget
              /\ UNCHANGED <<condIdx, info, map>>

ConditionSet == /\ Returned("SET_COND")
                /\ IF reply.ok THEN step' = "SET_ACTION" /\ UNCHANGED i
                   ELSE NextTarget
                /\ UNCHANGED <<condIdx, info, map>>

ActionSet == /\ Returned("SET_ACTION")
             /\ NextTarget
             /\ UNCHANGED <<condIdx, info, map>>

\* The CTIM actions, which the scan does not reach, with their sentinels.
CtimEntries == [k \in 1 .. NTargets |->
                  [act |-> CtimAct(k - 1), ev |-> TargetEvent[k - 1],
                   info |-> [channel |-> 255,
                             offset  |-> [ms |-> 65535, ns |-> 0]]]]

\* The next index of the scan, or the end of discoverActions.
NextIndex(found) ==
    IF i + 1 < ScanSize
    THEN /\ step' = "GET_ACTION"
         /\ i' = i + 1
         /\ map' = map \o found
    ELSE /\ step' = "LOOP"
         /\ i' = 0
         /\ map' = map \o found \o CtimEntries

\* Mutant of GotAction: an action whose query failed is kept.
GotAnyAction == /\ Returned("GET_ACTION")
                /\ condIdx' = reply.cond
                /\ info' = InfoOf(reply.set)
                /\ step' = "GET_COND"
                /\ UNCHANGED <<i, map>>

GotAction == /\ Returned("GET_ACTION")
             /\ IF reply.ok
                THEN /\ condIdx' = reply.cond
                     /\ info' = InfoOf(reply.set)
                     /\ step' = "GET_COND"
                     /\ UNCHANGED <<i, map>>
                ELSE /\ NextIndex(<<>>)
                     /\ UNCHANGED <<condIdx, info>>

GotCondition ==
    /\ Returned("GET_COND")
    /\ NextIndex(<<[act |-> i, ev |-> IF reply.ok THEN reply.ev ELSE NoEvent,
                    info |-> info]>>)
    /\ UNCHANGED <<condIdx, info>>

\* The poll loop returned and the destructor runs.
Stop == /\ step = "LOOP"
        /\ step' = IF NTargets > 0 THEN CleanupOrder.first ELSE "EXIT"
        /\ i' = 0
        /\ UNCHANGED <<h2b, b2h, firmware, condIdx, info, mb, reply, map, kills>>

\* Whether the first deletion succeeded does not matter to the second.
FirstDeleted == /\ Returned(CleanupOrder.first)
                /\ step' = CleanupOrder.second
                /\ UNCHANGED <<i, condIdx, info, map>>

SecondDeleted == /\ Returned(CleanupOrder.second)
                 /\ IF i + 1 < NTargets
                    THEN step' = CleanupOrder.first /\ i' = i + 1
                    ELSE step' = "EXIT" /\ i' = 0
                 /\ UNCHANGED <<condIdx, info, map>>

\* The process is killed, wherever it is, and started again: what it asked
\* may be pending or under way, and what was answered unread.
Kill == /\ kills < MaxKills
        /\ step # "EXIT"
        /\ Start
        /\ condIdx' = None
        /\ info' = InfoOf(CondSetting)
        /\ reply' = NoReply
        /\ map' = <<>>
        /\ kills' = kills + 1
        /\ UNCHANGED <<h2b, b2h, firmware>>

Firmware == FwTake \/ FwChange \/ FwReject \/ FwQuery

MailboxCall == \/ WriteData \/ WriteMore \/ WriteCommand \/ WriteReady
               \/ ReadReply \/ Ack \/ Timeout

Process == \/ MailboxCall
           \/ Subscribed \/ ConditionSet \/ ActionSet
           \/ GotAction \/ GotCondition
           \/ FirstDeleted \/ SecondDeleted

Next == Firmware \/ Process \/ Stop \/ Kill

Spec == Init /\ [][Next]_vars

\* The process runs whatever the firmware does; nobody has to stop it.
FairSpec == Spec /\ WF_vars(Process)

-----------------------------------------------------------------------------
(* Properties.                                                             *)

Counter == CASE step \in SetupSteps \cup CleanupSteps -> Targets
             [] step \in ScanSteps -> 0 .. ScanSize - 1
             [] OTHER -> {0}

\* Every variable has the type of the code's variable: the loop counters
\* stay within the targets and the scanned indices, so that every index the
\* process writes names an entry of its own or of the scan.
TypeOK ==
    /\ h2b.ready \in BOOLEAN /\ b2h.ready \in BOOLEAN
    /\ h2b.cmd \in Commands \cup {None}
    /\ fw # None => fw[1] \in Commands
    /\ conds \in [Conds -> Events \cup {None}]
    /\ acts \in [Acts -> Conds \cup {None}]
    /\ step \in Commands \cup {"LOOP", "EXIT"}
    /\ i \in Counter
    /\ mb \in {"data", "more", "cmd", "csr", "wait", "ack", "returned"}
    /\ DOMAIN reply = {"of", "ok", "cond", "ev", "set"}
    /\ info.channel \in 0 .. 255
    /\ Len(map) <= ScanSize + NTargets
    /\ kills \in 0 .. MaxKills

\* The reply a call takes is the firmware's answer to the command the call
\* sent: the mailbox is synchronous.
ReplyMatches ==
    mb = "ack" => /\ reply.of # None
                  /\ reply.of[1] = step
                  /\ \A j \in 1 .. Len(Words) : reply.of[2][j] = Words[j]

\* The event of a condition; an action without one counts for event 0.
EventOfCond(c) == IF conds[c] = None THEN NoEvent ELSE conds[c]

\* The action map the poll loop is given holds exactly the actions of the
\* scanned range, each with the event of its condition, then the CTIMs, so
\* that forwarded packets name the right event.
MapCorrect ==
    LET scanned == {k \in 1 .. Len(map) : map[k].act < ScanSize}
    IN  step = "LOOP" =>
           /\ {map[k].act : k \in scanned} =
                 {a \in 0 .. ScanSize - 1 : acts[a] # None}
           /\ \A k \in scanned :
                 /\ map[k].ev = EventOfCond(acts[map[k].act])
                 /\ \A l \in scanned : l < k => map[l].act < map[k].act
           /\ Len(map) = Cardinality(scanned) + NTargets

\* The conditions and actions the firmware had before, those of the LTIMs,
\* stay as they were: "high range avoids LTIM driver conflicts".  It takes a
\* mailbox that is synchronous: a command that timed out, or was left behind
\* by a killed process, is taken with the data words of a later one.
OthersUntouched ==
    /\ \A a \in Acts : OldActs[a] # None => acts[a] = OldActs[a]
    /\ \A c \in Conds : OldConds[c] # None => conds[c] = OldConds[c]

\* A deletion for target t that the firmware refused of itself.
Refused(t) == \E r \in refused :
                 \/ r[1] = "DEL_ACTION" /\ r[2][1] = CtimAct(t)
                 \/ r[1] = "DEL_COND" /\ r[2][1] = CtimCond(t)

\* After the destructor nothing of a target is left in the firmware, unless
\* the firmware itself refused a deletion of that target: an action goes
\* before the condition it refers to.
CleanExit ==
    step = "EXIT" =>
        \A t \in Targets :
           ~Refused(t) => acts[CtimAct(t)] = None /\ conds[CtimCond(t)] = None

\* The constructor comes to its end even if the firmware never answers.
StartupEnds == step \in SetupSteps \cup ScanSteps ~> step = "LOOP"
=============================================================================
