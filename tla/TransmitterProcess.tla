------------------------- MODULE TransmitterProcess -------------------------
(***************************************************************************)
(* The transmitter process around its poll loop: main reads the command    *)
(* line and the configuration and selects a transport, runTransmitterWith  *)
(* starts the watchdog, opens the PCIe device, lets WRENCTIMConfigurator   *)
(* set up and discover the firmware's actions, installs them, runs the     *)
(* poll loop until g_running is cleared, and destroys what it built.       *)
(*                                                                         *)
(* The poll loop itself is module WRENTransmitter: here it returns some    *)
(* time after g_running was cleared.  Options, transports and outcomes of  *)
(* library calls are external.  A process started with --rx goes on as     *)
(* module MainReceiver.                                                    *)
(***************************************************************************)
EXTENDS WRENCTIMConfigurator, SequencesExt

CONSTANTS
    Launches,   \* command line, configuration file and machine
    MaxActIdx   \* kMaxActIdx

VARIABLES
    launch,     \* how the process was launched, which never changes
    stage,      \* what the main thread does next
    code,       \* its exit status
    running,    \* g_running
    watchdog,   \* the detached watchdog thread
    meta        \* m_actMeta

process == <<launch, stage, code, running, watchdog, meta>>
tpVars  == <<vars, process>>

Transports == {"packet_mmap", "af_xdp", "intel_i210", "cadence_gem", "other"}

\* A launch holds the arguments, and the entries of the file main will load;
\* a key the file lacks is None.
IsLaunch(l) ==
    /\ l.args \in Seq({"--tx", "--rx", "--config", "path"})
    /\ {l.parses, l.txMac, l.rxMac} \subseteq BOOLEAN
    /\ {l.txTransport, l.rxTransport} \subseteq Transports \cup {None}
    /\ l.platform \in {"x86_64", "aarch64"}

ASSUME ProcessAssumption ==
    /\ \A l \in Launches : IsLaunch(l)
    /\ MaxActIdx \in Nat

-----------------------------------------------------------------------------
(* Pure parts.                                                             *)

\* The arguments from left to right: --config takes the next one, whatever
\* it is, and is unknown as the last; of two modes the later holds.
Mode(args) ==
    LET Step(st, a) ==
            CASE st.value -> [st EXCEPT !.value = FALSE]
              [] ~st.value /\ a = "--config" -> [st EXCEPT !.value = TRUE]
              [] ~st.value /\ a \in {"--tx", "--rx"} -> [st EXCEPT !.mode = a]
              [] OTHER -> [st EXCEPT !.unknown = TRUE]
        end == FoldLeft(Step, [mode |-> None, value |-> FALSE,
                               unknown |-> FALSE], args)
    IN  IF end.unknown \/ end.value THEN None ELSE end.mode

\* loadConfig returns: a file that does not parse throws, and both MAC
\* addresses must be there, whichever mode runs.
Loads(l) == l.parses /\ l.txMac /\ l.rxMac

\* The transport of the mode, which has a default.
TransportOf(l) ==
    LET t == IF Mode(l.args) = "--tx" THEN l.txTransport ELSE l.rxTransport
    IN  IF t = None THEN "packet_mmap" ELSE t

\* The kernel's sockets exist everywhere, the poll mode drivers on the
\* platform of their NIC.
Kernel(t)       == t \in {"packet_mmap", "af_xdp"}
PollMode(t, pf) == <<t, pf>> \in {<<"intel_i210", "x86_64">>,
                                  <<"cadence_gem", "aarch64">>}

\* The prefilled entry of m_actMeta.
NotInstalled == [ev |-> None, channel |-> 255, offsetMs |-> 65535]

\* What 16 bits hold of a number.
Low16(n) == n % 65536

\* The entry of the last element of m for a, or else the one that was there.
EntryFor(m, a, old) ==
    LET of == {k \in 1 .. Len(m) : m[k].act = a}
    IN  IF of = {} THEN old
        ELSE LET e == m[CHOOSE k \in of : \A j \in of : j <= k]
             IN  [ev |-> e.ev, channel |-> e.info.channel,
                  offsetMs |-> Low16(e.info.offset.ms)]

Installed(a) == EntryFor(map, a, meta[a])

-----------------------------------------------------------------------------
ProcessInit == /\ launch \in Launches
               /\ stage = "arguments"
               /\ code = None
               /\ running = TRUE
               /\ watchdog = "none"
               /\ meta = [a \in 0 .. MaxActIdx - 1 |-> NotInstalled]

EndWith(c) == stage' = "ended" /\ code' = c

Arguments ==
    /\ stage = "arguments"
    /\ IF Mode(launch.args) = None THEN EndWith("failure")
       ELSE stage' = "signal" /\ UNCHANGED code
    /\ UNCHANGED <<vars, launch, running, watchdog, meta>>

InstallHandler == /\ stage = "signal"
                  /\ stage' = "load"
                  /\ UNCHANGED <<vars, launch, code, running, watchdog, meta>>

LoadConfig == /\ stage = "load"
              /\ IF Loads(launch) THEN stage' = "dispatch" /\ UNCHANGED code
                 ELSE EndWith("abort")
              /\ UNCHANGED <<vars, launch, running, watchdog, meta>>

\* ensureHugepages and the init of a poll mode driver may fail, which main
\* returns; nobody catches what the constructor of a transport may throw.
DispatchTransport ==
    /\ stage = "dispatch"
    /\ LET t     == TransportOf(launch)
           built == Kernel(t) \/ PollMode(t, launch.platform)
       IN  \/ /\ built
              /\ stage' = IF Mode(launch.args) = "--tx" THEN "watchdog"
                          ELSE "receiver"
              /\ UNCHANGED code
           \/ built /\ EndWith("abort")
           \/ ~Kernel(t) /\ EndWith("failure")
    /\ UNCHANGED <<vars, launch, running, watchdog, meta>>

SpawnTxWatchdog == /\ stage = "watchdog"
                   /\ stage' = "open"
                   /\ watchdog' = "sleep"
                   /\ UNCHANGED <<vars, launch, code, running, meta>>

\* A device that cannot be opened is reported, and nobody asks isConnected.
OpenDevice == /\ stage = "open"
              /\ stage' \in {"configure", "unconnected"}
              /\ UNCHANGED <<vars, launch, code, running, watchdog, meta>>

\* The configurator's first register is not mapped.
FirstAccess == /\ stage = "unconnected"
               /\ EndWith("crash")
               /\ UNCHANGED <<vars, launch, running, watchdog, meta>>

\* The constructor and the destructor of the configurator.
Configure == /\ stage \in {"configure", "cleanup"}
             /\ Process
             /\ UNCHANGED process

\* Mutant of InstallActionMap: the flag is set where the loop begins.
InstallAndRun == /\ stage = "configure"
                 /\ step = "LOOP"
                 /\ meta' = [a \in DOMAIN meta |-> Installed(a)]
                 /\ stage' = "loop"
                 /\ running' = TRUE
                 /\ UNCHANGED <<vars, launch, code, watchdog>>

InstallActionMap == /\ stage = "configure"
                    /\ step = "LOOP"
                    /\ meta' = [a \in DOMAIN meta |-> Installed(a)]
                    /\ stage' = "loop"
                    /\ UNCHANGED <<vars, launch, code, running, watchdog>>

\* transmitAll or transmitLTIM returns, and the destructor of the
\* configurator begins.
LoopReturns == /\ stage = "loop"
               /\ ~running
               /\ Stop
               /\ stage' = "cleanup"
               /\ UNCHANGED <<launch, code, running, watchdog, meta>>

Return == /\ stage = "cleanup"
          /\ step = "EXIT"
          /\ EndWith("success")
          /\ UNCHANGED <<vars, launch, running, watchdog, meta>>

Alive == stage \notin {"ended", "receiver"}

\* SIGINT: until the handler is installed it ends the process.
SigInt == /\ Alive
          /\ running
          /\ IF stage \in {"arguments", "signal"}
             THEN EndWith("killed") /\ UNCHANGED running
             ELSE running' = FALSE /\ UNCHANGED <<stage, code>>
          /\ UNCHANGED <<vars, launch, watchdog, meta>>

\* watchdogSec seconds after it was spawned, wherever main is by then.
WatchdogElapsed == /\ Alive
                   /\ watchdog = "sleep"
                   /\ watchdog' = "done"
                   /\ running' = FALSE
                   /\ UNCHANGED <<vars, launch, stage, code, meta>>

FirmwareStep == Firmware /\ UNCHANGED process

MainThread == \/ Arguments \/ InstallHandler \/ LoadConfig
              \/ DispatchTransport \/ SpawnTxWatchdog \/ OpenDevice
              \/ FirstAccess \/ Configure \/ InstallActionMap
              \/ LoopReturns \/ Return

ProcessSpec ==
    Init /\ ProcessInit
    /\ [][MainThread \/ SigInt \/ WatchdogElapsed \/ FirmwareStep]_tpVars

\* The main thread is scheduled, a sleep comes to its end, and a timely
\* firmware answers.
FairProcessSpec == /\ ProcessSpec
                   /\ WF_tpVars(MainThread)
                   /\ WF_tpVars(WatchdogElapsed)
                   /\ Timely => WF_tpVars(FirmwareStep)

-----------------------------------------------------------------------------
(* Properties.                                                             *)

\* Ticks of a clock source in a millisecond.
TicksPerMs(clock) == CASE clock = 23 -> 1
                       [] clock = 25 -> 10000
                       [] OTHER -> 1000000

\* The delay of an action, in whole milliseconds below the 65.535 s that are
\* the sentinel of a CTIM.
DelayIs(set, ms) == LET m == set.idelay \div TicksPerMs(set.clock)
                    IN  m < 65535 => ms = m

\* When the poll loop runs, m_actMeta gives each action the firmware has in
\* the scanned range its event, the channel of its pulser counted from 1 and
\* its delay, each CTIM action its event and the sentinels, and nothing to
\* any other index.
MetaCorrect ==
    stage = "loop" =>
        \A a \in DOMAIN meta :
            LET e == meta[a]
            IN  \/ /\ a < ScanSize /\ acts[a] # None
                   /\ e.ev = EventOfCond(acts[a])
                   /\ e.channel = OldSetting[a].pulser + 1
                   /\ DelayIs(OldSetting[a], e.offsetMs)
                \/ \E t \in Targets :
                      /\ a = CtimAct(t)
                      /\ e.ev = TargetEvent[t]
                      /\ e.channel = 255 /\ e.offsetMs = 65535
                \/ /\ a < ScanSize => acts[a] = None
                   /\ \A t \in Targets : a # CtimAct(t)
                   /\ e = NotInstalled

\* "Auto-shutdown": however the process was launched, and whenever a signal
\* or the timeout comes, a transmitter ends, and one that reached its poll
\* loop returns through the destructor of the configurator.
AutoShutdown == <>[](~Alive /\ (meta # [a \in DOMAIN meta |-> NotInstalled]
                                   => code = "success" /\ step = "EXIT"))
=============================================================================
