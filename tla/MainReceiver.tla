---------------------------- MODULE MainReceiver ----------------------------
(***************************************************************************)
(* The receiver process: the poller thread (WRENReceiver), the SPSC queue  *)
(* and the processor thread (EventProcessor) of the queue mode, the main   *)
(* thread in runUntilSignal and the watchdog.  Without the queue the       *)
(* poller hands each event to its sink itself: to shared memory, or on the *)
(* Zynq to the sink that turns one LTIM into a square pulse.               *)
(*                                                                         *)
(* The NIC ring is external: frames arrive at any time, tryReceive shows   *)
(* the oldest one, release gives it back.  Frames are numbered as they     *)
(* arrive, and those of the transmitter remember the message it sent.      *)
(* request_stop reaches the thread a jthread object owns at that moment;   *)
(* an object that owns none ignores it.                                    *)
(***************************************************************************)
EXTENDS WireFormat, SequencesExt

CONSTANTS
    Builds,         \* what the program is built for: its sink, kDebugVerbose
    Messages,       \* what the transmitter has to say
    Foreign,        \* payloads of frames another sender sends
    ForeignWhole,   \* whether those have kFrameSize bytes
    NoEvent,        \* stands for the message of such a frame
    LtimEventId,    \* ltim_event_id of the configuration file
    LtimChannel,    \* ltim_channel
    QueueCap,       \* queue_capacity
    RingCap,        \* frames the NIC ring holds
    MaxFrames       \* bound: frames that arrive in one behaviour

ASSUME ReceiverAssumption ==
    /\ Builds \subseteq [sink : {"queue", "shm", "zynq"}, verbose : BOOLEAN]
    /\ \A m \in Messages : m \in Message
    /\ NoEvent \notin Messages
    /\ Foreign \subseteq Payload
    /\ ForeignWhole \subseteq BOOLEAN
    /\ {LtimEventId, LtimChannel} \subseteq Nat
    /\ {QueueCap, RingCap} \subseteq Nat \ {0}
    /\ MaxFrames \in Nat

-----------------------------------------------------------------------------
(* The frames.  A transmit buffer was prefilled with zeros and may hold an *)
(* earlier packet.  Both ends are of one build: a release transmitter      *)
(* sends no ADVANCE.                                                       *)

Prefilled == [i \in Positions |-> 0]
Buffers   == {Prefilled} \cup {Send(Prefilled, m) : m \in Messages}

Said(verbose) == {m \in Messages : m.pktType = PKT_ADVANCE => verbose}

Frames == [verbose \in BOOLEAN |->
    [sent : {NoEvent}, bytes : Foreign, whole : ForeignWhole] \cup
    {[sent |-> m, bytes |-> Send(b, m), whole |-> TRUE] :
        m \in Said(verbose), b \in Buffers}]

VARIABLES
    build,          \* the build that runs, which never changes
    rx,             \* the NIC ring
    arrived,        \* number of frames that arrived
    queue,          \* the SPSC queue
    pushed,         \* history: the events the poller's sink took, in order
    delivered,      \* history: those written to shared memory or shown to
                    \* the Zynq sink, in order
    register,       \* the DIOT register the pulse is made with
    poller,         \* what the poller thread does next
    pollerStop,     \* its stop token
    processor,      \* what the processor thread does next
    processorStop,  \* its stop token
    draining,       \* it has left its first loop
    owed,           \* history: events pushed when its stop was requested
    bypassed,       \* history: the poller had no stop request then
    main,           \* what the main thread does next
    running,        \* g_running
    watchdog,       \* what the watchdog thread does next
    watchdogStop    \* its stop token

nic    == <<build, rx, arrived>>
events == <<queue, pushed, delivered, register>>
pollerVars    == <<poller, pollerStop>>
processorVars == <<processor, processorStop, draining, owed, bypassed>>
control       == <<main, running, watchdog, watchdogStop>>
vars          == <<nic, events, pollerVars, processorVars, control>>

UseQueue == build.sink = "queue"

Init == /\ build \in Builds
        /\ rx = <<>>
        /\ arrived = 0
        /\ queue = <<>> /\ pushed = <<>> /\ delivered = <<>>
        /\ register = 0
        /\ poller = "none" /\ pollerStop = FALSE
        /\ processor = "none" /\ processorStop = FALSE
        /\ draining = FALSE
        /\ owed = 0 /\ bypassed = FALSE
        /\ main = "watchdog"
        /\ running = TRUE
        /\ watchdog = "none" /\ watchdogStop = FALSE

-----------------------------------------------------------------------------
(* The NIC.                                                                *)

Arrive == /\ arrived < MaxFrames
          /\ Len(rx) < RingCap
          /\ \E f \in Frames[build.verbose] :
                rx' = Append(rx, [n |-> arrived + 1, frame |-> f])
          /\ arrived' = arrived + 1
          /\ UNCHANGED <<build, events, pollerVars, processorVars, control>>

-----------------------------------------------------------------------------
(* The poller thread.                                                      *)

\* Mutant of PollerTest: what has arrived is served before the thread ends.
PollerTestServesAll ==
    /\ poller = "test"
    /\ poller' = IF pollerStop /\ rx = <<>> THEN "exit" ELSE "receive"
    /\ UNCHANGED <<nic, events, pollerStop, processorVars, control>>

PollerTest == /\ poller = "test"
              /\ poller' = IF pollerStop THEN "exit" ELSE "receive"
              /\ UNCHANGED <<nic, events, pollerStop, processorVars, control>>

\* Mutant of Receive: what is no timing packet is skipped like a short frame.
ReceiveTimingOnly ==
    /\ poller = "receive"
    /\ poller' = IF rx # <<>> /\ Recognised(TRUE, Head(rx).frame.bytes)
                 THEN "push" ELSE "test"
    /\ UNCHANGED <<nic, events, pollerStop, processorVars, control>>

\* A frame shorter than kFrameSize is neither parsed nor released.
Receive == /\ poller = "receive"
           /\ poller' = IF rx # <<>> /\ Head(rx).frame.whole
                        THEN "push" ELSE "test"
           /\ UNCHANGED <<nic, events, pollerStop, processorVars, control>>

\* Mutant of TryPush: a full queue loses its oldest event.
TryPushOverwrite(e) ==
    /\ queue' = Append(IF Len(queue) < QueueCap THEN queue ELSE Tail(queue), e)
    /\ pushed' = Append(pushed, e)

\* Mutant of TryPush: the capacity is not looked at.
TryPushUnchecked(e) == queue' = Append(queue, e) /\ pushed' = Append(pushed, e)

\* QueueSink::push: a full queue drops the new event.
TryPush(e) ==
    IF Len(queue) < QueueCap
    THEN queue' = Append(queue, e) /\ pushed' = Append(pushed, e)
    ELSE UNCHANGED <<queue, pushed>>

\* What loadConfig and runReceiverWith make of the two configured numbers.
MatchEvent == [eventId |-> LtimEventId % 65536, pktType |-> PKT_FIRE,
               channel |-> LtimChannel % 256]

\* The event makes a pulse on every channel but the configured one.
Matches(ev) == /\ ev.eventId = MatchEvent.eventId
               /\ ev.pktType = MatchEvent.pktType
               /\ ev.channel # MatchEvent.channel

\* parseAndEnqueue, with the sink's push
GiveUp == /\ ~Recognised(build.verbose, Head(rx).frame.bytes)
          /\ poller' = "release"
          /\ UNCHANGED events

PushToQueue(e) == /\ UseQueue
                  /\ TryPush(e)
                  /\ poller' = "release"
                  /\ UNCHANGED <<delivered, register>>

PushAtOnce(e) ==
    /\ ~UseQueue
    /\ pushed' = Append(pushed, e) /\ delivered' = Append(delivered, e)
    /\ IF build.sink = "zynq" /\ Matches(e.ev)
       THEN register' = 1 /\ poller' = "pulse"
       ELSE UNCHANGED register /\ poller' = "release"
    /\ UNCHANGED queue

Push == /\ poller = "push"
        /\ LET f == Head(rx).frame
               e == [n |-> Head(rx).n, ev |-> Parse(build.verbose, f.bytes),
                     sent |-> f.sent]
           IN  \/ GiveUp
               \/ Recognised(build.verbose, f.bytes)
                  /\ (PushToQueue(e) \/ PushAtOnce(e))
        /\ UNCHANGED <<nic, pollerStop, processorVars, control>>

\* Mutant of PulseLow: a poller told to stop does not end the pulse.
PulseLowUnlessStopped ==
    /\ poller = "pulse"
    /\ register' = IF pollerStop THEN register ELSE 0
    /\ poller' = "release"
    /\ UNCHANGED <<nic, queue, pushed, delivered, pollerStop, processorVars,
                   control>>

\* The pulse lasts ltim_pulse_width_us, with the poller asleep.
PulseLow == /\ poller = "pulse"
            /\ register' = 0
            /\ poller' = "release"
            /\ UNCHANGED <<nic, queue, pushed, delivered, pollerStop,
                           processorVars, control>>

Release == /\ poller = "release"
           /\ rx' = Tail(rx)
           /\ poller' = "test"
           /\ UNCHANGED <<build, arrived, events, pollerStop, processorVars,
                          control>>

-----------------------------------------------------------------------------
(* The processor thread.                                                   *)

\* Mutant of ProcessorTest: it does not drain the queue.
ProcessorTestNoDrain ==
    /\ processor = "test"
    /\ draining' = processorStop
    /\ processor' = IF processorStop THEN "exit" ELSE "front"
    /\ UNCHANGED <<nic, events, pollerVars, processorStop, owed,
                   bypassed, control>>

ProcessorTest ==
    /\ processor = "test"
    /\ draining' = processorStop
    /\ processor' = "front"
    /\ UNCHANGED <<nic, events, pollerVars, processorStop, owed,
                   bypassed, control>>

QueueFront == /\ processor = "front"
              /\ \/ queue # <<>> /\ processor' = "process"
                 \/ queue = <<>> /\ processor' = IF draining THEN "exit" ELSE "test"
              /\ UNCHANGED <<nic, events, pollerVars, processorStop, draining,
                             owed, bypassed, control>>

\* processEvent, the write of the slot
ProcessEvent ==
    /\ processor = "process"
    /\ delivered' = Append(delivered, Head(queue))
    /\ processor' = "pop"
    /\ UNCHANGED <<nic, queue, pushed, register, pollerVars, processorStop,
                   draining, owed, bypassed, control>>

Pop == /\ processor = "pop"
       /\ queue' = Tail(queue)
       /\ processor' = IF draining THEN "front" ELSE "test"
       /\ UNCHANGED <<nic, pushed, delivered, register, pollerVars,
                      processorStop, draining, owed, bypassed, control>>

-----------------------------------------------------------------------------
(* The main thread and the watchdog.                                       *)

\* request_stop of the jthread objects, by whoever calls requestStop.
StopPoller == /\ pollerStop' = (pollerStop \/ poller # "none")
              /\ UNCHANGED <<nic, events, poller, processorVars, running,
                             watchdogStop>>

StopProcessor ==
    /\ processorStop' = (processorStop \/ processor # "none")
    /\ IF processorStop' /\ ~processorStop
       THEN owed' = Len(pushed) /\ bypassed' = ~pollerStop
       ELSE UNCHANGED <<owed, bypassed>>
    /\ UNCHANGED <<nic, events, pollerVars, processor, draining, running,
                   watchdogStop>>

SpawnWatchdog == /\ main = "watchdog"
                 /\ main' = "startPoller"
                 /\ watchdog' = "sleep"
                 /\ UNCHANGED <<nic, events, pollerVars, processorVars,
                                running, watchdogStop>>

StartPoller == /\ main = "startPoller"
               /\ poller' = "test"
               /\ main' = IF UseQueue THEN "startProcessor" ELSE "loop"
               /\ UNCHANGED <<nic, events, pollerStop, processorVars, running,
                              watchdog, watchdogStop>>

StartProcessor == /\ main = "startProcessor"
                  /\ processor' = "test"
                  /\ main' = "loop"
                  /\ UNCHANGED <<nic, events, pollerVars, processorStop,
                                 draining, owed, bypassed, running,
                                 watchdog, watchdogStop>>

MainLoop == /\ main = "loop"
            /\ ~running
            /\ main' = "stopPoller"
            /\ UNCHANGED <<nic, events, pollerVars, processorVars, running,
                           watchdog, watchdogStop>>

MainStopPoller == /\ main = "stopPoller"
                  /\ StopPoller
                  /\ main' = IF UseQueue THEN "stopProcessor" ELSE "joinPoller"
                  /\ UNCHANGED watchdog

MainStopProcessor == /\ main = "stopProcessor"
                     /\ StopProcessor
                     /\ main' = "joinPoller"
                     /\ UNCHANGED watchdog

JoinPoller == /\ main = "joinPoller"
              /\ poller = "exit"
              /\ main' = IF UseQueue THEN "joinProcessor" ELSE "stopWatchdog"
              /\ UNCHANGED <<nic, events, pollerVars, processorVars, running,
                             watchdog, watchdogStop>>

JoinProcessor == /\ main = "joinProcessor"
                 /\ processor = "exit"
                 /\ main' = "stopWatchdog"
                 /\ UNCHANGED <<nic, events, pollerVars, processorVars,
                                running, watchdog, watchdogStop>>

StopWatchdog == /\ main = "stopWatchdog"
                /\ watchdogStop' = TRUE
                /\ main' = "joinWatchdog"
                /\ UNCHANGED <<nic, events, pollerVars, processorVars,
                               running, watchdog>>

\* The destructor of the jthread joins it; runUntilSignal returns and the
\* receiver is destroyed.
JoinWatchdog == /\ main = "joinWatchdog"
                /\ watchdog = "exit"
                /\ main' = "exit"
                /\ UNCHANGED <<nic, events, pollerVars, processorVars,
                               running, watchdog, watchdogStop>>

\* Once a second the watchdog looks at its token.
WatchdogDismissed == /\ watchdog = "sleep"
                     /\ watchdogStop
                     /\ watchdog' = "exit"
                     /\ UNCHANGED <<nic, events, pollerVars, processorVars,
                                    main, running, watchdogStop>>

\* watchdogSec seconds passed; the token was not set at the last look.
WatchdogElapsed == /\ watchdog = "sleep"
                   /\ watchdog' = "stopPoller"
                   /\ UNCHANGED <<nic, events, pollerVars, processorVars,
                                  main, running, watchdogStop>>

WatchdogStopPoller ==
    /\ watchdog = "stopPoller"
    /\ StopPoller
    /\ watchdog' = IF UseQueue THEN "stopProcessor" ELSE "clear"
    /\ UNCHANGED main

WatchdogStopProcessor == /\ watchdog = "stopProcessor"
                         /\ StopProcessor
                         /\ watchdog' = "clear"
                         /\ UNCHANGED main

\* Mutant of WatchdogClear: stopping the threads is thought to be enough.
WatchdogClearsNothing == /\ watchdog = "clear"
                         /\ watchdog' = "exit"
                         /\ UNCHANGED <<nic, events, pollerVars, running,
                                        processorVars, main, watchdogStop>>

WatchdogClear == /\ watchdog = "clear"
                 /\ running' = FALSE
                 /\ watchdog' = "exit"
                 /\ UNCHANGED <<nic, events, pollerVars, processorVars, main,
                                watchdogStop>>

\* SIGINT
Interrupt == /\ running
             /\ running' = FALSE
             /\ UNCHANGED <<nic, events, pollerVars, processorVars, main,
                            watchdog, watchdogStop>>

-----------------------------------------------------------------------------
Poller    == PollerTest \/ Receive \/ Push \/ PulseLow \/ Release
Processor == ProcessorTest \/ QueueFront \/ ProcessEvent \/ Pop
Main      == \/ SpawnWatchdog \/ StartPoller \/ StartProcessor \/ MainLoop
             \/ MainStopPoller \/ MainStopProcessor
             \/ JoinPoller \/ JoinProcessor \/ StopWatchdog \/ JoinWatchdog
Watchdog  == \/ WatchdogDismissed
             \/ WatchdogStopPoller \/ WatchdogStopProcessor \/ WatchdogClear

Next == Arrive \/ Poller \/ Processor \/ Main \/ Watchdog
        \/ WatchdogElapsed \/ Interrupt

Spec == Init /\ [][Next]_vars

\* Every thread is scheduled again and again: poller and processor are pinned
\* SCHED_FIFO threads on cores of their own, main is an ordinary thread and so
\* is the watchdog, pinned to core 0.  Nothing has to arrive, to interrupt or
\* to time out.
FairSpec == /\ Spec
            /\ WF_vars(Poller) /\ WF_vars(Processor)
            /\ WF_vars(Main) /\ WF_vars(Watchdog)

-----------------------------------------------------------------------------
(* Properties.                                                             *)

Events == [n : 1 .. MaxFrames, ev : TimingEvent, sent : Messages \cup {NoEvent}]

\* Every variable has the type of the code's variable, within the capacities
\* of the ring and of the queue.
TypeOK ==
    /\ build \in Builds
    /\ rx \in Seq([n : 1 .. MaxFrames, frame : Frames[build.verbose]])
    /\ Len(rx) <= RingCap
    /\ arrived \in 0 .. MaxFrames
    /\ queue \in Seq(Events) /\ Len(queue) <= QueueCap
    /\ pushed \in Seq(Events) /\ delivered \in Seq(Events)
    /\ register \in {0, 1}
    /\ poller \in {"none", "test", "receive", "push", "pulse", "release",
                   "exit"}
    /\ processor \in {"none", "test", "front", "process", "pop", "exit"}
    /\ {pollerStop, processorStop, draining, bypassed, running, watchdogStop}
          \subseteq BOOLEAN
    /\ owed \in 0 .. MaxFrames
    /\ main \in {"watchdog", "startPoller", "startProcessor", "loop",
                 "stopPoller", "stopProcessor", "joinPoller", "joinProcessor",
                 "stopWatchdog", "joinWatchdog", "exit"}
    /\ watchdog \in {"none", "sleep", "stopPoller", "stopProcessor", "clear",
                     "exit"}

\* Between the poller and shared memory no event is lost, repeated or
\* overtaken: what was pushed is what was delivered and then what is queued.
InOrder ==
    /\ \A k \in 1 .. Len(pushed) - 1 : pushed[k].n < pushed[k + 1].n
    /\ pushed = delivered \o (IF processor = "pop" THEN Tail(queue) ELSE queue)

\* The event parseAndEnqueue makes of a packet is the one sendAdvance or
\* sendFire was called with, whatever the transmit buffer held before; and
\* the debug build makes an event of nothing else.
EventsAsSent ==
    \A k \in 1 .. Len(pushed) :
       IF pushed[k].sent = NoEvent THEN ~build.verbose
       ELSE pushed[k].ev = pushed[k].sent

\* What was in the queue when the processor was told to stop is delivered
\* before the process ends.
OwedDelivered == main = "exit" /\ UseQueue => Len(delivered) >= owed

\* Of the events the poller pushes after the processor has drained the queue
\* at most one stays there: the poller was told to stop first, and had one
\* frame in its hands.
AtMostOneLeft == main = "exit" /\ ~bypassed => Len(queue) <= 1

\* A stop that comes during a pulse does not leave the register high.
PulseEnds == main = "exit" => register = 0

\* "generates a square pulse [...] when the arriving event matches the
\* configured one", and event 0 disables it.
PulseMatches ==
    register = 1 => LET ev == Last(delivered).ev
                    IN  /\ LtimEventId # 0
                        /\ ev.eventId = LtimEventId
                        /\ ev.channel = LtimChannel

\* A signal or a timeout, whenever it comes, ends the process in order.
ShutdownCompletes ==
    ~running \/ watchdog = "stopPoller" ~> main = "exit"

\* Every frame that arrives while the poller runs is given back to the NIC.
FramesServed ==
    \A n \in 1 .. MaxFrames :
       arrived >= n ~> (\A k \in 1 .. Len(rx) : rx[k].n # n) \/ pollerStop
=============================================================================
