------------------------- MODULE MainReceiverProofs -------------------------
(***************************************************************************)
(* The receiver process is safe: whatever arrives, whenever a signal or    *)
(* the watchdog strikes, and for every capacity of the ring and the queue. *)
(***************************************************************************)
EXTENDS MainReceiver, WireFormatProofs, SequenceTheorems

-----------------------------------------------------------------------------
(* The inductive invariant.                                                *)

\* Frames the poller has made an event of, or given up.
Handled == arrived - Len(rx) + (IF poller \in {"pulse", "release"} THEN 1 ELSE 0)

\* The ring holds the youngest frames and the poller has its oldest one in
\* its hands; each frame gives at most one event, in the order they arrived.
Numbered(s, last) == \A i \in 1 .. Len(s) : s[i].n = last - Len(s) + i

Rising(s, top) ==
    /\ \A k \in 1 .. Len(s) : s[k].n <= top
    /\ \A k \in 1 .. Len(s) - 1 : s[k].n < s[k + 1].n

NumbersOK ==
    /\ Len(rx) <= arrived
    /\ poller \in {"push", "pulse", "release"} => rx # <<>>
    /\ Numbered(rx, arrived)
    /\ Len(pushed) <= Handled
    /\ Rising(pushed, Handled)

\* The processor takes from the queue what it has delivered, and nothing is
\* in the queue of a program that has none.
FlowOK ==
    /\ pushed = delivered \o (IF processor = "pop" THEN Tail(queue) ELSE queue)
    /\ processor \in {"process", "pop"} => queue # <<>>
    /\ ~UseQueue => queue = <<>>

\* Who has started, and who has ended by the time the main thread gets where
\* it is.
ThreadsOK ==
    /\ register = 1 => poller = "pulse"
    /\ main = "watchdog" <=> watchdog = "none"
    /\ main \in {"watchdog", "startPoller"} <=> poller = "none"
    /\ main \in {"watchdog", "startPoller", "startProcessor"}
          => processor = "none"
    /\ processor # "none" \/ main = "startProcessor" => UseQueue
    /\ pollerStop => poller # "none"
    /\ processorStop => processor # "none"
    /\ main \in {"joinProcessor", "stopWatchdog", "joinWatchdog", "exit"}
          => poller = "exit"
    /\ main \in {"stopWatchdog", "joinWatchdog", "exit"} /\ UseQueue
          => processor = "exit"
    /\ main = "exit" => watchdog = "exit"

\* What a stop of the processor finds, and what it leaves behind.
InHand == Len(queue) + (IF poller \in {"receive", "push"} THEN 1 ELSE 0)

StopOK ==
    /\ draining => processorStop
    /\ processor = "exit" => draining
    /\ owed <= IF processorStop THEN Len(pushed) ELSE 0
    /\ processor = "exit" => Len(delivered) >= owed
    /\ processorStop /\ ~bypassed => pollerStop
    /\ processor = "exit" /\ ~bypassed => InHand <= 1

ReceiverInv == TypeOK /\ NumbersOK /\ FlowOK /\ ThreadsOK /\ StopOK

-----------------------------------------------------------------------------
(* Sequences of numbered things.                                           *)

LEMMA NumberedAppend ==
    ASSUME NEW S, NEW s \in Seq(S), NEW e \in S, NEW last \in Nat,
           e.n = last + 1, Numbered(s, last)
    PROVE  Numbered(Append(s, e), last + 1)
<1> DEFINE t == Append(s, e)
<1>1. /\ Len(s) \in Nat /\ Len(t) = Len(s) + 1 /\ t[Len(s) + 1] = e
      /\ \A i \in 1 .. Len(s) : t[i] = s[i]
  BY AppendProperties
<1> HIDE DEF t
<1>2. ASSUME NEW i \in 1 .. Len(t)
      PROVE  t[i].n = last + 1 - Len(t) + i
  <2>1. CASE i = Len(s) + 1
    BY <1>1, <2>1
  <2>2. CASE i \in 1 .. Len(s)
    <3>1. t[i].n = last - Len(s) + i
      BY <1>1, <2>2 DEF Numbered
    <3> QED  BY <1>1, <3>1
  <2> QED  BY <1>1, <2>1, <2>2
<1> QED  BY <1>2 DEF Numbered, t

LEMMA NumberedTail ==
    ASSUME NEW S, NEW s \in Seq(S), s # <<>>, NEW last \in Nat,
           Numbered(s, last)
    PROVE  Numbered(Tail(s), last)
<1> DEFINE t == Tail(s)
<1>1. /\ Len(s) \in Nat /\ Len(t) \in Nat /\ Len(t) = Len(s) - 1
      /\ \A i \in 1 .. Len(t) : t[i] = s[i + 1]
  BY HeadTailProperties
<1> HIDE DEF t
<1>2. ASSUME NEW i \in 1 .. Len(t)
      PROVE  t[i].n = last - Len(t) + i
  <2>1. i + 1 \in 1 .. Len(s)
    BY <1>1
  <2>2. s[i + 1].n = last - Len(s) + (i + 1)
    BY <2>1 DEF Numbered
  <2> QED  BY <1>1, <2>2
<1> QED  BY <1>2 DEF Numbered, t

LEMMA RisingAppend ==
    ASSUME NEW S, \A x \in S : x.n \in Nat, NEW s \in Seq(S), NEW e \in S,
           NEW top \in Nat, e.n = top + 1, Rising(s, top)
    PROVE  Rising(Append(s, e), top + 1)
<1> DEFINE t == Append(s, e)
<1>1. /\ Len(s) \in Nat /\ Len(t) = Len(s) + 1 /\ t[Len(s) + 1] = e
      /\ \A i \in 1 .. Len(s) : t[i] = s[i]
  BY AppendProperties
<1>2. \A i \in 1 .. Len(s) : s[i].n \in Nat /\ s[i].n <= top
  BY ElementOfSeq DEF Rising
<1> HIDE DEF t
<1>3. ASSUME NEW k \in 1 .. Len(t)
      PROVE  t[k].n <= top + 1
  <2>1. CASE k = Len(s) + 1
    BY <1>1, <2>1
  <2>2. CASE k \in 1 .. Len(s)
    BY <1>1, <1>2, <2>2
  <2> QED  BY <1>1, <2>1, <2>2
<1>4. ASSUME NEW k \in 1 .. Len(t) - 1
      PROVE  t[k].n < t[k + 1].n
  <2>1. k \in 1 .. Len(s)
    BY <1>1
  <2>2. CASE k = Len(s)
    BY <1>1, <1>2, <2>1, <2>2
  <2>3. CASE k \in 1 .. Len(s) - 1
    <3>1. k + 1 \in 1 .. Len(s)
      BY <1>1, <2>3
    <3>2. s[k].n < s[k + 1].n
      BY <2>3 DEF Rising
    <3> QED  BY <1>1, <2>1, <3>1, <3>2
  <2> QED  BY <1>1, <2>1, <2>2, <2>3
<1> QED  BY <1>3, <1>4 DEF Rising, t

LEMMA RisingLater ==
    ASSUME NEW S, \A x \in S : x.n \in Nat, NEW s \in Seq(S),
           NEW top \in Nat, Rising(s, top)
    PROVE  Rising(s, top + 1)
<1>1. \A i \in 1 .. Len(s) : s[i].n \in Nat /\ s[i].n <= top
  BY ElementOfSeq DEF Rising
<1> QED  BY <1>1 DEF Rising

-----------------------------------------------------------------------------
(* Frames and events.                                                      *)

RingFrame == [n : 1 .. MaxFrames, frame : Frames[build.verbose]]

LEMMA Bounds ==
    MaxFrames \in Nat /\ QueueCap \in Nat \ {0} /\ RingCap \in Nat \ {0}
BY ReceiverAssumption

LEMMA Numbers ==
    ASSUME TypeOK
    PROVE  /\ rx \in Seq(RingFrame) /\ Len(rx) \in Nat
           /\ arrived \in Nat /\ arrived <= MaxFrames
           /\ pushed \in Seq(Events) /\ Len(pushed) \in Nat
           /\ queue \in Seq(Events) /\ Len(queue) \in Nat
           /\ delivered \in Seq(Events) /\ Len(delivered) \in Nat
           /\ \A x \in RingFrame : x.n \in Nat
           /\ \A x \in Events : x.n \in Nat
<1>1. /\ rx \in Seq(RingFrame) /\ arrived \in 0 .. MaxFrames
      /\ pushed \in Seq(Events) /\ queue \in Seq(Events)
      /\ delivered \in Seq(Events)
  BY DEF TypeOK, RingFrame
<1>2. /\ \A x \in RingFrame : x.n \in Nat
      /\ \A x \in Events : x.n \in Nat
  BY Bounds DEF RingFrame, Events
<1> QED  BY <1>1, <1>2, Bounds, LenProperties

LEMMA BuildType == TypeOK => build.verbose \in BOOLEAN
BY ReceiverAssumption DEF TypeOK

LEMMA BuffersType == Buffers \subseteq Payload
<1>1. Prefilled \in Payload
  BY DEF Prefilled, Payload, Byte
<1> QED  BY <1>1, SendType, ReceiverAssumption DEF Buffers

\* A frame is a stranger's, or holds what the transmitter said.
LEMMA FrameFacts ==
    ASSUME NEW v \in BOOLEAN, NEW f \in Frames[v]
    PROVE  /\ f.bytes \in Payload /\ f.whole \in BOOLEAN
           /\ f.sent \in Messages \cup {NoEvent}
           /\ f.sent = NoEvent => f.bytes \in Foreign
           /\ f.sent # NoEvent => /\ Recognised(v, f.bytes)
                                  /\ Parse(v, f.bytes) = f.sent
<1>1. Frames[v] = [sent : {NoEvent}, bytes : Foreign, whole : ForeignWhole]
                  \cup {[sent |-> m, bytes |-> Send(b, m), whole |-> TRUE] :
                           m \in Said(v), b \in Buffers}
  BY DEF Frames
<1>2. CASE f \in [sent : {NoEvent}, bytes : Foreign, whole : ForeignWhole]
  BY <1>2, ReceiverAssumption
<1>3. CASE f \in {[sent |-> m, bytes |-> Send(b, m), whole |-> TRUE] :
                     m \in Said(v), b \in Buffers}
  <2>1. PICK m \in Said(v), b \in Buffers :
           f = [sent |-> m, bytes |-> Send(b, m), whole |-> TRUE]
    BY <1>3
  <2>2. /\ m \in Messages /\ m \in Message /\ b \in Payload
        /\ m.pktType = PKT_ADVANCE => v
    BY ReceiverAssumption, BuffersType DEF Said
  <2>3. Send(b, m) \in Payload
    BY <2>2, SendType
  <2>4. Recognised(v, Send(b, m)) /\ Parse(v, Send(b, m)) = m
    BY <2>2, ParsedAsSent
  <2>5. m # NoEvent
    BY <2>2, ReceiverAssumption
  <2> QED  BY <2>1, <2>2, <2>3, <2>4, <2>5
<1> QED  BY <1>1, <1>2, <1>3

-----------------------------------------------------------------------------
(* The threads.                                                            *)

\* What request_stop does, whoever calls it.
LEMMA StopPollerFacts ==
    ASSUME TypeOK, StopPoller
    PROVE  /\ pollerStop' \in BOOLEAN
           /\ pollerStop' <=> pollerStop \/ poller # "none"
           /\ UNCHANGED <<nic, events, poller, processorVars, running,
                          watchdogStop>>
BY Zenon DEF StopPoller, TypeOK

LEMMA StopProcessorFacts ==
    ASSUME TypeOK, StopProcessor
    PROVE  /\ processorStop' \in BOOLEAN
           /\ processorStop' <=> processorStop \/ processor # "none"
           /\ processorStop \/ processor = "none" => UNCHANGED <<owed, bypassed>>
           /\ ~processorStop /\ processor # "none"
                => owed' = Len(pushed) /\ bypassed' \in BOOLEAN
                   /\ (bypassed' <=> ~pollerStop)
           /\ UNCHANGED <<nic, events, pollerVars, processor, draining, running,
                          watchdogStop>>
<1>1. processorStop' = (processorStop \/ processor # "none")
  BY DEF StopProcessor
<1>2. /\ processorStop' \in BOOLEAN
      /\ processorStop' <=> processorStop \/ processor # "none"
  BY <1>1, Zenon DEF TypeOK
<1>3. CASE processorStop' /\ ~processorStop
  BY <1>2, <1>3, Zenon DEF StopProcessor
<1>4. CASE ~(processorStop' /\ ~processorStop)
  BY <1>2, <1>4, Zenon DEF StopProcessor
<1> QED  BY <1>3, <1>4

LEMMA ThreadsInit == Init => ThreadsOK
BY DEF Init, ThreadsOK

LEMMA ThreadsStep ==
    ASSUME TypeOK, ThreadsOK, [Next]_vars PROVE ThreadsOK'
<1> USE DEF ThreadsOK, UseQueue
<1>1. CASE Arrive \/ Processor
  BY <1>1 DEF Arrive, Processor, ProcessorTest, QueueFront, ProcessEvent, Pop,
              nic, events, pollerVars, processorVars, control
<1>2. CASE Poller
  BY <1>2 DEF Poller, PollerTest, Receive, Push, GiveUp, PushToQueue,
              PushAtOnce, PulseLow, Release, TypeOK,
              nic, events, pollerVars, processorVars, control
<1>3. CASE MainStopPoller \/ WatchdogStopPoller
  <2>1. StopPoller
    BY <1>3 DEF MainStopPoller, WatchdogStopPoller
  <2> QED  BY <1>3, <2>1, StopPollerFacts
           DEF MainStopPoller, WatchdogStopPoller, nic, events, processorVars
<1>4. CASE MainStopProcessor \/ WatchdogStopProcessor
  <2>1. StopProcessor
    BY <1>4 DEF MainStopProcessor, WatchdogStopProcessor
  <2> QED  BY <1>4, <2>1, StopProcessorFacts
           DEF MainStopProcessor, WatchdogStopProcessor, nic, events, pollerVars
<1>5. CASE SpawnWatchdog \/ StartPoller \/ StartProcessor \/ MainLoop
  BY <1>5 DEF SpawnWatchdog, StartPoller, StartProcessor, MainLoop,
              nic, events, pollerVars, processorVars, control
<1>6. CASE JoinPoller \/ JoinProcessor \/ StopWatchdog \/ JoinWatchdog
  BY <1>6 DEF JoinPoller, JoinProcessor, StopWatchdog, JoinWatchdog,
              nic, events, pollerVars, processorVars, control
<1>7. CASE WatchdogDismissed \/ WatchdogClear \/ WatchdogElapsed \/ Interrupt
  BY <1>7 DEF WatchdogDismissed, WatchdogClear, WatchdogElapsed, Interrupt,
              nic, events, pollerVars, processorVars, control
<1>8. CASE UNCHANGED vars
  BY <1>8 DEF vars, nic, events, pollerVars, processorVars, control
<1> QED  BY <1>1, <1>2, <1>3, <1>4, <1>5, <1>6, <1>7, <1>8
         DEF Next, Main, Watchdog

-----------------------------------------------------------------------------
(* The poller's frame.                                                     *)

\* The event made of frame n: the transmitter's message, or what a debug
\* build would recognise in a stranger's frame.
Made(e, n) ==
    /\ e \in Events
    /\ e.n = n
    /\ e.sent # NoEvent => e.ev = e.sent
    /\ e.sent = NoEvent => \E p \in Foreign : Recognised(build.verbose, p)

\* The sink took e: into the queue, or to its end at once.
Takes(e) ==
    /\ pushed' = Append(pushed, e)
    /\ \/ /\ UseQueue /\ Len(queue) < QueueCap
          /\ queue' = Append(queue, e)
          /\ UNCHANGED <<delivered, register>> /\ poller' = "release"
       \/ /\ ~UseQueue
          /\ delivered' = Append(delivered, e)
          /\ UNCHANGED queue
          /\ \/ register' = 1 /\ poller' = "pulse"
             \/ UNCHANGED register /\ poller' = "release"

LEMMA PushCases ==
    ASSUME TypeOK, NumbersOK, Push
    PROVE  /\ poller = "push" /\ rx # <<>>
           /\ UNCHANGED <<nic, pollerStop, processorVars, control>>
           /\ \/ UNCHANGED events /\ poller' = "release"
              \/ \E e : Made(e, arrived - Len(rx) + 1) /\ Takes(e)
<1> DEFINE f == Head(rx).frame
           e == [n |-> Head(rx).n, ev |-> Parse(build.verbose, f.bytes),
                 sent |-> f.sent]
<1>1. /\ poller = "push" /\ rx # <<>>
      /\ UNCHANGED <<nic, pollerStop, processorVars, control>>
  BY DEF Push, NumbersOK
<1>2. /\ Head(rx) = rx[1] /\ rx[1] \in RingFrame /\ 1 \in 1 .. Len(rx)
  <2>1. 1 \in 1 .. Len(rx) /\ Head(rx) = rx[1]
    BY <1>1, Numbers, EmptySeq
  <2> QED  BY <2>1, Numbers, ElementOfSeq
<1>3. f \in Frames[build.verbose] /\ e.n = arrived - Len(rx) + 1
      /\ e.n \in 1 .. MaxFrames
  BY <1>2 DEF NumbersOK, Numbered, RingFrame
<1>4. build.verbose \in BOOLEAN
  BY BuildType
<1>5. /\ f.bytes \in Payload /\ f.sent \in Messages \cup {NoEvent}
      /\ f.sent = NoEvent => f.bytes \in Foreign
      /\ f.sent # NoEvent => Parse(build.verbose, f.bytes) = f.sent
  BY <1>3, <1>4, FrameFacts
<1>6. Parse(build.verbose, f.bytes) \in TimingEvent
  BY <1>4, <1>5, ParseType
<1>7. ASSUME Recognised(build.verbose, f.bytes)
      PROVE  Made(e, arrived - Len(rx) + 1)
  BY <1>3, <1>5, <1>6, <1>7 DEF Made, Events
<1>8. ASSUME Recognised(build.verbose, f.bytes), PushToQueue(e) \/ PushAtOnce(e)
      PROVE  \/ UNCHANGED events /\ poller' = "release"
             \/ Takes(e)
  <2> HIDE DEF e, f
  <2> QED  BY <1>8 DEF PushToQueue, PushAtOnce, TryPush, Takes, events
<1>9. \/ GiveUp
      \/ Recognised(build.verbose, f.bytes) /\ (PushToQueue(e) \/ PushAtOnce(e))
  BY DEF Push
<1> HIDE DEF e, f
<1> QED  BY <1>1, <1>7, <1>8, <1>9 DEF GiveUp

-----------------------------------------------------------------------------
(* The frames are numbered.                                                *)

\* Steps that touch neither the ring nor what was pushed, and leave the
\* poller where it is or outside the release of a frame.
LEMMA NumbersQuiet ==
    ASSUME NumbersOK, UNCHANGED <<rx, arrived, pushed>>,
           \/ poller' = poller
           \/ /\ poller \notin {"push", "pulse", "release"}
              /\ poller' \notin {"push", "pulse", "release"}
           \/ poller = "pulse" /\ poller' = "release"
    PROVE  NumbersOK'
<1>1. Handled' = Handled \/ (poller = "pulse" /\ poller' = "release")
  BY DEF Handled
<1>2. Handled' = Handled
  BY <1>1 DEF Handled
<1> QED  BY <1>2 DEF NumbersOK

LEMMA NumbersInit == Init => NumbersOK
BY DEF Init, NumbersOK, Numbered, Rising, Handled

LEMMA NumbersStep ==
    ASSUME TypeOK, ThreadsOK, NumbersOK, [Next]_vars PROVE NumbersOK'
<1>1. CASE Arrive
  <2>1. PICK f \in Frames[build.verbose] :
           rx' = Append(rx, [n |-> arrived + 1, frame |-> f])
    BY <1>1 DEF Arrive
  <2> DEFINE g == [n |-> arrived + 1, frame |-> f]
  <2>2. /\ UNCHANGED <<pushed, poller>> /\ arrived' = arrived + 1
        /\ arrived + 1 \in 1 .. MaxFrames
    BY <1>1, Numbers, Bounds DEF Arrive, events, pollerVars
  <2>3. g \in RingFrame /\ g.n = arrived + 1 /\ rx' = Append(rx, g)
    BY <2>1, <2>2 DEF RingFrame
  <2> HIDE DEF g
  <2>4. Len(rx') = Len(rx) + 1 /\ rx' # <<>>
    BY <2>3, Numbers, AppendProperties
  <2>5. Numbered(rx', arrived')
    BY <2>2, <2>3, Numbers, NumberedAppend DEF NumbersOK
  <2>6. Handled' = Handled
    BY <2>2, <2>4, Numbers DEF Handled
  <2> QED  BY <2>2, <2>4, <2>5, <2>6, Numbers DEF NumbersOK
<1>2. CASE Push
  <2>1. /\ UNCHANGED <<rx, arrived>> /\ poller = "push" /\ rx # <<>>
        /\ \/ UNCHANGED events /\ poller' = "release"
           \/ \E e : Made(e, arrived - Len(rx) + 1) /\ Takes(e)
    BY <1>2, PushCases DEF nic
  <2>2. Handled = arrived - Len(rx) /\ Handled \in Nat
    BY <2>1, Numbers DEF Handled, NumbersOK
  <2>3. CASE UNCHANGED events /\ poller' = "release"
    <3>1. Handled' = Handled + 1 /\ UNCHANGED pushed
      BY <2>1, <2>2, <2>3 DEF Handled, events
    <3>2. Rising(pushed, Handled + 1)
      BY <2>2, Numbers, RisingLater DEF NumbersOK
    <3> QED  BY <2>1, <2>2, <3>1, <3>2, Numbers DEF NumbersOK
  <2>4. CASE \E e : Made(e, arrived - Len(rx) + 1) /\ Takes(e)
    <3>1. PICK e : Made(e, arrived - Len(rx) + 1) /\ Takes(e)
      BY <2>4
    <3>2. /\ e \in Events /\ e.n = Handled + 1
          /\ pushed' = Append(pushed, e)
          /\ poller' \in {"pulse", "release"}
      BY <2>2, <3>1 DEF Made, Takes
    <3>3. Handled' = Handled + 1
      BY <2>1, <2>2, <3>2 DEF Handled
    <3>4. Len(pushed') = Len(pushed) + 1
      BY <3>2, Numbers, AppendProperties
    <3>5. Rising(pushed', Handled + 1)
      BY <2>2, <3>2, Numbers, RisingAppend DEF NumbersOK
    <3> QED  BY <2>1, <2>2, <3>3, <3>4, <3>5, Numbers DEF NumbersOK
  <2> QED  BY <2>1, <2>3, <2>4
<1>3. CASE Release
  <2>1. /\ poller = "release" /\ poller' = "test" /\ rx' = Tail(rx)
        /\ UNCHANGED <<arrived, pushed>> /\ rx # <<>>
    BY <1>3 DEF Release, events, NumbersOK
  <2>2. Len(rx') = Len(rx) - 1
    BY <2>1, Numbers, HeadTailProperties
  <2>3. Numbered(rx', arrived')
    BY <2>1, Numbers, NumberedTail DEF NumbersOK
  <2>4. Handled' = Handled
    BY <2>1, <2>2, Numbers DEF Handled
  <2> QED  BY <2>1, <2>2, <2>3, <2>4, Numbers DEF NumbersOK
<1>4. CASE PollerTest \/ PulseLow
  <2>1. /\ UNCHANGED <<rx, arrived, pushed>>
        /\ \/ poller = "test" /\ poller' \in {"exit", "receive"}
           \/ poller = "pulse" /\ poller' = "release"
    BY <1>4 DEF PollerTest, PulseLow, nic, events
  <2> QED  BY <2>1, NumbersQuiet
<1>5. CASE Receive
  <2>1. /\ UNCHANGED <<rx, arrived, pushed>>
        /\ poller = "receive"
        /\ poller' = "test" \/ (rx # <<>> /\ poller' = "push")
    BY <1>5 DEF Receive, nic, events
  <2>2. Handled' = Handled
    BY <2>1 DEF Handled
  <2> QED  BY <2>1, <2>2 DEF NumbersOK
<1>6. CASE Processor
  <2>1. UNCHANGED <<rx, arrived, pushed, poller>>
    BY <1>6 DEF Processor, ProcessorTest, QueueFront, ProcessEvent, Pop,
                nic, events, pollerVars
  <2> QED  BY <2>1, NumbersQuiet
<1>7. CASE Main
  <2>1. /\ UNCHANGED <<rx, arrived, pushed>>
        /\ poller' = poller \/ (poller = "none" /\ poller' = "test")
    BY <1>7 DEF Main, SpawnWatchdog, StartPoller, StartProcessor, MainLoop,
                MainStopPoller, MainStopProcessor, JoinPoller, JoinProcessor,
                StopWatchdog, JoinWatchdog, StopPoller, StopProcessor,
                nic, events, pollerVars, ThreadsOK
  <2> QED  BY <2>1, NumbersQuiet
<1>8. CASE Watchdog \/ WatchdogElapsed \/ Interrupt \/ UNCHANGED vars
  <2>1. UNCHANGED <<rx, arrived, pushed, poller>>
    BY <1>8 DEF Watchdog, WatchdogDismissed, WatchdogStopPoller,
                WatchdogStopProcessor, WatchdogClear, WatchdogElapsed,
                Interrupt, StopPoller, StopProcessor,
                vars, nic, events, pollerVars
  <2> QED  BY <2>1, NumbersQuiet
<1> QED  BY <1>1, <1>2, <1>3, <1>4, <1>5, <1>6, <1>7, <1>8 DEF Next, Poller

-----------------------------------------------------------------------------
(* The queue.                                                              *)

\* What is still to be delivered, seen from the processor.
Pending == IF processor = "pop" THEN Tail(queue) ELSE queue

LEMMA FlowInit == Init => FlowOK
<1> SUFFICES ASSUME Init PROVE FlowOK
  OBVIOUS
<1>1. pushed = <<>> /\ delivered = <<>> /\ queue = <<>> /\ processor = "none"
  BY DEF Init
<1>2. <<>> \o <<>> = <<>>
  BY EmptySeq, ConcatEmptySeq
<1> QED  BY <1>1, <1>2 DEF FlowOK

\* Steps that leave the queue alone and the processor out of its hands.
LEMMA FlowQuiet ==
    ASSUME FlowOK, UNCHANGED <<build, queue, pushed, delivered>>,
           \/ processor' = processor
           \/ /\ processor \notin {"process", "pop"}
              /\ processor' \in {"process", "pop"} => queue # <<>>
              /\ processor' # "pop"
    PROVE  FlowOK'
BY DEF FlowOK, UseQueue

\* The event joins what is pending.
LEMMA FlowPush ==
    ASSUME TypeOK, FlowOK, ThreadsOK, UNCHANGED <<build, processor>>,
           NEW e \in Events, Takes(e)
    PROVE  FlowOK'
<1>1. /\ pushed' = Append(pushed, e) /\ pushed = delivered \o Pending
      /\ pushed \in Seq(Events) /\ queue \in Seq(Events)
      /\ delivered \in Seq(Events) /\ <<>> \in Seq(Events)
  BY Numbers, EmptySeq DEF Takes, FlowOK, Pending
<1>2. Pending \in Seq(Events)
  BY <1>1, HeadTailProperties DEF Pending, FlowOK
<1>3. \A s, t \in Seq(Events) : Append(s \o t, e) = s \o Append(t, e)
  <2> SUFFICES ASSUME NEW s \in Seq(Events), NEW t \in Seq(Events)
               PROVE  Append(s \o t, e) = s \o Append(t, e)
    OBVIOUS
  <2>1. s \o t \in Seq(Events) /\ <<e>> \in Seq(Events)
    BY ConcatProperties
  <2>2. Append(s \o t, e) = (s \o t) \o <<e>> /\ Append(t, e) = t \o <<e>>
    BY <2>1, AppendIsConcat
  <2> QED  BY <2>1, <2>2, ConcatAssociative
<1>4. CASE UseQueue
  <2>1. queue' = Append(queue, e) /\ UNCHANGED delivered
    BY <1>4 DEF Takes
  <2>2. Pending' = Append(Pending, e) /\ queue' # <<>>
    <3>1. queue' # <<>>
      BY <1>1, <2>1, AppendProperties
    <3>2. queue # <<>> => Tail(queue') = Append(Tail(queue), e)
      BY <1>1, <2>1, HeadTailAppend
    <3> QED  BY <2>1, <3>1, <3>2 DEF Pending, FlowOK
  <2>3. pushed' = delivered' \o Pending'
    BY <1>1, <1>2, <1>3, <2>1, <2>2
  <2> QED  BY <1>4, <2>2, <2>3 DEF FlowOK, Pending, UseQueue
<1>5. CASE ~UseQueue
  <2>1. delivered' = Append(delivered, e) /\ UNCHANGED queue
    BY <1>5 DEF Takes
  <2>2. Pending = <<>> /\ queue = <<>> /\ processor = "none"
    BY <1>5 DEF FlowOK, Pending, ThreadsOK
  <2>3. pushed' = delivered' /\ delivered' \in Seq(Events)
    BY <1>1, <2>1, <2>2, ConcatEmptySeq, AppendProperties
  <2>4. pushed' = delivered' \o <<>>
    BY <2>3, ConcatEmptySeq
  <2> QED  BY <2>1, <2>2, <2>4 DEF FlowOK
<1> QED  BY <1>4, <1>5

LEMMA FlowStep ==
    ASSUME TypeOK, ThreadsOK, NumbersOK, FlowOK, [Next]_vars PROVE FlowOK'
<1>1. CASE Arrive
  BY <1>1, FlowQuiet DEF Arrive, events, processorVars
<1>2. CASE Push
  <2>1. /\ UNCHANGED <<build, processor>>
        /\ \/ UNCHANGED events
           \/ \E e : Made(e, arrived - Len(rx) + 1) /\ Takes(e)
    BY <1>2, PushCases DEF nic, processorVars
  <2>2. CASE UNCHANGED events
    BY <2>1, <2>2, FlowQuiet DEF events
  <2>3. CASE \E e : Made(e, arrived - Len(rx) + 1) /\ Takes(e)
    BY <2>1, <2>3, FlowPush DEF Made
  <2> QED  BY <2>1, <2>2, <2>3
<1>3. CASE PollerTest \/ Receive \/ PulseLow \/ Release
  <2>1. UNCHANGED <<build, queue, pushed, delivered, processor>>
    BY <1>3 DEF PollerTest, Receive, PulseLow, Release, nic, events,
                processorVars
  <2> QED  BY <2>1, FlowQuiet
<1>4. CASE ProcessorTest \/ QueueFront
  <2>1. /\ UNCHANGED <<build, queue, pushed, delivered>>
        /\ processor \in {"test", "front"}
        /\ \/ processor' \in {"front", "exit", "test"}
           \/ processor' = "process" /\ queue # <<>>
    BY <1>4 DEF ProcessorTest, QueueFront, nic, events
  <2> QED  BY <2>1, FlowQuiet
<1>5. CASE ProcessEvent
  <2>1. /\ UNCHANGED <<build, queue, pushed>>
        /\ processor = "process" /\ processor' = "pop" /\ queue # <<>>
        /\ delivered' = Append(delivered, Head(queue))
    BY <1>5 DEF ProcessEvent, nic, FlowOK
  <2>2. /\ queue \in Seq(Events) /\ delivered \in Seq(Events)
        /\ Head(queue) \in Events /\ Tail(queue) \in Seq(Events)
        /\ <<Head(queue)>> \in Seq(Events)
    BY <2>1, Numbers, HeadTailProperties
  <2>3. queue = <<Head(queue)>> \o Tail(queue)
    BY <2>1, <2>2
  <2>4. (delivered \o <<Head(queue)>>) \o Tail(queue)
           = delivered \o (<<Head(queue)>> \o Tail(queue))
    BY <2>2, ConcatAssociative
  <2>5. delivered' = delivered \o <<Head(queue)>>
    BY <2>1, <2>2, AppendIsConcat
  <2>6. pushed = delivered \o queue
    BY <2>1 DEF FlowOK
  <2>7. pushed' = delivered' \o Tail(queue')
    BY <2>1, <2>3, <2>4, <2>5, <2>6
  <2> QED  BY <2>1, <2>7 DEF FlowOK, UseQueue
<1>6. CASE Pop
  <2>1. /\ UNCHANGED <<build, pushed, delivered>>
        /\ processor = "pop" /\ processor' \in {"front", "test"}
        /\ queue' = Tail(queue)
    BY <1>6 DEF Pop, nic
  <2>2. UseQueue
    BY <2>1 DEF ThreadsOK
  <2> QED  BY <2>1, <2>2 DEF FlowOK, UseQueue
<1>7. CASE Main
  <2>1. /\ UNCHANGED <<build, queue, pushed, delivered>>
        /\ processor' = processor \/ (processor = "none" /\ processor' = "test")
    BY <1>7 DEF Main, SpawnWatchdog, StartPoller, StartProcessor, MainLoop,
                MainStopPoller, MainStopProcessor, JoinPoller, JoinProcessor,
                StopWatchdog, JoinWatchdog, StopPoller, StopProcessor,
                nic, events, processorVars, ThreadsOK
  <2> QED  BY <2>1, FlowQuiet
<1>8. CASE Watchdog \/ WatchdogElapsed \/ Interrupt \/ UNCHANGED vars
  <2>1. UNCHANGED <<build, queue, pushed, delivered, processor>>
    BY <1>8 DEF Watchdog, WatchdogDismissed, WatchdogStopPoller,
                WatchdogStopProcessor, WatchdogClear, WatchdogElapsed,
                Interrupt, StopPoller, StopProcessor,
                vars, nic, events, processorVars
  <2> QED  BY <2>1, FlowQuiet
<1> QED  BY <1>1, <1>2, <1>3, <1>4, <1>5, <1>6, <1>7, <1>8
         DEF Next, Poller, Processor

-----------------------------------------------------------------------------
(* The stop of the processor.                                              *)

\* When nothing is pending, what was pushed is delivered.
LEMMA Drained ==
    ASSUME TypeOK, FlowOK, processor # "pop", queue = <<>>
    PROVE  Len(delivered) = Len(pushed)
BY Numbers, ConcatEmptySeq DEF FlowOK

LEMMA StopInit == Init => StopOK
BY DEF Init, StopOK, InHand

\* Steps of threads that are stopped by nobody.
LEMMA StopQuiet ==
    ASSUME StopOK,
           UNCHANGED <<queue, pushed, delivered, pollerStop, processorVars>>,
           processor = "exit" /\ poller' \in {"receive", "push"} /\ ~bypassed
              => poller \in {"receive", "push"}
    PROVE  StopOK'
<1>1. processor = "exit" /\ ~bypassed => InHand' <= 1
  BY DEF StopOK, InHand
<1> QED  BY <1>1 DEF StopOK, processorVars

LEMMA StopStep ==
    ASSUME TypeOK, ThreadsOK, NumbersOK, FlowOK, StopOK, [Next]_vars
    PROVE  StopOK'
<1>0. /\ owed \in Nat /\ Len(pushed) \in Nat /\ Len(delivered) \in Nat
      /\ Len(queue) \in Nat /\ MaxFrames \in Nat
      /\ {draining, processorStop, bypassed, pollerStop} \subseteq BOOLEAN
  BY Numbers, Bounds DEF TypeOK
<1>1. CASE Arrive
  BY <1>1, StopQuiet DEF Arrive, events, pollerVars
<1>2. CASE PollerTest
  <2>1. /\ UNCHANGED <<queue, pushed, delivered, pollerStop, processorVars>>
        /\ poller' = IF pollerStop THEN "exit" ELSE "receive"
    BY <1>2 DEF PollerTest, events
  <2>2. processor = "exit" /\ ~bypassed => pollerStop
    BY DEF StopOK
  <2> QED  BY <2>1, <2>2, StopQuiet
<1>3. CASE Receive
  <2>1. /\ UNCHANGED <<queue, pushed, delivered, pollerStop, processorVars>>
        /\ poller = "receive"
    BY <1>3 DEF Receive, events
  <2> QED  BY <2>1, StopQuiet
<1>4. CASE PulseLow \/ Release
  <2>1. /\ UNCHANGED <<queue, pushed, delivered, pollerStop, processorVars>>
        /\ poller' \in {"release", "test"}
    BY <1>4 DEF PulseLow, Release, events
  <2> QED  BY <2>1, StopQuiet
<1>5. CASE Push
  <2>1. /\ UNCHANGED <<pollerStop, processorVars>> /\ poller = "push"
        /\ \/ UNCHANGED events /\ poller' = "release"
           \/ \E e : Made(e, arrived - Len(rx) + 1) /\ Takes(e)
    BY <1>5, PushCases
  <2>2. CASE UNCHANGED events /\ poller' = "release"
    BY <2>1, <2>2, StopQuiet DEF events
  <2>3. CASE \E e : Made(e, arrived - Len(rx) + 1) /\ Takes(e)
    <3>1. PICK e \in Events : Takes(e)
      BY <2>3 DEF Made
    <3>2. /\ Len(pushed') = Len(pushed) + 1
          /\ poller' \in {"release", "pulse"}
      BY <3>1, Numbers, AppendProperties DEF Takes
    <3>3. /\ Len(queue') <= Len(queue) + 1 /\ Len(queue') \in Nat
          /\ Len(delivered') >= Len(delivered) /\ Len(delivered') \in Nat
      <4>1. CASE queue' = Append(queue, e) /\ UNCHANGED delivered
        BY <1>0, <4>1, Numbers, AppendProperties
      <4>2. CASE UNCHANGED queue /\ delivered' = Append(delivered, e)
        BY <1>0, <4>2, Numbers, AppendProperties
      <4> QED  BY <3>1, <4>1, <4>2 DEF Takes
    <3>4. InHand' <= InHand /\ InHand \in Nat /\ InHand' \in Nat
      BY <1>0, <2>1, <3>2, <3>3 DEF InHand
    <3>5. UNCHANGED <<pollerStop, processor, processorStop, draining, owed,
                      bypassed>>
      BY <2>1 DEF processorVars
    <3>6. owed <= IF processorStop THEN Len(pushed) + 1 ELSE 0
      BY <1>0 DEF StopOK
    <3>7. processor = "exit" => Len(delivered') >= owed
      BY <1>0, <3>3 DEF StopOK
    <3>8. processor = "exit" /\ ~bypassed => InHand' <= 1
      BY <3>4 DEF StopOK
    <3> QED  BY <3>2, <3>5, <3>6, <3>7, <3>8 DEF StopOK
  <2> QED  BY <2>1, <2>2, <2>3
<1>6. CASE ProcessorTest
  <2>1. /\ UNCHANGED <<queue, pushed, delivered, poller, pollerStop,
                      processorStop, owed, bypassed>>
        /\ draining' = processorStop /\ processor' = "front"
    BY <1>6 DEF ProcessorTest, events, pollerVars
  <2> QED  BY <1>0, <2>1 DEF StopOK
<1>7. CASE QueueFront
  <2>1. /\ UNCHANGED <<queue, pushed, delivered, poller, pollerStop,
                      processorStop, owed, bypassed, draining>>
        /\ processor = "front"
        /\ processor' = "exit" => queue = <<>> /\ draining
    BY <1>7 DEF QueueFront, events, pollerVars
  <2>2. CASE processor' = "exit"
    <3>1. Len(delivered) = Len(pushed) /\ Len(queue) = 0
      BY <2>1, <2>2, Drained, EmptySeq
    <3>2. InHand' <= 1
      BY <2>1, <3>1 DEF InHand
    <3>3. owed <= Len(pushed)
      BY <1>0 DEF StopOK
    <3> QED  BY <1>0, <2>1, <2>2, <3>1, <3>2, <3>3 DEF StopOK
  <2>3. CASE processor' # "exit"
    BY <2>1, <2>3 DEF StopOK
  <2> QED  BY <2>2, <2>3
<1>8. CASE ProcessEvent \/ Pop
  <2>1. /\ UNCHANGED <<pushed, pollerStop, processorStop, draining, owed,
                      bypassed>>
        /\ processor # "exit" /\ processor' # "exit"
    BY <1>8 DEF ProcessEvent, Pop, pollerVars
  <2> QED  BY <2>1 DEF StopOK
<1>9. CASE MainStopPoller \/ WatchdogStopPoller
  <2>1. StopPoller
    BY <1>9 DEF MainStopPoller, WatchdogStopPoller
  <2>2. /\ UNCHANGED <<queue, pushed, delivered, poller, processor,
                      processorStop, draining, owed, bypassed>>
        /\ pollerStop => pollerStop'
    BY <2>1, StopPollerFacts DEF events, processorVars
  <2>3. InHand' = InHand
    BY <2>2 DEF InHand
  <2> QED  BY <2>2, <2>3 DEF StopOK
<1>10. CASE MainStopProcessor \/ WatchdogStopProcessor
  <2>1. StopProcessor
    BY <1>10 DEF MainStopProcessor, WatchdogStopProcessor
  <2>2. UNCHANGED <<queue, pushed, delivered, poller, processor, pollerStop,
                    draining>>
    BY <2>1, StopProcessorFacts DEF events, pollerVars
  <2>3. InHand' = InHand
    BY <2>2 DEF InHand
  <2>4. CASE processorStop \/ processor = "none"
    <3>1. UNCHANGED <<owed, bypassed>> /\ (processorStop' <=> processorStop)
      BY <2>1, <2>4, StopProcessorFacts, Zenon DEF ThreadsOK
    <3> QED  BY <2>2, <2>3, <3>1 DEF StopOK
  <2>5. CASE ~processorStop /\ processor # "none"
    <3>1. /\ processorStop' /\ owed' = Len(pushed) /\ (bypassed' <=> ~pollerStop)
          /\ processor # "exit" /\ ~draining
      <4>1. processor # "exit" /\ ~draining
        BY <2>5, Zenon DEF StopOK
      <4> QED  BY <2>1, <2>5, <4>1, StopProcessorFacts, Zenon
    <3> QED  BY <1>0, <2>2, <3>1 DEF StopOK
  <2> QED  BY <2>4, <2>5
<1>11. CASE StartPoller \/ StartProcessor
  <2>1. /\ UNCHANGED <<queue, pushed, delivered, pollerStop, processorStop,
                      draining, owed, bypassed>>
        /\ processor = "none" /\ processor' \in {"none", "test"}
    BY <1>11 DEF StartPoller, StartProcessor, events, pollerVars,
                 processorVars, ThreadsOK
  <2> QED  BY <2>1 DEF StopOK
<1>12. CASE \/ SpawnWatchdog \/ MainLoop \/ JoinPoller \/ JoinProcessor
            \/ StopWatchdog \/ JoinWatchdog \/ WatchdogDismissed
            \/ WatchdogClear \/ WatchdogElapsed \/ Interrupt \/ UNCHANGED vars
  <2>1. UNCHANGED <<queue, pushed, delivered, poller, pollerStop, processorVars>>
    BY <1>12 DEF SpawnWatchdog, MainLoop, JoinPoller, JoinProcessor,
                 StopWatchdog, JoinWatchdog, WatchdogDismissed, WatchdogClear,
                 WatchdogElapsed, Interrupt, vars, events, pollerVars
  <2> QED  BY <2>1, StopQuiet
<1> QED  BY <1>1, <1>2, <1>3, <1>4, <1>5, <1>6, <1>7, <1>8, <1>9, <1>10,
            <1>11, <1>12 DEF Next, Poller, Processor, Main, Watchdog

-----------------------------------------------------------------------------
(* Types.                                                                  *)

LEMMA TypeInit == Init => TypeOK
<1> SUFFICES ASSUME Init PROVE TypeOK
  OBVIOUS
<1>1. <<>> \in Seq(RingFrame) /\ <<>> \in Seq(Events) /\ Len(<<>>) = 0
  BY EmptySeq
<1>2. rx \in Seq([n : 1 .. MaxFrames, frame : Frames[build.verbose]])
  BY <1>1 DEF Init, RingFrame
<1>3. 0 \in 0 .. MaxFrames /\ 0 <= QueueCap /\ 0 <= RingCap
  BY Bounds
<1>4. /\ build \in Builds /\ Len(rx) <= RingCap /\ arrived \in 0 .. MaxFrames
      /\ queue \in Seq(Events) /\ Len(queue) <= QueueCap
      /\ pushed \in Seq(Events) /\ delivered \in Seq(Events)
      /\ register \in {0, 1} /\ owed \in 0 .. MaxFrames
  BY <1>1, <1>3 DEF Init
<1> QED  BY <1>2, <1>4 DEF Init, TypeOK

\* The control state by itself.
ControlType ==
    /\ poller \in {"none", "test", "receive", "push", "pulse", "release",
                   "exit"}
    /\ processor \in {"none", "test", "front", "process", "pop", "exit"}
    /\ {pollerStop, processorStop, draining, bypassed, running, watchdogStop}
          \subseteq BOOLEAN
    /\ main \in {"watchdog", "startPoller", "startProcessor", "loop",
                 "stopPoller", "stopProcessor", "joinPoller", "joinProcessor",
                 "stopWatchdog", "joinWatchdog", "exit"}
    /\ watchdog \in {"none", "sleep", "stopPoller", "stopProcessor", "clear",
                     "exit"}

DataType ==
    /\ build \in Builds
    /\ rx \in Seq([n : 1 .. MaxFrames, frame : Frames[build.verbose]])
    /\ Len(rx) <= RingCap
    /\ arrived \in 0 .. MaxFrames
    /\ queue \in Seq(Events) /\ Len(queue) <= QueueCap
    /\ pushed \in Seq(Events) /\ delivered \in Seq(Events)
    /\ register \in {0, 1}
    /\ owed \in 0 .. MaxFrames

LEMMA TypeParts == TypeOK <=> DataType /\ ControlType
BY DEF TypeOK, DataType, ControlType

LEMMA ControlStep ==
    ASSUME TypeOK, NumbersOK, [Next]_vars PROVE ControlType'
<1>0. ControlType
  BY TypeParts
<1> USE DEF ControlType
<1>1. CASE Arrive \/ UNCHANGED vars
  BY <1>0, <1>1 DEF Arrive, vars, pollerVars, processorVars, control
<1>2. CASE PollerTest \/ Receive \/ PulseLow \/ Release
  BY <1>0, <1>2 DEF PollerTest, Receive, PulseLow, Release, pollerVars,
                    processorVars, control
<1>3. CASE Push
  BY <1>0, <1>3, PushCases DEF Takes, processorVars, control
<1>4. CASE ProcessorTest \/ QueueFront \/ ProcessEvent \/ Pop
  BY <1>0, <1>4 DEF ProcessorTest, QueueFront, ProcessEvent, Pop, pollerVars,
                    processorVars, control
<1>5. CASE MainStopPoller \/ WatchdogStopPoller
  <2>1. StopPoller
    BY <1>5 DEF MainStopPoller, WatchdogStopPoller
  <2> QED  BY <1>0, <1>5, <2>1, StopPollerFacts
           DEF MainStopPoller, WatchdogStopPoller, processorVars
<1>6. CASE MainStopProcessor \/ WatchdogStopProcessor
  <2>1. StopProcessor
    BY <1>6 DEF MainStopProcessor, WatchdogStopProcessor
  <2>2. processorStop' \in BOOLEAN /\ bypassed' \in BOOLEAN
    BY <1>0, <2>1, StopProcessorFacts
  <2> QED  BY <1>0, <1>6, <2>1, <2>2, StopProcessorFacts
           DEF MainStopProcessor, WatchdogStopProcessor, pollerVars
<1>7. CASE SpawnWatchdog \/ StartPoller \/ StartProcessor \/ MainLoop
  BY <1>0, <1>7 DEF SpawnWatchdog, StartPoller, StartProcessor, MainLoop,
                    pollerVars, processorVars
<1>8. CASE JoinPoller \/ JoinProcessor \/ StopWatchdog \/ JoinWatchdog
  BY <1>0, <1>8 DEF JoinPoller, JoinProcessor, StopWatchdog, JoinWatchdog,
                    pollerVars, processorVars
<1>9. CASE WatchdogDismissed \/ WatchdogClear \/ WatchdogElapsed \/ Interrupt
  BY <1>0, <1>9 DEF WatchdogDismissed, WatchdogClear, WatchdogElapsed,
                    Interrupt, pollerVars, processorVars
<1> QED  BY <1>1, <1>2, <1>3, <1>4, <1>5, <1>6, <1>7, <1>8, <1>9
         DEF Next, Poller, Processor, Main, Watchdog

LEMMA DataStep ==
    ASSUME TypeOK, ThreadsOK, NumbersOK, FlowOK, [Next]_vars PROVE DataType'
<1>0. /\ DataType /\ Len(pushed) \in 0 .. MaxFrames
      /\ Len(rx) \in Nat /\ Len(queue) \in Nat
  <2>1. Len(pushed) <= arrived
    <3>1. poller \in {"pulse", "release"} => Len(rx) # 0
      BY Numbers, EmptySeq DEF NumbersOK
    <3> QED  BY <3>1, Numbers DEF NumbersOK, Handled
  <2> QED  BY <2>1, TypeParts, Numbers, Bounds
<1>1. CASE Arrive
  <2>1. PICK f \in Frames[build.verbose] :
           rx' = Append(rx, [n |-> arrived + 1, frame |-> f])
    BY <1>1 DEF Arrive
  <2> DEFINE g == [n |-> arrived + 1, frame |-> f]
  <2>2. /\ UNCHANGED <<build, queue, pushed, delivered, register, owed>>
        /\ arrived' = arrived + 1 /\ arrived + 1 \in 1 .. MaxFrames
        /\ Len(rx) < RingCap
    BY <1>1, Numbers, Bounds DEF Arrive, events, processorVars
  <2>3. g \in RingFrame /\ rx' = Append(rx, g)
    BY <2>1, <2>2 DEF RingFrame
  <2> HIDE DEF g
  <2>4. rx' \in Seq(RingFrame) /\ Len(rx') = Len(rx) + 1
    BY <2>3, Numbers, AppendProperties
  <2>5. rx' \in Seq([n : 1 .. MaxFrames, frame : Frames[build'.verbose]])
    BY <2>2, <2>4 DEF RingFrame
  <2> QED  BY <1>0, <2>2, <2>4, <2>5, Bounds DEF DataType
<1>2. CASE Push
  <2>1. /\ UNCHANGED <<build, rx, arrived, owed>>
        /\ \/ UNCHANGED events
           \/ \E e : Made(e, arrived - Len(rx) + 1) /\ Takes(e)
    BY <1>2, PushCases DEF nic, processorVars
  <2>2. CASE UNCHANGED events
    BY <1>0, <2>1, <2>2 DEF DataType, events
  <2>3. CASE \E e : Made(e, arrived - Len(rx) + 1) /\ Takes(e)
    <3>1. PICK e \in Events : Takes(e)
      BY <2>3 DEF Made
    <3>2. pushed' \in Seq(Events) /\ register' \in {0, 1}
      BY <1>0, <3>1, AppendProperties DEF Takes, DataType
    <3>3. delivered' \in Seq(Events)
      <4>1. delivered' = delivered \/ delivered' = Append(delivered, e)
        BY <3>1 DEF Takes
      <4>2. delivered \in Seq(Events)
        BY Numbers
      <4>3. Append(delivered, e) \in Seq(Events)
        BY <4>2, AppendProperties
      <4> QED  BY <4>1, <4>2, <4>3
    <3>4. queue' \in Seq(Events) /\ Len(queue') <= QueueCap
      <4>1. CASE Len(queue) < QueueCap /\ queue' = Append(queue, e)
        BY <1>0, <4>1, Numbers, Bounds, AppendProperties
      <4>2. CASE UNCHANGED queue
        BY <1>0, <4>2 DEF DataType
      <4> QED  BY <3>1, <4>1, <4>2 DEF Takes
    <3> QED  BY <1>0, <2>1, <3>2, <3>3, <3>4 DEF DataType
  <2> QED  BY <2>1, <2>2, <2>3
<1>3. CASE Release
  <2>1. /\ UNCHANGED <<build, arrived, queue, pushed, delivered, register, owed>>
        /\ rx' = Tail(rx) /\ rx # <<>>
    BY <1>3 DEF Release, events, processorVars, NumbersOK
  <2>2. rx' \in Seq(RingFrame) /\ Len(rx') = Len(rx) - 1
    BY <2>1, Numbers, HeadTailProperties
  <2>3. rx' \in Seq([n : 1 .. MaxFrames, frame : Frames[build'.verbose]])
    BY <2>1, <2>2 DEF RingFrame
  <2>4. Len(rx') <= RingCap
    BY <1>0, <2>2, Bounds DEF DataType
  <2> QED  BY <1>0, <2>1, <2>3, <2>4 DEF DataType
<1>4. CASE PollerTest \/ Receive \/ PulseLow
  <2>1. /\ UNCHANGED <<build, rx, arrived, queue, pushed, delivered, owed>>
        /\ register' \in {register, 0}
    BY <1>4 DEF PollerTest, Receive, PulseLow, nic, events, processorVars
  <2> QED  BY <1>0, <2>1 DEF DataType
<1>5. CASE ProcessorTest \/ QueueFront
  <2>1. UNCHANGED <<build, rx, arrived, queue, pushed, delivered, register, owed>>
    BY <1>5 DEF ProcessorTest, QueueFront, nic, events
  <2> QED  BY <1>0, <2>1 DEF DataType
<1>6. CASE ProcessEvent
  <2>1. /\ UNCHANGED <<build, rx, arrived, queue, pushed, register, owed>>
        /\ delivered' = Append(delivered, Head(queue)) /\ queue # <<>>
    BY <1>6 DEF ProcessEvent, nic, FlowOK
  <2>2. delivered' \in Seq(Events)
    BY <2>1, Numbers, HeadTailProperties, AppendProperties
  <2> QED  BY <1>0, <2>1, <2>2 DEF DataType
<1>7. CASE Pop
  <2>1. /\ UNCHANGED <<build, rx, arrived, pushed, delivered, register, owed>>
        /\ queue' = Tail(queue) /\ queue # <<>>
    BY <1>7 DEF Pop, nic, FlowOK
  <2>2. queue' \in Seq(Events) /\ Len(queue') = Len(queue) - 1
    BY <2>1, Numbers, HeadTailProperties
  <2>3. Len(queue') <= QueueCap
    BY <1>0, <2>2, Bounds DEF DataType
  <2> QED  BY <1>0, <2>1, <2>2, <2>3 DEF DataType
<1>8. CASE MainStopProcessor \/ WatchdogStopProcessor
  <2>1. StopProcessor
    BY <1>8 DEF MainStopProcessor, WatchdogStopProcessor
  <2>2. /\ UNCHANGED <<build, rx, arrived, queue, pushed, delivered, register>>
        /\ owed' \in {owed, Len(pushed)}
    BY <2>1, StopProcessorFacts DEF nic, events
  <2> QED  BY <1>0, <2>2 DEF DataType
<1>9. CASE \/ SpawnWatchdog \/ StartPoller \/ StartProcessor \/ MainLoop
           \/ MainStopPoller \/ JoinPoller \/ JoinProcessor \/ StopWatchdog
           \/ JoinWatchdog \/ WatchdogDismissed \/ WatchdogStopPoller
           \/ WatchdogClear \/ WatchdogElapsed \/ Interrupt \/ UNCHANGED vars
  <2>1. UNCHANGED <<build, rx, arrived, queue, pushed, delivered, register, owed>>
    BY <1>9 DEF SpawnWatchdog, StartPoller, StartProcessor, MainLoop,
                MainStopPoller, JoinPoller, JoinProcessor, StopWatchdog,
                JoinWatchdog, WatchdogDismissed, WatchdogStopPoller,
                WatchdogClear, WatchdogElapsed, Interrupt, StopPoller,
                vars, nic, events, processorVars
  <2> QED  BY <1>0, <2>1 DEF DataType
<1> QED  BY <1>1, <1>2, <1>3, <1>4, <1>5, <1>6, <1>7, <1>8, <1>9
         DEF Next, Poller, Processor, Main, Watchdog

-----------------------------------------------------------------------------
(* The invariant holds of every behaviour.                                 *)

LEMMA ReceiverInit == Init => ReceiverInv
BY TypeInit, NumbersInit, FlowInit, ThreadsInit, StopInit DEF ReceiverInv

LEMMA ReceiverStep == ReceiverInv /\ [Next]_vars => ReceiverInv'
<1> SUFFICES ASSUME ReceiverInv, [Next]_vars PROVE ReceiverInv'
  OBVIOUS
<1>1. TypeOK /\ NumbersOK /\ FlowOK /\ ThreadsOK /\ StopOK
  BY DEF ReceiverInv
<1>2. DataType' /\ ControlType'
  BY <1>1, DataStep, ControlStep
<1>3. TypeOK'
  BY <1>2 DEF TypeOK, DataType, ControlType
<1> QED  BY <1>1, <1>3, NumbersStep, FlowStep, ThreadsStep, StopStep
         DEF ReceiverInv

LEMMA ReceiverSafe == Spec => []ReceiverInv
BY ReceiverInit, ReceiverStep, PTL DEF Spec

\* The capacities hold and every thread is at a step of its code.
THEOREM ReceiverTypes == Spec => []TypeOK
<1>1. ReceiverInv => TypeOK
  BY DEF ReceiverInv
<1> QED  BY <1>1, ReceiverSafe, PTL

\* Whatever the interleaving of the poller and the processor, no event is
\* lost, repeated or overtaken between push and delivery.
THEOREM DeliveredInOrder == Spec => []InOrder
<1>1. ReceiverInv => InOrder
  BY DEF ReceiverInv, FlowOK, NumbersOK, Rising, InOrder
<1> QED  BY <1>1, ReceiverSafe, PTL

\* However the process is stopped, by a signal or by the watchdog, the
\* processor delivers what was in the queue when its stop was requested.
THEOREM OwedIsDelivered == Spec => []OwedDelivered
<1>1. ReceiverInv => OwedDelivered
  BY DEF ReceiverInv, OwedDelivered, ThreadsOK, StopOK
<1> QED  BY <1>1, ReceiverSafe, PTL

\* When the poller was told to stop first, at most one event stays behind in
\* the queue.
THEOREM OneLeftBehind == Spec => []AtMostOneLeft
<1>1. ASSUME ReceiverInv PROVE AtMostOneLeft
  <2>1. TypeOK /\ FlowOK /\ ThreadsOK /\ StopOK
    BY <1>1 DEF ReceiverInv
  <2>2. CASE UseQueue
    <3>1. main = "exit" /\ ~bypassed => InHand <= 1
      BY <2>1, <2>2 DEF ThreadsOK, StopOK
    <3>2. Len(queue) <= InHand /\ Len(queue) \in Nat /\ InHand \in Nat
      BY <2>1, Numbers DEF InHand
    <3> QED  BY <3>1, <3>2 DEF AtMostOneLeft
  <2>3. CASE ~UseQueue
    BY <2>1, <2>3, EmptySeq DEF FlowOK, AtMostOneLeft
  <2> QED  BY <2>2, <2>3
<1> QED  BY <1>1, ReceiverSafe, PTL

\* A stop that comes during a pulse does not leave the register high.
THEOREM PulseIsEnded == Spec => []PulseEnds
<1>1. ReceiverInv => PulseEnds
  BY DEF ReceiverInv, PulseEnds, ThreadsOK, TypeOK
<1> QED  BY <1>1, ReceiverSafe, PTL

-----------------------------------------------------------------------------
(* What the events say.                                                    *)

LEMMA SentStep ==
    ASSUME \A p \in Foreign : ~Recognised(TRUE, p)
    PROVE  ReceiverInv /\ EventsAsSent /\ [Next]_vars => EventsAsSent'
<1> SUFFICES ASSUME ReceiverInv, EventsAsSent, [Next]_vars
             PROVE  EventsAsSent'
  OBVIOUS
<1>1. TypeOK /\ NumbersOK /\ pushed \in Seq(Events) /\ Len(pushed) \in Nat
  BY Numbers DEF ReceiverInv
<1>2. CASE Push
  <2>1. /\ UNCHANGED build
        /\ \/ UNCHANGED pushed
           \/ \E e : Made(e, arrived - Len(rx) + 1) /\ pushed' = Append(pushed, e)
    BY <1>1, <1>2, PushCases DEF nic, events, Takes
  <2>2. CASE UNCHANGED pushed
    BY <2>1, <2>2 DEF EventsAsSent
  <2>3. ASSUME NEW e, Made(e, arrived - Len(rx) + 1),
               pushed' = Append(pushed, e)
        PROVE  EventsAsSent'
    <3>1. build.verbose \in BOOLEAN
      BY <1>1, BuildType
    <3>2. IF e.sent = NoEvent THEN ~build.verbose ELSE e.ev = e.sent
      <4>1. ASSUME e.sent = NoEvent, build.verbose PROVE FALSE
        <5>1. \E p \in Foreign : Recognised(build.verbose, p)
          BY <2>3, <4>1 DEF Made
        <5>2. build.verbose = TRUE
          BY <3>1, <4>1
        <5> QED  BY <5>1, <5>2
      <4> QED  BY <2>3, <4>1 DEF Made
    <3>3. /\ e \in Events /\ Len(pushed') = Len(pushed) + 1
          /\ pushed'[Len(pushed) + 1] = e
          /\ \A k \in 1 .. Len(pushed) : pushed'[k] = pushed[k]
      BY <1>1, <2>3, AppendProperties DEF Made
    <3>4. ASSUME NEW k \in 1 .. Len(pushed')
          PROVE  IF pushed'[k].sent = NoEvent THEN ~build.verbose
                 ELSE pushed'[k].ev = pushed'[k].sent
      <4>1. CASE k = Len(pushed) + 1
        BY <3>2, <3>3, <4>1
      <4>2. CASE k \in 1 .. Len(pushed)
        BY <3>3, <4>2 DEF EventsAsSent
      <4> QED  BY <1>1, <3>3, <4>1, <4>2
    <3> QED  BY <2>1, <3>4 DEF EventsAsSent
  <2> QED  BY <2>1, <2>2, <2>3
<1>3. CASE ~Push
  <2>1. UNCHANGED <<build, pushed>>
    BY <1>3 DEF Next, Poller, Processor, Main, Watchdog,
                Arrive, PollerTest, Receive, PulseLow, Release,
                ProcessorTest, QueueFront, ProcessEvent, Pop,
                SpawnWatchdog, StartPoller, StartProcessor, MainLoop,
                MainStopPoller, MainStopProcessor, JoinPoller, JoinProcessor,
                StopWatchdog, JoinWatchdog, StopPoller, StopProcessor,
                WatchdogDismissed, WatchdogStopPoller, WatchdogStopProcessor,
                WatchdogClear, WatchdogElapsed, Interrupt, vars, nic, events
  <2> QED  BY <2>1 DEF EventsAsSent
<1> QED  BY <1>2, <1>3

\* Every event is the message the transmitter packed, whatever its buffer
\* held before; and as long as no stranger's payload starts with the byte of
\* a timing packet, the debug build makes an event of nothing else.
THEOREM AsSent ==
    ASSUME \A p \in Foreign : ~Recognised(TRUE, p)
    PROVE  Spec => []EventsAsSent
<1>1. Init => EventsAsSent
  BY EmptySeq DEF Init, EventsAsSent
<1>2. ReceiverInv /\ EventsAsSent /\ [Next]_vars => EventsAsSent'
  BY SentStep
<1> QED  BY <1>1, <1>2, ReceiverSafe, PTL DEF Spec
=============================================================================
