# Verification of the WREN sidecar (ABTWREN)

ABTWREN forwards accelerator timing events from a WREN PCIe board to remote
hosts over raw Ethernet. One executable has two modes. The *transmitter* busy
polls the board's asynchronous ring over PCIe and sends an Ethernet frame for
the capsules it finds there; the *receiver* busy polls a NIC ring and writes
each event to a shared memory slot, which a FESA process reads, or on the Zynq
turns one configured event into a pulse. This directory holds TLA+ models of
both, the TLC configurations that check them on small instances, and
machine-checked proofs of all the safety properties the runs check. Paths below
are relative to the repository.

## 1. Inventory

| Part | Source | State | Operations | What must be right |
|---|---|---|---|---|
| Poll loop | `src/WREN/WRENTransmitter.{hpp,cpp}` | `m_shadowOff`, `m_compInfo`/`m_compActive`, `m_actMeta` | `transmitAll` (debug), `transmitLTIM` (release), `sendFire`, `sendAdvance` | every capsule once, in order, whole, under the right action and time; it ends when asked |
| Packets | `src/WREN/WRENProtocol.hpp`, same | `m_frameTemplate`, the transmit buffers | `sendFire`, `sendAdvance`, `parseAndEnqueue` | what is read is what was written, also in a reused buffer |
| Action map | same, `installActionMap` | `m_actMeta` | written once at start | event, channel and delay of each action survive the conversions |
| CTIM configurator | `src/WREN/WRENCTIMConfigurator.{hpp,cpp}` | mailbox registers, `m_actionMap`, firmware tables | `setupAll`, `discoverActions`, `cleanupAll`, `mbSend`, `mbSendRecv` | replies belong to commands; the map is the firmware's; nothing of others changed; nothing left behind |
| Transmitter process | `src/main.cpp`, `src/HAL/TransportBackend.hpp` | `g_running`, the detached watchdog | `main`, `dispatchTransport`, `runTransmitterWith`, SIGINT handler | wherever a stop comes, it ends; once configured, it cleans up |
| Receiver poller | `src/WREN/WRENReceiver.hpp` | the NIC ring | `operator()`, `parseAndEnqueue` | every frame is given back |
| Queue and processor | `src/common/QueueSink.*`, `EventProcessor.*` | SPSC queue, `m_seq` | `push`, `operator()`, `processEvent` | nothing accepted is lost or overtaken; drained at stop |
| Receiver threads | `src/common/MainReceiver.hpp`, `src/HAL/TransportBackend.hpp` | stop tokens, `g_running` | `start`, `requestStop`, `wait`, `runUntilSignal`, watchdog | every stop, whenever it comes, ends the process in order |
| Shared memory | `src/common/ShmSink.*`, `TimingEvent.hpp` | the slot and its number | `push` | who sees a number finds its event |
| FPGA sink | `src/common/ZynqUltraScaleSink.hpp` | one register | `push` | a pulse for the configured event, and its end |
| Configuration | `src/HAL/ConfigParser.hpp` | none after start | `loadConfig` | a process that cannot run ends |
| Transports, NIC tuning, TAP bridge | `src/HAL/TransportBackend.hpp` and libraries | in the libraries | dispatch | external |

How they interact: the firmware writes the ring and its write pointer, the poll
loop reads both with plain PCIe reads and has a cursor the firmware does not
know. The configurator runs before and after the poll loop in the same thread
and shares only the action map with it. Transmitter and receiver share the wire
and nothing else. In the receiver the poller, the processor, the main thread and
the watchdog share two stop tokens, `g_running` and the queue. Sidecar and FESA
share one memory slot.

What is hard here, and hardly testable: a firmware write between any two of the
three to five reads of one capsule; the last words of the ring, where the width
of the reads changes; a mailbox whose caller gives up, or dies, while the
firmware still works; a stop that arrives before, during or after the start of
the threads, or in the middle of the set-up; a transmit buffer that still holds
another kind of packet; a slot that is overwritten while it is being copied.
`PROJECT.json` lists these hazards with the line where each one bites.

## 2. Modules

| Module | What it is | Proofs |
|---|---|---|
| `WRENProtocol` | capsules, comparator table, and what one capsule makes the transmitter send | |
| `CapsuleStream` | abstract specification: a consumer that handles a log of capsules one by one | |
| `WRENTransmitter` | the poll loops against the firmware, one PCIe read per step; implements `CapsuleStream` | `WRENTransmitterProofs`, `WRENTransmitterRefinement` |
| `WRENCTIMConfigurator` | constructor, discovery, destructor and the mailbox call, against the firmware | `WRENCTIMConfiguratorProofs` |
| `TransmitterProcess` | the process around both, from the command line to the exit status; extends `WRENCTIMConfigurator` | `TransmitterProcessProofs` |
| `WireFormat` | the 20 bytes of a packet: written by the transmitter, read by both builds of the receiver | `WireFormatProofs` |
| `MainReceiver` | poller, queue, processor, sinks, main thread and watchdog of the receiver; extends `WireFormat` | `MainReceiverProofs` |
| `ShmSlot` | the writer of the shared slot, its restart, and the FESA reader | `ShmSlotProofs` |
| `Sidecar` | `CapsuleStream`, a lossy link and `ShmSlot` composed | `SidecarProofs` |
| `MCWRENTransmitter`, `MCWRENCTIMConfigurator`, `MCTransmitterProcess`, `MCMainReceiver`, `MCSidecar` | small instances | |

A definition named in a comment `Mutant of X` is a plausible bug in `X`; no
specification uses it, it is there to show that some property would notice.

How the pieces fit. `ImplementsStream` says that the poll loop does what
`CapsuleStream` does, so `Sidecar` composes the abstract stream, not the ring,
with link and slot. A packet is a triple of kind, object and time in these two;
`EventsAsSent` shows that the bytes carry just that. `InOrder` shows that the
queue between poller and slot changes nothing but the delay, so `Sidecar` has
the receiver in direct mode. `StopsWhenAsked` is why `TransmitterProcess` may
let the poll loop return some time after `running` fell.

### WRENTransmitter

A word of the ring is known by the capsule that wrote it and its position in it
(`[cap, pos]`), so that tearing and misattribution are visible whatever the words
contain. `FwBegin`, `FwWriteWord` and `FwPublish` are the firmware, external:
words in order, then `board_off`. `Attach` is the assignment before the loop,
`Poll` the head of the `while`, `ReadHeader`/`ReadWord1` the first PCIe read or
reads, `Decide` the decoding, then one action per branch of the `switch`
(`SkipZero`, `SkipOther`, `AcceptConfig`, `RejectConfig` or `AbandonConfig`,
`ReadTime`/`ReadWord3`/`Send`). `Advance` is the statement
`m_shadowOff = (m_shadowOff + len) & RING_MASK` with the test of the do-while,
and belongs to every action that ends an iteration. A 64-bit read is one step
that returns two words, as the code assumes of an aligned or unaligned PCIe read
of eight bytes. `Verbose` is `kDebugVerbose`; the two loops differ in two
places, `AbandonConfig` for `RejectConfig`, and the ADVANCE packets.

Words that are no whole header of one capsule decode to any member of `Garbage`.
`out` holds the packets of the last capsule; a packet whose `acquire` failed is
in it with `ok = FALSE`.

The firmware never sees the cursor, so nothing holds it back: `FwBegin` may
overwrite words the loop has not passed, while the loop is merely slow as well as
while a rejected CONFIG keeps it where it is. The history variable `lapped`
becomes TRUE when a capsule is begun that has no room behind the cursor
(`RoomFor`), and what is claimed of the contents of the ring is claimed until
then: the code relies on 2048 words against a busy poll and cannot check it.
After a lap the loop goes on with whatever words it finds, and `TypeOK` is what
remains.

### WRENCTIMConfigurator

A mailbox call is five or six steps of the process (one or two data words, each
a write of its own, command, ready bit, wait and read, acknowledge) or ends in
`Timeout`, which leaves the registers as they are. `Returned` is the return to the caller, which then takes one of
`Subscribed`, `ConditionSet`, `ActionSet`, `GotAction`, `GotCondition`,
`FirstDeleted`, `SecondDeleted` according to the command. An answer to
`MB_RX_GET_ACTION` carries the setting of the action (pulser, initial delay,
clock); `InfoOf` is what `discoverActions` computes from it.

The firmware is external and modelled from how the code uses it: it takes a
command when the ready bit is set and clears that bit, may answer at any later
time, overwrites a reply nobody read, lets no condition go that an action refers
to, and may reject any change when `Rejects` is TRUE. The header word and the
data of a reply are read in one step. A timely firmware has no reason to change
them in between; a late one could put its answer over a stale one just then, a
mixture the model leaves out, and where the firmware is late only the end of the
constructor is claimed (`StartupEnds`), whatever the replies say. `Timely` says
that it answers within the million polls. `Kill` stands for any end of the
process that runs no destructor, wherever it is: a command may be pending or
under way and a reply unread when the next process begins.

### TransmitterProcess

`stage` is where the main thread is. `Arguments` is the fold over `argv`;
`InstallHandler` separates the time when SIGINT kills from the time when it
clears `g_running`; `LoadConfig`, `DispatchTransport` and `OpenDevice` are the
calls that may end the process, each in its own way (exit status 1 where a poll
mode driver does not come up, an uncaught exception from the file or from the
constructor of a transport, or the first access to registers that were never mapped, since nobody
looks at the result of opening the device). `Configure` is any step of the
configurator, `InstallActionMap` the call of that name with its conversions
(16 bits of milliseconds, the last entry of an action wins), `LoopReturns` the
end of the poll loop and the start of the destructor. The watchdog is detached
and has one effect. A launch (`Launches`) is the command line, what
the configuration file has, and the platform. A process started with `--rx` goes
on as `MainReceiver`.

### WireFormat and MainReceiver

`SendAdvance` and `SendFire` write into what the transmit buffer held before:
the template fills every buffer with zeros once, and later packets overwrite only
their own fields. `ParseAdvance` and `ParseFire` read; `Recognised` and `Parse`
are the two builds of `parseAndEnqueue`.

In `MainReceiver` there is one action per access to shared state of each thread.
A stop token belongs to the thread object, so `request_stop` on an object that
owns no thread yet is lost, which the watchdog can hit; `MainLoop` then asks
again, as the code does. `build` is the choice of sink and `kDebugVerbose`, both
made at compile time, as a variable that never changes, so that one run covers
several builds; the transmitter at the other end is of the same build. The
NIC ring is external: `tryReceive` shows the oldest frame until `release`. A
frame of the transmitter remembers the message it was made of (`sent`), and so
does the event made of the frame. `PushAtOnce` with the Zynq sink raises the
register, and `PulseLow` ends the pulse with the poller asleep in between.

### ShmSlot and Sidecar

The struct copy is no atomic access, so it is two writes; the number is stored
afterwards with release order. The queue mode's `processEvent` is the same code.
The reader is the one `docs/fesa-rt-integration.md:1059-1071` describes. A new
process starts its own counter at zero, and may find the number in the slot
reset by `open` or not.

`Sidecar` joins this with the stream: `Transmit` is the abstract `Handle` with
the packets that found a buffer going to the link in any order, `Lose` a frame
lost, `Receive` the first half of a push. Event *n* of the slot stands for packet
`taken[n]`.

## 3. Runs

| Run | Instance | Shows |
|---|---|---|
| `tx_debug` | ring of 7 words, 3 capsules of 2 to 5 words, debug, a firmware that may lap the loop, some garbage | type and ring invariants, `ImplementsStream`, `EveryCapsuleHandled`, `StopsWhenAsked` |
| `tx_release` | ring of 9, 4 capsules, two comparators, a CONFIG that is rejected, the same firmware, release | `TypeOK`, `AcceptedAttribution`, `ImplementsStream` |
| `tx_stale` | ring of 8, 3 capsules, debug | violates `FireAttribution` |
| `tx_livelock` | ring of 8, 2 capsules, release | violates `EveryCapsuleHandled` |
| `tx_ctim` | ring of 8, 2 capsules, release | violates `CtimFiresAtPulse` |
| `mb_timely` | ten launches; two targets, three scanned indices, a firmware that may reject | `ReplyMatches`, `MapCorrect`, `OthersUntouched`, `CleanExit`, `MetaCorrect`, `AutoShutdown` |
| `mb_startup` | one target, one scanned index, timeouts, one kill | `StartupEnds` |
| `mb_restart` | as `mb_timely` without the process, one kill | violates `MapCorrect` |
| `rx_threads` | three builds (queue, Zynq, debug shared memory), three frames, queue and ring of 2 | `InOrder`, `EventsAsSent`, `OwedDelivered`, `AtMostOneLeft`, `PulseEnds`, `ShutdownCompletes`, `FramesServed` |
| `rx_short` | two frames, one of them may be short | violates `FramesServed` |
| `ltim_match` | Zynq build, two kinds of FIRE | violates `PulseMatches` |
| `shm_slot` | 3 capsules, two events and a CONFIG that is rejected among them, 3 packets taken, one restart, debug | `ShownAsMeant`, `ShownInOrder`, `AnnouncedOrNewer`, `HandedOn`, `TornOnlyInPush` |

Why the bounds are enough. Every offset of a ring of 7 or 9 words is reached by
the cursor, and with capsules of 2 to 5 words each branch is taken both where
the 64-bit read is safe and where it is not; three or four capsules go round the
ring, and round a cursor that stands still, at least once. Words after a lap
decode to a few headers of every type and to lengths that lead out of step,
which is what `TypeOK` could fall for. Three frames meet a queue of two empty, half full and full,
and being emptied at each; the two kinds of message, sent from a fresh buffer or
one that held the other, give every stale byte the code can leave. Four bytes of
seconds and nanoseconds are all different, so a swapped byte shows. Two
targets and three indices give the mailbox every sequence of two commands the
code can send; the settings of the firmware's actions use two of the three
clocks, one with a remainder below the millisecond, and the last pulser. The ten
launches take every way out of `main` before the
poll loop, and two reach it. Three capsules are enough for a CONFIG that is
accepted, one that is not and a PULSE after both, four to configure a comparator
twice and have a PULSE on either side of the second CONFIG; two events and a
restart are enough for a number to repeat, and the third shows that the confusion
ends. The bounds are the constants `MaxCaps`, `MaxFrames`, `MaxEvents`,
`MaxRestarts` and `MaxKills`. Most runs switch off the deadlock check: the
program ends, and so do its bounded surroundings.

Fairness. The poll loop of the transmitter, with its whole process, and the
poller and the processor of the receiver are pinned and `SCHED_FIFO`, so weak
fairness of their own steps as a whole (`PollLoop`, `Process`, `MainThread`,
`Poller`, `Processor`) is what the code may count on. The receiver's main thread
is an ordinary thread that the scheduler may place on any core, and both
watchdogs are ordinary threads that pin themselves to core 0; their fairness is
that of an operating system with a core left over. `docs/fesa-rt-integration.md`
(lines 1094-1099) warns that real-time threads and spinning FESA processes on all
the cores can starve the rest, and then `AutoShutdown` and `ShutdownCompletes`
have nothing to stand on. `AutoShutdown` also needs that a sleep of `watchdogSec`
seconds comes to its end (`WatchdogElapsed`), which is the only thing that ends
an undisturbed transmitter, and, where the firmware is assumed `Timely`, that it
answers (`FirmwareStep`). Everywhere else the firmware, the NIC, SIGINT, the
watchdog's time, and whoever kills the process are never obliged to do anything.
In `ShmSlot` and `Sidecar` the reader polls for ever and a push that has begun
ends; no event has to come and the link may lose every frame.

The properties that matter:

* `ImplementsStream`: the ring reader, with all its interleavings, is a
  refinement of a consumer that takes whole capsules in order and exactly once,
  and sends for each of them just what `Sends` says, with the time of that very
  capsule. The mapping gives the abstract log as the published prefix of `log`
  and turns each half of a packet's time into the number of the capsule it comes
  from if it is the right half, else 0.
  Packets that find no transmit buffer and capsules published before the loop
  attached are not sent, and the abstract stream allows both. Until the firmware
  laps the loop, that is: from then on any step is allowed.
* `AcceptedAttribution`: until then a FIRE for a PULSE names the action of the
  last CONFIG of that comparator that was accepted, in both builds. The stronger
  `FireAttribution`, which `docs/wren-sidecar.md:117` states ("CONFIG always
  updates m_compInfo before PULSE fires"), is violated: `tx_stale` shows the
  debug build, which skips a CONFIG of an action that was installed after the
  start and sends the next PULSE under the action the comparator had before. The
  release build waits at such a CONFIG (`tx_livelock`), but only until the
  firmware has gone round the ring and over the rejected words: then the loop
  resumes on words of another round, with a table that has missed what lay
  between, and may send an old PULSE under an action of another time. (TLC finds
  that case too, with `Verbose = FALSE`, `RingSize = 6` and `MaxCaps = 4` in
  `MCTxStale.cfg`.)
  Lines 113-114 of the same document say
  that the handler was fixed to "activate ALL configs unconditionally"; the code
  accepts only actions it found at start.
* `EveryCapsuleHandled`, `StopsWhenAsked`: progress of the debug loop and its end
  wherever `g_running` falls, until a lap. A lapped cursor can miss the
  `board_off` that the do-while compares with; what happens then depends on the
  words of the ring and nothing is claimed.
* `MapCorrect`, `OthersUntouched`, `CleanExit`: what the configurator leaves in
  its own map and in the firmware's tables. They are claimed for a firmware that
  answers in time and a process that is not killed. Otherwise a command left in
  the registers can be taken together with the data words of a later call. With
  `Timely = FALSE`, `MaxKills = 0` and otherwise the instance of `mb_restart`,
  TLC finds `OthersUntouched` violated: a SET_COND that timed out takes the
  words of the next SUBSCRIBE and overwrites condition 0, which is somebody
  else's. The code promises nothing for that case, so it is not a listed run.
* `MetaCorrect`: when the poll loop begins, `m_actMeta` gives each action of the
  firmware its event, channel and delay, each CTIM action its event and the
  sentinels, and nothing to any other index. A delay of 65.535 s or more is
  excluded (`DelayIs`): it wraps or reads as the sentinel.
* `AutoShutdown`: whatever the launch and whenever SIGINT or the watchdog comes,
  the process ends, and one that got as far as its action map ends through the
  destructor of the configurator with status 0. A crash at the registers of a
  device that could not be opened is an end, too (`FirstAccess`). A stop during the set-up is not
  lost, since nothing sets `g_running` again.
* `EventsAsSent`, `InOrder`, `OwedDelivered`: the sink takes what `sendFire` or
  `sendAdvance` was called with; what it accepted is exactly what was delivered
  followed by what is queued; what it accepted before the processor was told to
  stop is delivered before the process ends.
* `AtMostOneLeft`: the comment at `src/common/EventProcessor.hpp:25` has the
  processor drain what remains after a stop. The poller may still push the frame
  it holds after the last `front`, so one event can be left; more only if the
  watchdog's request reached the processor before the poller had a thread to
  stop (`bypassed`).
* `ShutdownCompletes`, `PulseEnds`: wherever the main thread is, a signal or a
  timeout ends the process, and the register is low at the end.
* `ShownAsMeant`, `ShownInOrder`: from the firmware to FESA. An event that FESA
  takes whole is about the action the firmware meant when it published the
  capsule, and never of an earlier capsule than the one before, whatever the link
  loses and across a restart of the receiver.
* `AnnouncedOrNewer`, `HandedOn`, `TornOnlyInPush`: a number is never visible
  before its event, and the event in the slot is handed on unless another
  replaces it, with two exceptions. An event whose number is stored between the
  reader's two loads is given up: `docs/fesa-rt-integration.md:1068`
  (`m_lastSeq = seq2; continue`) counts the new number as handled, and if nothing
  follows, the event is lost (`raced`). After a restart numbers repeat, and
  `HandedOn` claims nothing. The second load of the number, which lines 1059-1060
  call a guard against torn reads, does not see a push that has begun and not yet
  stored its number: halves of two events are handed on then, and
  `TornOnlyInPush` says that until a restart it is only then.

The six violations are disagreements of the code with its own documents; each
one is described under "findings" in `PROJECT.json`.

## 4. Proofs

Each theorem holds for all values of the constants that satisfy the assumptions
of the modules, which TLC evaluates on every run: ring sizes, bounds, sets of
capsules, events and messages, capacities, tables, numbers of targets and
restarts. The assumptions say what kind of thing a constant is (`Mapped` and
`Slots` are finite, capsules have the shape `CapsuleShape`, messages are
`Message`s, `None` is no index, event or request) and what the code's own
constants satisfy (a capsule fits in the ring, the CTIM indices lie in the
tables and above the scan, which is at least one and at most all actions long).
The theorems about the poll loop have no other hypothesis: that the firmware
laps the loop is an event in the behaviour (`lapped`), and `RingInv`,
`ImplementsStream` and `AcceptedAttribution` say themselves what holds until it
happens. Others have the hypotheses they name:

| Hypothesis | Says | Where it is needed |
|---|---|---|
| `Undisturbed` | the firmware answers within the million polls, the process is not killed | `mb_restart` shows what happens after a kill, §3 after a timeout |
| `Fresh` | the firmware has nothing at the indices of the targets, no action on their conditions | an earlier process that died leaves such entries; then they are overwritten and deleted |
| `SmallPulsers` | no action uses pulser 255 | the channel of that one wraps to 0 in its byte |
| no foreign frame is `Recognised` by the debug build | | its parser knows a packet by one byte |

**The poll loop** (`WRENTransmitterProofs`).

* `TypeCorrect`: `Spec => []TypeOK`, lapped or not. `TypeOK` is inductive. The
  interesting steps are `AcceptConfig`, where only an installed action may enter
  the table, and `Advance`, where the mask keeps the cursor in the ring for any
  length a header may carry.
* `RingCorrect`: `Spec => []RingInv`. Until it is lapped, a poll loop at any step is
  on a capsule boundary (`CursorOK`), the words between cursor and `board_off`
  are a chain of whole capsules (`CapsulesOK`) which what the firmware writes
  never reaches (`RoomOK`, `WritingOK`), the `board_off` read earlier is one of
  the boundaries ahead (`SnapOK`, which is why the do-while meets it), and the
  words read so far are those of the next capsule (`WordsOK`). `RingInv` is the
  conjunction and is inductive together with `TypeOK`: no part of it is, alone,
  because the chain needs the room, and the words need the chain. A lap is a step
  of `FwBegin`, and `lapped` never falls again (`LappedStable`).

The argument rests on lemmas about positions in the ring (`Wrap`, `Dist`), which
hide the modular arithmetic from the steps: the distance after a move forward,
that two words at different distances are different words, and that a walk never
leaves the ring. Then there is one lemma per action and conjunct it can disturb.

**Its refinement** (`WRENTransmitterRefinement`). `Refinement`:
`Spec => ImplementsStream`. `FwPublish` is `Publish` of the abstract
stream, the action that ends an iteration is `Handle`, `Attach` is `Attach`, and
every other step stutters, as long as the firmware has not lapped the loop. That
the packets are those of the capsule handled needs `WordsOK` (all words are of
that capsule) and `PacketsOK`, which says where the packets in `out` come from;
the published prefix of the log changes with `FwPublish` only (`PrefixOfAppend`,
`PrefixGrows`). `Attribution`: `AcceptedAttribution` is not inductive, since it
speaks of packets already sent only. `AttributionOK` adds what the comparator
table holds: for each active comparator the action that the last accepted CONFIG
before the next capsule put there. A rejected CONFIG leaves table and claim
alike, whether the loop passes it or stays before it.

**The slot and the composition** (`ShmSlotProofs`, `SidecarProofs`). `NeverOlder`
and `TornUnderWay` follow from `SlotInv`: the halves are at least the announced
event and at most the newest (`WriterOK`), the reader's copy lies between what
was announced when it loaded the number and the newest (`ReaderOK`), and until
the first restart numbers are event numbers (`FirstRun`), without which the
double check means nothing. `SidecarSlot`: each step of `Sidecar` is a step of
`ShmSlot` or leaves it alone, so all of this holds of the composition.
`AsMeant` and `InCapsuleOrder` need `TransmitterOK`, the comparator table as a
statement about the log, and `PacketsOK`: each packet on the link or taken is
about a capsule handled before and says what that capsule meant then, and the
capsules along taken and link never decrease. Both survive the log growing at its
end (`PutLastStable`, `PastStable`).

**The packets** (`WireFormatProofs`). `ParsedAsSent`: for every message whose
fields fit their widths, and every content of the transmit buffer, both builds
recognise what `Send` wrote and `Parse` gives the message back. The lemmas are
about one number of two or four bytes in either byte order, one field of the
packet, and fields that do not overlap.

**The receiver** (`MainReceiverProofs`). One invariant, `ReceiverInv`, has all
the safety properties of `rx_threads` as consequences. `NumbersOK` ties ring,
poller and what was pushed to the numbers of the frames; `FlowOK` is the queue
between its two ends; `ThreadsOK` says who has been started and who has ended by
the time the main thread is where it is; `StopOK` says what a processor that was
told to stop finds and leaves. The parts need one another: that one event at most
stays (`OneLeftBehind`) depends on the order of the two stops, which depends on
which threads existed when the watchdog struck (`bypassed`). `AsSent` brings in
`ParsedAsSent`, frame by frame.

**The mailbox** (`WRENCTIMConfiguratorProofs`). `MailboxTypes` holds for any
firmware and any kills, by `TypeInv`. `SynchronousMailbox` rests on `MailboxOK`:
whose turn it is (nobody's, the firmware's before or after it took the command,
the process's), that the words the firmware has are those of the current call,
and that an answer to a query tells what the tables hold (`Tells`). From it come

* `MapIsTheFirmwares`, with `MapOK`: at index `i` of the scan the map lists the
  actions below `i` (`Lists`, with a lemma for each way it grows), and the
  tables do not change during the scan since no change is asked for then;
* `LeavesOthersAlone`, with `TablesOK`: every change is at the index of a target,
  and only the action of a target refers to its condition;
* `CleansUp`, with `CleanOK`: what the destructor has deleted, or the firmware
  refused to delete, target by target. The deletion of a condition is possible
  only because the action that refers to it is gone, hence `TablesOK`.

**The process** (`TransmitterProcessProofs`). `ProcessRunsConfigurator`:
`ProcessSpec => Spec`, so everything above holds of the whole process, for every
launch, signal and watchdog. `TableIsRight`: `m_actMeta` is untouched before
`installActionMap` and says afterwards, for each index, what the map's only entry
for it says (`EntrySays`); with `MapOK` that is what the firmware holds.

Only model-checked: the liveness properties (`EveryCapsuleHandled`,
`StopsWhenAsked`, `StartupEnds`, `AutoShutdown`, `ShutdownCompletes`,
`FramesServed`, `HandedOn`), which are out of the prover's reach, and of course
the violations. `Mode`, a fold over the arguments, is only run, not reasoned
about.

## 5. Not modelled

* Memory order weaker than sequential consistency. `g_running` is a volatile flag;
  the number's release store is modelled by program order; the relaxed copy of
  the event is what the two halves stand for.
* Transmitter and receiver of different builds, or with different `ether_type`:
  a release receiver takes the ADVANCE of a debug transmitter for a FIRE.
* Actions that others create after the action map was installed, beyond the
  CONFIG of such an action (`aNew`): the code reads the firmware's tables once.
* `ctim_enabled = false` (no targets): the same code with nothing to set up.
* The values of `ConfigParser` that are only handed to libraries, the fields of
  the transports' configurations, NIC tuning, affinities and priorities, the TAP
  bridge and its thread, the register dump: start-up I/O, printing, or libraries
  outside this repository that share no state with the threads modelled here.
* The constructor of the Zynq sink, which ends the process if it cannot map its
  register, and the sleep of a pulse as a time: while it lasts, frames wait in
  the NIC ring like behind any slow step of the poller.
* Build files and diagnostic scripts.

## 6. Plan

Done: the poll loop, its refinement and proofs; the mailbox; the process around
them; the packets; the receiver with its three sinks; the slot; the composition.

Every safety property a run checks is a theorem. Next:

1. What a firmware without `Fresh` tables keeps: entries at other indices than
   those of the targets, whatever an earlier process left there.
2. What of the mailbox survives a timeout or a kill, where it can be said at all:
   the changes that reach the tables are made of words the process wrote.
3. What the poll loop is after a lap: under which words of the ring the do-while
   meets its `board_off` again.
