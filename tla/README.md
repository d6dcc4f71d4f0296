# RecPlay in TLA+

RecPlay records packets from network protocols into `.rpcap` files and plays them
back in time. It is a C++ host (`src/main.cpp`) that loads bundles (`src/bundles/`),
which find each other as services, and a web UI (`src/web/`). This directory holds
TLA+ models of it, TLC configurations that check them on small instances, and
proofs that TLAPS checks for every instance.

## 1. The system

| part | source | state it keeps | operations |
|---|---|---|---|
| SPSC ring | `recplay_core/src/RingBuffer.h` | two indices, the slots | TryPush, TryPop |
| capture pipeline | `recplay_core/src/CoreEngine.cpp` | per protocol: ring, worker thread, `worker_running`, `capture_active` | StartProtocolCapture, StopProtocolCapture, the callback, the worker |
| packet scheduler | `recplay_core/src/PacketScheduler.cpp` | priority queue, thread, mutex, condition variable, `running_` | Enqueue, Start, Stop, Clear, the loop |
| timeline | `recplay_core/src/TimelineEngine.cpp` | origin, clock start, speed, paused, paused-at | SetOrigin, SeekTo, SetSpeed, Start, Pause, Resume, Now |
| session | `recplay_session/src/` | state machine, the lists of active protocols, replay targets, loop range | the calls of ISessionService, FillPlaybackQueue, DispatchPlaybackPacket |
| storage | `recplay_storage/src/` | an open writer, an open reader, chunk buffers, footer index | CreateFile, WritePacket, FinalizeFile, OpenFile, SeekTo, ReadNext, CloseFile |
| UDP and TCP protocols | `protocol_udp/src/`, `protocol_tcp/src/` | sockets, an I/O thread, capturing and replaying flags | StartCapture, StopCapture, StartReplay, SendPacket, StopReplay |
| statistics | `recplay_stats/src/StatsCollector.cpp` | counters since the last second, callbacks | OnUpdate, Record..., the aggregator thread |
| core registry | `recplay_core/src/CoreEngine.cpp`, `Activator.cpp` of each bundle | runtimes by protocol, pointers to storage, session and core | Attach, Detach, SetStorageService, the trackers |
| runtime catalog | `recplay_webserver/src/RuntimeCatalog.cpp` | known protocols, their configurations, topic mappings | Upsert, Remove, StartPlugin, StopPlugin, SetTopicMappings |
| WebSocket hub | `recplay_webserver/src/WebSocketServer.cpp`, `RecPlayWebSocketController.cpp` | connections, generations of subscriptions, the event backlog | Broadcast, handleNewConnection, SetSessionService |
| HTTP server, web UI, host | `HttpServer.cpp`, `src/web/`, `src/main.cpp` | routing, views, bundles | requests; start and stop of the bundles |
| event log | `recplay_webserver/src/EventLogBuffer.cpp` | a bounded list | Append, Snapshot |

How they interact. The HTTP server calls the session on one I/O thread, one call
after another; the bundle activator stops the session on the main thread
(`recplay_session/src/Activator.cpp:26-46`). A protocol's I/O thread calls back into
the core engine, which pushes into the ring of that protocol; its worker thread pops
and writes to the storage service. For playback the session reads from the storage
service into the scheduler, whose thread calls back into the session, which sends the
packet and reads more. State changes go out through callbacks to the WebSocket hub, on
the thread that made them and outside every lock. Pointers to services are passed on by
the trackers of the bundles (core engine, catalog, HTTP server), on the main thread.

What is hard here, in short (PROJECT.json lists every hazard at its line): the
session reads a state, releases the lock, calls the engine and then assumes the state
still holds; lists of active protocols are overwritten; the scheduler is stopped by a
flag and a notification without the mutex; a packet can be popped and then dropped;
dispatch times are fixed when a packet is queued; the storage service has no lock;
calls fail halfway and have to be undone; a write may leave half a block behind; the
I/O thread of a protocol outlives a capture while a replay goes on; callbacks are renewed
while they run; bundles are stopped under requests.

What makes each part correct: the ring is a bounded FIFO; every captured packet is
written once and before the file is finalized; the scheduler sends each packet at
most once, never after Stop, never before the timeline is there (which at a slow replay rate it may: section 3), and wakes for it; the timeline never jumps
unless told to; the state of the session tells whether captures, writer, reader,
replays and scheduler run; a file gives back the packets that were written; a
subscriber sees every event once; no bundle keeps what another has taken away.

## 2. Modules

| module | models | extends / instances |
|---|---|---|
| `BoundedFifo` | what the ring promises: an atomic FIFO of at most `Bound` items | |
| `SpscRing` | `SPSCRingBuffer`, an action per access to shared memory | instances `BoundedFifo` |
| `SessionStates` | `IsValidTransition` and the enum | |
| `Session` | `SessionController` with the scheduler thread and the flags of storage and protocols | `SessionStates` |
| `Session_proofs` | theorems about the session | |
| `PacketScheduler` | `PacketScheduler` at the level of mutex, wait and notify | |
| `PacketScheduler_proofs` | theorems about the scheduler | |
| `PlaybackClock` | what the timeline promises | |
| `Timeline` | `TimelineEngine` | instances `PlaybackClock` |
| `CoreParts_proofs` | theorems about the ring and the timeline | |
| `CapturePipeline` | capture in `CoreEngine`: the I/O thread's callback, the ring, the worker, start and stop, the two halves of FinalizeFile | |
| `CapturePipeline_proofs` | theorems about the pipeline | |
| `PacketLog` | what a recording promises: a sequence of packets that can be read back and sought in | |
| `RpcapFile` | `RpcapWriter`, `RpcapReader` and the calls of `StorageService` on one file | instances `PacketLog` |
| `RpcapFile_proofs` | theorems about a file | |
| `ProtocolIo` | `UdpProtocolService` and `TcpProtocolService`: capture and replay over one I/O thread | |
| `ProtocolIo_proofs` | theorems about the I/O of the protocols | |
| `WebEvents` | callbacks of session and statistics, `WebSocketServer` and its controller | `SessionStates` |
| `WebEvents_proofs` | theorems about the events | |
| `Catalog` | bundles and their trackers, the registry in `CoreEngine`, `RuntimeCatalog`, recordings | `SessionStates` |
| `Catalog_proofs` | theorems about bundles, pointers and captures | |
| `MC*` | values of the constants for TLC | the module they check |

Operators whose comment begins "A plausible bug, for a mutant run" (or "A mutant of") are no part of
the specification: each is a faulty form of the definition that follows, kept to show
that a property notices it.

**SpscRing.** TryPush loads `tail_`, stores into the slot and stores `head_`; TryPop
loads `head_`, moves out of the slot and stores `tail_`. Each of these is an action;
what a thread loaded is held in its program counter (`ppc`, `cpc`). Release and acquire order the
slot access before the index, so steps of a thread take effect in program order.

**PacketScheduler.** `thread` is the place of the scheduler thread in `SchedulerLoop`:
inside the inner loop with the mutex (`inner`), between a predicate and the block of a
wait (`toIdle`, `toTimed`), blocked (`idle`, `timed`), woken and waiting for the mutex
(`idleWoken`, `timedWoken`), with a popped packet (`popped`), out of the mutex with it
(`dispatch`), in the callback's refill (`filling`), ended (`exited`). `running_` is
lowered (`CallStop`) and notified (`NotifyStop`) without the mutex, as in the code, and
`Enqueue` reads the timeline (`ReadTimeline`) and then the clock (`Push`) inside it. A
spurious wake-up is an action without fairness. `sent`, `lost` and `stops` are history.
The timeline moves `Speed` positions in `NormalSpeed` ticks of the clock (`Position`), so that a slow
playback is a `Speed` below `NormalSpeed`; `ComputeDispatchTime` subtracts positions and adds the
difference to the clock, as the code does.

**Timeline.** Each operation holds the mutex and is an action; `Now` is
`ComputeNowLocked`. Speeds are whole numbers of position units per clock tick, with
`NormalSpeed` for 1.0, so a slow playback is a smaller number.

**Session.** `call[c]` is what API thread `c` is doing: the operation, a label
(`pc`) for the next step, the state it read on entry (`prev`) and the protocol lists it
walks. A step is one call into the engine, the storage or the state machine; the steps
of two API threads and of the scheduler thread interleave. Calls share steps where the
code shares functions: `Halt`, `Join` and `Spawn` are `PacketScheduler::Start/Stop`,
`TakeReplay` and `StopReplay` are `StopReplayProtocols`. A call that returns before it
changes anything is a stutter. `Offered` says which call each client makes in which
state; the code itself asks much less. `Faults` names the engine calls that may fail, with any of
the effects they have when they do: a seek fails in a file without packets and at a chunk that
is damaged or empty, and leaves the reader where it failed; a read that fails ends the file or stays. A
file is a single chunk whose packets are numbered by their capture time; a queued packet carries
a flag that falls when the reader is moved (`fresh`). `status` is what the page is shown of
each replay target; the code refreshes it by hand, and the model where the code does. The
scheduler thread tests the predicate of its wait under the mutex (`DecideWait`) and blocks a step
later (`Block`), as in PacketScheduler; `Enqueue` and `Clear` take the mutex and wake it, `Halt`
notifies without it.

No operation asks whether a file may be opened, and the UI offers it in every state. Three variables of
history say after which calls the state tells less: `openedOver` that a file was opened over a
recording (until StopRecording is called) or over Playing (until a call joins the scheduler thread),
`seekFailed` that the reader refused a seek since the thread was started, `stopped` that Stop
ended playback and nothing was opened since. What such calls do to the session is finding 1 and known
disagreements below.

Steps of Session that are coarser than the code: `FillPlaybackQueue` (a loop over ReadNext and
Enqueue) is one step; `CloseFile`, `SeekFile` and `OpenFile` are one step each,
although the storage service has no lock and an overlap of two of them on `reader_` is a
data race; a second thread that joins the scheduler thread waits in the model, where
the code has undefined behaviour. `CallStop` reads the state, `IsReading()` and the
list in one step.

**CapturePipeline.** `io[p]` is the place of protocol p's I/O thread in the callback of
`StartProtocolCapture`, `worker[p]` that of the worker in `RunProtocolWorker` (with the
predicate, the block and the wake of `wait_for` apart, since the callback notifies
without `wait_mutex`), `call` what the HTTP thread does: a recording of several
protocols, or a capture started and stopped as a plugin. `inWriter` and `inFinalize` are
the inside of `WritePacket` and `Finalize`, which nothing but the order of calls keeps
apart; both tests of `writing_` on the way to `WritePacket` are one step. The ring is
the atomic FIFO that `SpscRing` is shown to implement. Whether the session accepts a
recording is a free choice here, which module Session decides; pause and resume do not
reach the pipeline. `SharedIo` names protocols that have a replay open, whose I/O thread
`StopCapture` does not join: there a late callback strands a packet in the ring, and
`StoppedIsQuiet` does not hold. The run keeps that set empty.

**RpcapFile.** `file` is a sequence of cells and an offset the number of cells in front.
One `WriteBytes` call appends one block; it may fail with nothing, or with part of the
block, written (`Outcomes`), and then `writer.offset` falls behind the file as
`current_offset_` does. A codec that fails to compress is such a call with nothing written: the
entry in the index is made and the chunk kept. A packet forces a keyframe by its flag (any packet may), as the first one, or after
the interval. The reader may land anywhere in such a file: what it finds where
no packet was put is any packet. `CreateFile`, `WritePacket` (with `FlushChunk`),
`FinalizeFile`, `OpenFile`, `ReadNext`, `SeekTo` (one step of its loop at a time),
`CloseFile` and a crash are actions, `ProbeFile`, `HasMore` and `GetDensity` operators. The
abstract `PacketLog` keeps the accepted packets and a position; a failed write ends its
promise for that recording (`intact`). `OverwriteOpen` says whether a file open for reading
may be created anew.

**ProtocolIo.** `service` is UDP or TCP; a capture of TCP is that of a server or a client (`Modes`). `handles` are the sockets and
the acceptor of a capture with their pending operations, `queue` the handlers that are
ready, `io` the place of the I/O thread in a handler, `call` that of the caller. Closing a
handle puts an aborted handler in the queue. `StopCapture` and `StopReplay` go through
`ResetIo`, which joins only when neither is left; `lingering` is history and says that a
handler of an older capture may still run. A receive of UDP, a read, a connect and an accept may fail
while what they were begun on is open: the receive loop of UDP ends and `capturing_` stays, a TCP
client ends its capture, an accept is begun again. `started` and `lost` are history: the capture
that StartCapture answered true to and StopCapture has not ended, and what has taken it away since, an
error of its own (`"error"`) or the handler of an older capture (`"older"`).

**WebEvents.** `work[t]` is what the threads that broadcast are doing: http and the aggregator
of the statistics. A transition is made, the callbacks are copied, each is called with
the generation it was made with, and the message goes through `BroadcastToSharedState` (`Push`)
and the transport in two steps. The web server binds a service in the steps of
`SetSessionService`. `messages` is the history that a new page is given, `inbox` what one page
was sent, as a set. The handlers of the HTTP server appear as the transitions they try
and what they broadcast after.

**Catalog.** main starts the bundles in the order of the host program and stops them in
any order, one tracker callback at a time; http handles requests that configure, start and
stop plugins, map topics, record (any of the attached protocols; creating the file may fail), pause, resume and open a
file for playback, one call into the engine at a time. A bundle that starts is registered first, then the trackers of the core and of the
web server are told, in any order. Of the open only its transition matters here; `openedOver` is
history and says that it was made over a recording. `offered` is the
capture that runs in a protocol, `active` what the engine takes for one, `entries` the
catalog. `overlapped` is history: a request was under way while a bundle stopped. main waits
for the request when it stops the web server, which `HttpServer::Stop` does not.

## 3. What TLC checks

| run | question | states | result |
|---|---|---|---|
| `spsc_ring` | does the ring implement the FIFO, and are the threads never in one slot? | 2 501 | holds |
| `packet_scheduler` | at half speed: Stop leaves nothing, loses at most one packet, nothing is sent twice or early, queued packets are served | 145 243 | holds |
| `timeline` | does the timeline implement the playback clock? | 4 692 | holds |
| `session` | recording and playback by one client, files opened in any state: does the state tell what runs, whatever fails? Is Stop final, is no stale packet sent, is what is shown active active, does every call return but one whose notification is lost (finding 2)? | 600 394 | holds |
| `session_race` | two protocols: does a Stop from another thread, at any moment, end the replays? | 254 227 | holds |
| `capture` | a plugin captures beside a recording: is every accepted packet written, once and in order, before the file is closed; has the recording left the writer then; is a stopped capture quiet, and does nothing hang? | 317 223 | holds |
| `rpcap_file` | is a finalized file the sequence of packets that was written, through seeks, failed writes and crashes? | 224 819 | holds |
| `protocol_io` | is what was started served by one loop, until an error or an older capture ends it, and what was stopped quiet, in whatever order captures and replays come and go? | 207 597 | holds |
| `web_events` | is a page told each change once, before the answer, and of the latest state? | 4 033 790 | holds |
| `catalog` | does nobody keep what another bundle took away, do engine, catalog and protocols agree, is a recording closed that no file was opened over? | 4 881 017 | holds |
| `session_open_record` | does a Stopped session capture nothing after an open during a recording? | | violated |
| `scheduler_stop` | does Stop return? | | violated |

Several invariants are conjunctions of named parts, the type invariant of the module
first: `StateTellsWhatRuns` (captures and writer, reader, timeline and scheduler thread), `HeaderTellsTheTruth`
(only finalized files are opened; count and duration), `ReadsToTheEnd`, `StartedIsServed`
(thread, loop, source, and that what was started captures), `PagesAreCurrent`, `NothingStale` (pointers, entries, rules), and
`NothingHangs` of two liveness properties.

What a property leaves out because the code does otherwise, it says itself: `StateTellsWhatRuns` and `NoStalePacketSent`
ask less after an open over a recording or over playback and after a refused seek, `CallsReturn` excepts the call that
`LostNotification` describes, `NeverEarly` allows a packet that the timeline would have reached at normal speed,
`StartedIsServed` a capture that an older one has ended, `RecordingLeavesWriter` a plugin in the writer, `ShutdownClosesFile` a recording
that a file was opened over. Each of these cases is a finding or a known disagreement.

**Findings.** The two violations are findings in PROJECT.json, each against a sentence of
the tests.

1. `session_open_record`: the transition from Recording to Stopped is valid for
   OpenForPlayback too, and nothing ends the recording; the UI offers the open at any
   time, and StopRecording no more once the state is Stopped.
2. `scheduler_stop`: the notification of Stop falls between the predicate and the block
   of `cv_.wait`. With packets queued the thread wakes by its time-out; with none it
   sleeps for ever and so does the caller of Stop, and of a pause or a seek.

**Known disagreements.** What else the code does against a test, a comment or what one would expect of it. The properties
above except these cases or the runs do not reach them; TLC shows each with the change that is named.

- A seek that the reader refuses (invariant `AtRest /\ state = "Playing" => running` in run `session`): SeekTo goes back to Playing with
  the scheduler stopped, and nothing is sent any more (`SessionController.cpp:599-606`;
  `test_session_controller.cpp:311` asks that Playing dispatches).
- OpenForPlayback during Playing (`AtRest /\ state = "Stopped" => thread = "none"` in run `session`): it clears and refills the queue
  and never stops the thread (`SessionController.cpp:530`), where line 541 speaks of a file that is staged.
- Two opens, then Stop (`StopEndsReplay` in run `session`): the list of replaying protocols is overwritten
  while they run (`SessionController.cpp:523`; test line 554). With one open it holds for any clients: run `session_race`, theorem `EndsReplay`.
- Stop on a second thread during SeekTo (`StopIsFinal` in run `session_race`): Seek has moved to Seeking; Stop
  closes the file and passes through PlaybackPaused to Stopped; Seek's `storage->SeekTo`
  fails and its `Transition(Playing)` is valid from Stopped. The session says Playing for
  ever (`SessionController.cpp:603`; test lines 524-525 ask that Stop ends playback).
- StartRecording during a recording and StopRecording from Playing (`StateTellsWhatRuns`, with these calls in `MCOffered`): they have no
  guard of their own (`SessionController.cpp:384`), and the UI does not offer them.
- A slow replay (`FollowsTimeline` in run `packet_scheduler`): `ComputeDispatchTime` leaves the replay rate out
  (`PacketScheduler.cpp:83-87`), the UI offers 0.25 and 0.5 (`PlayerView.tsx:32`), and packets are sent before the timeline reaches them.
- An older capture of TCP that ends a new one (`started => capturing` at rest without an error, in run `protocol_io`): its aborted read finds
  neither socket nor acceptor between the two sections of the next StartCapture, and lowers `capturing_`
  (`TcpProtocolService.cpp:488`; `test_tcp_protocol_service.cpp:136` asks that what was started reports to capture).
- A handler of an older capture that a replay kept alive (`OneLoopEach` without its premise): an aborted receive of UDP
  begins another on the socket of the next capture, which then has two (`UdpProtocolService.cpp:422`).
- A plugin that captures beside the recording (`RecordingLeavesWriter` without its exception for
  plugins): the recording stops its own captures and finalizes; the
  plugin's worker has passed `IsWriting()` and is inside `WritePacket` (`StorageService.cpp:33`).
- A capture that ends by itself (`EngineKnowsCaptures` without `faults = 0`): nobody tells the engine, whose
  `capture_active` stays (`CoreEngine.cpp:71`).
- A file with a chunk that was flushed because of its size (`DensityAddsUp` without its last
  premise, with `KeyframeInterval` = 2): `GetDensity` leaves its packets out, where `IStorageService.h:54-57` speaks of total counts.

Bounds and why they suffice. The ring has four slots and two items: three items fill
it, indices wrap, and two distinguishable items show any swap. The scheduler runs at half the normal
speed (`Speed` = 1, `NormalSpeed` = 2), where dispatch times and timeline differ most, with four
packets, two of them with one capture time, a prefetch of two, three stops and a clock
that is bounded only while nobody waits for a time: a refill happens while packets
wait, a stop can hit each place of the loop, and the thread is restarted twice. The
timeline has a target ahead and one behind, half, normal and double speed and four
ticks.

The session of `session` has one protocol, an empty file (where a seek fails) and one of three packets with a prefetch of one, so that it is
refilled, a loop range inside it, and replay targets. The calls are those of the UI:
a file is opened, played, paused, sought in and stopped in every state, a recording is started outside its own states and
stopped outside those of playback, replay targets are chosen in Stopped. That of `session_race` has two protocols (under symmetry), so that
a list of them can be half done or lost, and a second caller; its file is opened once. That lists of several protocols fit the state is proved
(`StateCorrect`, `ShownCorrect`) and not run. `session_open_record` has one protocol and the calls it needs. `NumPackets`, `MaxClock`, `MaxStops`, `FileLengths` and `LoopRanges` are the
bounds of counters.

The capture has two protocols, one recorded and one that starts and stops as a plugin any number of times, each with a ring of one. The recorded one
receives three packets: the ring is full while the callback
holds the next packet, two packets that are kept show loss and order, the filtered one
between them shows that dropping goes on; one packet of the plugin may be in the writer at any moment.

A file has three packets at two times (`MaxPackets`), with a keyframe after one unit and a
flush at two packets: every way to lay three packets into chunks, sorted or not, with
durations that wrap (`Wrap`); `MaxFaults` = 1 write fails, `Buckets` = 2 slices have a border. `OverwriteOpen` = FALSE leaves out a recording
over the file that is open for reading: the UI proposes the same name, `capture.rpcap`, each time
(`RecorderView.tsx:33-36`), so that this does happen where the client leaves it; what holds then too is proved (section 4). In
`protocol_io` two captures (`MaxCaptures`) let a handler of the first meet the second,
around any number of replays; `MaxEvents` = 3 datagrams, connections or errors. In
`web_events` `MaxTransitions` = 2, `MaxChanges` = 1 and `MaxTicks` = 1 let one broadcast
overtake another, and a history (`MaxHistory`) and a list of callbacks (`MaxCallbacks`) of one overflow. In
`catalog` `MaxRequests` = 3 is what a start, a second start or a mapping and a stop need, `MaxFaults` = 1
peer leaves or a start fails.

`CHECK_DEADLOCK FALSE` in the runs of Session, PacketScheduler and the four modules above:
a client may have nothing more to call, the budget of stops, packets, events, transitions or
requests may be used up, or the program has shut down.

Fairness. `Session!FairSpec` has weak fairness for the rest of a call that has begun
and for the scheduler thread: threads that can run do run. No client has to call. A call that joins a thread which
missed its notification waits for ever (finding 2), and `CallsReturn` excepts it.
`PacketScheduler!FairSpec` has it for the loop, for an Enqueue, for the rest of a Stop
or Start and for the clock; a spurious wake-up is never promised. `QueuedIsServed`
does not depend on the API thread calling anything. `CapturePipeline!FairSpec` has it
for the callback, the worker and the rest of a call; the time-out of `wait_for` is what
`AcceptedIsHandled` rests on, and a mutex shared by several workers never blocks one
for ever because each receives finitely many packets. `RpcapFile!Spec` has it for the steps
of a seek that has begun, `ProtocolIo!Spec` for the rest of a call and for the I/O thread. WebEvents and
Catalog state no liveness and no fairness.

## 4. What is proved

TLAPS checks these for every value of the constants, from the assumptions that the
modules name (`CapacityAssumption`, `TimelineAssumption`, `SchedulerAssumption`, `CatalogAssumption`
and so on: domains of the constants, which TLC evaluates in each run) and, where said, a
hypothesis of the theorem. The pattern is one throughout: an invariant `IInv` that is inductive,
checked with TLC before it was proved, a lemma per action that it is kept, and the properties as
its consequences.

*Ring* (`CoreParts_proofs`): `TypeCorrect`, `SlotsNeverShared`, `PublishedItemsKept` and
`RingImplementsFifo`. The invariant that is inductive adds to the slot property that a
reservation stays valid while the other side moves: the other side only makes more
room. The refinement maps the queue to the slots from `tail_` to `head_`; PushPublish
maps to Push, PopPublish to Pop, and the loads and slot accesses to stutters.

*Timeline* (`CoreParts_proofs`): `TimelineTypeCorrect` and `TimelineImplementsClock`. The typing
invariant carries `clockStart <= clock` and `paused => pausedAt >= origin`; the second
is what bounds where Start can lead.

*Scheduler* (`PacketScheduler_proofs`): `TypeCorrect`, `StopLeavesNothing`,
`StopLosesAtMostOne`, `PacketsHandedOverOnce`, `PacketsNeverEarly`, `FastPacketsFollowTimeline`. None of them is
inductive alone. `IInv` adds `Control` (where each thread can be when `running_` is
down, and when a packet is in flight), `Once` (queued, in flight, sent and lost
packets are apart and were all read before `next`), `Counted` (the losses and the one
loss that a Stop under way still owes are within the stops) and `Timely` (at its
dispatch time a queued packet is reached by the timeline or by a clock that runs at normal speed, whichever is faster, `Reaches`; the position that an Enqueue
has read is not ahead of the timeline). So `PacketsNeverEarly` holds at every speed, slow ones included, in the terms that the code gives;
that no packet is ahead of the timeline itself is `FastPacketsFollowTimeline`, with the hypothesis `Speed >= NormalSpeed`, without which
packets are early (known disagreements).

*Protocol I/O* (`ProtocolIo_proofs`): `Served`, `OneLoop` and `Quiet`. `IInv` says what holds at
each section of a call (`Control`), that a context is there for what is open and gone only with all it ran
(`Context`), what a capture has (`Sources`), that each open source has its loop pending,
ready or in hand but for a receive loop of UDP that an error has ended (`Loops`, `Failed`), and that a handle is in one of these places only and of the last capture
unless a handler of an older one lingers (`Single`). `Started` says that what StartCapture has answered true to captures until StopCapture, or `lost` names what has ended
it; it does not rest on `capturing_`, which the handler of an older capture may clear. The handles are closed in whatever order; each
that was pending is aborted, and the order of these handlers is what that leaves open.

*Capture pipeline* (`CapturePipeline_proofs`): `TypeCorrect`, `Quiet`, `LeavesWriter` and `NothingCapturedIsLost`. `Quiet` rests on `InOrder`:
how far each worker, callback and call have got when `worker_running` and `capture_active` are up or down.
Its hypothesis `SharedIo = {}` leaves out the late callback that section 2 tells of. `LeavesWriter` has no hypothesis and rests on `Owned`: a
worker belongs to what the recording has started, to what it has still to stop, or to a plugin that it has not stopped (`Owners`), so that when
FinalizeFile closes the writer only the last of these can be inside. That it can be is a known disagreement above.
`NothingCapturedIsLost`, for `CapturedIsWritten`, rests on `InOrder` and on `Delivered`, which
follows a packet from the I/O thread through the ring and the worker's hand into the file: on each of these places,
and from one to the next, packets are in the order they were received in (`OnTheirWay`), one that was not
accepted comes before all that were (`AcceptedLast`), and while the file is being written each accepted
one is on one of them or filtered (`NothingLost`). `RecordingWrites` adds when the file is written and that,
once it is finalized, no protocol that the recording stopped has a worker, hence nothing in hand or in the ring.
Its hypothesis is `SharedIo = {}` again, as `InOrder` needs it. The proof needs no induction over sequences:
it is about the set of what each of them holds and about each pair of their positions.

*Catalog* (`Catalog_proofs`): `Current`, `Known`, `Closed` and the action property `Once`. `HttpControl` and
`MainControl` say where each thread can be; `Pointers` that who points and who is pointed to are
started; `Released` what is still held of the bundle that stops, by how far its trackers are told; `StorageDue` and `CoreDue`
what a bundle that has started is registered as before a tracker is told;
`Captures` that what is offered is active but for the step between; `Files` that an open file has a
recording state, a start under way or another file opened over it. `OneAtATime` says that no bundle stops under a request
unless they have overlapped, and the last two only claim something then, as the properties do. `NewRules`, with `Greatest` for the last of several mappings, is the lemma about the compiled rules.

*Events* (`WebEvents_proofs`): `TypeCorrect`, `TellsOnce`, `Current` and `NoneMissed`. `Subscriptions` says that the
generations in a list of callbacks grow and none is newer than the server's, which is why a callback of the
current generation is the last of its list and a transition is told once; `Numbered` that a thread
that has still to tell a number has not told it; `Bound` and `Reported` that since the server
subscribed every transition is told or the http thread is on its way to; `TargetsReported` the same of the replay targets.

*Session* (`Session_proofs`): `TypeCorrect` and `EndsReplay` for any number of clients, `ShownCorrect`,
`StateCorrect`, `StopCorrect` and `SendsFresh` for one. A lemma per action (`HaltDoes` and so on) says what a step
does to the call it belongs to and leaves alone; `Control` says which call can be at which label. The invariants:

- `Idling`, `Listed` and `Replayed`, for `EndsReplay`: what replays is in the list or in the hands of a call that will
  list it or stop it, and the list stays empty from a Stop on. Its hypothesis `OneOpen`: one client opens a file, in
  Idle, where nobody starts or stops a recording. Any number of other clients play, seek, pause and stop at
  any moment. Without it the property fails, as the known disagreement above (two opens).
- `Shown`, for `ShownCorrect`: what shows active is in the list, and the list replays but while a failed open is
  undone. The hypothesis is one client only.
- `Record`, `Threads`, `Playback`, `Packeted` and `Ended`, for the other three: at each label of the client's call what
  captures and is written, whether the scheduler thread may be there, which state, reader and timeline
  go with the call, whether the queue may hold packets read elsewhere, and what Stop has taken down so far. The state
  alone says this only between calls, which is why the properties are not inductive. `Record` is `Recorded` and, once a file was opened
  over a recording, `Overrun`, where the captures that are left are still listed; `Threads`, `Playback` and `Packeted` ask for less after an open over Playing
  and a refused seek, as the properties do. The hypotheses: `OneClient`, as
  the HTTP server runs every request on its one I/O thread and only the shutdown calls Stop from another; and
  `UiOffers`, that StartRecording comes outside the states of a recording and StopRecording outside those of playback, as in
  the web UI. Calls of other kinds, opens among them, are offered in any state, and every engine call may fail at any time.

`MCSession` meets the hypotheses of the last four, `MCSessionRace` that of `EndsReplay`.

*File* (`RpcapFile_proofs`): `FileSound`, `HeaderTrue`, `FileFits`, `ReadToTheEnd`, `DensityCorrect` and the
refinement `FileKeepsPromise`. The proof
counts instead of walking: `Before(file, i)` is the number of packets in front of an offset, and the packets of a
file are those of the recording by that number. `IInv` is `FileInv`, of the file and its writer, and what holds of the
reader. `FileInv` is a conjunction of

- `Numbered`, of every file, damaged or not: the packet in a cell is the one of the recording that its place says, so
  that a chunk written again after a failed call gives no packet twice; `Pending`: those still in memory follow;
- `Opening`: only a finalized file has a header that points to a schema; `Exclusive`: it is written or finalized, not both;
- `Whole` and `Finished`, of a file no write has failed on: from the schema to the writer's offset, then to the
  footer, it is chunks (`Laid`), each entry of the index is the first packet of a chunk, the entries are in the order of
  the chunks with none twice, and the finished header counts packets and time.

Of the reader, `IInv` says `Control`, that only a finalized file is open; and

- `Forward`: what was read, what is loaded and what is still in the file are numbered in this order; `Placed`: the
  reader stands where a chunk begins with the packets in front of it, and what a seek under way
  has passed over is too early, or of the time it looks for with the next one also of that time.

Every step keeps `FileInv` whoever has the file open (`FileKeeps`), so that `FileSound` and `HeaderTrue` hold without a
hypothesis. There is a lemma per action (`CreateKeeps` to `StepKeeps`), and for the refinement one per action that says which step of
PacketLog it is: creating, writing and finalizing are Create, Put and Seal, a step of a seek is Land when it ends and a
stutter before, in a damaged file every read is ReadDamaged. That a seek lands in front of the
earliest packet that is late enough (`SeekFinds`, `SeekGivesUp`) is where `Sorted`, the entries of the index and the
chunk boundaries meet. The hypothesis of the other four (`~OverwriteOpen`) is that CreateFile does not name the file that is open for
reading: the code does not prevent it, and then the reader holds a header and an index of what is gone, and nothing is promised
of what it reads.

`DensityCorrect` is about sums, and follows from `IInv` without a step of its own. A fold over a set is, when it is
expanded, a chosen function on the subsets of that set that takes one chosen element out at a time; `SumOf` is
that function under a name. `SetInduction`, the least counterexample by cardinality, gives that there is one
(`SumExists`), that its value does not depend on the order (`SumOut`), and that a table adds up
by rows as by columns (`SumSwap`). With them: the even spread of a chunk loses and adds nothing, the rest of the division
included (`SpreadEvenly`), for any number of slices (`SlicesAddUp`); and entries in order name chunks that do not overlap,
so that they count at most the packets in front of the last one's end, and all of them if every chunk
is named (`ChunksAddUp`, `AllNamed`).

Only model-checked: the liveness properties (`QueuedIsServed`, `NothingHangs`, `CallsReturn`,
`SeekReturns` and `StopReturns`); liveness under fairness is out of the prover's reach.

## 5. What is not modelled, and the plan

Done: ring with its FIFO, session, scheduler and timeline, capture pipeline, the file,
the I/O of the protocols, the events, the catalog and the bundles. Left:

1. `Playback`: the timeline composed with the scheduler; order and dispatch times under
   pause, change of speed and loop. Until then nothing is said of a dispatch time
   that was fixed before a pause or a change of speed (`PacketScheduler.cpp:17`), of a packet that is queued while the
   thread waits for a later one (`PacketScheduler.cpp:63`), of the order of packets with equal times
   (`PacketScheduler.h:36`) or of a queue that a Stop has emptied (`SessionController.cpp:793`).

Hazards that are real and outside the models, besides those of the list in PROJECT.json: a Stop
between Play's check and its start of the scheduler (`SessionController.cpp:556`: two joins
of one `std::thread`, undefined); two threads that make transitions call back in any order
(`SessionController.cpp:802`, against `test_session_controller.cpp:587`); CreateFile on a file that is
open for reading (`RpcapWriter.cpp:61`, `OverwriteOpen`); a codec service that went away
(`RpcapWriter.cpp:191`); `acceptor_` read without the mutex (`TcpProtocolService.cpp:390`);
StartReplay connecting with no lock held (`TcpProtocolService.cpp:229`); SendPacket that
returns at the first socket with an error (`UdpProtocolService.cpp:263`); a raw session
pointer used after its service is gone (`WebSocketServer.cpp:246`); channels numbered from 0
by UDP and TCP alike (`RuntimeCatalog.cpp:360`); a session that starts before the core and never
looks for it again (`recplay_session/src/Activator.cpp:17`); `HttpServer::Stop` under a request
(`HttpServer.cpp:640`).

Not modelled: SetSpeed and the getters of the session, which carry no control; the counters of the
statistics (nothing calls RecordPacket or RecordDrop); index, injector and object pool; the event log; I/O
backends and codecs; routing, JSON, the listing and renaming of files, the web UI. They
are views, parsing and library calls. What the UI offers in a state is part of the
Session runs through `MCOffered`.
