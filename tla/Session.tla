------------------------------- MODULE Session -------------------------------
(***************************************************************************)
(* SessionController (recplay_session/src/SessionController.cpp) with the  *)
(* parts of the engine it drives: the storage service it opens for writing *)
(* and for reading, the protocols it starts for capture and for replay,    *)
(* and the scheduler thread that calls back into it for each packet.       *)
(*                                                                         *)
(* A call of the public interface runs on an API thread (a caller) as a    *)
(* sequence of steps, one for each call it makes into the engine or the    *)
(* state machine; the steps of the callers and of the scheduler thread     *)
(* interleave.  A call that returns before it changes anything is a        *)
(* stuttering step.  The scheduler is a running flag, a thread and a set   *)
(* of queued packets (PacketScheduler has its details); a file is one      *)
(* chunk of packets 1, 2, 3 ... whose numbers stand for capture times; the *)
(* timeline is paused or not.                                              *)
(***************************************************************************)
EXTENDS Naturals, FiniteSets, SessionStates

CONSTANTS
  Callers,      \* API threads
  Protocols,    \* attached protocol services
  Offered,      \* <<caller, operation, state>>: what each client calls when
  Faults,       \* the engine calls that may fail, by name
  FileLengths,  \* numbers of packets the files offered for playback hold
  LoopRanges,   \* <<start, end>> pairs given to SetLoopRange
  Prefetch      \* kPlaybackPrefetchPackets

Operations ==
  {"StartRecording", "PauseRecording", "ResumeRecording", "StopRecording",
   "OpenForPlayback", "Play", "Pause", "SeekTo", "Stop",
   "SetLoopRange", "SetReplayTargets"}

FaultNames ==
  {"CreateFile", "StartCapture", "OpenFile", "StartReplay", "ReadNext", "SeekTo"}

ASSUME OfferedAssumption == Offered \subseteq Callers \X Operations \X SessionState
ASSUME FaultsAssumption == Faults \subseteq FaultNames
ASSUME FileAssumption ==
  /\ FileLengths \subseteq Nat
  /\ LoopRanges \subseteq Nat \X Nat
  /\ Prefetch \in Nat \ {0}

VARIABLES
  state,           \* SessionStateMachine::state_
  call,            \* what each caller is doing: see CallType
  timelinePaused,  \* TimelineEngine::paused_
  writing,         \* StorageService::writing_
  capturing,       \* protocols whose capture runs
  activeRecord,    \* active_record_protocols_
  reading,         \* StorageService::reading_
  fileLen,         \* packets in the file open for playback
  readPos,         \* the packet ReadNext returns next
  replaying,       \* protocols whose IsReplaying() is true
  activeReplay,    \* active_replay_protocols_
  targets,         \* protocols of the enabled replay_targets_
  status,          \* their status fields
  loop,            \* <<loop_start_ns_, loop_end_ns_>>
  running,         \* PacketScheduler::running_
  thread,          \* PacketScheduler::thread_: where SchedulerLoop is
  queue,           \* PacketScheduler::queue_, in any order
  inflight,        \* the packet the scheduler thread has popped
  stopped,         \* history: a Stop ended playback, and no open came since
  openedOver,      \* history: what a file was opened over, and still is: see OpenedOver
  seekFailed       \* history: the reader could not be moved since the thread was started

recordVars == <<writing, capturing, activeRecord>>
fileVars == <<reading, fileLen, readPos>>
replayVars == <<replaying, activeReplay>>
settings == <<targets, status, loop>>
schedVars == <<running, thread, queue, inflight>>
history == <<stopped, openedOver, seekFailed>>
playVars == <<fileVars, replayVars, settings, schedVars, history>>
vars == <<state, call, timelinePaused, recordVars, playVars>>

-----------------------------------------------------------------------------
(***************************************************************************)
(* Calls.                                                                  *)
(***************************************************************************)

Labels ==
  {"idle",
   "create", "capture", "enterRecording", "commitRecord", "undoCapture", "finalize",
   "stopCapture", "finalizeOpen", "leaveRecording",
   "open", "replay", "undoReplay", "abandonOpen", "commitReplay", "fillOpen", "stage",
   "play", "halt", "join", "spawn", "enterPlaying", "enterPaused", "clear",
   "enterSeeking", "seek", "fillSeek", "leaveSeeking",
   "takeReplay", "stopReplay", "close", "leaveSeekState", "leavePlayback"}

\* todo and started are the protocol lists a call walks; prev is the state that
\* SeekTo and Stop read on entry.
CallType ==
  [op: Operations \cup {"none"}, pc: Labels, prev: SessionState,
   todo: SUBSET Protocols, started: SUBSET Protocols]

NoCall == [op |-> "none", pc |-> "idle", prev |-> "Idle", todo |-> {}, started |-> {}]

At(c, label) == call[c].pc = label
Goto(c, label) == call' = [call EXCEPT ![c].pc = label]
Return(c) == call' = [call EXCEPT ![c] = NoCall]

\* A client of c's thread makes the call op.
Offers(c, op) == At(c, "idle") /\ <<c, op, state>> \in Offered

\* The call goes on at label.
Enter(c, op, label) ==
  call' = [call EXCEPT ![c] = [NoCall EXCEPT !.op = op, !.pc = label, !.prev = state]]

\* No operation asks whether a file may be opened.  Over a recording the session comes
\* to be Stopped with the recording running, until StopRecording ends it; over Playing
\* the reader is replaced under the scheduler thread, until a call joins the thread.
OpenedOver == {"recording", "playback"}

\* Transition(target); where the code ignores the result so does the model.
TryTransition(target) ==
  state' = IF IsValidTransition(state, target) THEN target ELSE state

MayFail(name) == name \in Faults

-----------------------------------------------------------------------------
(***************************************************************************)
(* Recording.                                                              *)
(***************************************************************************)

\* With no protocol to record the call returns.
CallStartRecording(c) ==
  /\ Offers(c, "StartRecording")
  /\ Protocols # {}
  /\ Enter(c, "StartRecording", "create")
  /\ UNCHANGED <<state, timelinePaused, recordVars, playVars>>

\* ParseRecordRequest: a request that names no protocol means all that are attached.
RecordRequests == {IF named = {} THEN Protocols ELSE named : named \in SUBSET Protocols}

\* CreateFile replaces whatever writer was open, before any state is checked.
CreateFile(c) ==
  /\ At(c, "create")
  /\ \/ /\ writing' = TRUE
        /\ \E request \in RecordRequests :
             call' = [call EXCEPT ![c].pc = "capture", ![c].todo = request]
     \/ /\ MayFail("CreateFile")
        /\ writing' = FALSE
        /\ Return(c)
  /\ UNCHANGED <<state, timelinePaused, capturing, activeRecord, playVars>>

\* StartProtocolCapture answers true at once for a capture that runs already.
StartCapture(c) ==
  /\ At(c, "capture")
  /\ \/ \E p \in call[c].todo :
          /\ capturing' = capturing \cup {p}
          /\ call' = [call EXCEPT ![c].todo = @ \ {p}, ![c].started = @ \cup {p}]
     \/ /\ MayFail("StartCapture")
        /\ call[c].todo \ capturing # {}
        /\ Goto(c, "undoCapture")
        /\ UNCHANGED capturing
     \/ /\ call[c].todo = {}
        /\ Goto(c, "enterRecording")
        /\ UNCHANGED capturing
  /\ UNCHANGED <<state, timelinePaused, writing, activeRecord, playVars>>

EnterRecording(c) ==
  /\ At(c, "enterRecording")
  /\ TryTransition("Recording")
  /\ Goto(c, IF IsValidTransition(state, "Recording") THEN "commitRecord" ELSE "undoCapture")
  /\ UNCHANGED <<timelinePaused, recordVars, playVars>>

CommitRecord(c) ==
  /\ At(c, "commitRecord")
  /\ activeRecord' = call[c].started
  /\ timelinePaused' = FALSE
  /\ Return(c)
  /\ UNCHANGED <<state, writing, capturing, playVars>>

\* A plausible bug, for a mutant run: only the capture that failed is stopped.
UndoCaptureForgets(c) ==
  /\ At(c, "undoCapture")
  /\ Goto(c, "finalize")
  /\ UNCHANGED <<state, timelinePaused, recordVars, playVars>>

\* A capture failed to start or the state refused: stop what this call started.
UndoCapture(c) ==
  /\ At(c, "undoCapture")
  /\ \/ \E p \in call[c].started :
          /\ capturing' = capturing \ {p}
          /\ call' = [call EXCEPT ![c].started = @ \ {p}]
     \/ /\ call[c].started = {}
        /\ Goto(c, "finalize")
        /\ UNCHANGED capturing
  /\ UNCHANGED <<state, timelinePaused, writing, activeRecord, playVars>>

FinalizeFailedRecording(c) ==
  /\ At(c, "finalize")
  /\ writing' = FALSE
  /\ Return(c)
  /\ UNCHANGED <<state, timelinePaused, capturing, activeRecord, playVars>>

\* Pause and resume move the state and the timeline; captures and writer go on.
\* The state check and the transition are one step: were the state to change
\* between them the transition would refuse, and the call return as the check does.
PauseRecording(c) ==
  /\ Offers(c, "PauseRecording")
  /\ state = "Recording"
  /\ TryTransition("RecordingPaused")
  /\ timelinePaused' = TRUE
  /\ UNCHANGED <<call, recordVars, playVars>>

ResumeRecording(c) ==
  /\ Offers(c, "ResumeRecording")
  /\ state = "RecordingPaused"
  /\ TryTransition("Recording")
  /\ timelinePaused' = FALSE
  /\ UNCHANGED <<call, recordVars, playVars>>

\* StopRecording has no state check.  It takes the list of protocols ...
CallStopRecording(c) ==
  /\ Offers(c, "StopRecording")
  /\ call' = [call EXCEPT ![c] = [NoCall EXCEPT
       !.op = "StopRecording", !.pc = "stopCapture", !.todo = activeRecord]]
  /\ activeRecord' = {}
  /\ UNCHANGED <<state, timelinePaused, writing, capturing, playVars>>

\* ... stops each (StopProtocolCapture waits for its worker to drain) ...
StopCapture(c) ==
  /\ At(c, "stopCapture")
  /\ \/ \E p \in call[c].todo :
          /\ capturing' = capturing \ {p}
          /\ call' = [call EXCEPT ![c].todo = @ \ {p}]
     \/ /\ call[c].todo = {}
        /\ Goto(c, "finalizeOpen")
        /\ UNCHANGED capturing
  /\ UNCHANGED <<state, timelinePaused, writing, activeRecord, playVars>>

\* ... finalizes the file if one is being written ...
FinalizeRecording(c) ==
  /\ At(c, "finalizeOpen")
  /\ writing' = FALSE
  /\ Goto(c, "leaveRecording")
  /\ UNCHANGED <<state, timelinePaused, capturing, activeRecord, playVars>>

\* ... and ends in Stopped, from every state but Seeking and Stopped.
LeaveRecording(c) ==
  /\ At(c, "leaveRecording")
  /\ TryTransition("Stopped")
  /\ openedOver' = openedOver \ {"recording"}
  /\ Return(c)
  /\ UNCHANGED <<timelinePaused, recordVars, fileVars, replayVars, settings, schedVars,
                 stopped, seekFailed>>

-----------------------------------------------------------------------------
(***************************************************************************)
(* Packets between the reader and the scheduler.                           *)
(***************************************************************************)

\* A queued packet is fresh until the reader is opened or moved elsewhere.
Entry == [pkt: Nat, fresh: BOOLEAN]
NoPacket == [pkt |-> 0, fresh |-> TRUE]
Packets(from, k) == {[pkt |-> i, fresh |-> TRUE] : i \in from .. from + k - 1}

Stale(e) == [e EXCEPT !.fresh = FALSE]
MarkStale ==
  /\ queue' = {Stale(e) : e \in queue}
  /\ inflight' = IF inflight = NoPacket THEN NoPacket ELSE Stale(inflight)

\* Enqueue and Clear take the scheduler's mutex and notify its thread.
MutexFree == thread # "toWait"
Notified == IF thread = "waiting" THEN "loop" ELSE thread

\* FillPlaybackQueue reads up to this many packets from pos on ...
Wanted(pos) ==
  LET left == fileLen + 1 - pos
  IN  IF ~reading THEN 0 ELSE IF left < Prefetch THEN left ELSE Prefetch

\* ... and fewer when ReadNext fails: at a chunk that cannot be loaded, after which the
\* reader is at the end, or at an empty one, where it stays.
FillCounts(pos) == IF MayFail("ReadNext") THEN 0 .. Wanted(pos) ELSE {Wanted(pos)}

ReadOn(pos, k) ==
  \/ readPos' = pos + k
  \/ k < Wanted(pos) /\ readPos' = fileLen + 1

Fill(k) ==
  /\ queue' = queue \cup Packets(readPos, k)
  /\ ReadOn(readPos, k)

\* What FillPlaybackQueue returns: anything queued, or nothing left.
FillSucceeds(k) == reading /\ (k > 0 \/ readPos' > fileLen)

\* RpcapReader::SeekTo finds the first packet at or after t; past the last packet the
\* chunk stays loaded and is read again from its start.  It fails in a file without
\* packets and at a chunk that is damaged or empty, and stays where it failed.
SeekMaySucceed == reading /\ fileLen > 0
SeekMayFail == ~SeekMaySucceed \/ MayFail("SeekTo")
WhereSeekFails == IF reading THEN 1 .. fileLen + 1 ELSE {readPos}
SeekPosition(t) == IF t = 0 \/ t > fileLen THEN 1 ELSE t

-----------------------------------------------------------------------------
(***************************************************************************)
(* Opening a file for playback.                                            *)
(***************************************************************************)

CallOpenForPlayback(c) ==
  /\ Offers(c, "OpenForPlayback")
  /\ Enter(c, "OpenForPlayback", "open")
  /\ stopped' = FALSE
  /\ UNCHANGED <<state, timelinePaused, recordVars, fileVars, replayVars, settings, schedVars,
                 openedOver, seekFailed>>

\* RefreshReplayTargetStatusesLocked: what the enabled targets show.  (One without an
\* address shows an error whatever happens and is left out.)
Status(enabled, active, failing) ==
  [p \in enabled |-> IF p \in failing THEN "error" ELSE IF p \in active THEN "active" ELSE "idle"]

\* The protocols that the channels of a file belong to, and those that the keys of a
\* request are read as: UDP's, TCP's or neither's.
RecordedProtocols == SUBSET Protocols
InferredProtocols == {{}} \cup {{p} : p \in Protocols}

\* The protocols to replay: of the enabled targets, else of the file, else of the
\* request, else all that are attached.
ReplayProtocols(recorded, inferred) ==
  IF targets # {} THEN targets
  ELSE IF recorded # {} THEN recorded
  ELSE IF inferred # {} THEN inferred
  ELSE Protocols

\* The reader closes the file it had in any case.
OpenFile(c) ==
  /\ At(c, "open")
  /\ MarkStale
  /\ openedOver' = IF state = "Playing" THEN openedOver \cup {"playback"} ELSE openedOver
  /\ \/ /\ reading' = TRUE
        /\ fileLen' \in FileLengths
        /\ readPos' = 1
        /\ \E recorded \in RecordedProtocols, inferred \in InferredProtocols :
             call' = [call EXCEPT ![c].pc = "replay", ![c].todo = ReplayProtocols(recorded, inferred)]
     \/ /\ MayFail("OpenFile")
        /\ reading' = FALSE
        /\ Return(c)
        /\ UNCHANGED <<fileLen, readPos>>
  /\ UNCHANGED <<state, timelinePaused, recordVars, replayVars, settings, running, thread,
                 stopped, seekFailed>>

\* A protocol that fails to start may have ended the replay it was running.
StartReplay(c) ==
  /\ At(c, "replay")
  /\ \/ \E p \in call[c].todo :
          /\ replaying' = replaying \cup {p}
          /\ call' = [call EXCEPT ![c].todo = @ \ {p}, ![c].started = @ \cup {p}]
     \/ /\ MayFail("StartReplay")
        /\ \E p \in call[c].todo :
             /\ replaying' \in {replaying, replaying \ {p}}
             /\ call' = [call EXCEPT ![c].pc = "undoReplay", ![c].todo = {p}]
     \/ /\ call[c].todo = {}
        /\ Goto(c, "commitReplay")
        /\ UNCHANGED replaying
  /\ UNCHANGED <<state, timelinePaused, recordVars, fileVars, activeReplay, settings, schedVars,
                 history>>

UndoReplay(c) ==
  /\ At(c, "undoReplay")
  /\ \/ \E p \in call[c].started :
          /\ replaying' = replaying \ {p}
          /\ call' = [call EXCEPT ![c].started = @ \ {p}]
     \/ /\ call[c].started = {}
        /\ Goto(c, "abandonOpen")
        /\ UNCHANGED replaying
  /\ UNCHANGED <<state, timelinePaused, recordVars, fileVars, activeReplay, settings, schedVars,
                 history>>

\* A plausible bug, for a mutant run: the targets go on showing what they showed.
AbandonOpenQuietly(c) ==
  /\ At(c, "abandonOpen")
  /\ reading' = FALSE
  /\ activeReplay' = {}
  /\ Return(c)
  /\ UNCHANGED <<state, timelinePaused, recordVars, fileLen, readPos, replaying, settings,
                 schedVars, history>>

\* What is left to start is the protocol that failed.
AbandonOpen(c) ==
  /\ At(c, "abandonOpen")
  /\ reading' = FALSE
  /\ activeReplay' = {} /\ status' = Status(targets, {}, call[c].todo)
  /\ Return(c)
  /\ UNCHANGED <<state, timelinePaused, recordVars, fileLen, readPos, replaying, targets, loop,
                 schedVars, history>>

\* The list of an earlier open is overwritten; SetOrigin leaves the timeline
\* paused or running as it was; then the scheduler is cleared.
CommitReplay(c) ==
  /\ At(c, "commitReplay")
  /\ activeReplay' = call[c].started /\ status' = Status(targets, call[c].started, {})
  /\ Goto(c, "clear")
  /\ UNCHANGED <<state, timelinePaused, recordVars, fileVars, replaying, targets, loop, schedVars,
                 history>>

FillAfterOpen(c) ==
  /\ At(c, "fillOpen")
  /\ MutexFree
  /\ \E k \in FillCounts(readPos) :
       /\ Fill(k)
       /\ thread' = IF k > 0 THEN Notified ELSE thread
       /\ Goto(c, IF FillSucceeds(k) THEN "stage" ELSE "takeReplay")
  /\ UNCHANGED <<state, timelinePaused, recordVars, reading, fileLen, replayVars, settings,
                 running, inflight, history>>

\* The staged state is Stopped; only Seeking refuses.
Stage(c) ==
  /\ At(c, "stage")
  /\ TryTransition("Stopped")
  /\ openedOver' = IF state \in RecordingStates THEN openedOver \cup {"recording"} ELSE openedOver
  /\ Return(c)
  /\ UNCHANGED <<timelinePaused, recordVars, fileVars, replayVars, settings, schedVars,
                 stopped, seekFailed>>

-----------------------------------------------------------------------------
(***************************************************************************)
(* Playback.                                                               *)
(***************************************************************************)

CallPlay(c) ==
  /\ Offers(c, "Play")
  /\ Enter(c, "Play", "play")
  /\ UNCHANGED <<state, timelinePaused, recordVars, playVars>>

\* Play, on its own or at the end of SeekTo, needs an open file and starts the
\* timeline before it restarts the scheduler.
StartTimeline(c) ==
  /\ At(c, "play")
  /\ IF reading
       THEN timelinePaused' = FALSE /\ Goto(c, "halt")
       ELSE UNCHANGED timelinePaused /\ Return(c)
  /\ UNCHANGED <<state, recordVars, playVars>>

CallPause(c) ==
  /\ Offers(c, "Pause")
  /\ state = "Playing"
  /\ Enter(c, "Pause", "halt")
  /\ timelinePaused' = TRUE
  /\ UNCHANGED <<state, recordVars, playVars>>

\* SeekTo reads the state, and moves to Seeking in a step of its own.
CallSeekTo(c) ==
  /\ Offers(c, "SeekTo")
  /\ reading
  /\ Enter(c, "SeekTo", "enterSeeking")
  /\ UNCHANGED <<state, timelinePaused, recordVars, playVars>>

EnterSeeking(c) ==
  /\ At(c, "enterSeeking")
  /\ TryTransition("Seeking")
  /\ IF IsValidTransition(state, "Seeking") THEN Goto(c, "halt") ELSE Return(c)
  /\ UNCHANGED <<timelinePaused, recordVars, playVars>>

\* Stop acts on playback in any of its states, and on a staged file.
CallStop(c) ==
  /\ Offers(c, "Stop")
  /\ \/ state \in PlaybackStates
     \/ state = "Stopped" /\ (reading \/ activeReplay # {})
  /\ Enter(c, "Stop", "halt")
  /\ UNCHANGED <<state, timelinePaused, recordVars, playVars>>

\* PacketScheduler::Stop lowers running_ and notifies without the mutex: a thread that
\* is about to wait does not hear of it ...
Halt(c) ==
  /\ At(c, "halt")
  /\ running' = FALSE
  /\ thread' = Notified
  /\ Goto(c, "join")
  /\ UNCHANGED <<state, timelinePaused, recordVars, fileVars, replayVars, settings,
                 queue, inflight, history>>

\* ... and joins the thread, if there is one.
\* A plausible bug, for a mutant run: SeekTo does not clear the scheduler.
AfterJoinNoClear == [Play |-> "spawn", Pause |-> "enterPaused", SeekTo |-> "seek", Stop |-> "clear"]

AfterJoin == [Play |-> "spawn", Pause |-> "enterPaused", SeekTo |-> "clear", Stop |-> "clear"]

Join(c) ==
  /\ At(c, "join")
  /\ thread \in {"none", "exited"}
  /\ thread' = "none"
  /\ openedOver' = openedOver \ {"playback"}
  /\ Goto(c, AfterJoin[call[c].op])
  /\ UNCHANGED <<state, timelinePaused, recordVars, fileVars, replayVars, settings,
                 running, queue, inflight, stopped, seekFailed>>

\* The second half of PacketScheduler::Start.
Spawn(c) ==
  /\ At(c, "spawn")
  /\ running' = TRUE
  /\ thread' = "loop"
  /\ seekFailed' = FALSE
  /\ Goto(c, "enterPlaying")
  /\ UNCHANGED <<state, timelinePaused, recordVars, fileVars, replayVars, settings,
                 queue, inflight, stopped, openedOver>>

\* Play does not ask whether the state admits it.
EnterPlaying(c) ==
  /\ At(c, "enterPlaying")
  /\ TryTransition("Playing")
  /\ Return(c)
  /\ UNCHANGED <<timelinePaused, recordVars, playVars>>

EnterPaused(c) ==
  /\ At(c, "enterPaused")
  /\ TryTransition("PlaybackPaused")
  /\ Return(c)
  /\ UNCHANGED <<timelinePaused, recordVars, playVars>>

\* PacketScheduler::Clear, for OpenForPlayback, SeekTo and Stop.
AfterClear == [OpenForPlayback |-> "fillOpen", SeekTo |-> "seek", Stop |-> "takeReplay"]

ClearQueue(c) ==
  /\ At(c, "clear")
  /\ MutexFree
  /\ queue' = {}
  /\ thread' = Notified
  /\ Goto(c, AfterClear[call[c].op])
  /\ UNCHANGED <<state, timelinePaused, recordVars, fileVars, replayVars, settings,
                 running, inflight, history>>

\* SeekTo goes back to the state it came from, but a failed one with the
\* scheduler stopped.
SeekFile(c) ==
  /\ At(c, "seek")
  /\ \/ /\ SeekMaySucceed
        /\ \E t \in 0 .. fileLen + 1 : readPos' = SeekPosition(t)
        /\ MarkStale
        /\ Goto(c, "fillSeek")
        /\ UNCHANGED <<state, seekFailed>>
     \/ /\ SeekMayFail
        /\ readPos' \in WhereSeekFails
        /\ TryTransition(IF call[c].prev = "PlaybackPaused" THEN "PlaybackPaused" ELSE "Playing")
        /\ seekFailed' = TRUE
        /\ Return(c)
        /\ UNCHANGED <<queue, inflight>>
  /\ UNCHANGED <<timelinePaused, recordVars, reading, fileLen, replayVars, settings,
                 running, thread, stopped, openedOver>>

FillAfterSeek(c) ==
  /\ At(c, "fillSeek")
  /\ MutexFree
  /\ \E k \in FillCounts(readPos) :
       /\ Fill(k)
       /\ thread' = IF k > 0 THEN Notified ELSE thread
  /\ Goto(c, "leaveSeeking")
  /\ UNCHANGED <<state, timelinePaused, recordVars, reading, fileLen, replayVars, settings,
                 running, inflight, history>>

\* Back to PlaybackPaused by a transition, to Playing through Play.
LeaveSeeking(c) ==
  /\ At(c, "leaveSeeking")
  /\ IF call[c].prev = "PlaybackPaused"
       THEN TryTransition("PlaybackPaused") /\ Return(c)
       ELSE UNCHANGED state /\ call' = [call EXCEPT ![c].op = "Play", ![c].pc = "play"]
  /\ UNCHANGED <<timelinePaused, recordVars, playVars>>

\* A plausible bug, for a mutant run: the list is cleared before it is copied.
TakeReplayClearsFirst(c) ==
  /\ At(c, "takeReplay")
  /\ activeReplay' = {} /\ status' = Status(targets, {}, {})
  /\ Goto(c, "stopReplay")
  /\ UNCHANGED <<state, timelinePaused, recordVars, fileVars, replaying, targets, loop, schedVars,
                 history>>

\* StopReplayProtocols, for Stop and for an open that fails: takes the list ...
TakeReplay(c) ==
  /\ At(c, "takeReplay")
  /\ activeReplay' = {} /\ status' = Status(targets, {}, {})
  /\ call' = [call EXCEPT ![c].todo = activeReplay, ![c].pc = "stopReplay"]
  /\ UNCHANGED <<state, timelinePaused, recordVars, fileVars, replaying, targets, loop, schedVars,
                 history>>

\* ... and stops each.
StopReplay(c) ==
  /\ At(c, "stopReplay")
  /\ \/ \E p \in call[c].todo :
          /\ replaying' = replaying \ {p}
          /\ call' = [call EXCEPT ![c].todo = @ \ {p}]
     \/ /\ call[c].todo = {}
        /\ Goto(c, "close")
        /\ UNCHANGED replaying
  /\ UNCHANGED <<state, timelinePaused, recordVars, fileVars, activeReplay, settings, schedVars,
                 history>>

\* A plausible bug, for a mutant run: only a playback that began is closed.
CloseFileOncePlayed(c) ==
  /\ At(c, "close")
  /\ reading' = (reading /\ state = "Stopped")
  /\ Goto(c, "leavePlayback")
  /\ UNCHANGED <<state, timelinePaused, recordVars, fileLen, readPos, replayVars, settings,
                 schedVars, history>>

CloseFile(c) ==
  /\ At(c, "close")
  /\ reading' = FALSE
  /\ IF call[c].op = "OpenForPlayback"
       THEN Return(c)
       ELSE Goto(c, IF call[c].prev = "Seeking" THEN "leaveSeekState" ELSE "leavePlayback")
  /\ UNCHANGED <<state, timelinePaused, recordVars, fileLen, readPos, replayVars, settings,
                 schedVars, history>>

\* Seeking has no transition to Stopped, so Stop passes through PlaybackPaused.
LeaveSeekState(c) ==
  /\ At(c, "leaveSeekState")
  /\ TryTransition("PlaybackPaused")
  /\ Goto(c, "leavePlayback")
  /\ UNCHANGED <<timelinePaused, recordVars, playVars>>

LeavePlayback(c) ==
  /\ At(c, "leavePlayback")
  /\ TryTransition("Stopped")
  /\ stopped' = TRUE
  /\ Return(c)
  /\ UNCHANGED <<timelinePaused, recordVars, fileVars, replayVars, settings, schedVars,
                 openedOver, seekFailed>>

SetLoopRange(c) ==
  /\ Offers(c, "SetLoopRange")
  /\ loop' \in LoopRanges
  /\ UNCHANGED <<state, call, timelinePaused, recordVars, fileVars, replayVars, targets, status,
                 schedVars, history>>

SetReplayTargets(c) ==
  /\ Offers(c, "SetReplayTargets")
  /\ targets' \in SUBSET Protocols
  /\ status' = Status(targets', activeReplay, {})
  /\ UNCHANGED <<state, call, timelinePaused, recordVars, fileVars, replayVars, loop, schedVars,
                 history>>

-----------------------------------------------------------------------------
(***************************************************************************)
(* The scheduler thread.                                                   *)
(***************************************************************************)

\* A packet is due: take it off the queue.
PopPacket ==
  /\ thread = "loop"
  /\ running
  /\ \E e \in queue : queue' = queue \ {e} /\ inflight' = e
  /\ thread' = "popped"
  /\ UNCHANGED <<state, call, timelinePaused, recordVars, fileVars, replayVars, settings, running,
                 history>>

\* running_ is read again: a packet popped before Stop is dropped.
RecheckRunning ==
  /\ thread = "popped"
  /\ IF running
       THEN thread' = "dispatch" /\ UNCHANGED inflight
       ELSE thread' = "exited" /\ inflight' = NoPacket
  /\ UNCHANGED <<state, call, timelinePaused, recordVars, fileVars, replayVars, settings, running,
                 queue, history>>

\* DispatchPlaybackPacket: with no file open the packet is dropped, else it is
\* sent to every protocol that is replaying.
Dispatch ==
  /\ thread = "dispatch"
  /\ IF reading
       THEN thread' = "sent" /\ UNCHANGED inflight
       ELSE thread' = "loop" /\ inflight' = NoPacket
  /\ UNCHANGED <<state, call, timelinePaused, recordVars, fileVars, replayVars, settings, running,
                 queue, history>>

InLoopEnd == loop[2] > loop[1] /\ inflight.pkt >= loop[2]

\* A plausible bug, for a mutant run: the loop restarts by SeekTo, which joins the
\* thread it runs on.
LoopBackJoins ==
  /\ thread = "sent"
  /\ InLoopEnd
  /\ thread = "exited"
  /\ UNCHANGED vars

\* The end of the loop range: Clear, then seek back and fill if the seek works.
LoopBack ==
  /\ thread = "sent"
  /\ InLoopEnd
  /\ \/ /\ SeekMaySucceed
        /\ \E k \in FillCounts(SeekPosition(loop[1])) :
             /\ queue' = Packets(SeekPosition(loop[1]), k)
             /\ ReadOn(SeekPosition(loop[1]), k)
     \/ /\ SeekMayFail
        /\ queue' = {}
        /\ readPos' \in WhereSeekFails
  /\ thread' = "loop"
  /\ inflight' = NoPacket
  /\ UNCHANGED <<state, call, timelinePaused, recordVars, reading, fileLen, replayVars, settings,
                 running, history>>

Refill ==
  /\ thread = "sent"
  /\ ~InLoopEnd
  /\ \E k \in FillCounts(readPos) : Fill(k)
  /\ thread' = "loop"
  /\ inflight' = NoPacket
  /\ UNCHANGED <<state, call, timelinePaused, recordVars, reading, fileLen, replayVars, settings,
                 running, history>>

\* The queue is empty: the predicate of the wait is tested under the mutex, and the
\* thread blocks a step later, when it also releases the mutex.  A wait for the time
\* of a packet ends by itself, like a spurious wakeup leads back to the loop.
DecideWait ==
  /\ thread = "loop"
  /\ running
  /\ queue = {}
  /\ thread' = "toWait"
  /\ UNCHANGED <<state, call, timelinePaused, recordVars, fileVars, replayVars, settings, running,
                 queue, inflight, history>>

Block ==
  /\ thread = "toWait"
  /\ thread' = "waiting"
  /\ UNCHANGED <<state, call, timelinePaused, recordVars, fileVars, replayVars, settings, running,
                 queue, inflight, history>>

ExitLoop ==
  /\ thread = "loop"
  /\ ~running
  /\ thread' = "exited"
  /\ UNCHANGED <<state, call, timelinePaused, recordVars, fileVars, replayVars, settings, running,
                 queue, inflight, history>>

-----------------------------------------------------------------------------
Init ==
  /\ state = "Idle"
  /\ call = [c \in Callers |-> NoCall]
  /\ timelinePaused = TRUE
  /\ writing = FALSE /\ capturing = {} /\ activeRecord = {}
  /\ reading = FALSE /\ fileLen = 0 /\ readPos = 1
  /\ replaying = {} /\ activeReplay = {}
  /\ targets = {} /\ status = Status({}, {}, {}) /\ loop = <<0, 0>>
  /\ running = FALSE /\ thread = "none" /\ queue = {} /\ inflight = NoPacket
  /\ stopped = FALSE /\ openedOver = {} /\ seekFailed = FALSE

\* A client makes a call.
Begin(c) ==
  \/ CallStartRecording(c) \/ PauseRecording(c) \/ ResumeRecording(c) \/ CallStopRecording(c)
  \/ CallOpenForPlayback(c) \/ CallPlay(c) \/ CallPause(c) \/ CallSeekTo(c) \/ CallStop(c)
  \/ SetLoopRange(c) \/ SetReplayTargets(c)

\* A call that has begun goes on.
Continue(c) ==
  \/ CreateFile(c) \/ StartCapture(c) \/ EnterRecording(c) \/ CommitRecord(c)
  \/ UndoCapture(c) \/ FinalizeFailedRecording(c)
  \/ StopCapture(c) \/ FinalizeRecording(c) \/ LeaveRecording(c)
  \/ OpenFile(c) \/ StartReplay(c) \/ UndoReplay(c) \/ AbandonOpen(c)
  \/ CommitReplay(c) \/ FillAfterOpen(c) \/ Stage(c)
  \/ StartTimeline(c) \/ Halt(c) \/ Join(c) \/ Spawn(c) \/ EnterPlaying(c) \/ EnterPaused(c)
  \/ EnterSeeking(c) \/ ClearQueue(c) \/ SeekFile(c) \/ FillAfterSeek(c) \/ LeaveSeeking(c)
  \/ TakeReplay(c) \/ StopReplay(c) \/ CloseFile(c) \/ LeaveSeekState(c) \/ LeavePlayback(c)

Scheduler ==
  \/ PopPacket \/ RecheckRunning \/ Dispatch \/ LoopBack \/ Refill
  \/ DecideWait \/ Block \/ ExitLoop

Next ==
  \/ \E c \in Callers : Begin(c) \/ Continue(c)
  \/ Scheduler

Spec == Init /\ [][Next]_vars

\* Threads that can run do run; nothing makes a client call.
FairSpec ==
  /\ Spec
  /\ \A c \in Callers : WF_vars(Continue(c))
  /\ WF_vars(Scheduler)

-----------------------------------------------------------------------------
(***************************************************************************)
(* Properties.                                                             *)
(***************************************************************************)

\* Every variable has its type; the reader is at a packet of its file or at the end.
TypeOK ==
  /\ state \in SessionState
  /\ call \in [Callers -> CallType]
  /\ timelinePaused \in BOOLEAN /\ writing \in BOOLEAN /\ reading \in BOOLEAN
  /\ running \in BOOLEAN /\ stopped \in BOOLEAN /\ seekFailed \in BOOLEAN
  /\ openedOver \subseteq OpenedOver
  /\ capturing \subseteq Protocols /\ activeRecord \subseteq Protocols
  /\ replaying \subseteq Protocols /\ activeReplay \subseteq Protocols
  /\ targets \subseteq Protocols /\ status \in [targets -> {"idle", "active", "error"}]
  /\ fileLen \in Nat /\ readPos \in 1 .. fileLen + 1
  /\ loop \in Nat \X Nat
  /\ thread \in {"none", "loop", "toWait", "waiting", "popped", "dispatch", "sent", "exited"}
  /\ queue \subseteq Entry /\ inflight \in Entry

\* No call is under way.
AtRest == \A c \in Callers : At(c, "idle")

\* Between calls the state tells whether a recording runs: in Recording and
\* RecordingPaused a file is being written and the captures that run are the ones
\* StopRecording will stop; in every other state neither a writer nor a capture
\* is left, whatever failed on the way (StartRecording's undo paths) and, once
\* StopRecording has been called, also after a file was opened over the recording.
RecordingIsLive ==
  AtRest /\ "recording" \notin openedOver =>
    IF state \in RecordingStates
      THEN writing /\ capturing = activeRecord /\ activeRecord # {}
      ELSE ~writing /\ capturing = {}

\* Between calls, Playing means that packets flow: a file is open, the timeline
\* runs and so does the scheduler thread, unless a seek failed since it was started
\* (SeekTo restores Playing with the thread stopped) or a file was opened over it.
PlayingIsLive ==
  AtRest /\ state = "Playing" /\ "playback" \notin openedOver =>
    /\ reading
    /\ ~timelinePaused
    /\ seekFailed \/ (running /\ thread \notin {"none", "exited"})

\* Between calls, in every state but Playing no scheduler thread is left, unless a file
\* was opened over it and no call has joined it since: nothing is sent while playback
\* is staged, paused or stopped.
OnlyPlayingDispatches ==
  AtRest /\ state # "Playing" /\ "playback" \notin openedOver => thread = "none" /\ ~running

\* Between calls the state of the session tells what runs: captures and writer,
\* reader, timeline and scheduler thread; where a file was opened over a recording or
\* over Playing, it does again once StopRecording, or a Play, Pause or Stop, is done.
StateTellsWhatRuns == TypeOK /\ RecordingIsLive /\ PlayingIsLive /\ OnlyPlayingDispatches

\* Once Stop has returned from playback, and until a file is opened again,
\* nothing of the playback is left: not the state, the open file, the queued
\* packets, the scheduler thread or the list of replaying protocols (the test asks for
\* a stopped playback also of a Stop during a seek, test_session_controller.cpp:524-525).
StopIsFinal ==
  AtRest /\ stopped =>
    /\ state \notin PlaybackStates
    /\ ~reading
    /\ thread = "none" /\ queue = {}
    /\ activeReplay = {}

\* Once Stop has returned from playback no protocol is replaying (the test of a staged
\* file asks for that, test_session_controller.cpp:554).
StopEndsReplay == AtRest /\ stopped => replaying = {}

\* Between calls a target that is shown active replays: its status follows the protocols
\* through an open that fails half way, a second open and a Stop.
ShownActiveReplays == AtRest => \A p \in targets : status[p] = "active" => p \in replaying

\* Between calls a session that is Stopped captures nothing, however it left
\* Recording (what the test of the recording asks for, test_session_controller.cpp:274-276).
StopEndsCapture == AtRest /\ state = "Stopped" => capturing = {}

\* A packet is sent only if it was read from where the reader is now: none is left over
\* from before a seek or from the file open before, unless that was opened over Playing.
NoStalePacketSent == thread = "sent" => inflight.fresh \/ "playback" \in openedOver

\* A Stop of the scheduler whose notification came between the test and the block of the
\* wait: the join does not end (MCPacketSchedulerStop has the run).
LostNotification(c) == At(c, "join") /\ thread = "waiting" /\ ~running

\* Every call returns, whatever the scheduler thread was doing in the session's callback
\* when running_ went down; only a lost notification keeps a call in Join.
CallsReturn == \A c \in Callers : ~At(c, "idle") ~> At(c, "idle") \/ LostNotification(c)
=============================================================================
