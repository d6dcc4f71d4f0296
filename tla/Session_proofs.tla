---------------------------- MODULE Session_proofs ----------------------------
(***************************************************************************)
(* Proofs about module Session.  For any number of clients: the state of   *)
(* the session is typed, each call goes through its own steps, and a Stop  *)
(* ends the replay of a session that opens one file.  For one client,      *)
(* whatever fails: a target that is shown active replays; and, when it     *)
(* opens files in any state, and makes the other calls where the web UI    *)
(* offers them, the state of the session tells what runs, Stop leaves      *)
(* nothing of the playback, and no packet is sent that was read before a   *)
(* seek.  What an open over a recording or over Playing and a second       *)
(* client break is told in README.md under "Known disagreements".          *)
(***************************************************************************)
EXTENDS Session, TLAPS

\* Which call is at which label.
StepOf(op, pc) ==
  /\ pc = "idle" <=> op = "none"
  /\ pc \in {"create", "capture", "enterRecording", "commitRecord", "undoCapture", "finalize"} =>
       op = "StartRecording"
  /\ pc \in {"stopCapture", "finalizeOpen", "leaveRecording"} => op = "StopRecording"
  /\ pc \in {"open", "replay", "undoReplay", "abandonOpen", "commitReplay", "fillOpen", "stage"} =>
       op = "OpenForPlayback"
  /\ pc \in {"play", "spawn", "enterPlaying"} => op = "Play"
  /\ pc \in {"halt", "join"} => op \in {"Play", "Pause", "SeekTo", "Stop"}
  /\ pc = "enterPaused" => op = "Pause"
  /\ pc \in {"enterSeeking", "seek", "fillSeek", "leaveSeeking"} => op = "SeekTo"
  /\ pc = "clear" => op \in {"OpenForPlayback", "SeekTo", "Stop"}
  /\ pc \in {"takeReplay", "stopReplay", "close"} => op \in {"OpenForPlayback", "Stop"}
  /\ pc \in {"leaveSeekState", "leavePlayback"} => op = "Stop"
Control == \A c \in Callers :
  (At(c, "idle") => call[c] = NoCall) /\ StepOf(call[c].op, call[c].pc)

-----------------------------------------------------------------------------
(***************************************************************************)
(* How a step changes the call it belongs to.                              *)
(***************************************************************************)

\* After a step of c the call of c is this one, and no other call has changed.
Becomes(c, op, pc, prev, todo, started) ==
  /\ call' \in [Callers -> CallType]
  /\ call'[c].op = op /\ call'[c].pc = pc /\ call'[c].prev = prev
  /\ call'[c].todo = todo /\ call'[c].started = started
  /\ \A d \in Callers : d # c => call'[d] = call[d]

\* What the type of the calls says of one.
LEMMA Typed ==
  ASSUME call \in [Callers -> CallType], NEW c \in Callers
  PROVE  /\ call[c] \in CallType
         /\ call[c].op \in Operations \cup {"none"} /\ call[c].pc \in Labels /\ call[c].prev \in SessionState
         /\ call[c].todo \in SUBSET Protocols /\ call[c].started \in SUBSET Protocols
  BY DEF CallType

\* A caller that makes no call.
LEMMA NoCallType ==
  /\ NoCall \in CallType /\ NoCall.op = "none" /\ NoCall.pc = "idle"
  /\ NoCall.prev = "Idle" /\ NoCall.todo = {} /\ NoCall.started = {}
  BY DEF NoCall, CallType, Labels, SessionState

\* The call of c is replaced.
LEMMA Replaced ==
  ASSUME call \in [Callers -> CallType], NEW c \in Callers, NEW r \in CallType,
         call' = [call EXCEPT ![c] = r]
  PROVE  Becomes(c, r.op, r.pc, r.prev, r.todo, r.started) /\ call'[c] = r
  BY DEF Becomes

\* A call goes on at label.
LEMMA GoesTo ==
  ASSUME call \in [Callers -> CallType], NEW c \in Callers, NEW label \in Labels, Goto(c, label)
  PROVE  Becomes(c, call[c].op, label, call[c].prev, call[c].todo, call[c].started)
<1>1. PICK r : r = [call[c] EXCEPT !.pc = label]
  OBVIOUS
<1>2. /\ r \in CallType /\ r.op = call[c].op /\ r.pc = label /\ r.prev = call[c].prev
      /\ r.todo = call[c].todo /\ r.started = call[c].started
  BY <1>1, Typed DEF CallType
<1>3. call' = [call EXCEPT ![c] = r]
  BY <1>1 DEF Goto
<1>4. Becomes(c, r.op, r.pc, r.prev, r.todo, r.started)
  BY ONLY <1>2, <1>3, Replaced, call \in [Callers -> CallType], c \in Callers
<1>5. QED
  BY ONLY <1>2, <1>4

\* A call goes on at label with the protocols of todo to walk.
LEMMA GoesToWith ==
  ASSUME call \in [Callers -> CallType], NEW c \in Callers, NEW label \in Labels, NEW todo \in SUBSET Protocols,
         call' = [call EXCEPT ![c].pc = label, ![c].todo = todo]
  PROVE  Becomes(c, call[c].op, label, call[c].prev, todo, call[c].started)
<1>1. PICK r : r = [call[c] EXCEPT !.pc = label, !.todo = todo]
  OBVIOUS
<1>2. /\ r \in CallType /\ r.op = call[c].op /\ r.pc = label /\ r.prev = call[c].prev
      /\ r.todo = todo /\ r.started = call[c].started
  BY <1>1, Typed DEF CallType
<1>3. call' = [call EXCEPT ![c] = r]
  BY <1>1, Typed DEF CallType
<1>4. Becomes(c, r.op, r.pc, r.prev, r.todo, r.started)
  BY ONLY <1>2, <1>3, Replaced, call \in [Callers -> CallType], c \in Callers
<1>5. QED
  BY ONLY <1>2, <1>4

\* A call has started protocol p.
LEMMA Starts ==
  ASSUME call \in [Callers -> CallType], NEW c \in Callers, NEW p \in call[c].todo,
         call' = [call EXCEPT ![c].todo = @ \ {p}, ![c].started = @ \cup {p}]
  PROVE  Becomes(c, call[c].op, call[c].pc, call[c].prev, call[c].todo \ {p}, call[c].started \cup {p})
<1>1. PICK r : r = [call[c] EXCEPT !.todo = @ \ {p}, !.started = @ \cup {p}]
  OBVIOUS
<1>2. /\ r \in CallType /\ r.op = call[c].op /\ r.pc = call[c].pc /\ r.prev = call[c].prev
      /\ r.todo = call[c].todo \ {p} /\ r.started = call[c].started \cup {p}
  BY <1>1, Typed DEF CallType
<1>3. call' = [call EXCEPT ![c] = r]
  BY <1>1, Typed DEF CallType
<1>4. Becomes(c, r.op, r.pc, r.prev, r.todo, r.started)
  BY ONLY <1>2, <1>3, Replaced, call \in [Callers -> CallType], c \in Callers
<1>5. QED
  BY ONLY <1>2, <1>4

\* A call has stopped protocol p of those that it was to stop.
LEMMA StopsListed ==
  ASSUME call \in [Callers -> CallType], NEW c \in Callers, NEW p,
         call' = [call EXCEPT ![c].todo = @ \ {p}]
  PROVE  Becomes(c, call[c].op, call[c].pc, call[c].prev, call[c].todo \ {p}, call[c].started)
<1>1. PICK r : r = [call[c] EXCEPT !.todo = @ \ {p}]
  OBVIOUS
<1>2. /\ r \in CallType /\ r.op = call[c].op /\ r.pc = call[c].pc /\ r.prev = call[c].prev
      /\ r.todo = call[c].todo \ {p} /\ r.started = call[c].started
  BY <1>1, Typed DEF CallType
<1>3. call' = [call EXCEPT ![c] = r]
  BY <1>1, Typed DEF CallType
<1>4. Becomes(c, r.op, r.pc, r.prev, r.todo, r.started)
  BY ONLY <1>2, <1>3, Replaced, call \in [Callers -> CallType], c \in Callers
<1>5. QED
  BY ONLY <1>2, <1>4

\* A call has stopped protocol p of those that it had started.
LEMMA StopsStarted ==
  ASSUME call \in [Callers -> CallType], NEW c \in Callers, NEW p,
         call' = [call EXCEPT ![c].started = @ \ {p}]
  PROVE  Becomes(c, call[c].op, call[c].pc, call[c].prev, call[c].todo, call[c].started \ {p})
<1>1. PICK r : r = [call[c] EXCEPT !.started = @ \ {p}]
  OBVIOUS
<1>2. /\ r \in CallType /\ r.op = call[c].op /\ r.pc = call[c].pc /\ r.prev = call[c].prev
      /\ r.todo = call[c].todo /\ r.started = call[c].started \ {p}
  BY <1>1, Typed DEF CallType
<1>3. call' = [call EXCEPT ![c] = r]
  BY <1>1, Typed DEF CallType
<1>4. Becomes(c, r.op, r.pc, r.prev, r.todo, r.started)
  BY ONLY <1>2, <1>3, Replaced, call \in [Callers -> CallType], c \in Callers
<1>5. QED
  BY ONLY <1>2, <1>4

\* A call goes on as a Play.
LEMMA GoesOnAsPlay ==
  ASSUME call \in [Callers -> CallType], NEW c \in Callers,
         call' = [call EXCEPT ![c].op = "Play", ![c].pc = "play"]
  PROVE  Becomes(c, "Play", "play", call[c].prev, call[c].todo, call[c].started)
<1>1. PICK r : r = [call[c] EXCEPT !.op = "Play", !.pc = "play"]
  OBVIOUS
<1>2. /\ r \in CallType /\ r.op = "Play" /\ r.pc = "play" /\ r.prev = call[c].prev
      /\ r.todo = call[c].todo /\ r.started = call[c].started
  <2>1. "Play" \in Operations \cup {"none"} /\ "play" \in Labels
    BY DEF Operations, Labels
  <2>2. call[c] \in CallType
    BY Typed
  <2>3. QED
    BY <1>1, <2>1, <2>2 DEF CallType
<1>3. call' = [call EXCEPT ![c] = r]
  BY <1>1, Typed DEF CallType
<1>4. Becomes(c, r.op, r.pc, r.prev, r.todo, r.started)
  BY ONLY <1>2, <1>3, Replaced, call \in [Callers -> CallType], c \in Callers
<1>5. QED
  BY ONLY <1>2, <1>4

\* A call returns.
LEMMA Returns ==
  ASSUME call \in [Callers -> CallType], NEW c \in Callers, Return(c)
  PROVE  Becomes(c, "none", "idle", "Idle", {}, {}) /\ call'[c] = NoCall
<1>1. call' = [call EXCEPT ![c] = NoCall]
  BY DEF Return
<1>2. PICK r : r = NoCall
  OBVIOUS
<1>3. r \in CallType /\ r.op = "none" /\ r.pc = "idle" /\ r.prev = "Idle" /\ r.todo = {} /\ r.started = {}
  BY <1>2, NoCallType
<1>4. Becomes(c, r.op, r.pc, r.prev, r.todo, r.started) /\ call'[c] = r
  BY ONLY <1>1, <1>2, <1>3, Replaced, call \in [Callers -> CallType], c \in Callers
<1>5. QED
  BY ONLY <1>2, <1>3, <1>4

\* A call begins.
LEMMA Enters ==
  ASSUME call \in [Callers -> CallType], NEW c \in Callers, NEW op \in Operations, NEW label \in Labels,
         state \in SessionState, Enter(c, op, label)
  PROVE  Becomes(c, op, label, state, {}, {})
<1>1. PICK r : r = [NoCall EXCEPT !.op = op, !.pc = label, !.prev = state]
  OBVIOUS
<1>2. /\ r \in CallType /\ r.op = op /\ r.pc = label /\ r.prev = state /\ r.todo = {} /\ r.started = {}
  BY <1>1 DEF NoCall, CallType
<1>3. call' = [call EXCEPT ![c] = r]
  BY <1>1 DEF Enter
<1>4. Becomes(c, r.op, r.pc, r.prev, r.todo, r.started)
  BY ONLY <1>2, <1>3, Replaced, call \in [Callers -> CallType], c \in Callers
<1>5. QED
  BY ONLY <1>2, <1>4

\* A call of StopRecording begins.
LEMMA EntersStopRecording ==
  ASSUME TypeOK, NEW c \in Callers, CallStopRecording(c)
  PROVE  Becomes(c, "StopRecording", "stopCapture", "Idle", activeRecord, {})
<1>1. PICK r : r = [NoCall EXCEPT !.op = "StopRecording", !.pc = "stopCapture", !.todo = activeRecord]
  OBVIOUS
<1>2. /\ r \in CallType /\ r.op = "StopRecording" /\ r.pc = "stopCapture" /\ r.prev = "Idle"
      /\ r.todo = activeRecord /\ r.started = {}
  BY <1>1 DEF NoCall, CallType, TypeOK, Operations, Labels, SessionState
<1>3. call' = [call EXCEPT ![c] = r]
  BY <1>1 DEF CallStopRecording
<1>4. Becomes(c, r.op, r.pc, r.prev, r.todo, r.started)
  <2>1. call \in [Callers -> CallType]
    BY DEF TypeOK
  <2>2. QED
    BY ONLY <1>2, <1>3, <2>1, Replaced, c \in Callers
<1>5. QED
  BY ONLY <1>2, <1>4

\* A step of c leaves every call at one of its own labels.
LEMMA ControlKept ==
  ASSUME Control, NEW c \in Callers, \A d \in Callers : d # c => call'[d] = call[d],
         StepOf(call'[c].op, call'[c].pc), call'[c].pc = "idle" => call'[c] = NoCall
  PROVE  Control'
<1>1. ASSUME NEW d \in Callers
      PROVE  (At(d, "idle")' => call'[d] = NoCall) /\ StepOf(call'[d].op, call'[d].pc)
  BY DEF Control, At
<1>2. QED
  BY <1>1 DEF Control, At

\* The requests of a recording name protocols, at least one if there is one.
LEMMA Requests ==
  /\ RecordRequests \subseteq SUBSET Protocols
  /\ Protocols # {} => {} \notin RecordRequests
  BY DEF RecordRequests

\* What a transition leaves.
LEMMA Transits ==
  ASSUME state \in SessionState, NEW target \in SessionState, TryTransition(target)
  PROVE  state' \in {state, target} /\ state' \in SessionState
  BY DEF TryTransition

\* A fill queues fresh packets and leaves the reader at one of the file or at the end.
LEMMA FillEnds ==
  ASSUME TypeOK, NEW pos \in 1 .. fileLen + 1, NEW k \in FillCounts(pos)
  PROVE  /\ k \in Nat
         /\ ReadOn(pos, k) => readPos' \in 1 .. fileLen + 1
         /\ Packets(pos, k) \subseteq Entry
         /\ \A e \in Packets(pos, k) : e.fresh
<1>1. fileLen \in Nat /\ pos \in Nat /\ Prefetch \in Nat /\ fileLen + 1 - pos \in Nat
  BY FileAssumption DEF TypeOK
<1>2. k \in Nat /\ k <= fileLen + 1 - pos
  BY <1>1 DEF FillCounts, Wanted
<1>3. ReadOn(pos, k) => readPos' \in 1 .. fileLen + 1
  BY <1>1, <1>2 DEF ReadOn
<1>4. ASSUME NEW i \in pos .. pos + k - 1
      PROVE  [pkt |-> i, fresh |-> TRUE] \in Entry /\ [pkt |-> i, fresh |-> TRUE].fresh
  <2>1. i \in Nat
    BY <1>1, <1>2, <1>4
  <2>2. QED
    BY <2>1 DEF Entry
<1>5. Packets(pos, k) = {[pkt |-> i, fresh |-> TRUE] : i \in pos .. pos + k - 1}
  BY DEF Packets
<1>6. Packets(pos, k) \subseteq Entry
  BY ONLY <1>4, <1>5
<1>7. \A e \in Packets(pos, k) : e.fresh
  BY ONLY <1>4, <1>5
<1>8. QED
  BY <1>2, <1>3, <1>6, <1>7

\* A seek goes to a packet of the file.
LEMMA SeeksInFile ==
  ASSUME TypeOK, NEW t \in Nat
  PROVE  SeekPosition(t) \in 1 .. fileLen + 1
  BY DEF SeekPosition, TypeOK

\* A seek that fails leaves the reader at a packet of the file or at the end.
LEMMA FailsInFile ==
  ASSUME TypeOK
  PROVE  WhereSeekFails \subseteq 1 .. fileLen + 1
  BY DEF WhereSeekFails, TypeOK

\* A notified thread is at a label, and at the same one if it did not wait.
LEMMA NotifiedThread ==
  \/ Notified = "loop" /\ thread = "waiting"
  \/ Notified = thread /\ thread # "waiting"
  BY DEF Notified

\* No packet is one, a fresh one.
LEMMA NoPacketType ==
  NoPacket \in Entry /\ NoPacket.fresh
  BY DEF NoPacket, Entry

\* Packets are marked, not made.
LEMMA StaleTypes ==
  ASSUME TypeOK
  PROVE  /\ {Stale(e) : e \in queue} \subseteq Entry
         /\ (IF inflight = NoPacket THEN NoPacket ELSE Stale(inflight)) \in Entry
<1>1. queue \subseteq Entry /\ inflight \in Entry
  BY DEF TypeOK
<1>2. ASSUME NEW e \in Entry PROVE Stale(e) \in Entry
  BY DEF Stale, Entry
<1>3. NoPacket \in Entry
  BY DEF NoPacket, Entry
<1>4. QED
  BY <1>1, <1>2, <1>3

\* What the targets show is one of the three statuses.
LEMMA StatusTypes ==
  ASSUME NEW enabled, NEW active, NEW failing
  PROVE  /\ Status(enabled, active, failing) \in [enabled -> {"idle", "active", "error"}]
         /\ \A p \in enabled : Status(enabled, active, failing)[p] = "active" => p \in active
  BY DEF Status

-----------------------------------------------------------------------------
(***************************************************************************)
(* What each step changes.                                                 *)
(***************************************************************************)

\* A call of StartRecording begins.
LEMMA CallStartRecordingDoes ==
  ASSUME TypeOK, NEW c \in Callers, CallStartRecording(c)
  PROVE  /\ call[c].pc = "idle"
         /\ <<c, "StartRecording", state>> \in Offered
         /\ Protocols # {}
         /\ UNCHANGED <<state, timelinePaused, writing, capturing, activeRecord, reading, fileLen,
                        readPos, replaying, activeReplay, targets, status, loop, running, thread, queue,
                        inflight, stopped, openedOver, seekFailed>>
         /\ Becomes(c, "StartRecording", "create", state, {}, {})
<1>1. call \in [Callers -> CallType] /\ state \in SessionState
  BY DEF TypeOK
<1>2. /\ call[c].pc = "idle"
      /\ <<c, "StartRecording", state>> \in Offered
      /\ Protocols # {}
      /\ UNCHANGED <<state, timelinePaused, writing, capturing, activeRecord, reading, fileLen, readPos,
                     replaying, activeReplay, targets, status, loop, running, thread, queue, inflight,
                     stopped, openedOver, seekFailed>>
  BY DEF CallStartRecording, At, Offers, recordVars, fileVars, replayVars, settings, schedVars, history,
     playVars
<1>3. /\ Enter(c, "StartRecording", "create")
  BY DEF CallStartRecording, recordVars, fileVars, replayVars, settings, schedVars, history, playVars,
     MarkStale,
     Fill, TryTransition
<1>4. Becomes(c, "StartRecording", "create", state, {}, {})
  BY <1>1, <1>3, Enters DEF Labels, Operations
<1>5. QED
  BY <1>2, <1>3, <1>4

\* The file is created, or not.
LEMMA CreateFileDoes ==
  ASSUME TypeOK, NEW c \in Callers, CreateFile(c)
  PROVE  /\ call[c].pc = "create"
         /\ UNCHANGED <<state, timelinePaused, capturing, activeRecord, reading, fileLen, readPos,
                        replaying, activeReplay, targets, status, loop, running, thread, queue,
                        inflight, stopped, openedOver, seekFailed>>
         /\ \/ \E request \in RecordRequests : 
                  /\ writing' = TRUE
                  /\ Becomes(c, call[c].op, "capture", call[c].prev, request, call[c].started)
            \/ /\ writing' = FALSE
               /\ Becomes(c, "none", "idle", "Idle", {}, {}) /\ call'[c] = NoCall
<1>1. call \in [Callers -> CallType] /\ state \in SessionState
  BY DEF TypeOK
<1>2. /\ call[c].pc = "create"
      /\ UNCHANGED <<state, timelinePaused, capturing, activeRecord, reading, fileLen, readPos,
                     replaying, activeReplay, targets, status, loop, running, thread, queue, inflight,
                     stopped, openedOver, seekFailed>>
  BY DEF CreateFile, At, Offers, recordVars, fileVars, replayVars, settings, schedVars, history, playVars
<1>3. \/ \E request \in RecordRequests : 
            /\ writing' = TRUE
            /\ call' = [call EXCEPT ![c].pc = "capture", ![c].todo = request]
      \/ /\ writing' = FALSE
         /\ Return(c)
  BY DEF CreateFile, recordVars, fileVars, replayVars, settings, schedVars, history, playVars, MarkStale,
     Fill,
     TryTransition
<1>4. ASSUME NEW request \in RecordRequests, call' = [call EXCEPT ![c].pc = "capture", ![c].todo = request]
      PROVE  Becomes(c, call[c].op, "capture", call[c].prev, request, call[c].started)
  <2>1. request \in SUBSET Protocols
    BY <1>4, Typed, <1>1 DEF RecordRequests
  <2>2. QED
    BY <1>1, <1>4, <2>1, GoesToWith DEF Labels, TypeOK
<1>5. ASSUME Return(c)
      PROVE  Becomes(c, "none", "idle", "Idle", {}, {}) /\ call'[c] = NoCall
  BY <1>1, <1>5, Returns
<1>6. QED
  BY <1>2, <1>3, <1>4, <1>5

\* The next capture starts, fails to or was the last.
LEMMA StartCaptureDoes ==
  ASSUME TypeOK, NEW c \in Callers, StartCapture(c)
  PROVE  /\ call[c].pc = "capture"
         /\ UNCHANGED <<state, timelinePaused, writing, activeRecord, reading, fileLen, readPos,
                        replaying, activeReplay, targets, status, loop, running, thread, queue,
                        inflight, stopped, openedOver, seekFailed>>
         /\ \/ \E p \in call[c].todo : 
                  /\ capturing' = capturing \cup {p}
                  /\ Becomes(c, call[c].op, call[c].pc, call[c].prev, call[c].todo \ {p},
                             call[c].started \cup {p})
            \/ /\ UNCHANGED capturing
               /\ Becomes(c, call[c].op, "undoCapture", call[c].prev, call[c].todo, call[c].started)
            \/ /\ call[c].todo = {}
               /\ UNCHANGED capturing
               /\ Becomes(c, call[c].op, "enterRecording", call[c].prev, call[c].todo, call[c].started)
<1>1. call \in [Callers -> CallType] /\ state \in SessionState
  BY DEF TypeOK
<1>2. /\ call[c].pc = "capture"
      /\ UNCHANGED <<state, timelinePaused, writing, activeRecord, reading, fileLen, readPos, replaying,
                     activeReplay, targets, status, loop, running, thread, queue, inflight, stopped,
                     openedOver, seekFailed>>
  BY DEF StartCapture, At, Offers, recordVars, fileVars, replayVars, settings, schedVars, history, playVars
<1>3. \/ \E p \in call[c].todo : 
            /\ capturing' = capturing \cup {p}
            /\ call' = [call EXCEPT ![c].todo = @ \ {p}, ![c].started = @ \cup {p}]
      \/ /\ UNCHANGED capturing
         /\ Goto(c, "undoCapture")
      \/ /\ call[c].todo = {}
         /\ UNCHANGED capturing
         /\ Goto(c, "enterRecording")
  BY DEF StartCapture, recordVars, fileVars, replayVars, settings, schedVars, history, playVars,
     MarkStale, Fill,
     TryTransition
<1>4. ASSUME NEW p \in call[c].todo, call' = [call EXCEPT ![c].todo = @ \ {p}, ![c].started = @ \cup {p}]
      PROVE  Becomes(c, call[c].op, call[c].pc, call[c].prev, call[c].todo \ {p}, call[c].started \cup {p})
  BY <1>1, <1>4, Starts
<1>5. ASSUME Goto(c, "undoCapture")
      PROVE  Becomes(c, call[c].op, "undoCapture", call[c].prev, call[c].todo, call[c].started)
  BY <1>1, <1>5, GoesTo DEF Labels
<1>6. ASSUME Goto(c, "enterRecording")
      PROVE  Becomes(c, call[c].op, "enterRecording", call[c].prev, call[c].todo, call[c].started)
  BY <1>1, <1>6, GoesTo DEF Labels
<1>7. QED
  BY <1>2, <1>3, <1>4, <1>5, <1>6

\* The state becomes Recording, or refuses.
LEMMA EnterRecordingDoes ==
  ASSUME TypeOK, NEW c \in Callers, EnterRecording(c)
  PROVE  /\ call[c].pc = "enterRecording"
         /\ UNCHANGED <<timelinePaused, writing, capturing, activeRecord, reading, fileLen, readPos,
                        replaying, activeReplay, targets, status, loop, running, thread, queue,
                        inflight, stopped, openedOver, seekFailed>>
         /\ \/ /\ IsValidTransition(state, "Recording")
               /\ state' = "Recording"
               /\ Becomes(c, call[c].op, "commitRecord", call[c].prev, call[c].todo, call[c].started)
            \/ /\ ~IsValidTransition(state, "Recording")
               /\ UNCHANGED state
               /\ Becomes(c, call[c].op, "undoCapture", call[c].prev, call[c].todo, call[c].started)
<1>1. call \in [Callers -> CallType] /\ state \in SessionState
  BY DEF TypeOK
<1>2. /\ call[c].pc = "enterRecording"
      /\ UNCHANGED <<timelinePaused, writing, capturing, activeRecord, reading, fileLen, readPos,
                     replaying, activeReplay, targets, status, loop, running, thread, queue, inflight,
                     stopped, openedOver, seekFailed>>
  BY DEF EnterRecording, At, Offers, recordVars, fileVars, replayVars, settings, schedVars, history, playVars
<1>3. \/ /\ IsValidTransition(state, "Recording")
         /\ state' = "Recording"
         /\ Goto(c, "commitRecord")
      \/ /\ ~IsValidTransition(state, "Recording")
         /\ UNCHANGED state
         /\ Goto(c, "undoCapture")
  BY DEF EnterRecording, recordVars, fileVars, replayVars, settings, schedVars, history, playVars,
     MarkStale, Fill,
     TryTransition
<1>4. ASSUME Goto(c, "commitRecord")
      PROVE  Becomes(c, call[c].op, "commitRecord", call[c].prev, call[c].todo, call[c].started)
  BY <1>1, <1>4, GoesTo DEF Labels
<1>5. ASSUME Goto(c, "undoCapture")
      PROVE  Becomes(c, call[c].op, "undoCapture", call[c].prev, call[c].todo, call[c].started)
  BY <1>1, <1>5, GoesTo DEF Labels
<1>6. QED
  BY <1>2, <1>3, <1>4, <1>5

\* The recording is on.
LEMMA CommitRecordDoes ==
  ASSUME TypeOK, NEW c \in Callers, CommitRecord(c)
  PROVE  /\ call[c].pc = "commitRecord"
         /\ UNCHANGED <<state, writing, capturing, reading, fileLen, readPos, replaying, activeReplay,
                        targets, status, loop, running, thread, queue, inflight, stopped, openedOver,
                        seekFailed>>
         /\ timelinePaused' = FALSE
         /\ activeRecord' = call[c].started
         /\ Becomes(c, "none", "idle", "Idle", {}, {}) /\ call'[c] = NoCall
<1>1. call \in [Callers -> CallType] /\ state \in SessionState
  BY DEF TypeOK
<1>2. /\ call[c].pc = "commitRecord"
      /\ UNCHANGED <<state, writing, capturing, reading, fileLen, readPos, replaying, activeReplay,
                     targets, status, loop, running, thread, queue, inflight, stopped, openedOver,
                     seekFailed>>
  BY DEF CommitRecord, At, Offers, recordVars, fileVars, replayVars, settings, schedVars, history, playVars
<1>3. /\ timelinePaused' = FALSE
      /\ activeRecord' = call[c].started
      /\ Return(c)
  BY DEF CommitRecord, recordVars, fileVars, replayVars, settings, schedVars, history, playVars,
     MarkStale, Fill,
     TryTransition
<1>4. Becomes(c, "none", "idle", "Idle", {}, {}) /\ call'[c] = NoCall
  BY <1>1, <1>3, Returns
<1>5. QED
  BY <1>2, <1>3, <1>4

\* The next capture is undone, or was the last.
LEMMA UndoCaptureDoes ==
  ASSUME TypeOK, NEW c \in Callers, UndoCapture(c)
  PROVE  /\ call[c].pc = "undoCapture"
         /\ UNCHANGED <<state, timelinePaused, writing, activeRecord, reading, fileLen, readPos,
                        replaying, activeReplay, targets, status, loop, running, thread, queue,
                        inflight, stopped, openedOver, seekFailed>>
         /\ \/ \E p \in call[c].started : 
                  /\ capturing' = capturing \ {p}
                  /\ Becomes(c, call[c].op, call[c].pc, call[c].prev, call[c].todo, call[c].started \ {p})
            \/ /\ call[c].started = {}
               /\ UNCHANGED capturing
               /\ Becomes(c, call[c].op, "finalize", call[c].prev, call[c].todo, call[c].started)
<1>1. call \in [Callers -> CallType] /\ state \in SessionState
  BY DEF TypeOK
<1>2. /\ call[c].pc = "undoCapture"
      /\ UNCHANGED <<state, timelinePaused, writing, activeRecord, reading, fileLen, readPos, replaying,
                     activeReplay, targets, status, loop, running, thread, queue, inflight, stopped,
                     openedOver, seekFailed>>
  BY DEF UndoCapture, At, Offers, recordVars, fileVars, replayVars, settings, schedVars, history, playVars
<1>3. \/ \E p \in call[c].started : 
            /\ capturing' = capturing \ {p}
            /\ call' = [call EXCEPT ![c].started = @ \ {p}]
      \/ /\ call[c].started = {}
         /\ UNCHANGED capturing
         /\ Goto(c, "finalize")
  BY DEF UndoCapture, recordVars, fileVars, replayVars, settings, schedVars, history, playVars,
     MarkStale, Fill,
     TryTransition
<1>4. ASSUME NEW p \in call[c].started, call' = [call EXCEPT ![c].started = @ \ {p}]
      PROVE  Becomes(c, call[c].op, call[c].pc, call[c].prev, call[c].todo, call[c].started \ {p})
  BY <1>1, <1>4, StopsStarted
<1>5. ASSUME Goto(c, "finalize")
      PROVE  Becomes(c, call[c].op, "finalize", call[c].prev, call[c].todo, call[c].started)
  BY <1>1, <1>5, GoesTo DEF Labels
<1>6. QED
  BY <1>2, <1>3, <1>4, <1>5

\* The file of a recording that failed is finalized.
LEMMA FinalizeFailedRecordingDoes ==
  ASSUME TypeOK, NEW c \in Callers, FinalizeFailedRecording(c)
  PROVE  /\ call[c].pc = "finalize"
         /\ UNCHANGED <<state, timelinePaused, capturing, activeRecord, reading, fileLen, readPos,
                        replaying, activeReplay, targets, status, loop, running, thread, queue,
                        inflight, stopped, openedOver, seekFailed>>
         /\ writing' = FALSE
         /\ Becomes(c, "none", "idle", "Idle", {}, {}) /\ call'[c] = NoCall
<1>1. call \in [Callers -> CallType] /\ state \in SessionState
  BY DEF TypeOK
<1>2. /\ call[c].pc = "finalize"
      /\ UNCHANGED <<state, timelinePaused, capturing, activeRecord, reading, fileLen, readPos,
                     replaying, activeReplay, targets, status, loop, running, thread, queue, inflight,
                     stopped, openedOver, seekFailed>>
  BY DEF FinalizeFailedRecording, At, Offers, recordVars, fileVars, replayVars, settings, schedVars,
     history, playVars
<1>3. /\ writing' = FALSE
      /\ Return(c)
  BY DEF FinalizeFailedRecording, recordVars, fileVars, replayVars, settings, schedVars, history,
     playVars, MarkStale,
     Fill, TryTransition
<1>4. Becomes(c, "none", "idle", "Idle", {}, {}) /\ call'[c] = NoCall
  BY <1>1, <1>3, Returns
<1>5. QED
  BY <1>2, <1>3, <1>4

\* A recording is paused.
LEMMA PauseRecordingDoes ==
  ASSUME TypeOK, NEW c \in Callers, PauseRecording(c)
  PROVE  /\ call[c].pc = "idle"
         /\ state = "Recording"
         /\ UNCHANGED <<writing, capturing, activeRecord, reading, fileLen, readPos, replaying,
                        activeReplay, targets, status, loop, running, thread, queue, inflight, stopped,
                        openedOver, seekFailed>>
         /\ state' = "RecordingPaused"
         /\ timelinePaused' = TRUE
         /\ UNCHANGED call
<1>1. call \in [Callers -> CallType] /\ state \in SessionState
  BY DEF TypeOK
<1>2. /\ call[c].pc = "idle"
      /\ state = "Recording"
      /\ UNCHANGED <<writing, capturing, activeRecord, reading, fileLen, readPos, replaying,
                     activeReplay, targets, status, loop, running, thread, queue, inflight, stopped,
                     openedOver, seekFailed>>
  BY DEF PauseRecording, At, Offers, recordVars, fileVars, replayVars, settings, schedVars, history, playVars
<1>3. /\ state' = "RecordingPaused"
      /\ timelinePaused' = TRUE
      /\ UNCHANGED call
  BY <1>2 DEF PauseRecording, Offers, recordVars, fileVars, replayVars, settings, schedVars, history,
     playVars,
     TryTransition, IsValidTransition, Successors
<1>4. QED
  BY <1>2, <1>3

\* A recording is resumed.
LEMMA ResumeRecordingDoes ==
  ASSUME TypeOK, NEW c \in Callers, ResumeRecording(c)
  PROVE  /\ call[c].pc = "idle"
         /\ state = "RecordingPaused"
         /\ UNCHANGED <<writing, capturing, activeRecord, reading, fileLen, readPos, replaying,
                        activeReplay, targets, status, loop, running, thread, queue, inflight, stopped,
                        openedOver, seekFailed>>
         /\ state' = "Recording"
         /\ timelinePaused' = FALSE
         /\ UNCHANGED call
<1>1. call \in [Callers -> CallType] /\ state \in SessionState
  BY DEF TypeOK
<1>2. /\ call[c].pc = "idle"
      /\ state = "RecordingPaused"
      /\ UNCHANGED <<writing, capturing, activeRecord, reading, fileLen, readPos, replaying,
                     activeReplay, targets, status, loop, running, thread, queue, inflight, stopped,
                     openedOver, seekFailed>>
  BY DEF ResumeRecording, At, Offers, recordVars, fileVars, replayVars, settings, schedVars, history, playVars
<1>3. /\ state' = "Recording"
      /\ timelinePaused' = FALSE
      /\ UNCHANGED call
  BY <1>2 DEF ResumeRecording, Offers, recordVars, fileVars, replayVars, settings, schedVars, history,
     playVars,
     TryTransition, IsValidTransition, Successors
<1>4. QED
  BY <1>2, <1>3

\* A call of StopRecording begins.
LEMMA CallStopRecordingDoes ==
  ASSUME TypeOK, NEW c \in Callers, CallStopRecording(c)
  PROVE  /\ call[c].pc = "idle"
         /\ <<c, "StopRecording", state>> \in Offered
         /\ UNCHANGED <<state, timelinePaused, writing, capturing, reading, fileLen, readPos, replaying,
                        activeReplay, targets, status, loop, running, thread, queue, inflight, stopped,
                        openedOver, seekFailed>>
         /\ activeRecord' = {}
         /\ Becomes(c, "StopRecording", "stopCapture", "Idle", activeRecord, {})
<1>1. call \in [Callers -> CallType] /\ state \in SessionState
  BY DEF TypeOK
<1>2. /\ call[c].pc = "idle"
      /\ <<c, "StopRecording", state>> \in Offered
      /\ UNCHANGED <<state, timelinePaused, writing, capturing, reading, fileLen, readPos, replaying,
                     activeReplay, targets, status, loop, running, thread, queue, inflight, stopped,
                     openedOver, seekFailed>>
  BY DEF CallStopRecording, At, Offers, recordVars, fileVars, replayVars, settings, schedVars, history,
     playVars
<1>3. /\ activeRecord' = {}
  BY <1>2 DEF CallStopRecording, Offers, recordVars, fileVars, replayVars, settings, schedVars, history,
     playVars,
     TryTransition, IsValidTransition, Successors
<1>4. Becomes(c, "StopRecording", "stopCapture", "Idle", activeRecord, {})
  BY EntersStopRecording
<1>5. QED
  BY <1>2, <1>3, <1>4

\* The next capture is stopped, or was the last.
LEMMA StopCaptureDoes ==
  ASSUME TypeOK, NEW c \in Callers, StopCapture(c)
  PROVE  /\ call[c].pc = "stopCapture"
         /\ UNCHANGED <<state, timelinePaused, writing, activeRecord, reading, fileLen, readPos,
                        replaying, activeReplay, targets, status, loop, running, thread, queue,
                        inflight, stopped, openedOver, seekFailed>>
         /\ \/ \E p \in call[c].todo : 
                  /\ capturing' = capturing \ {p}
                  /\ Becomes(c, call[c].op, call[c].pc, call[c].prev, call[c].todo \ {p}, call[c].started)
            \/ /\ call[c].todo = {}
               /\ UNCHANGED capturing
               /\ Becomes(c, call[c].op, "finalizeOpen", call[c].prev, call[c].todo, call[c].started)
<1>1. call \in [Callers -> CallType] /\ state \in SessionState
  BY DEF TypeOK
<1>2. /\ call[c].pc = "stopCapture"
      /\ UNCHANGED <<state, timelinePaused, writing, activeRecord, reading, fileLen, readPos, replaying,
                     activeReplay, targets, status, loop, running, thread, queue, inflight, stopped,
                     openedOver, seekFailed>>
  BY DEF StopCapture, At, Offers, recordVars, fileVars, replayVars, settings, schedVars, history, playVars
<1>3. \/ \E p \in call[c].todo : 
            /\ capturing' = capturing \ {p}
            /\ call' = [call EXCEPT ![c].todo = @ \ {p}]
      \/ /\ call[c].todo = {}
         /\ UNCHANGED capturing
         /\ Goto(c, "finalizeOpen")
  BY DEF StopCapture, recordVars, fileVars, replayVars, settings, schedVars, history, playVars,
     MarkStale, Fill,
     TryTransition
<1>4. ASSUME NEW p \in call[c].todo, call' = [call EXCEPT ![c].todo = @ \ {p}]
      PROVE  Becomes(c, call[c].op, call[c].pc, call[c].prev, call[c].todo \ {p}, call[c].started)
  BY <1>1, <1>4, StopsListed
<1>5. ASSUME Goto(c, "finalizeOpen")
      PROVE  Becomes(c, call[c].op, "finalizeOpen", call[c].prev, call[c].todo, call[c].started)
  BY <1>1, <1>5, GoesTo DEF Labels
<1>6. QED
  BY <1>2, <1>3, <1>4, <1>5

\* The file of the recording is finalized.
LEMMA FinalizeRecordingDoes ==
  ASSUME TypeOK, NEW c \in Callers, FinalizeRecording(c)
  PROVE  /\ call[c].pc = "finalizeOpen"
         /\ UNCHANGED <<state, timelinePaused, capturing, activeRecord, reading, fileLen, readPos,
                        replaying, activeReplay, targets, status, loop, running, thread, queue,
                        inflight, stopped, openedOver, seekFailed>>
         /\ writing' = FALSE
         /\ Becomes(c, call[c].op, "leaveRecording", call[c].prev, call[c].todo, call[c].started)
<1>1. call \in [Callers -> CallType] /\ state \in SessionState
  BY DEF TypeOK
<1>2. /\ call[c].pc = "finalizeOpen"
      /\ UNCHANGED <<state, timelinePaused, capturing, activeRecord, reading, fileLen, readPos,
                     replaying, activeReplay, targets, status, loop, running, thread, queue, inflight,
                     stopped, openedOver, seekFailed>>
  BY DEF FinalizeRecording, At, Offers, recordVars, fileVars, replayVars, settings, schedVars, history,
     playVars
<1>3. /\ writing' = FALSE
      /\ Goto(c, "leaveRecording")
  BY DEF FinalizeRecording, recordVars, fileVars, replayVars, settings, schedVars, history, playVars,
     MarkStale, Fill,
     TryTransition
<1>4. Becomes(c, call[c].op, "leaveRecording", call[c].prev, call[c].todo, call[c].started)
  BY <1>1, <1>3, GoesTo DEF Labels
<1>5. QED
  BY <1>2, <1>3, <1>4

\* The recording ends in Stopped.
LEMMA LeaveRecordingDoes ==
  ASSUME TypeOK, NEW c \in Callers, LeaveRecording(c)
  PROVE  /\ call[c].pc = "leaveRecording"
         /\ UNCHANGED <<timelinePaused, writing, capturing, activeRecord, reading, fileLen, readPos,
                        replaying, activeReplay, targets, status, loop, running, thread, queue,
                        inflight, stopped, seekFailed>>
         /\ openedOver' = openedOver \ {"recording"}
         /\ \/ /\ IsValidTransition(state, "Stopped")
               /\ state' = "Stopped"
               /\ Becomes(c, "none", "idle", "Idle", {}, {}) /\ call'[c] = NoCall
            \/ /\ ~IsValidTransition(state, "Stopped")
               /\ UNCHANGED state
               /\ Becomes(c, "none", "idle", "Idle", {}, {}) /\ call'[c] = NoCall
<1>1. call \in [Callers -> CallType] /\ state \in SessionState
  BY DEF TypeOK
<1>2. /\ call[c].pc = "leaveRecording"
      /\ UNCHANGED <<timelinePaused, writing, capturing, activeRecord, reading, fileLen, readPos,
                     replaying, activeReplay, targets, status, loop, running, thread, queue, inflight,
                     stopped, seekFailed>>
      /\ openedOver' = openedOver \ {"recording"}
  BY DEF LeaveRecording, At, Offers, recordVars, fileVars, replayVars, settings, schedVars, history, playVars
<1>3. \/ /\ IsValidTransition(state, "Stopped")
         /\ state' = "Stopped"
         /\ Return(c)
      \/ /\ ~IsValidTransition(state, "Stopped")
         /\ UNCHANGED state
         /\ Return(c)
  BY DEF LeaveRecording, recordVars, fileVars, replayVars, settings, schedVars, history, playVars,
     MarkStale, Fill,
     TryTransition
<1>4. ASSUME Return(c)
      PROVE  Becomes(c, "none", "idle", "Idle", {}, {}) /\ call'[c] = NoCall
  BY <1>1, <1>4, Returns
<1>5. ASSUME Return(c)
      PROVE  Becomes(c, "none", "idle", "Idle", {}, {}) /\ call'[c] = NoCall
  BY <1>1, <1>5, Returns
<1>6. QED
  BY <1>2, <1>3, <1>4, <1>5

\* A call of OpenForPlayback begins.
LEMMA CallOpenForPlaybackDoes ==
  ASSUME TypeOK, NEW c \in Callers, CallOpenForPlayback(c)
  PROVE  /\ call[c].pc = "idle"
         /\ <<c, "OpenForPlayback", state>> \in Offered
         /\ UNCHANGED <<state, timelinePaused, writing, capturing, activeRecord, reading, fileLen,
                        readPos, replaying, activeReplay, targets, status, loop, running, thread, queue,
                        inflight, openedOver, seekFailed>>
         /\ stopped' = FALSE
         /\ Becomes(c, "OpenForPlayback", "open", state, {}, {})
<1>1. call \in [Callers -> CallType] /\ state \in SessionState
  BY DEF TypeOK
<1>2. /\ call[c].pc = "idle"
      /\ <<c, "OpenForPlayback", state>> \in Offered
      /\ UNCHANGED <<state, timelinePaused, writing, capturing, activeRecord, reading, fileLen, readPos,
                     replaying, activeReplay, targets, status, loop, running, thread, queue, inflight,
                     openedOver, seekFailed>>
  BY DEF CallOpenForPlayback, At, Offers, recordVars, fileVars, replayVars, settings, schedVars, history,
     playVars
<1>3. /\ stopped' = FALSE
      /\ Enter(c, "OpenForPlayback", "open")
  BY DEF CallOpenForPlayback, recordVars, fileVars, replayVars, settings, schedVars, history, playVars,
     MarkStale,
     Fill, TryTransition
<1>4. Becomes(c, "OpenForPlayback", "open", state, {}, {})
  BY <1>1, <1>3, Enters DEF Labels, Operations
<1>5. QED
  BY <1>2, <1>3, <1>4

\* The file is opened, or not.
LEMMA OpenFileDoes ==
  ASSUME TypeOK, NEW c \in Callers, OpenFile(c)
  PROVE  /\ call[c].pc = "open"
         /\ UNCHANGED <<state, timelinePaused, writing, capturing, activeRecord, replaying,
                        activeReplay, targets, status, loop, running, thread, stopped, seekFailed>>
         /\ openedOver' = (IF state = "Playing" THEN openedOver \cup {"playback"} ELSE openedOver)
         /\ \/ \E recorded \in RecordedProtocols, inferred \in InferredProtocols : 
                  /\ fileLen' \in FileLengths
                  /\ reading' = TRUE
                  /\ readPos' = 1
                  /\ queue' = {Stale(e) : e \in queue}
                  /\ inflight' = (IF inflight = NoPacket THEN NoPacket ELSE Stale(inflight))
                  /\ Becomes(c, call[c].op, "replay", call[c].prev, ReplayProtocols(recorded, inferred),
                             call[c].started)
            \/ /\ reading' = FALSE
               /\ queue' = {Stale(e) : e \in queue}
               /\ inflight' = (IF inflight = NoPacket THEN NoPacket ELSE Stale(inflight))
               /\ UNCHANGED <<fileLen, readPos>>
               /\ Becomes(c, "none", "idle", "Idle", {}, {}) /\ call'[c] = NoCall
<1>1. call \in [Callers -> CallType] /\ state \in SessionState
  BY DEF TypeOK
<1>2. /\ call[c].pc = "open"
      /\ UNCHANGED <<state, timelinePaused, writing, capturing, activeRecord, replaying, activeReplay,
                     targets, status, loop, running, thread, stopped, seekFailed>>
      /\ openedOver' = (IF state = "Playing" THEN openedOver \cup {"playback"} ELSE openedOver)
  BY DEF OpenFile, At, Offers, recordVars, fileVars, replayVars, settings, schedVars, history, playVars
<1>3. \/ \E recorded \in RecordedProtocols, inferred \in InferredProtocols : 
            /\ fileLen' \in FileLengths
            /\ reading' = TRUE
            /\ readPos' = 1
            /\ queue' = {Stale(e) : e \in queue}
            /\ inflight' = (IF inflight = NoPacket THEN NoPacket ELSE Stale(inflight))
            /\ call' = [call EXCEPT ![c].pc = "replay", ![c].todo = ReplayProtocols(recorded, inferred)]
      \/ /\ reading' = FALSE
         /\ queue' = {Stale(e) : e \in queue}
         /\ inflight' = (IF inflight = NoPacket THEN NoPacket ELSE Stale(inflight))
         /\ UNCHANGED <<fileLen, readPos>>
         /\ Return(c)
  BY DEF OpenFile, recordVars, fileVars, replayVars, settings, schedVars, history, playVars, MarkStale, Fill,
     TryTransition
<1>4. ASSUME NEW recorded \in RecordedProtocols, NEW inferred \in InferredProtocols,
             call' = [call EXCEPT ![c].pc = "replay", ![c].todo = ReplayProtocols(recorded, inferred)]
      PROVE  Becomes(c, call[c].op, "replay", call[c].prev, ReplayProtocols(recorded, inferred),
                     call[c].started)
  <2>1. ReplayProtocols(recorded, inferred) \in SUBSET Protocols
    BY <1>4, Typed, <1>1 DEF ReplayProtocols, RecordedProtocols, InferredProtocols, TypeOK
  <2>2. QED
    BY <1>1, <1>4, <2>1, GoesToWith DEF Labels, TypeOK
<1>5. ASSUME Return(c)
      PROVE  Becomes(c, "none", "idle", "Idle", {}, {}) /\ call'[c] = NoCall
  BY <1>1, <1>5, Returns
<1>6. QED
  BY <1>2, <1>3, <1>4, <1>5

\* The next replay starts, fails to or was the last.
LEMMA StartReplayDoes ==
  ASSUME TypeOK, NEW c \in Callers, StartReplay(c)
  PROVE  /\ call[c].pc = "replay"
         /\ UNCHANGED <<state, timelinePaused, writing, capturing, activeRecord, reading, fileLen,
                        readPos, activeReplay, targets, status, loop, running, thread, queue, inflight,
                        stopped, openedOver, seekFailed>>
         /\ \/ \E p \in call[c].todo : 
                  /\ replaying' = replaying \cup {p}
                  /\ Becomes(c, call[c].op, call[c].pc, call[c].prev, call[c].todo \ {p},
                             call[c].started \cup {p})
            \/ \E p \in call[c].todo : 
                  /\ replaying' \in {replaying, replaying \ {p}}
                  /\ Becomes(c, call[c].op, "undoReplay", call[c].prev, {p}, call[c].started)
            \/ /\ call[c].todo = {}
               /\ UNCHANGED replaying
               /\ Becomes(c, call[c].op, "commitReplay", call[c].prev, call[c].todo, call[c].started)
<1>1. call \in [Callers -> CallType] /\ state \in SessionState
  BY DEF TypeOK
<1>2. /\ call[c].pc = "replay"
      /\ UNCHANGED <<state, timelinePaused, writing, capturing, activeRecord, reading, fileLen, readPos,
                     activeReplay, targets, status, loop, running, thread, queue, inflight, stopped,
                     openedOver, seekFailed>>
  BY DEF StartReplay, At, Offers, recordVars, fileVars, replayVars, settings, schedVars, history, playVars
<1>3. \/ \E p \in call[c].todo : 
            /\ replaying' = replaying \cup {p}
            /\ call' = [call EXCEPT ![c].todo = @ \ {p}, ![c].started = @ \cup {p}]
      \/ \E p \in call[c].todo : 
            /\ replaying' \in {replaying, replaying \ {p}}
            /\ call' = [call EXCEPT ![c].pc = "undoReplay", ![c].todo = {p}]
      \/ /\ call[c].todo = {}
         /\ UNCHANGED replaying
         /\ Goto(c, "commitReplay")
  BY DEF StartReplay, recordVars, fileVars, replayVars, settings, schedVars, history, playVars,
     MarkStale, Fill,
     TryTransition
<1>4. ASSUME NEW p \in call[c].todo, call' = [call EXCEPT ![c].todo = @ \ {p}, ![c].started = @ \cup {p}]
      PROVE  Becomes(c, call[c].op, call[c].pc, call[c].prev, call[c].todo \ {p}, call[c].started \cup {p})
  BY <1>1, <1>4, Starts
<1>5. ASSUME NEW p \in call[c].todo, call' = [call EXCEPT ![c].pc = "undoReplay", ![c].todo = {p}]
      PROVE  Becomes(c, call[c].op, "undoReplay", call[c].prev, {p}, call[c].started)
  <2>1. {p} \in SUBSET Protocols
    BY <1>5, Typed, <1>1 DEF TypeOK
  <2>2. QED
    BY <1>1, <1>5, <2>1, GoesToWith DEF Labels, TypeOK
<1>6. ASSUME Goto(c, "commitReplay")
      PROVE  Becomes(c, call[c].op, "commitReplay", call[c].prev, call[c].todo, call[c].started)
  BY <1>1, <1>6, GoesTo DEF Labels
<1>7. QED
  BY <1>2, <1>3, <1>4, <1>5, <1>6

\* The next replay is undone, or was the last.
LEMMA UndoReplayDoes ==
  ASSUME TypeOK, NEW c \in Callers, UndoReplay(c)
  PROVE  /\ call[c].pc = "undoReplay"
         /\ UNCHANGED <<state, timelinePaused, writing, capturing, activeRecord, reading, fileLen,
                        readPos, activeReplay, targets, status, loop, running, thread, queue, inflight,
                        stopped, openedOver, seekFailed>>
         /\ \/ \E p \in call[c].started : 
                  /\ replaying' = replaying \ {p}
                  /\ Becomes(c, call[c].op, call[c].pc, call[c].prev, call[c].todo, call[c].started \ {p})
            \/ /\ call[c].started = {}
               /\ UNCHANGED replaying
               /\ Becomes(c, call[c].op, "abandonOpen", call[c].prev, call[c].todo, call[c].started)
<1>1. call \in [Callers -> CallType] /\ state \in SessionState
  BY DEF TypeOK
<1>2. /\ call[c].pc = "undoReplay"
      /\ UNCHANGED <<state, timelinePaused, writing, capturing, activeRecord, reading, fileLen, readPos,
                     activeReplay, targets, status, loop, running, thread, queue, inflight, stopped,
                     openedOver, seekFailed>>
  BY DEF UndoReplay, At, Offers, recordVars, fileVars, replayVars, settings, schedVars, history, playVars
<1>3. \/ \E p \in call[c].started : 
            /\ replaying' = replaying \ {p}
            /\ call' = [call EXCEPT ![c].started = @ \ {p}]
      \/ /\ call[c].started = {}
         /\ UNCHANGED replaying
         /\ Goto(c, "abandonOpen")
  BY DEF UndoReplay, recordVars, fileVars, replayVars, settings, schedVars, history, playVars, MarkStale,
     Fill,
     TryTransition
<1>4. ASSUME NEW p \in call[c].started, call' = [call EXCEPT ![c].started = @ \ {p}]
      PROVE  Becomes(c, call[c].op, call[c].pc, call[c].prev, call[c].todo, call[c].started \ {p})
  BY <1>1, <1>4, StopsStarted
<1>5. ASSUME Goto(c, "abandonOpen")
      PROVE  Becomes(c, call[c].op, "abandonOpen", call[c].prev, call[c].todo, call[c].started)
  BY <1>1, <1>5, GoesTo DEF Labels
<1>6. QED
  BY <1>2, <1>3, <1>4, <1>5

\* An open that failed closes the file.
LEMMA AbandonOpenDoes ==
  ASSUME TypeOK, NEW c \in Callers, AbandonOpen(c)
  PROVE  /\ call[c].pc = "abandonOpen"
         /\ UNCHANGED <<state, timelinePaused, writing, capturing, activeRecord, fileLen, readPos,
                        replaying, targets, loop, running, thread, queue, inflight, stopped, openedOver,
                        seekFailed>>
         /\ reading' = FALSE
         /\ activeReplay' = {}
         /\ status' = Status(targets, {}, call[c].todo)
         /\ Becomes(c, "none", "idle", "Idle", {}, {}) /\ call'[c] = NoCall
<1>1. call \in [Callers -> CallType] /\ state \in SessionState
  BY DEF TypeOK
<1>2. /\ call[c].pc = "abandonOpen"
      /\ UNCHANGED <<state, timelinePaused, writing, capturing, activeRecord, fileLen, readPos,
                     replaying, targets, loop, running, thread, queue, inflight, stopped, openedOver,
                     seekFailed>>
  BY DEF AbandonOpen, At, Offers, recordVars, fileVars, replayVars, settings, schedVars, history, playVars
<1>3. /\ reading' = FALSE
      /\ activeReplay' = {}
      /\ status' = Status(targets, {}, call[c].todo)
      /\ Return(c)
  BY DEF AbandonOpen, recordVars, fileVars, replayVars, settings, schedVars, history, playVars,
     MarkStale, Fill,
     TryTransition
<1>4. Becomes(c, "none", "idle", "Idle", {}, {}) /\ call'[c] = NoCall
  BY <1>1, <1>3, Returns
<1>5. QED
  BY <1>2, <1>3, <1>4

\* The replays have started.
LEMMA CommitReplayDoes ==
  ASSUME TypeOK, NEW c \in Callers, CommitReplay(c)
  PROVE  /\ call[c].pc = "commitReplay"
         /\ UNCHANGED <<state, timelinePaused, writing, capturing, activeRecord, reading, fileLen,
                        readPos, replaying, targets, loop, running, thread, queue, inflight, stopped,
                        openedOver, seekFailed>>
         /\ activeReplay' = call[c].started
         /\ status' = Status(targets, call[c].started, {})
         /\ Becomes(c, call[c].op, "clear", call[c].prev, call[c].todo, call[c].started)
<1>1. call \in [Callers -> CallType] /\ state \in SessionState
  BY DEF TypeOK
<1>2. /\ call[c].pc = "commitReplay"
      /\ UNCHANGED <<state, timelinePaused, writing, capturing, activeRecord, reading, fileLen, readPos,
                     replaying, targets, loop, running, thread, queue, inflight, stopped, openedOver,
                     seekFailed>>
  BY DEF CommitReplay, At, Offers, recordVars, fileVars, replayVars, settings, schedVars, history, playVars
<1>3. /\ activeReplay' = call[c].started
      /\ status' = Status(targets, call[c].started, {})
      /\ Goto(c, "clear")
  BY DEF CommitReplay, recordVars, fileVars, replayVars, settings, schedVars, history, playVars,
     MarkStale, Fill,
     TryTransition
<1>4. Becomes(c, call[c].op, "clear", call[c].prev, call[c].todo, call[c].started)
  BY <1>1, <1>3, GoesTo DEF Labels
<1>5. QED
  BY <1>2, <1>3, <1>4

\* The first packets are queued.
LEMMA FillAfterOpenDoes ==
  ASSUME TypeOK, NEW c \in Callers, FillAfterOpen(c)
  PROVE  /\ call[c].pc = "fillOpen"
         /\ UNCHANGED <<state, timelinePaused, writing, capturing, activeRecord, reading, fileLen,
                        replaying, activeReplay, targets, status, loop, running, inflight, stopped,
                        openedOver, seekFailed>>
         /\ thread # "toWait"
         /\ thread' \in {thread, Notified}
         /\ \/ \E k \in FillCounts(readPos) : 
                  /\ ReadOn(readPos, k)
                  /\ queue' = queue \cup Packets(readPos, k)
                  /\ Becomes(c, call[c].op, "stage", call[c].prev, call[c].todo, call[c].started)
            \/ \E k \in FillCounts(readPos) : 
                  /\ ReadOn(readPos, k)
                  /\ queue' = queue \cup Packets(readPos, k)
                  /\ Becomes(c, call[c].op, "takeReplay", call[c].prev, call[c].todo, call[c].started)
<1>1. call \in [Callers -> CallType] /\ state \in SessionState
  BY DEF TypeOK
<1>2. /\ call[c].pc = "fillOpen"
      /\ UNCHANGED <<state, timelinePaused, writing, capturing, activeRecord, reading, fileLen,
                     replaying, activeReplay, targets, status, loop, running, inflight, stopped,
                     openedOver, seekFailed>>
      /\ thread # "toWait"
      /\ thread' \in {thread, Notified}
  BY DEF FillAfterOpen, At, MutexFree, Fill, Offers, recordVars, fileVars, replayVars, settings,
     schedVars, history, playVars
<1>3. \/ \E k \in FillCounts(readPos) : 
            /\ ReadOn(readPos, k)
            /\ queue' = queue \cup Packets(readPos, k)
            /\ Goto(c, "stage")
      \/ \E k \in FillCounts(readPos) : 
            /\ ReadOn(readPos, k)
            /\ queue' = queue \cup Packets(readPos, k)
            /\ Goto(c, "takeReplay")
  BY DEF FillAfterOpen, recordVars, fileVars, replayVars, settings, schedVars, history, playVars,
     MarkStale, Fill,
     TryTransition
<1>4. ASSUME NEW k \in FillCounts(readPos), Goto(c, "stage")
      PROVE  Becomes(c, call[c].op, "stage", call[c].prev, call[c].todo, call[c].started)
  BY <1>1, <1>4, GoesTo DEF Labels
<1>5. ASSUME NEW k \in FillCounts(readPos), Goto(c, "takeReplay")
      PROVE  Becomes(c, call[c].op, "takeReplay", call[c].prev, call[c].todo, call[c].started)
  BY <1>1, <1>5, GoesTo DEF Labels
<1>6. QED
  BY <1>2, <1>3, <1>4, <1>5

\* The opened file is staged.
LEMMA StageDoes ==
  ASSUME TypeOK, NEW c \in Callers, Stage(c)
  PROVE  /\ call[c].pc = "stage"
         /\ UNCHANGED <<timelinePaused, writing, capturing, activeRecord, reading, fileLen, readPos,
                        replaying, activeReplay, targets, status, loop, running, thread, queue,
                        inflight, stopped, seekFailed>>
         /\ openedOver' = (IF state \in RecordingStates THEN openedOver \cup {"recording"} ELSE openedOver)
         /\ \/ /\ IsValidTransition(state, "Stopped")
               /\ state' = "Stopped"
               /\ Becomes(c, "none", "idle", "Idle", {}, {}) /\ call'[c] = NoCall
            \/ /\ ~IsValidTransition(state, "Stopped")
               /\ UNCHANGED state
               /\ Becomes(c, "none", "idle", "Idle", {}, {}) /\ call'[c] = NoCall
<1>1. call \in [Callers -> CallType] /\ state \in SessionState
  BY DEF TypeOK
<1>2. /\ call[c].pc = "stage"
      /\ UNCHANGED <<timelinePaused, writing, capturing, activeRecord, reading, fileLen, readPos,
                     replaying, activeReplay, targets, status, loop, running, thread, queue, inflight,
                     stopped, seekFailed>>
      /\ openedOver' = (IF state \in RecordingStates THEN openedOver \cup {"recording"} ELSE openedOver)
  BY DEF Stage, At, Offers, recordVars, fileVars, replayVars, settings, schedVars, history, playVars
<1>3. \/ /\ IsValidTransition(state, "Stopped")
         /\ state' = "Stopped"
         /\ Return(c)
      \/ /\ ~IsValidTransition(state, "Stopped")
         /\ UNCHANGED state
         /\ Return(c)
  BY DEF Stage, recordVars, fileVars, replayVars, settings, schedVars, history, playVars, MarkStale,
     Fill, TryTransition
<1>4. ASSUME Return(c)
      PROVE  Becomes(c, "none", "idle", "Idle", {}, {}) /\ call'[c] = NoCall
  BY <1>1, <1>4, Returns
<1>5. ASSUME Return(c)
      PROVE  Becomes(c, "none", "idle", "Idle", {}, {}) /\ call'[c] = NoCall
  BY <1>1, <1>5, Returns
<1>6. QED
  BY <1>2, <1>3, <1>4, <1>5

\* A call of Play begins.
LEMMA CallPlayDoes ==
  ASSUME TypeOK, NEW c \in Callers, CallPlay(c)
  PROVE  /\ call[c].pc = "idle"
         /\ UNCHANGED <<state, timelinePaused, writing, capturing, activeRecord, reading, fileLen,
                        readPos, replaying, activeReplay, targets, status, loop, running, thread, queue,
                        inflight, stopped, openedOver, seekFailed>>
         /\ Becomes(c, "Play", "play", state, {}, {})
<1>1. call \in [Callers -> CallType] /\ state \in SessionState
  BY DEF TypeOK
<1>2. /\ call[c].pc = "idle"
      /\ UNCHANGED <<state, timelinePaused, writing, capturing, activeRecord, reading, fileLen, readPos,
                     replaying, activeReplay, targets, status, loop, running, thread, queue, inflight,
                     stopped, openedOver, seekFailed>>
  BY DEF CallPlay, At, Offers, recordVars, fileVars, replayVars, settings, schedVars, history, playVars
<1>3. /\ Enter(c, "Play", "play")
  BY DEF CallPlay, recordVars, fileVars, replayVars, settings, schedVars, history, playVars, MarkStale, Fill,
     TryTransition
<1>4. Becomes(c, "Play", "play", state, {}, {})
  BY <1>1, <1>3, Enters DEF Labels, Operations
<1>5. QED
  BY <1>2, <1>3, <1>4

\* Play starts the timeline, or has nothing to play.
LEMMA StartTimelineDoes ==
  ASSUME TypeOK, NEW c \in Callers, StartTimeline(c)
  PROVE  /\ call[c].pc = "play"
         /\ UNCHANGED <<state, writing, capturing, activeRecord, reading, fileLen, readPos, replaying,
                        activeReplay, targets, status, loop, running, thread, queue, inflight, stopped,
                        openedOver, seekFailed>>
         /\ \/ /\ reading
               /\ timelinePaused' = FALSE
               /\ Becomes(c, call[c].op, "halt", call[c].prev, call[c].todo, call[c].started)
            \/ /\ ~reading
               /\ UNCHANGED timelinePaused
               /\ Becomes(c, "none", "idle", "Idle", {}, {}) /\ call'[c] = NoCall
<1>1. call \in [Callers -> CallType] /\ state \in SessionState
  BY DEF TypeOK
<1>2. /\ call[c].pc = "play"
      /\ UNCHANGED <<state, writing, capturing, activeRecord, reading, fileLen, readPos, replaying,
                     activeReplay, targets, status, loop, running, thread, queue, inflight, stopped,
                     openedOver, seekFailed>>
  BY DEF StartTimeline, At, Offers, recordVars, fileVars, replayVars, settings, schedVars, history, playVars
<1>3. \/ /\ reading
         /\ timelinePaused' = FALSE
         /\ Goto(c, "halt")
      \/ /\ ~reading
         /\ UNCHANGED timelinePaused
         /\ Return(c)
  BY DEF StartTimeline, recordVars, fileVars, replayVars, settings, schedVars, history, playVars,
     MarkStale, Fill,
     TryTransition
<1>4. ASSUME Goto(c, "halt")
      PROVE  Becomes(c, call[c].op, "halt", call[c].prev, call[c].todo, call[c].started)
  BY <1>1, <1>4, GoesTo DEF Labels
<1>5. ASSUME Return(c)
      PROVE  Becomes(c, "none", "idle", "Idle", {}, {}) /\ call'[c] = NoCall
  BY <1>1, <1>5, Returns
<1>6. QED
  BY <1>2, <1>3, <1>4, <1>5

\* A call of Pause begins.
LEMMA CallPauseDoes ==
  ASSUME TypeOK, NEW c \in Callers, CallPause(c)
  PROVE  /\ call[c].pc = "idle"
         /\ state = "Playing"
         /\ UNCHANGED <<state, writing, capturing, activeRecord, reading, fileLen, readPos, replaying,
                        activeReplay, targets, status, loop, running, thread, queue, inflight, stopped,
                        openedOver, seekFailed>>
         /\ timelinePaused' = TRUE
         /\ Becomes(c, "Pause", "halt", state, {}, {})
<1>1. call \in [Callers -> CallType] /\ state \in SessionState
  BY DEF TypeOK
<1>2. /\ call[c].pc = "idle"
      /\ state = "Playing"
      /\ UNCHANGED <<state, writing, capturing, activeRecord, reading, fileLen, readPos, replaying,
                     activeReplay, targets, status, loop, running, thread, queue, inflight, stopped,
                     openedOver, seekFailed>>
  BY DEF CallPause, At, Offers, recordVars, fileVars, replayVars, settings, schedVars, history, playVars
<1>3. /\ timelinePaused' = TRUE
      /\ Enter(c, "Pause", "halt")
  BY DEF CallPause, recordVars, fileVars, replayVars, settings, schedVars, history, playVars, MarkStale, Fill,
     TryTransition
<1>4. Becomes(c, "Pause", "halt", state, {}, {})
  BY <1>1, <1>3, Enters DEF Labels, Operations
<1>5. QED
  BY <1>2, <1>3, <1>4

\* A call of SeekTo begins.
LEMMA CallSeekToDoes ==
  ASSUME TypeOK, NEW c \in Callers, CallSeekTo(c)
  PROVE  /\ call[c].pc = "idle"
         /\ reading
         /\ UNCHANGED <<state, timelinePaused, writing, capturing, activeRecord, reading, fileLen,
                        readPos, replaying, activeReplay, targets, status, loop, running, thread, queue,
                        inflight, stopped, openedOver, seekFailed>>
         /\ Becomes(c, "SeekTo", "enterSeeking", state, {}, {})
<1>1. call \in [Callers -> CallType] /\ state \in SessionState
  BY DEF TypeOK
<1>2. /\ call[c].pc = "idle"
      /\ reading
      /\ UNCHANGED <<state, timelinePaused, writing, capturing, activeRecord, reading, fileLen, readPos,
                     replaying, activeReplay, targets, status, loop, running, thread, queue, inflight,
                     stopped, openedOver, seekFailed>>
  BY DEF CallSeekTo, At, Offers, recordVars, fileVars, replayVars, settings, schedVars, history, playVars
<1>3. /\ Enter(c, "SeekTo", "enterSeeking")
  BY DEF CallSeekTo, recordVars, fileVars, replayVars, settings, schedVars, history, playVars, MarkStale,
     Fill,
     TryTransition
<1>4. Becomes(c, "SeekTo", "enterSeeking", state, {}, {})
  BY <1>1, <1>3, Enters DEF Labels, Operations
<1>5. QED
  BY <1>2, <1>3, <1>4

\* The state becomes Seeking, or refuses.
LEMMA EnterSeekingDoes ==
  ASSUME TypeOK, NEW c \in Callers, EnterSeeking(c)
  PROVE  /\ call[c].pc = "enterSeeking"
         /\ UNCHANGED <<timelinePaused, writing, capturing, activeRecord, reading, fileLen, readPos,
                        replaying, activeReplay, targets, status, loop, running, thread, queue,
                        inflight, stopped, openedOver, seekFailed>>
         /\ \/ /\ IsValidTransition(state, "Seeking")
               /\ state' = "Seeking"
               /\ Becomes(c, call[c].op, "halt", call[c].prev, call[c].todo, call[c].started)
            \/ /\ ~IsValidTransition(state, "Seeking")
               /\ UNCHANGED state
               /\ Becomes(c, "none", "idle", "Idle", {}, {}) /\ call'[c] = NoCall
<1>1. call \in [Callers -> CallType] /\ state \in SessionState
  BY DEF TypeOK
<1>2. /\ call[c].pc = "enterSeeking"
      /\ UNCHANGED <<timelinePaused, writing, capturing, activeRecord, reading, fileLen, readPos,
                     replaying, activeReplay, targets, status, loop, running, thread, queue, inflight,
                     stopped, openedOver, seekFailed>>
  BY DEF EnterSeeking, At, Offers, recordVars, fileVars, replayVars, settings, schedVars, history, playVars
<1>3. \/ /\ IsValidTransition(state, "Seeking")
         /\ state' = "Seeking"
         /\ Goto(c, "halt")
      \/ /\ ~IsValidTransition(state, "Seeking")
         /\ UNCHANGED state
         /\ Return(c)
  BY DEF EnterSeeking, recordVars, fileVars, replayVars, settings, schedVars, history, playVars,
     MarkStale, Fill,
     TryTransition
<1>4. ASSUME Goto(c, "halt")
      PROVE  Becomes(c, call[c].op, "halt", call[c].prev, call[c].todo, call[c].started)
  BY <1>1, <1>4, GoesTo DEF Labels
<1>5. ASSUME Return(c)
      PROVE  Becomes(c, "none", "idle", "Idle", {}, {}) /\ call'[c] = NoCall
  BY <1>1, <1>5, Returns
<1>6. QED
  BY <1>2, <1>3, <1>4, <1>5

\* A call of Stop begins.
LEMMA CallStopDoes ==
  ASSUME TypeOK, NEW c \in Callers, CallStop(c)
  PROVE  /\ call[c].pc = "idle"
         /\ (state \in PlaybackStates \/ (state = "Stopped" /\ (reading \/ activeReplay # {})))
         /\ UNCHANGED <<state, timelinePaused, writing, capturing, activeRecord, reading, fileLen,
                        readPos, replaying, activeReplay, targets, status, loop, running, thread, queue,
                        inflight, stopped, openedOver, seekFailed>>
         /\ Becomes(c, "Stop", "halt", state, {}, {})
<1>1. call \in [Callers -> CallType] /\ state \in SessionState
  BY DEF TypeOK
<1>2. /\ call[c].pc = "idle"
      /\ (state \in PlaybackStates \/ (state = "Stopped" /\ (reading \/ activeReplay # {})))
      /\ UNCHANGED <<state, timelinePaused, writing, capturing, activeRecord, reading, fileLen, readPos,
                     replaying, activeReplay, targets, status, loop, running, thread, queue, inflight,
                     stopped, openedOver, seekFailed>>
  BY DEF CallStop, At, Offers, recordVars, fileVars, replayVars, settings, schedVars, history, playVars
<1>3. /\ Enter(c, "Stop", "halt")
  BY DEF CallStop, recordVars, fileVars, replayVars, settings, schedVars, history, playVars, MarkStale, Fill,
     TryTransition
<1>4. Becomes(c, "Stop", "halt", state, {}, {})
  BY <1>1, <1>3, Enters DEF Labels, Operations
<1>5. QED
  BY <1>2, <1>3, <1>4

\* running_ is lowered.
LEMMA HaltDoes ==
  ASSUME TypeOK, NEW c \in Callers, Halt(c)
  PROVE  /\ call[c].pc = "halt"
         /\ UNCHANGED <<state, timelinePaused, writing, capturing, activeRecord, reading, fileLen,
                        readPos, replaying, activeReplay, targets, status, loop, queue, inflight,
                        stopped, openedOver, seekFailed>>
         /\ thread' = Notified
         /\ running' = FALSE
         /\ Becomes(c, call[c].op, "join", call[c].prev, call[c].todo, call[c].started)
<1>1. call \in [Callers -> CallType] /\ state \in SessionState
  BY DEF TypeOK
<1>2. /\ call[c].pc = "halt"
      /\ UNCHANGED <<state, timelinePaused, writing, capturing, activeRecord, reading, fileLen, readPos,
                     replaying, activeReplay, targets, status, loop, queue, inflight, stopped,
                     openedOver, seekFailed>>
      /\ thread' = Notified
  BY DEF Halt, At, MutexFree, Fill, Offers, recordVars, fileVars, replayVars, settings, schedVars,
     history, playVars
<1>3. /\ running' = FALSE
      /\ Goto(c, "join")
  BY DEF Halt, recordVars, fileVars, replayVars, settings, schedVars, history, playVars, MarkStale, Fill,
     TryTransition
<1>4. Becomes(c, call[c].op, "join", call[c].prev, call[c].todo, call[c].started)
  BY <1>1, <1>3, GoesTo DEF Labels
<1>5. QED
  BY <1>2, <1>3, <1>4

\* The scheduler thread has been joined.
LEMMA JoinDoes ==
  ASSUME TypeOK, Control, NEW c \in Callers, Join(c)
  PROVE  /\ call[c].pc = "join"
         /\ thread \in {"none", "exited"}
         /\ UNCHANGED <<state, timelinePaused, writing, capturing, activeRecord, reading, fileLen,
                        readPos, replaying, activeReplay, targets, status, loop, running, queue,
                        inflight, stopped, seekFailed>>
         /\ openedOver' = openedOver \ {"playback"}
         /\ \/ /\ call[c].op = "Play"
               /\ thread' = "none"
               /\ Becomes(c, call[c].op, "spawn", call[c].prev, call[c].todo, call[c].started)
            \/ /\ call[c].op = "Pause"
               /\ thread' = "none"
               /\ Becomes(c, call[c].op, "enterPaused", call[c].prev, call[c].todo, call[c].started)
            \/ /\ call[c].op = "SeekTo"
               /\ thread' = "none"
               /\ Becomes(c, call[c].op, "clear", call[c].prev, call[c].todo, call[c].started)
            \/ /\ call[c].op = "Stop"
               /\ thread' = "none"
               /\ Becomes(c, call[c].op, "clear", call[c].prev, call[c].todo, call[c].started)
<1>1. call \in [Callers -> CallType] /\ state \in SessionState
  BY DEF TypeOK
<1>2. /\ call[c].pc = "join"
      /\ thread \in {"none", "exited"}
      /\ UNCHANGED <<state, timelinePaused, writing, capturing, activeRecord, reading, fileLen, readPos,
                     replaying, activeReplay, targets, status, loop, running, queue, inflight, stopped,
                     seekFailed>>
      /\ openedOver' = openedOver \ {"playback"}
  BY DEF Join, At, Offers, recordVars, fileVars, replayVars, settings, schedVars, history, playVars
<1>3. \/ /\ call[c].op = "Play"
         /\ thread' = "none"
         /\ Goto(c, "spawn")
      \/ /\ call[c].op = "Pause"
         /\ thread' = "none"
         /\ Goto(c, "enterPaused")
      \/ /\ call[c].op = "SeekTo"
         /\ thread' = "none"
         /\ Goto(c, "clear")
      \/ /\ call[c].op = "Stop"
         /\ thread' = "none"
         /\ Goto(c, "clear")
  BY DEF Join, recordVars, fileVars, replayVars, settings, schedVars, history, playVars, MarkStale, Fill,
     TryTransition, At, Control, StepOf, AfterJoin, AfterClear
<1>4. ASSUME Goto(c, "spawn")
      PROVE  Becomes(c, call[c].op, "spawn", call[c].prev, call[c].todo, call[c].started)
  BY <1>1, <1>4, GoesTo DEF Labels
<1>5. ASSUME Goto(c, "enterPaused")
      PROVE  Becomes(c, call[c].op, "enterPaused", call[c].prev, call[c].todo, call[c].started)
  BY <1>1, <1>5, GoesTo DEF Labels
<1>6. ASSUME Goto(c, "clear")
      PROVE  Becomes(c, call[c].op, "clear", call[c].prev, call[c].todo, call[c].started)
  BY <1>1, <1>6, GoesTo DEF Labels
<1>7. ASSUME Goto(c, "clear")
      PROVE  Becomes(c, call[c].op, "clear", call[c].prev, call[c].todo, call[c].started)
  BY <1>1, <1>7, GoesTo DEF Labels
<1>8. QED
  BY <1>2, <1>3, <1>4, <1>5, <1>6, <1>7

\* The scheduler thread starts.
LEMMA SpawnDoes ==
  ASSUME TypeOK, NEW c \in Callers, Spawn(c)
  PROVE  /\ call[c].pc = "spawn"
         /\ UNCHANGED <<state, timelinePaused, writing, capturing, activeRecord, reading, fileLen,
                        readPos, replaying, activeReplay, targets, status, loop, queue, inflight,
                        stopped, openedOver>>
         /\ seekFailed' = FALSE
         /\ running' = TRUE
         /\ thread' = "loop"
         /\ Becomes(c, call[c].op, "enterPlaying", call[c].prev, call[c].todo, call[c].started)
<1>1. call \in [Callers -> CallType] /\ state \in SessionState
  BY DEF TypeOK
<1>2. /\ call[c].pc = "spawn"
      /\ UNCHANGED <<state, timelinePaused, writing, capturing, activeRecord, reading, fileLen, readPos,
                     replaying, activeReplay, targets, status, loop, queue, inflight, stopped, openedOver>>
      /\ seekFailed' = FALSE
  BY DEF Spawn, At, Offers, recordVars, fileVars, replayVars, settings, schedVars, history, playVars
<1>3. /\ running' = TRUE
      /\ thread' = "loop"
      /\ Goto(c, "enterPlaying")
  BY DEF Spawn, recordVars, fileVars, replayVars, settings, schedVars, history, playVars, MarkStale,
     Fill, TryTransition
<1>4. Becomes(c, call[c].op, "enterPlaying", call[c].prev, call[c].todo, call[c].started)
  BY <1>1, <1>3, GoesTo DEF Labels
<1>5. QED
  BY <1>2, <1>3, <1>4

\* The state becomes Playing, or refuses.
LEMMA EnterPlayingDoes ==
  ASSUME TypeOK, NEW c \in Callers, EnterPlaying(c)
  PROVE  /\ call[c].pc = "enterPlaying"
         /\ UNCHANGED <<timelinePaused, writing, capturing, activeRecord, reading, fileLen, readPos,
                        replaying, activeReplay, targets, status, loop, running, thread, queue,
                        inflight, stopped, openedOver, seekFailed>>
         /\ \/ /\ IsValidTransition(state, "Playing")
               /\ state' = "Playing"
               /\ Becomes(c, "none", "idle", "Idle", {}, {}) /\ call'[c] = NoCall
            \/ /\ ~IsValidTransition(state, "Playing")
               /\ UNCHANGED state
               /\ Becomes(c, "none", "idle", "Idle", {}, {}) /\ call'[c] = NoCall
<1>1. call \in [Callers -> CallType] /\ state \in SessionState
  BY DEF TypeOK
<1>2. /\ call[c].pc = "enterPlaying"
      /\ UNCHANGED <<timelinePaused, writing, capturing, activeRecord, reading, fileLen, readPos,
                     replaying, activeReplay, targets, status, loop, running, thread, queue, inflight,
                     stopped, openedOver, seekFailed>>
  BY DEF EnterPlaying, At, Offers, recordVars, fileVars, replayVars, settings, schedVars, history, playVars
<1>3. \/ /\ IsValidTransition(state, "Playing")
         /\ state' = "Playing"
         /\ Return(c)
      \/ /\ ~IsValidTransition(state, "Playing")
         /\ UNCHANGED state
         /\ Return(c)
  BY DEF EnterPlaying, recordVars, fileVars, replayVars, settings, schedVars, history, playVars,
     MarkStale, Fill,
     TryTransition
<1>4. ASSUME Return(c)
      PROVE  Becomes(c, "none", "idle", "Idle", {}, {}) /\ call'[c] = NoCall
  BY <1>1, <1>4, Returns
<1>5. ASSUME Return(c)
      PROVE  Becomes(c, "none", "idle", "Idle", {}, {}) /\ call'[c] = NoCall
  BY <1>1, <1>5, Returns
<1>6. QED
  BY <1>2, <1>3, <1>4, <1>5

\* The state becomes PlaybackPaused, or refuses.
LEMMA EnterPausedDoes ==
  ASSUME TypeOK, NEW c \in Callers, EnterPaused(c)
  PROVE  /\ call[c].pc = "enterPaused"
         /\ UNCHANGED <<timelinePaused, writing, capturing, activeRecord, reading, fileLen, readPos,
                        replaying, activeReplay, targets, status, loop, running, thread, queue,
                        inflight, stopped, openedOver, seekFailed>>
         /\ \/ /\ IsValidTransition(state, "PlaybackPaused")
               /\ state' = "PlaybackPaused"
               /\ Becomes(c, "none", "idle", "Idle", {}, {}) /\ call'[c] = NoCall
            \/ /\ ~IsValidTransition(state, "PlaybackPaused")
               /\ UNCHANGED state
               /\ Becomes(c, "none", "idle", "Idle", {}, {}) /\ call'[c] = NoCall
<1>1. call \in [Callers -> CallType] /\ state \in SessionState
  BY DEF TypeOK
<1>2. /\ call[c].pc = "enterPaused"
      /\ UNCHANGED <<timelinePaused, writing, capturing, activeRecord, reading, fileLen, readPos,
                     replaying, activeReplay, targets, status, loop, running, thread, queue, inflight,
                     stopped, openedOver, seekFailed>>
  BY DEF EnterPaused, At, Offers, recordVars, fileVars, replayVars, settings, schedVars, history, playVars
<1>3. \/ /\ IsValidTransition(state, "PlaybackPaused")
         /\ state' = "PlaybackPaused"
         /\ Return(c)
      \/ /\ ~IsValidTransition(state, "PlaybackPaused")
         /\ UNCHANGED state
         /\ Return(c)
  BY DEF EnterPaused, recordVars, fileVars, replayVars, settings, schedVars, history, playVars,
     MarkStale, Fill,
     TryTransition
<1>4. ASSUME Return(c)
      PROVE  Becomes(c, "none", "idle", "Idle", {}, {}) /\ call'[c] = NoCall
  BY <1>1, <1>4, Returns
<1>5. ASSUME Return(c)
      PROVE  Becomes(c, "none", "idle", "Idle", {}, {}) /\ call'[c] = NoCall
  BY <1>1, <1>5, Returns
<1>6. QED
  BY <1>2, <1>3, <1>4, <1>5

\* The queue is cleared.
LEMMA ClearQueueDoes ==
  ASSUME TypeOK, Control, NEW c \in Callers, ClearQueue(c)
  PROVE  /\ call[c].pc = "clear"
         /\ UNCHANGED <<state, timelinePaused, writing, capturing, activeRecord, reading, fileLen,
                        readPos, replaying, activeReplay, targets, status, loop, running, inflight,
                        stopped, openedOver, seekFailed>>
         /\ thread # "toWait"
         /\ thread' = Notified
         /\ \/ /\ call[c].op = "OpenForPlayback"
               /\ queue' = {}
               /\ Becomes(c, call[c].op, "fillOpen", call[c].prev, call[c].todo, call[c].started)
            \/ /\ call[c].op = "SeekTo"
               /\ queue' = {}
               /\ Becomes(c, call[c].op, "seek", call[c].prev, call[c].todo, call[c].started)
            \/ /\ call[c].op = "Stop"
               /\ queue' = {}
               /\ Becomes(c, call[c].op, "takeReplay", call[c].prev, call[c].todo, call[c].started)
<1>1. call \in [Callers -> CallType] /\ state \in SessionState
  BY DEF TypeOK
<1>2. /\ call[c].pc = "clear"
      /\ UNCHANGED <<state, timelinePaused, writing, capturing, activeRecord, reading, fileLen, readPos,
                     replaying, activeReplay, targets, status, loop, running, inflight, stopped,
                     openedOver, seekFailed>>
      /\ thread # "toWait"
      /\ thread' = Notified
  BY DEF ClearQueue, At, MutexFree, Fill, Offers, recordVars, fileVars, replayVars, settings, schedVars,
     history, playVars
<1>3. \/ /\ call[c].op = "OpenForPlayback"
         /\ queue' = {}
         /\ Goto(c, "fillOpen")
      \/ /\ call[c].op = "SeekTo"
         /\ queue' = {}
         /\ Goto(c, "seek")
      \/ /\ call[c].op = "Stop"
         /\ queue' = {}
         /\ Goto(c, "takeReplay")
  BY DEF ClearQueue, recordVars, fileVars, replayVars, settings, schedVars, history, playVars, MarkStale,
     Fill,
     TryTransition, At, Control, StepOf, AfterJoin, AfterClear
<1>4. ASSUME Goto(c, "fillOpen")
      PROVE  Becomes(c, call[c].op, "fillOpen", call[c].prev, call[c].todo, call[c].started)
  BY <1>1, <1>4, GoesTo DEF Labels
<1>5. ASSUME Goto(c, "seek")
      PROVE  Becomes(c, call[c].op, "seek", call[c].prev, call[c].todo, call[c].started)
  BY <1>1, <1>5, GoesTo DEF Labels
<1>6. ASSUME Goto(c, "takeReplay")
      PROVE  Becomes(c, call[c].op, "takeReplay", call[c].prev, call[c].todo, call[c].started)
  BY <1>1, <1>6, GoesTo DEF Labels
<1>7. QED
  BY <1>2, <1>3, <1>4, <1>5, <1>6

\* The reader is moved, or the seek fails.
LEMMA SeekFileDoes ==
  ASSUME TypeOK, NEW c \in Callers, SeekFile(c)
  PROVE  /\ call[c].pc = "seek"
         /\ UNCHANGED <<timelinePaused, writing, capturing, activeRecord, reading, fileLen, replaying,
                        activeReplay, targets, status, loop, running, thread, stopped, openedOver>>
         /\ \/ \E t \in 0 .. fileLen + 1 : 
                  /\ SeekMaySucceed
                  /\ readPos' = SeekPosition(t)
                  /\ queue' = {Stale(e) : e \in queue}
                  /\ inflight' = (IF inflight = NoPacket THEN NoPacket ELSE Stale(inflight))
                  /\ UNCHANGED <<state, seekFailed>>
                  /\ Becomes(c, call[c].op, "fillSeek", call[c].prev, call[c].todo, call[c].started)
            \/ /\ SeekMayFail
               /\ TryTransition(IF call[c].prev = "PlaybackPaused" THEN "PlaybackPaused" ELSE "Playing")
               /\ readPos' \in WhereSeekFails /\ seekFailed' = TRUE
               /\ UNCHANGED <<queue, inflight>>
               /\ Becomes(c, "none", "idle", "Idle", {}, {}) /\ call'[c] = NoCall
<1>1. call \in [Callers -> CallType] /\ state \in SessionState
  BY DEF TypeOK
<1>2. /\ call[c].pc = "seek"
      /\ UNCHANGED <<timelinePaused, writing, capturing, activeRecord, reading, fileLen, replaying,
                     activeReplay, targets, status, loop, running, thread, stopped, openedOver>>
  BY DEF SeekFile, At, Offers, recordVars, fileVars, replayVars, settings, schedVars, history, playVars
<1>3. \/ \E t \in 0 .. fileLen + 1 : 
            /\ SeekMaySucceed
            /\ readPos' = SeekPosition(t)
            /\ queue' = {Stale(e) : e \in queue}
            /\ inflight' = (IF inflight = NoPacket THEN NoPacket ELSE Stale(inflight))
            /\ UNCHANGED <<state, seekFailed>>
            /\ Goto(c, "fillSeek")
      \/ /\ SeekMayFail
         /\ TryTransition(IF call[c].prev = "PlaybackPaused" THEN "PlaybackPaused" ELSE "Playing")
         /\ readPos' \in WhereSeekFails /\ seekFailed' = TRUE
         /\ UNCHANGED <<queue, inflight>>
         /\ Return(c)
  BY DEF SeekFile, recordVars, fileVars, replayVars, settings, schedVars, history, playVars, MarkStale, Fill
<1>4. ASSUME NEW t \in 0 .. fileLen + 1, Goto(c, "fillSeek")
      PROVE  Becomes(c, call[c].op, "fillSeek", call[c].prev, call[c].todo, call[c].started)
  BY <1>1, <1>4, GoesTo DEF Labels
<1>5. ASSUME Return(c)
      PROVE  Becomes(c, "none", "idle", "Idle", {}, {}) /\ call'[c] = NoCall
  BY <1>1, <1>5, Returns
<1>6. QED
  BY <1>2, <1>3, <1>4, <1>5

\* The packets from the new position on are queued.
LEMMA FillAfterSeekDoes ==
  ASSUME TypeOK, NEW c \in Callers, FillAfterSeek(c)
  PROVE  /\ call[c].pc = "fillSeek"
         /\ UNCHANGED <<state, timelinePaused, writing, capturing, activeRecord, reading, fileLen,
                        replaying, activeReplay, targets, status, loop, running, inflight, stopped,
                        openedOver, seekFailed>>
         /\ thread # "toWait"
         /\ thread' \in {thread, Notified}
         /\ \E k \in FillCounts(readPos) : 
              /\ ReadOn(readPos, k)
              /\ queue' = queue \cup Packets(readPos, k)
              /\ Becomes(c, call[c].op, "leaveSeeking", call[c].prev, call[c].todo, call[c].started)
<1>1. call \in [Callers -> CallType] /\ state \in SessionState
  BY DEF TypeOK
<1>2. /\ call[c].pc = "fillSeek"
      /\ UNCHANGED <<state, timelinePaused, writing, capturing, activeRecord, reading, fileLen,
                     replaying, activeReplay, targets, status, loop, running, inflight, stopped,
                     openedOver, seekFailed>>
      /\ thread # "toWait"
      /\ thread' \in {thread, Notified}
  BY DEF FillAfterSeek, At, MutexFree, Fill, Offers, recordVars, fileVars, replayVars, settings,
     schedVars, history, playVars
<1>3. \/ \E k \in FillCounts(readPos) : 
            /\ ReadOn(readPos, k)
            /\ queue' = queue \cup Packets(readPos, k)
            /\ Goto(c, "leaveSeeking")
  BY DEF FillAfterSeek, recordVars, fileVars, replayVars, settings, schedVars, history, playVars,
     MarkStale, Fill,
     TryTransition
<1>4. ASSUME NEW k \in FillCounts(readPos), Goto(c, "leaveSeeking")
      PROVE  Becomes(c, call[c].op, "leaveSeeking", call[c].prev, call[c].todo, call[c].started)
  BY <1>1, <1>4, GoesTo DEF Labels
<1>5. QED
  BY <1>2, <1>3, <1>4

\* The seek ends in PlaybackPaused or as a Play.
LEMMA LeaveSeekingDoes ==
  ASSUME TypeOK, NEW c \in Callers, LeaveSeeking(c)
  PROVE  /\ call[c].pc = "leaveSeeking"
         /\ UNCHANGED <<timelinePaused, writing, capturing, activeRecord, reading, fileLen, readPos,
                        replaying, activeReplay, targets, status, loop, running, thread, queue,
                        inflight, stopped, openedOver, seekFailed>>
         /\ \/ /\ call[c].prev = "PlaybackPaused"
               /\ TryTransition("PlaybackPaused")
               /\ Becomes(c, "none", "idle", "Idle", {}, {}) /\ call'[c] = NoCall
            \/ /\ call[c].prev # "PlaybackPaused"
               /\ UNCHANGED state
               /\ Becomes(c, "Play", "play", call[c].prev, call[c].todo, call[c].started)
<1>1. call \in [Callers -> CallType] /\ state \in SessionState
  BY DEF TypeOK
<1>2. /\ call[c].pc = "leaveSeeking"
      /\ UNCHANGED <<timelinePaused, writing, capturing, activeRecord, reading, fileLen, readPos,
                     replaying, activeReplay, targets, status, loop, running, thread, queue, inflight,
                     stopped, openedOver, seekFailed>>
  BY DEF LeaveSeeking, At, Offers, recordVars, fileVars, replayVars, settings, schedVars, history, playVars
<1>3. \/ /\ call[c].prev = "PlaybackPaused"
         /\ TryTransition("PlaybackPaused")
         /\ Return(c)
      \/ /\ call[c].prev # "PlaybackPaused"
         /\ UNCHANGED state
         /\ call' = [call EXCEPT ![c].op = "Play", ![c].pc = "play"]
  BY DEF LeaveSeeking, recordVars, fileVars, replayVars, settings, schedVars, history, playVars,
     MarkStale, Fill
<1>4. ASSUME Return(c)
      PROVE  Becomes(c, "none", "idle", "Idle", {}, {}) /\ call'[c] = NoCall
  BY <1>1, <1>4, Returns
<1>5. ASSUME call' = [call EXCEPT ![c].op = "Play", ![c].pc = "play"]
      PROVE  Becomes(c, "Play", "play", call[c].prev, call[c].todo, call[c].started)
  BY <1>1, <1>5, GoesOnAsPlay
<1>6. QED
  BY <1>2, <1>3, <1>4, <1>5

\* The list of replays is taken.
LEMMA TakeReplayDoes ==
  ASSUME TypeOK, NEW c \in Callers, TakeReplay(c)
  PROVE  /\ call[c].pc = "takeReplay"
         /\ UNCHANGED <<state, timelinePaused, writing, capturing, activeRecord, reading, fileLen,
                        readPos, replaying, targets, loop, running, thread, queue, inflight, stopped,
                        openedOver, seekFailed>>
         /\ activeReplay' = {}
         /\ status' = Status(targets, {}, {})
         /\ Becomes(c, call[c].op, "stopReplay", call[c].prev, activeReplay, call[c].started)
<1>1. call \in [Callers -> CallType] /\ state \in SessionState
  BY DEF TypeOK
<1>2. /\ call[c].pc = "takeReplay"
      /\ UNCHANGED <<state, timelinePaused, writing, capturing, activeRecord, reading, fileLen, readPos,
                     replaying, targets, loop, running, thread, queue, inflight, stopped, openedOver,
                     seekFailed>>
  BY DEF TakeReplay, At, Offers, recordVars, fileVars, replayVars, settings, schedVars, history, playVars
<1>3. /\ activeReplay' = {}
      /\ status' = Status(targets, {}, {})
      /\ call' = [call EXCEPT ![c].pc = "stopReplay", ![c].todo = activeReplay]
  BY DEF TakeReplay, recordVars, fileVars, replayVars, settings, schedVars, history, playVars, MarkStale,
     Fill,
     TryTransition
<1>4. Becomes(c, call[c].op, "stopReplay", call[c].prev, activeReplay, call[c].started)
  BY <1>1, <1>3, GoesToWith DEF Labels, TypeOK
<1>5. QED
  BY <1>2, <1>3, <1>4

\* The next replay is stopped, or was the last.
LEMMA StopReplayDoes ==
  ASSUME TypeOK, NEW c \in Callers, StopReplay(c)
  PROVE  /\ call[c].pc = "stopReplay"
         /\ UNCHANGED <<state, timelinePaused, writing, capturing, activeRecord, reading, fileLen,
                        readPos, activeReplay, targets, status, loop, running, thread, queue, inflight,
                        stopped, openedOver, seekFailed>>
         /\ \/ \E p \in call[c].todo : 
                  /\ replaying' = replaying \ {p}
                  /\ Becomes(c, call[c].op, call[c].pc, call[c].prev, call[c].todo \ {p}, call[c].started)
            \/ /\ call[c].todo = {}
               /\ UNCHANGED replaying
               /\ Becomes(c, call[c].op, "close", call[c].prev, call[c].todo, call[c].started)
<1>1. call \in [Callers -> CallType] /\ state \in SessionState
  BY DEF TypeOK
<1>2. /\ call[c].pc = "stopReplay"
      /\ UNCHANGED <<state, timelinePaused, writing, capturing, activeRecord, reading, fileLen, readPos,
                     activeReplay, targets, status, loop, running, thread, queue, inflight, stopped,
                     openedOver, seekFailed>>
  BY DEF StopReplay, At, Offers, recordVars, fileVars, replayVars, settings, schedVars, history, playVars
<1>3. \/ \E p \in call[c].todo : 
            /\ replaying' = replaying \ {p}
            /\ call' = [call EXCEPT ![c].todo = @ \ {p}]
      \/ /\ call[c].todo = {}
         /\ UNCHANGED replaying
         /\ Goto(c, "close")
  BY DEF StopReplay, recordVars, fileVars, replayVars, settings, schedVars, history, playVars, MarkStale,
     Fill,
     TryTransition
<1>4. ASSUME NEW p \in call[c].todo, call' = [call EXCEPT ![c].todo = @ \ {p}]
      PROVE  Becomes(c, call[c].op, call[c].pc, call[c].prev, call[c].todo \ {p}, call[c].started)
  BY <1>1, <1>4, StopsListed
<1>5. ASSUME Goto(c, "close")
      PROVE  Becomes(c, call[c].op, "close", call[c].prev, call[c].todo, call[c].started)
  BY <1>1, <1>5, GoesTo DEF Labels
<1>6. QED
  BY <1>2, <1>3, <1>4, <1>5

\* The file is closed.
LEMMA CloseFileDoes ==
  ASSUME TypeOK, NEW c \in Callers, CloseFile(c)
  PROVE  /\ call[c].pc = "close"
         /\ UNCHANGED <<state, timelinePaused, writing, capturing, activeRecord, fileLen, readPos,
                        replaying, activeReplay, targets, status, loop, running, thread, queue,
                        inflight, stopped, openedOver, seekFailed>>
         /\ \/ /\ call[c].op = "OpenForPlayback"
               /\ reading' = FALSE
               /\ Becomes(c, "none", "idle", "Idle", {}, {}) /\ call'[c] = NoCall
            \/ /\ call[c].op # "OpenForPlayback"
               /\ call[c].prev = "Seeking"
               /\ reading' = FALSE
               /\ Becomes(c, call[c].op, "leaveSeekState", call[c].prev, call[c].todo, call[c].started)
            \/ /\ call[c].op # "OpenForPlayback"
               /\ call[c].prev # "Seeking"
               /\ reading' = FALSE
               /\ Becomes(c, call[c].op, "leavePlayback", call[c].prev, call[c].todo, call[c].started)
<1>1. call \in [Callers -> CallType] /\ state \in SessionState
  BY DEF TypeOK
<1>2. /\ call[c].pc = "close"
      /\ UNCHANGED <<state, timelinePaused, writing, capturing, activeRecord, fileLen, readPos,
                     replaying, activeReplay, targets, status, loop, running, thread, queue, inflight,
                     stopped, openedOver, seekFailed>>
  BY DEF CloseFile, At, Offers, recordVars, fileVars, replayVars, settings, schedVars, history, playVars
<1>3. \/ /\ call[c].op = "OpenForPlayback"
         /\ reading' = FALSE
         /\ Return(c)
      \/ /\ call[c].op # "OpenForPlayback"
         /\ call[c].prev = "Seeking"
         /\ reading' = FALSE
         /\ Goto(c, "leaveSeekState")
      \/ /\ call[c].op # "OpenForPlayback"
         /\ call[c].prev # "Seeking"
         /\ reading' = FALSE
         /\ Goto(c, "leavePlayback")
  BY DEF CloseFile, recordVars, fileVars, replayVars, settings, schedVars, history, playVars, MarkStale, Fill,
     TryTransition
<1>4. ASSUME Return(c)
      PROVE  Becomes(c, "none", "idle", "Idle", {}, {}) /\ call'[c] = NoCall
  BY <1>1, <1>4, Returns
<1>5. ASSUME Goto(c, "leaveSeekState")
      PROVE  Becomes(c, call[c].op, "leaveSeekState", call[c].prev, call[c].todo, call[c].started)
  BY <1>1, <1>5, GoesTo DEF Labels
<1>6. ASSUME Goto(c, "leavePlayback")
      PROVE  Becomes(c, call[c].op, "leavePlayback", call[c].prev, call[c].todo, call[c].started)
  BY <1>1, <1>6, GoesTo DEF Labels
<1>7. QED
  BY <1>2, <1>3, <1>4, <1>5, <1>6

\* Stop passes through PlaybackPaused.
LEMMA LeaveSeekStateDoes ==
  ASSUME TypeOK, NEW c \in Callers, LeaveSeekState(c)
  PROVE  /\ call[c].pc = "leaveSeekState"
         /\ UNCHANGED <<timelinePaused, writing, capturing, activeRecord, reading, fileLen, readPos,
                        replaying, activeReplay, targets, status, loop, running, thread, queue,
                        inflight, stopped, openedOver, seekFailed>>
         /\ \/ /\ IsValidTransition(state, "PlaybackPaused")
               /\ state' = "PlaybackPaused"
               /\ Becomes(c, call[c].op, "leavePlayback", call[c].prev, call[c].todo, call[c].started)
            \/ /\ ~IsValidTransition(state, "PlaybackPaused")
               /\ UNCHANGED state
               /\ Becomes(c, call[c].op, "leavePlayback", call[c].prev, call[c].todo, call[c].started)
<1>1. call \in [Callers -> CallType] /\ state \in SessionState
  BY DEF TypeOK
<1>2. /\ call[c].pc = "leaveSeekState"
      /\ UNCHANGED <<timelinePaused, writing, capturing, activeRecord, reading, fileLen, readPos,
                     replaying, activeReplay, targets, status, loop, running, thread, queue, inflight,
                     stopped, openedOver, seekFailed>>
  BY DEF LeaveSeekState, At, Offers, recordVars, fileVars, replayVars, settings, schedVars, history, playVars
<1>3. \/ /\ IsValidTransition(state, "PlaybackPaused")
         /\ state' = "PlaybackPaused"
         /\ Goto(c, "leavePlayback")
      \/ /\ ~IsValidTransition(state, "PlaybackPaused")
         /\ UNCHANGED state
         /\ Goto(c, "leavePlayback")
  BY DEF LeaveSeekState, recordVars, fileVars, replayVars, settings, schedVars, history, playVars,
     MarkStale, Fill,
     TryTransition
<1>4. ASSUME Goto(c, "leavePlayback")
      PROVE  Becomes(c, call[c].op, "leavePlayback", call[c].prev, call[c].todo, call[c].started)
  BY <1>1, <1>4, GoesTo DEF Labels
<1>5. ASSUME Goto(c, "leavePlayback")
      PROVE  Becomes(c, call[c].op, "leavePlayback", call[c].prev, call[c].todo, call[c].started)
  BY <1>1, <1>5, GoesTo DEF Labels
<1>6. QED
  BY <1>2, <1>3, <1>4, <1>5

\* Stop ends in Stopped.
LEMMA LeavePlaybackDoes ==
  ASSUME TypeOK, NEW c \in Callers, LeavePlayback(c)
  PROVE  /\ call[c].pc = "leavePlayback"
         /\ UNCHANGED <<timelinePaused, writing, capturing, activeRecord, reading, fileLen, readPos,
                        replaying, activeReplay, targets, status, loop, running, thread, queue,
                        inflight, openedOver, seekFailed>>
         /\ \/ /\ IsValidTransition(state, "Stopped")
               /\ state' = "Stopped"
               /\ stopped' = TRUE
               /\ Becomes(c, "none", "idle", "Idle", {}, {}) /\ call'[c] = NoCall
            \/ /\ ~IsValidTransition(state, "Stopped")
               /\ stopped' = TRUE
               /\ UNCHANGED state
               /\ Becomes(c, "none", "idle", "Idle", {}, {}) /\ call'[c] = NoCall
<1>1. call \in [Callers -> CallType] /\ state \in SessionState
  BY DEF TypeOK
<1>2. /\ call[c].pc = "leavePlayback"
      /\ UNCHANGED <<timelinePaused, writing, capturing, activeRecord, reading, fileLen, readPos,
                     replaying, activeReplay, targets, status, loop, running, thread, queue, inflight,
                     openedOver, seekFailed>>
  BY DEF LeavePlayback, At, Offers, recordVars, fileVars, replayVars, settings, schedVars, history, playVars
<1>3. \/ /\ IsValidTransition(state, "Stopped")
         /\ state' = "Stopped"
         /\ stopped' = TRUE
         /\ Return(c)
      \/ /\ ~IsValidTransition(state, "Stopped")
         /\ stopped' = TRUE
         /\ UNCHANGED state
         /\ Return(c)
  BY DEF LeavePlayback, recordVars, fileVars, replayVars, settings, schedVars, history, playVars,
     MarkStale, Fill,
     TryTransition
<1>4. ASSUME Return(c)
      PROVE  Becomes(c, "none", "idle", "Idle", {}, {}) /\ call'[c] = NoCall
  BY <1>1, <1>4, Returns
<1>5. ASSUME Return(c)
      PROVE  Becomes(c, "none", "idle", "Idle", {}, {}) /\ call'[c] = NoCall
  BY <1>1, <1>5, Returns
<1>6. QED
  BY <1>2, <1>3, <1>4, <1>5

\* The loop range is set.
LEMMA SetLoopRangeDoes ==
  ASSUME TypeOK, NEW c \in Callers, SetLoopRange(c)
  PROVE  /\ call[c].pc = "idle"
         /\ UNCHANGED <<state, timelinePaused, writing, capturing, activeRecord, reading, fileLen,
                        readPos, replaying, activeReplay, targets, status, running, thread, queue,
                        inflight, stopped, openedOver, seekFailed>>
         /\ loop' \in LoopRanges
         /\ UNCHANGED call
<1>1. call \in [Callers -> CallType] /\ state \in SessionState
  BY DEF TypeOK
<1>2. /\ call[c].pc = "idle"
      /\ UNCHANGED <<state, timelinePaused, writing, capturing, activeRecord, reading, fileLen, readPos,
                     replaying, activeReplay, targets, status, running, thread, queue, inflight,
                     stopped, openedOver, seekFailed>>
  BY DEF SetLoopRange, At, Offers, recordVars, fileVars, replayVars, settings, schedVars, history, playVars
<1>3. /\ loop' \in LoopRanges
      /\ UNCHANGED call
  BY <1>2 DEF SetLoopRange, Offers, recordVars, fileVars, replayVars, settings, schedVars, history, playVars,
     TryTransition, IsValidTransition, Successors
<1>4. QED
  BY <1>2, <1>3

\* The replay targets are set.
LEMMA SetReplayTargetsDoes ==
  ASSUME TypeOK, NEW c \in Callers, SetReplayTargets(c)
  PROVE  /\ call[c].pc = "idle"
         /\ UNCHANGED <<state, timelinePaused, writing, capturing, activeRecord, reading, fileLen,
                        readPos, replaying, activeReplay, loop, running, thread, queue, inflight,
                        stopped, openedOver, seekFailed>>
         /\ targets' \in SUBSET Protocols
         /\ status' = Status(targets', activeReplay, {})
         /\ UNCHANGED call
<1>1. call \in [Callers -> CallType] /\ state \in SessionState
  BY DEF TypeOK
<1>2. /\ call[c].pc = "idle"
      /\ UNCHANGED <<state, timelinePaused, writing, capturing, activeRecord, reading, fileLen, readPos,
                     replaying, activeReplay, loop, running, thread, queue, inflight, stopped,
                     openedOver, seekFailed>>
  BY DEF SetReplayTargets, At, Offers, recordVars, fileVars, replayVars, settings, schedVars, history,
     playVars
<1>3. /\ targets' \in SUBSET Protocols
      /\ status' = Status(targets', activeReplay, {})
      /\ UNCHANGED call
  BY <1>2 DEF SetReplayTargets, Offers, recordVars, fileVars, replayVars, settings, schedVars, history,
     playVars,
     TryTransition, IsValidTransition, Successors
<1>4. QED
  BY <1>2, <1>3

\* A packet is taken off the queue.
LEMMA PopPacketDoes ==
  ASSUME TypeOK, PopPacket
  PROVE  /\ thread = "loop"
         /\ running
         /\ UNCHANGED <<call, state, timelinePaused, writing, capturing, activeRecord, reading, fileLen,
                        readPos, replaying, activeReplay, targets, status, loop, running, stopped,
                        openedOver, seekFailed>>
         /\ \E e \in queue : 
              /\ thread' = "popped"
              /\ queue' = queue \ {e}
              /\ inflight' = e
<1>1. call \in [Callers -> CallType] /\ state \in SessionState
  BY DEF TypeOK
<1>2. /\ thread = "loop"
      /\ running
      /\ UNCHANGED <<call, state, timelinePaused, writing, capturing, activeRecord, reading, fileLen,
                     readPos, replaying, activeReplay, targets, status, loop, running, stopped,
                     openedOver, seekFailed>>
  BY DEF PopPacket, At, Offers, recordVars, fileVars, replayVars, settings, schedVars, history, playVars
<1>3. \/ \E e \in queue : 
            /\ thread' = "popped"
            /\ queue' = queue \ {e}
            /\ inflight' = e
  BY DEF PopPacket, recordVars, fileVars, replayVars, settings, schedVars, history, playVars, MarkStale, Fill,
     TryTransition
<1>4. QED
  BY <1>2, <1>3

\* running_ is read again.
LEMMA RecheckRunningDoes ==
  ASSUME TypeOK, RecheckRunning
  PROVE  /\ thread = "popped"
         /\ UNCHANGED <<call, state, timelinePaused, writing, capturing, activeRecord, reading, fileLen,
                        readPos, replaying, activeReplay, targets, status, loop, running, queue,
                        stopped, openedOver, seekFailed>>
         /\ \/ /\ running
               /\ thread' = "dispatch"
               /\ UNCHANGED inflight
            \/ /\ ~running
               /\ thread' = "exited"
               /\ inflight' = NoPacket
<1>1. call \in [Callers -> CallType] /\ state \in SessionState
  BY DEF TypeOK
<1>2. /\ thread = "popped"
      /\ UNCHANGED <<call, state, timelinePaused, writing, capturing, activeRecord, reading, fileLen,
                     readPos, replaying, activeReplay, targets, status, loop, running, queue, stopped,
                     openedOver, seekFailed>>
  BY DEF RecheckRunning, At, Offers, recordVars, fileVars, replayVars, settings, schedVars, history, playVars
<1>3. \/ /\ running
         /\ thread' = "dispatch"
         /\ UNCHANGED inflight
      \/ /\ ~running
         /\ thread' = "exited"
         /\ inflight' = NoPacket
  BY DEF RecheckRunning, recordVars, fileVars, replayVars, settings, schedVars, history, playVars,
     MarkStale, Fill,
     TryTransition
<1>4. QED
  BY <1>2, <1>3

\* The packet is sent, or dropped.
LEMMA DispatchDoes ==
  ASSUME TypeOK, Dispatch
  PROVE  /\ thread = "dispatch"
         /\ UNCHANGED <<call, state, timelinePaused, writing, capturing, activeRecord, reading, fileLen,
                        readPos, replaying, activeReplay, targets, status, loop, running, queue,
                        stopped, openedOver, seekFailed>>
         /\ \/ /\ reading
               /\ thread' = "sent"
               /\ UNCHANGED inflight
            \/ /\ ~reading
               /\ thread' = "loop"
               /\ inflight' = NoPacket
<1>1. call \in [Callers -> CallType] /\ state \in SessionState
  BY DEF TypeOK
<1>2. /\ thread = "dispatch"
      /\ UNCHANGED <<call, state, timelinePaused, writing, capturing, activeRecord, reading, fileLen,
                     readPos, replaying, activeReplay, targets, status, loop, running, queue, stopped,
                     openedOver, seekFailed>>
  BY DEF Dispatch, At, Offers, recordVars, fileVars, replayVars, settings, schedVars, history, playVars
<1>3. \/ /\ reading
         /\ thread' = "sent"
         /\ UNCHANGED inflight
      \/ /\ ~reading
         /\ thread' = "loop"
         /\ inflight' = NoPacket
  BY DEF Dispatch, recordVars, fileVars, replayVars, settings, schedVars, history, playVars, MarkStale, Fill,
     TryTransition
<1>4. QED
  BY <1>2, <1>3

\* The loop range starts again.
LEMMA LoopBackDoes ==
  ASSUME TypeOK, LoopBack
  PROVE  /\ thread = "sent"
         /\ UNCHANGED <<call, state, timelinePaused, writing, capturing, activeRecord, reading, fileLen,
                        replaying, activeReplay, targets, status, loop, running, stopped, openedOver,
                        seekFailed>>
         /\ \/ \E k \in FillCounts(SeekPosition(loop[1])) : 
                  /\ SeekMaySucceed
                  /\ ReadOn(SeekPosition(loop[1]), k)
                  /\ thread' = "loop"
                  /\ queue' = Packets(SeekPosition(loop[1]), k)
                  /\ inflight' = NoPacket
            \/ /\ thread' = "loop"
               /\ queue' = {}
               /\ inflight' = NoPacket
               /\ readPos' \in WhereSeekFails
<1>1. call \in [Callers -> CallType] /\ state \in SessionState
  BY DEF TypeOK
<1>2. /\ thread = "sent"
      /\ UNCHANGED <<call, state, timelinePaused, writing, capturing, activeRecord, reading, fileLen,
                     replaying, activeReplay, targets, status, loop, running, stopped, openedOver,
                     seekFailed>>
  BY DEF LoopBack, At, Offers, recordVars, fileVars, replayVars, settings, schedVars, history, playVars
<1>3. \/ \E k \in FillCounts(SeekPosition(loop[1])) : 
            /\ SeekMaySucceed
            /\ ReadOn(SeekPosition(loop[1]), k)
            /\ thread' = "loop"
            /\ queue' = Packets(SeekPosition(loop[1]), k)
            /\ inflight' = NoPacket
      \/ /\ thread' = "loop"
         /\ queue' = {}
         /\ inflight' = NoPacket
         /\ readPos' \in WhereSeekFails
  BY DEF LoopBack, recordVars, fileVars, replayVars, settings, schedVars, history, playVars, MarkStale, Fill,
     TryTransition
<1>4. QED
  BY <1>2, <1>3

\* More packets are queued.
LEMMA RefillDoes ==
  ASSUME TypeOK, Refill
  PROVE  /\ thread = "sent"
         /\ UNCHANGED <<call, state, timelinePaused, writing, capturing, activeRecord, reading, fileLen,
                        replaying, activeReplay, targets, status, loop, running, stopped, openedOver,
                        seekFailed>>
         /\ \E k \in FillCounts(readPos) : 
              /\ ReadOn(readPos, k)
              /\ thread' = "loop"
              /\ queue' = queue \cup Packets(readPos, k)
              /\ inflight' = NoPacket
<1>1. call \in [Callers -> CallType] /\ state \in SessionState
  BY DEF TypeOK
<1>2. /\ thread = "sent"
      /\ UNCHANGED <<call, state, timelinePaused, writing, capturing, activeRecord, reading, fileLen,
                     replaying, activeReplay, targets, status, loop, running, stopped, openedOver,
                     seekFailed>>
  BY DEF Refill, At, Offers, recordVars, fileVars, replayVars, settings, schedVars, history, playVars
<1>3. \/ \E k \in FillCounts(readPos) : 
            /\ ReadOn(readPos, k)
            /\ thread' = "loop"
            /\ queue' = queue \cup Packets(readPos, k)
            /\ inflight' = NoPacket
  BY DEF Refill, recordVars, fileVars, replayVars, settings, schedVars, history, playVars, MarkStale,
     Fill, TryTransition
<1>4. QED
  BY <1>2, <1>3

\* The thread finds nothing to send.
LEMMA DecideWaitDoes ==
  ASSUME DecideWait
  PROVE  /\ thread = "loop"
         /\ running
         /\ queue = {}
         /\ UNCHANGED <<call, state, timelinePaused, writing, capturing, activeRecord, reading, fileLen,
                        readPos, replaying, activeReplay, targets, status, loop, running, queue,
                        inflight, stopped,
                        openedOver, seekFailed>>
         /\ thread' = "toWait"
  BY DEF DecideWait, fileVars, recordVars, replayVars, settings, history

\* The thread blocks.
LEMMA BlockDoes ==
  ASSUME Block
  PROVE  /\ thread = "toWait"
         /\ UNCHANGED <<call, state, timelinePaused, writing, capturing, activeRecord, reading, fileLen,
                        readPos, replaying, activeReplay, targets, status, loop, running, queue,
                        inflight, stopped,
                        openedOver, seekFailed>>
         /\ thread' = "waiting"
  BY DEF Block, fileVars, recordVars, replayVars, settings, history

\* The thread leaves its loop.
LEMMA ExitLoopDoes ==
  ASSUME TypeOK, ExitLoop
  PROVE  /\ thread = "loop"
         /\ ~running
         /\ UNCHANGED <<call, state, timelinePaused, writing, capturing, activeRecord, reading, fileLen,
                        readPos, replaying, activeReplay, targets, status, loop, running, queue,
                        inflight, stopped, openedOver, seekFailed>>
         /\ thread' = "exited"
<1>1. call \in [Callers -> CallType] /\ state \in SessionState
  BY DEF TypeOK
<1>2. /\ thread = "loop"
      /\ ~running
      /\ UNCHANGED <<call, state, timelinePaused, writing, capturing, activeRecord, reading, fileLen,
                     readPos, replaying, activeReplay, targets, status, loop, running, queue, inflight,
                     stopped, openedOver, seekFailed>>
  BY DEF ExitLoop, At, Offers, recordVars, fileVars, replayVars, settings, schedVars, history, playVars
<1>3. /\ thread' = "exited"
  BY <1>2 DEF ExitLoop, Offers, recordVars, fileVars, replayVars, settings, schedVars, history, playVars,
     TryTransition, IsValidTransition, Successors
<1>4. QED
  BY <1>2, <1>3

-----------------------------------------------------------------------------
(***************************************************************************)
(* The types, and every call at its own labels, for any number of clients. *)
(***************************************************************************)

\* Every step of a call keeps the types.
LEMMA CallsTyped ==
  ASSUME TypeOK, Control, NEW c \in Callers, Begin(c) \/ Continue(c)
  PROVE  TypeOK'
<1>1. CASE CallStartRecording(c)
  BY <1>1, CallStartRecordingDoes DEF TypeOK, Becomes
<1>2. CASE CreateFile(c)
  BY <1>2, CreateFileDoes, Typed, Requests DEF TypeOK, Becomes
<1>3. CASE StartCapture(c)
  BY <1>3, StartCaptureDoes, Typed DEF TypeOK, Becomes
<1>4. CASE EnterRecording(c)
  <2>1. state' \in SessionState
    BY <1>4, EnterRecordingDoes DEF TypeOK, SessionState
  <2>2. QED
    BY <1>4, <2>1, EnterRecordingDoes DEF TypeOK, Becomes
<1>5. CASE CommitRecord(c)
  BY <1>5, CommitRecordDoes, Typed DEF TypeOK, Becomes
<1>6. CASE UndoCapture(c)
  BY <1>6, UndoCaptureDoes DEF TypeOK, Becomes
<1>7. CASE FinalizeFailedRecording(c)
  BY <1>7, FinalizeFailedRecordingDoes DEF TypeOK, Becomes
<1>8. CASE PauseRecording(c)
  <2>1. state' \in SessionState
    BY <1>8, PauseRecordingDoes DEF TypeOK, SessionState
  <2>2. QED
    BY <1>8, <2>1, PauseRecordingDoes DEF TypeOK
<1>9. CASE ResumeRecording(c)
  <2>1. state' \in SessionState
    BY <1>9, ResumeRecordingDoes DEF TypeOK, SessionState
  <2>2. QED
    BY <1>9, <2>1, ResumeRecordingDoes DEF TypeOK
<1>10. CASE CallStopRecording(c)
  BY <1>10, CallStopRecordingDoes DEF TypeOK, Becomes
<1>11. CASE StopCapture(c)
  BY <1>11, StopCaptureDoes DEF TypeOK, Becomes
<1>12. CASE FinalizeRecording(c)
  BY <1>12, FinalizeRecordingDoes DEF TypeOK, Becomes
<1>13. CASE LeaveRecording(c)
  <2>1. state' \in SessionState
    BY <1>13, LeaveRecordingDoes DEF TypeOK, SessionState
  <2>2. QED
    BY <1>13, <2>1, LeaveRecordingDoes DEF TypeOK, Becomes
<1>14. CASE CallOpenForPlayback(c)
  BY <1>14, CallOpenForPlaybackDoes DEF TypeOK, Becomes
<1>15. CASE OpenFile(c)
  <2>1. queue' \subseteq Entry /\ inflight' \in Entry
    BY <1>15, OpenFileDoes, StaleTypes
  <2>2. fileLen' \in Nat /\ readPos' \in 1 .. fileLen' + 1
    <3>1. (fileLen' \in FileLengths /\ readPos' = 1) \/ (fileLen' = fileLen /\ readPos' = readPos)
      BY <1>15, OpenFileDoes
    <3>2. fileLen \in Nat /\ readPos \in 1 .. fileLen + 1 /\ FileLengths \subseteq Nat
      BY FileAssumption DEF TypeOK
    <3>3. CASE fileLen' \in FileLengths /\ readPos' = 1
      <4>1. PICK n : n = fileLen'
        OBVIOUS
      <4>2. n \in Nat
        BY <3>2, <3>3, <4>1
      <4>3. 1 \in 1 .. n + 1
        BY ONLY <4>2
      <4>4. QED
        BY ONLY <3>3, <4>1, <4>2, <4>3
    <3>4. CASE fileLen' = fileLen /\ readPos' = readPos
      BY ONLY <3>2, <3>4
    <3>5. QED
      BY ONLY <3>1, <3>3, <3>4
  <2>3. UNCHANGED <<state, timelinePaused, writing, capturing, activeRecord, replaying, activeReplay, targets,
                    status, loop, running, thread, stopped, seekFailed>> /\ openedOver' \subseteq OpenedOver
    BY <1>15, OpenFileDoes DEF TypeOK, OpenedOver
  <2>4. reading' \in BOOLEAN /\ call' \in [Callers -> CallType]
    BY <1>15, OpenFileDoes DEF Becomes
  <2>5. QED
    BY <2>1, <2>2, <2>3, <2>4 DEF TypeOK
<1>16. CASE StartReplay(c)
  BY <1>16, StartReplayDoes, Typed DEF TypeOK, Becomes
<1>17. CASE UndoReplay(c)
  BY <1>17, UndoReplayDoes DEF TypeOK, Becomes
<1>18. CASE AbandonOpen(c)
  <2>1. status' \in [targets -> {"idle", "active", "error"}] /\ targets' = targets
    <3>1. PICK failing : failing = call[c].todo
      OBVIOUS
    <3>2. status' = Status(targets, {}, failing) /\ targets' = targets
      BY <1>18, <3>1, AbandonOpenDoes
    <3>3. Status(targets, {}, failing) \in [targets -> {"idle", "active", "error"}]
      BY ONLY StatusTypes
    <3>4. QED
      BY ONLY <3>2, <3>3
  <2>2. QED
    BY <1>18, <2>1, AbandonOpenDoes DEF TypeOK, Becomes
<1>19. CASE CommitReplay(c)
  BY <1>19, CommitReplayDoes, Typed, StatusTypes DEF TypeOK, Becomes
<1>20. CASE FillAfterOpen(c)
  BY <1>20, FillAfterOpenDoes, FillEnds, NotifiedThread DEF TypeOK, Becomes
<1>21. CASE Stage(c)
  <2>1. state' \in SessionState
    BY <1>21, StageDoes DEF TypeOK, SessionState
  <2>2. QED
    BY <1>21, <2>1, StageDoes DEF TypeOK, OpenedOver, Becomes
<1>22. CASE CallPlay(c)
  BY <1>22, CallPlayDoes DEF TypeOK, Becomes
<1>23. CASE StartTimeline(c)
  BY <1>23, StartTimelineDoes DEF TypeOK, Becomes
<1>24. CASE CallPause(c)
  BY <1>24, CallPauseDoes DEF TypeOK, Becomes
<1>25. CASE CallSeekTo(c)
  BY <1>25, CallSeekToDoes DEF TypeOK, Becomes
<1>26. CASE EnterSeeking(c)
  <2>1. state' \in SessionState
    BY <1>26, EnterSeekingDoes DEF TypeOK, SessionState
  <2>2. QED
    BY <1>26, <2>1, EnterSeekingDoes DEF TypeOK, Becomes
<1>27. CASE CallStop(c)
  BY <1>27, CallStopDoes DEF TypeOK, Becomes
<1>28. CASE Halt(c)
  BY <1>28, HaltDoes, NotifiedThread DEF TypeOK, Becomes
<1>29. CASE Join(c)
  BY <1>29, JoinDoes DEF TypeOK, Becomes
<1>30. CASE Spawn(c)
  BY <1>30, SpawnDoes DEF TypeOK, Becomes
<1>31. CASE EnterPlaying(c)
  <2>1. state' \in SessionState
    BY <1>31, EnterPlayingDoes DEF TypeOK, SessionState
  <2>2. QED
    BY <1>31, <2>1, EnterPlayingDoes DEF TypeOK, Becomes
<1>32. CASE EnterPaused(c)
  <2>1. state' \in SessionState
    BY <1>32, EnterPausedDoes DEF TypeOK, SessionState
  <2>2. QED
    BY <1>32, <2>1, EnterPausedDoes DEF TypeOK, Becomes
<1>33. CASE ClearQueue(c)
  BY <1>33, ClearQueueDoes, NotifiedThread DEF TypeOK, Becomes
<1>34. CASE SeekFile(c)
  <2>1. state' \in SessionState
    BY <1>34, SeekFileDoes, StaleTypes, Transits, SeeksInFile, FailsInFile DEF TypeOK, SessionState
  <2>2. readPos' \in 1 .. fileLen + 1 /\ fileLen' = fileLen
    <3>1. \A t \in 0 .. fileLen + 1 : t \in Nat
      BY DEF TypeOK
    <3>2. QED
      BY <1>34, <3>1, SeekFileDoes, SeeksInFile, FailsInFile
  <2>3. queue' \subseteq Entry /\ inflight' \in Entry
    BY <1>34, SeekFileDoes, StaleTypes DEF TypeOK
  <2>4. seekFailed' \in BOOLEAN /\ call' \in [Callers -> CallType]
    BY <1>34, SeekFileDoes DEF TypeOK, Becomes
  <2>5. UNCHANGED <<timelinePaused, writing, capturing, activeRecord, reading, replaying, activeReplay, targets,
                    status, loop, running, thread, stopped, openedOver>>
    BY <1>34, SeekFileDoes
  <2>6. QED
    BY <2>1, <2>2, <2>3, <2>4, <2>5 DEF TypeOK
<1>35. CASE FillAfterSeek(c)
  BY <1>35, FillAfterSeekDoes, FillEnds, NotifiedThread DEF TypeOK, Becomes
<1>36. CASE LeaveSeeking(c)
  <2>1. state' \in SessionState
    BY <1>36, LeaveSeekingDoes, Transits DEF TypeOK, SessionState
  <2>2. QED
    BY <1>36, <2>1, LeaveSeekingDoes, Transits DEF TypeOK, Becomes
<1>37. CASE TakeReplay(c)
  BY <1>37, TakeReplayDoes, StatusTypes DEF TypeOK, Becomes
<1>38. CASE StopReplay(c)
  BY <1>38, StopReplayDoes DEF TypeOK, Becomes
<1>39. CASE CloseFile(c)
  BY <1>39, CloseFileDoes DEF TypeOK, Becomes
<1>40. CASE LeaveSeekState(c)
  <2>1. state' \in SessionState
    BY <1>40, LeaveSeekStateDoes DEF TypeOK, SessionState
  <2>2. QED
    BY <1>40, <2>1, LeaveSeekStateDoes DEF TypeOK, Becomes
<1>41. CASE LeavePlayback(c)
  <2>1. state' \in SessionState /\ stopped' \in BOOLEAN
    BY <1>41, LeavePlaybackDoes DEF TypeOK, SessionState
  <2>2. call' \in [Callers -> CallType]
    BY <1>41, LeavePlaybackDoes DEF Becomes
  <2>3. QED
    BY <1>41, <2>1, <2>2, LeavePlaybackDoes DEF TypeOK
<1>42. CASE SetLoopRange(c)
  BY <1>42, SetLoopRangeDoes, FileAssumption DEF TypeOK
<1>43. CASE SetReplayTargets(c)
  BY <1>43, SetReplayTargetsDoes, StatusTypes DEF TypeOK
<1>44. QED
  BY <1>1, <1>2, <1>3, <1>4, <1>5, <1>6, <1>7, <1>8, <1>9, <1>10, <1>11, <1>12, <1>13, <1>14, <1>15, <1>16,
     <1>17, <1>18, <1>19, <1>20, <1>21, <1>22, <1>23, <1>24, <1>25, <1>26, <1>27, <1>28, <1>29, <1>30,
     <1>31, <1>32, <1>33, <1>34, <1>35, <1>36, <1>37, <1>38, <1>39, <1>40, <1>41, <1>42, <1>43 DEF Begin,
     Continue

\* Every step of the scheduler thread keeps the types.
LEMMA SchedulerTyped ==
  ASSUME TypeOK, Scheduler
  PROVE  TypeOK'
<1>1. CASE PopPacket
  BY <1>1, PopPacketDoes DEF TypeOK
<1>2. CASE RecheckRunning
  BY <1>2, RecheckRunningDoes, NoPacketType DEF TypeOK
<1>3. CASE Dispatch
  BY <1>3, DispatchDoes, NoPacketType DEF TypeOK
<1>4. CASE LoopBack
  BY <1>4, LoopBackDoes, FillEnds, NoPacketType, SeeksInFile, FailsInFile DEF TypeOK
<1>5. CASE Refill
  BY <1>5, RefillDoes, FillEnds, NoPacketType DEF TypeOK
<1>6. CASE DecideWait
  BY <1>6, DecideWaitDoes DEF TypeOK
<1>7. CASE Block
  BY <1>7, BlockDoes DEF TypeOK
<1>8. CASE ExitLoop
  BY <1>8, ExitLoopDoes DEF TypeOK
<1>9. QED
  BY <1>1, <1>2, <1>3, <1>4, <1>5, <1>6, <1>7, <1>8 DEF Scheduler

\* Every step of a call leaves each call at one of its labels.
LEMMA CallsControlled ==
  ASSUME TypeOK, Control, NEW c \in Callers, Begin(c) \/ Continue(c)
  PROVE  Control'
<1>1. StepOf(call[c].op, call[c].pc)
  BY DEF Control
<1>2. CASE CallStartRecording(c)
  BY <1>1, <1>2, CallStartRecordingDoes, ControlKept DEF StepOf, Becomes
<1>3. CASE CreateFile(c)
  BY <1>1, <1>3, CreateFileDoes, ControlKept DEF StepOf, Becomes
<1>4. CASE StartCapture(c)
  BY <1>1, <1>4, StartCaptureDoes, ControlKept DEF StepOf, Becomes
<1>5. CASE EnterRecording(c)
  BY <1>1, <1>5, EnterRecordingDoes, ControlKept DEF StepOf, Becomes
<1>6. CASE CommitRecord(c)
  BY <1>1, <1>6, CommitRecordDoes, ControlKept DEF StepOf, Becomes
<1>7. CASE UndoCapture(c)
  BY <1>1, <1>7, UndoCaptureDoes, ControlKept DEF StepOf, Becomes
<1>8. CASE FinalizeFailedRecording(c)
  BY <1>1, <1>8, FinalizeFailedRecordingDoes, ControlKept DEF StepOf, Becomes
<1>9. CASE PauseRecording(c)
  BY <1>9, PauseRecordingDoes DEF Control, At
<1>10. CASE ResumeRecording(c)
  BY <1>10, ResumeRecordingDoes DEF Control, At
<1>11. CASE CallStopRecording(c)
  BY <1>1, <1>11, CallStopRecordingDoes, ControlKept DEF StepOf, Becomes
<1>12. CASE StopCapture(c)
  BY <1>1, <1>12, StopCaptureDoes, ControlKept DEF StepOf, Becomes
<1>13. CASE FinalizeRecording(c)
  BY <1>1, <1>13, FinalizeRecordingDoes, ControlKept DEF StepOf, Becomes
<1>14. CASE LeaveRecording(c)
  BY <1>1, <1>14, LeaveRecordingDoes, ControlKept DEF StepOf, Becomes
<1>15. CASE CallOpenForPlayback(c)
  BY <1>1, <1>15, CallOpenForPlaybackDoes, ControlKept DEF StepOf, Becomes
<1>16. CASE OpenFile(c)
  BY <1>1, <1>16, OpenFileDoes, ControlKept DEF StepOf, Becomes
<1>17. CASE StartReplay(c)
  BY <1>1, <1>17, StartReplayDoes, ControlKept DEF StepOf, Becomes
<1>18. CASE UndoReplay(c)
  BY <1>1, <1>18, UndoReplayDoes, ControlKept DEF StepOf, Becomes
<1>19. CASE AbandonOpen(c)
  BY <1>1, <1>19, AbandonOpenDoes, ControlKept DEF StepOf, Becomes
<1>20. CASE CommitReplay(c)
  BY <1>1, <1>20, CommitReplayDoes, ControlKept DEF StepOf, Becomes
<1>21. CASE FillAfterOpen(c)
  BY <1>1, <1>21, FillAfterOpenDoes, ControlKept DEF StepOf, Becomes
<1>22. CASE Stage(c)
  BY <1>1, <1>22, StageDoes, ControlKept DEF StepOf, Becomes
<1>23. CASE CallPlay(c)
  BY <1>1, <1>23, CallPlayDoes, ControlKept DEF StepOf, Becomes
<1>24. CASE StartTimeline(c)
  BY <1>1, <1>24, StartTimelineDoes, ControlKept DEF StepOf, Becomes
<1>25. CASE CallPause(c)
  BY <1>1, <1>25, CallPauseDoes, ControlKept DEF StepOf, Becomes
<1>26. CASE CallSeekTo(c)
  BY <1>1, <1>26, CallSeekToDoes, ControlKept DEF StepOf, Becomes
<1>27. CASE EnterSeeking(c)
  BY <1>1, <1>27, EnterSeekingDoes, ControlKept DEF StepOf, Becomes
<1>28. CASE CallStop(c)
  BY <1>1, <1>28, CallStopDoes, ControlKept DEF StepOf, Becomes
<1>29. CASE Halt(c)
  BY <1>1, <1>29, HaltDoes, ControlKept DEF StepOf, Becomes
<1>30. CASE Join(c)
  BY <1>1, <1>30, JoinDoes, ControlKept DEF StepOf, Becomes
<1>31. CASE Spawn(c)
  BY <1>1, <1>31, SpawnDoes, ControlKept DEF StepOf, Becomes
<1>32. CASE EnterPlaying(c)
  BY <1>1, <1>32, EnterPlayingDoes, ControlKept DEF StepOf, Becomes
<1>33. CASE EnterPaused(c)
  BY <1>1, <1>33, EnterPausedDoes, ControlKept DEF StepOf, Becomes
<1>34. CASE ClearQueue(c)
  BY <1>1, <1>34, ClearQueueDoes, ControlKept DEF StepOf, Becomes
<1>35. CASE SeekFile(c)
  BY <1>1, <1>35, SeekFileDoes, ControlKept DEF StepOf, Becomes
<1>36. CASE FillAfterSeek(c)
  BY <1>1, <1>36, FillAfterSeekDoes, ControlKept DEF StepOf, Becomes
<1>37. CASE LeaveSeeking(c)
  BY <1>1, <1>37, LeaveSeekingDoes, ControlKept DEF StepOf, Becomes
<1>38. CASE TakeReplay(c)
  BY <1>1, <1>38, TakeReplayDoes, ControlKept DEF StepOf, Becomes
<1>39. CASE StopReplay(c)
  BY <1>1, <1>39, StopReplayDoes, ControlKept DEF StepOf, Becomes
<1>40. CASE CloseFile(c)
  BY <1>1, <1>40, CloseFileDoes, ControlKept DEF StepOf, Becomes
<1>41. CASE LeaveSeekState(c)
  BY <1>1, <1>41, LeaveSeekStateDoes, ControlKept DEF StepOf, Becomes
<1>42. CASE LeavePlayback(c)
  BY <1>1, <1>42, LeavePlaybackDoes, ControlKept DEF StepOf, Becomes
<1>43. CASE SetLoopRange(c)
  BY <1>43, SetLoopRangeDoes DEF Control, At
<1>44. CASE SetReplayTargets(c)
  BY <1>44, SetReplayTargetsDoes DEF Control, At
<1>45. QED
  BY <1>2, <1>3, <1>4, <1>5, <1>6, <1>7, <1>8, <1>9, <1>10, <1>11, <1>12, <1>13, <1>14, <1>15, <1>16,
     <1>17, <1>18, <1>19, <1>20, <1>21, <1>22, <1>23, <1>24, <1>25, <1>26, <1>27, <1>28, <1>29, <1>30,
     <1>31, <1>32, <1>33, <1>34, <1>35, <1>36, <1>37, <1>38, <1>39, <1>40, <1>41, <1>42, <1>43,
     <1>44 DEF Begin, Continue

-----------------------------------------------------------------------------
(***************************************************************************)
(* One client, as the HTTP server is: it calls the session on one thread.  *)
(***************************************************************************)

client == CHOOSE c \in Callers : TRUE
OneClient == Callers = {client}
now == call[client]

\* The offers of the web UI: a recording is started outside its own states, and one is
\* never stopped during playback.  A file is opened in any state.
UiOffers == \A c \in Callers, s \in SessionState :
  /\ <<c, "StartRecording", s>> \in Offered => s \notin RecordingStates
  /\ <<c, "StopRecording", s>> \in Offered => s \notin PlaybackStates

\* What a target shows is what the list of replaying protocols says, and but for an
\* open that has failed half way these protocols replay.
Shown ==
  /\ \A p \in targets : status[p] = "active" => p \in activeReplay
  /\ now.pc \notin {"undoReplay", "abandonOpen"} => activeReplay \subseteq replaying
  /\ now.pc \in {"open", "replay", "commitReplay"} => now.started \subseteq replaying
  /\ now.pc = "stopReplay" => activeReplay = {}

\* What runs of a recording, at each step of the calls that start and stop it.
RecordingLive ==
  IF state \in RecordingStates
    THEN writing /\ capturing = activeRecord /\ activeRecord # {}
    ELSE ~writing /\ capturing = {} /\ activeRecord = {}
Recorded ==
  /\ now.op \notin {"StartRecording", "StopRecording"} => RecordingLive
  /\ now.op = "StartRecording" =>
       /\ Protocols # {} /\ capturing = now.started /\ activeRecord = {}
       /\ IF now.pc = "commitRecord" THEN state = "Recording" ELSE state \notin RecordingStates
       /\ now.pc = "create" => now.started = {}
       /\ now.pc = "capture" => now.todo \cup now.started # {}
       /\ now.pc \in {"capture", "enterRecording", "commitRecord"} => writing
       /\ now.pc \in {"enterRecording", "commitRecord"} => now.started # {}
       /\ now.pc = "finalize" => now.started = {}
  /\ now.op = "StopRecording" =>
       capturing = IF now.pc = "stopCapture" THEN now.todo ELSE {}

\* What is left of a recording that a file was opened over.
Overrun ==
  /\ state \notin {"Idle"} \cup RecordingStates
  /\ now.pc # "commitRecord"
  /\ now.op \notin {"StartRecording", "StopRecording"} => capturing \subseteq activeRecord
  /\ now.op = "StartRecording" => capturing \subseteq activeRecord \cup now.started
  /\ now.op = "StartRecording" /\ now.pc \in {"create", "finalize"} => now.started = {}
  /\ now.op = "StopRecording" =>
       capturing \subseteq IF now.pc = "stopCapture" THEN now.todo ELSE {}
Record ==
  /\ IF "recording" \in openedOver THEN Overrun ELSE Recorded
  /\ now.op = "StopRecording" =>
       /\ state \notin PlaybackStates /\ activeRecord = {}
       /\ now.pc = "leaveRecording" => ~writing

\* A call has joined the scheduler thread and not started it again.
Joined ==
  \/ now.pc \in {"spawn", "enterPaused", "seek", "fillSeek", "leaveSeeking", "leaveSeekState", "leavePlayback"}
  \/ now.op \in {"SeekTo", "Stop"} /\ now.pc \in {"clear", "takeReplay", "stopReplay", "close"}

\* The scheduler thread: only in Playing, in a call that is about to stop it or has
\* just started it, or after a file was opened over Playing.
Threads ==
  /\ running => thread \notin {"none", "exited"}
  /\ thread # "none" /\ "playback" \notin openedOver =>
       state = "Playing" \/ now.pc \in {"halt", "join", "enterPlaying"}
  /\ state = "Playing" /\ now.op = "OpenForPlayback" /\ now.pc # "open" => "playback" \in openedOver
  /\ Joined => thread = "none"
  /\ Joined \/ now.pc = "enterPlaying" => "playback" \notin openedOver
  /\ now.pc = "join" => ~running
  /\ now.pc = "enterPlaying" => running

\* The state at each step of the calls of playback, and the reader and the timeline then.
Playback ==
  /\ reading => state \in {"Stopped"} \cup PlaybackStates \/ now.op = "OpenForPlayback"
  /\ state = "Seeking" => reading /\ now.op \in {"SeekTo", "Play"} /\ now.pc # "enterSeeking"
  /\ state = "Playing" /\ now.op # "Pause" => ~timelinePaused
  /\ now.op = "Play" /\ now.pc # "play" => reading /\ ~timelinePaused
  /\ now.op = "Pause" => state = "Playing"
  /\ now.op = "SeekTo" =>
       /\ reading
       /\ now.prev = "Playing" => ~timelinePaused
       /\ IF now.pc = "enterSeeking" THEN state = now.prev
            ELSE state = "Seeking" /\ now.prev \in {"Playing", "PlaybackPaused"}
  /\ now.op = "Stop" =>
       /\ state \in {"Playing", "PlaybackPaused", "Stopped"} /\ now.prev # "Seeking"
       /\ now.pc # "leaveSeekState"
       /\ now.pc = "leavePlayback" => ~reading
  /\ /\ state = "Playing" /\ "playback" \notin openedOver
     /\ now.op \in {"none", "StartRecording", "StopRecording"} \/ now.pc \in {"play", "enterSeeking", "open"}
     =>
       reading /\ (seekFailed \/ running)

\* What is queued was read from where the reader is, but while a file is being opened
\* and after an open that failed; over Playing the thread may hold a packet of the file
\* before.
FreshQueue == \A e \in queue : e.fresh
Packeted ==
  /\ thread \in {"none", "loop", "toWait", "waiting", "exited"} => inflight = NoPacket
  /\ "playback" \notin openedOver => inflight.fresh /\ (thread # "none" => FreshQueue)
  /\ (reading /\ now.op # "OpenForPlayback") \/ now.pc \in {"fillOpen", "stage"} => FreshQueue
  /\ now.pc \in {"seek", "fillSeek"} => queue = {}
  /\ now.op = "Stop" /\ now.pc \in {"takeReplay", "stopReplay", "close", "leavePlayback"} => queue = {}
  /\ now.pc \in {"stopReplay", "close", "leavePlayback"} => activeReplay = {}

\* What a Stop has ended stays ended until the next open.
Ended ==
  stopped =>
    /\ now.op \in {"none", "StartRecording", "StopRecording"} \/ now.pc = "play"
    /\ state \notin PlaybackStates /\ ~reading /\ queue = {} /\ activeReplay = {}
    /\ "playback" \notin openedOver

\* All of it.
Rest == Record /\ Threads /\ Playback /\ Packeted /\ Ended

\* The call of the client is at one of its labels.
LEMMA Client ==
  ASSUME OneClient, TypeOK, Control
  PROVE  /\ client \in Callers /\ call[client] = now
         /\ StepOf(now.op, now.pc) /\ (now.pc = "idle" => now.op = "none")
         /\ now.todo \in SUBSET Protocols /\ now.started \in SUBSET Protocols
         /\ (AtRest <=> now.pc = "idle")
<1>1. client \in Callers /\ call[client] = now
  BY DEF OneClient, now
<1>2. StepOf(now.op, now.pc) /\ (now.pc = "idle" => now.op = "none")
  BY <1>1 DEF Control, StepOf
<1>3. now.todo \in SUBSET Protocols /\ now.started \in SUBSET Protocols
  BY <1>1, Typed DEF TypeOK
<1>4. AtRest <=> now.pc = "idle"
  BY <1>1 DEF OneClient, AtRest, At, now
<1>5. QED
  BY <1>1, <1>2, <1>3, <1>4

\* After a step the call of the client is this one.
Now(op, pc, prev, todo, started) ==
  now'.op = op /\ now'.pc = pc /\ now'.prev = prev /\ now'.todo = todo /\ now'.started = started

\* With one client, what a step makes of a call is what it makes of the client's.
LEMMA NowBecomes ==
  ASSUME OneClient, NEW op, NEW pc, NEW prev, NEW todo, NEW started,
         Becomes(client, op, pc, prev, todo, started)
  PROVE  Now(op, pc, prev, todo, started)
  BY DEF Becomes, Now, now

-----------------------------------------------------------------------------
(***************************************************************************)
(* What each step changes, for one client.                                 *)
(***************************************************************************)

\* A call of StartRecording begins.
LEMMA CallStartRecordingNow ==
  ASSUME OneClient, TypeOK, Control, CallStartRecording(client)
  PROVE  /\ now.pc = "idle"
         /\ <<client, "StartRecording", state>> \in Offered
         /\ Protocols # {}
         /\ UNCHANGED <<state, timelinePaused, writing, capturing, activeRecord, reading, fileLen,
                        readPos, replaying, activeReplay, targets, status, loop, running, thread, queue,
                        inflight, stopped, openedOver, seekFailed>>
         /\ Now("StartRecording", "create", state, {}, {})
  BY Client, CallStartRecordingDoes, NowBecomes

\* The file is created, or not.
LEMMA CreateFileNow ==
  ASSUME OneClient, TypeOK, Control, CreateFile(client)
  PROVE  /\ now.pc = "create"
         /\ UNCHANGED <<state, timelinePaused, capturing, activeRecord, reading, fileLen, readPos,
                        replaying, activeReplay, targets, status, loop, running, thread, queue,
                        inflight, stopped, openedOver, seekFailed>>
         /\ \/ \E request \in RecordRequests : 
                  /\ writing' = TRUE
                  /\ Now(now.op, "capture", now.prev, request, now.started)
            \/ /\ writing' = FALSE
               /\ Now("none", "idle", "Idle", {}, {})
  BY Client, CreateFileDoes, NowBecomes

\* The next capture starts, fails to or was the last.
LEMMA StartCaptureNow ==
  ASSUME OneClient, TypeOK, Control, StartCapture(client)
  PROVE  /\ now.pc = "capture"
         /\ UNCHANGED <<state, timelinePaused, writing, activeRecord, reading, fileLen, readPos,
                        replaying, activeReplay, targets, status, loop, running, thread, queue,
                        inflight, stopped, openedOver, seekFailed>>
         /\ \/ \E p \in now.todo : 
                  /\ capturing' = capturing \cup {p}
                  /\ Now(now.op, now.pc, now.prev, now.todo \ {p}, now.started \cup {p})
            \/ /\ UNCHANGED capturing
               /\ Now(now.op, "undoCapture", now.prev, now.todo, now.started)
            \/ /\ now.todo = {}
               /\ UNCHANGED capturing
               /\ Now(now.op, "enterRecording", now.prev, now.todo, now.started)
  BY Client, StartCaptureDoes, NowBecomes

\* The state becomes Recording, or refuses.
LEMMA EnterRecordingNow ==
  ASSUME OneClient, TypeOK, Control, EnterRecording(client)
  PROVE  /\ now.pc = "enterRecording"
         /\ UNCHANGED <<timelinePaused, writing, capturing, activeRecord, reading, fileLen, readPos,
                        replaying, activeReplay, targets, status, loop, running, thread, queue,
                        inflight, stopped, openedOver, seekFailed>>
         /\ \/ /\ IsValidTransition(state, "Recording")
               /\ state' = "Recording"
               /\ Now(now.op, "commitRecord", now.prev, now.todo, now.started)
            \/ /\ ~IsValidTransition(state, "Recording")
               /\ UNCHANGED state
               /\ Now(now.op, "undoCapture", now.prev, now.todo, now.started)
  BY Client, EnterRecordingDoes, NowBecomes

\* The recording is on.
LEMMA CommitRecordNow ==
  ASSUME OneClient, TypeOK, Control, CommitRecord(client)
  PROVE  /\ now.pc = "commitRecord"
         /\ UNCHANGED <<state, writing, capturing, reading, fileLen, readPos, replaying, activeReplay,
                        targets, status, loop, running, thread, queue, inflight, stopped, openedOver,
                        seekFailed>>
         /\ timelinePaused' = FALSE
         /\ activeRecord' = now.started
         /\ Now("none", "idle", "Idle", {}, {})
  BY Client, CommitRecordDoes, NowBecomes

\* The next capture is undone, or was the last.
LEMMA UndoCaptureNow ==
  ASSUME OneClient, TypeOK, Control, UndoCapture(client)
  PROVE  /\ now.pc = "undoCapture"
         /\ UNCHANGED <<state, timelinePaused, writing, activeRecord, reading, fileLen, readPos,
                        replaying, activeReplay, targets, status, loop, running, thread, queue,
                        inflight, stopped, openedOver, seekFailed>>
         /\ \/ \E p \in now.started : 
                  /\ capturing' = capturing \ {p}
                  /\ Now(now.op, now.pc, now.prev, now.todo, now.started \ {p})
            \/ /\ now.started = {}
               /\ UNCHANGED capturing
               /\ Now(now.op, "finalize", now.prev, now.todo, now.started)
  BY Client, UndoCaptureDoes, NowBecomes

\* The file of a recording that failed is finalized.
LEMMA FinalizeFailedRecordingNow ==
  ASSUME OneClient, TypeOK, Control, FinalizeFailedRecording(client)
  PROVE  /\ now.pc = "finalize"
         /\ UNCHANGED <<state, timelinePaused, capturing, activeRecord, reading, fileLen, readPos,
                        replaying, activeReplay, targets, status, loop, running, thread, queue,
                        inflight, stopped, openedOver, seekFailed>>
         /\ writing' = FALSE
         /\ Now("none", "idle", "Idle", {}, {})
  BY Client, FinalizeFailedRecordingDoes, NowBecomes

\* A recording is paused.
LEMMA PauseRecordingNow ==
  ASSUME OneClient, TypeOK, Control, PauseRecording(client)
  PROVE  /\ now.pc = "idle"
         /\ state = "Recording"
         /\ UNCHANGED <<writing, capturing, activeRecord, reading, fileLen, readPos, replaying,
                        activeReplay, targets, status, loop, running, thread, queue, inflight, stopped,
                        openedOver, seekFailed>>
         /\ state' = "RecordingPaused"
         /\ timelinePaused' = TRUE
         /\ UNCHANGED now
  BY Client, PauseRecordingDoes DEF now

\* A recording is resumed.
LEMMA ResumeRecordingNow ==
  ASSUME OneClient, TypeOK, Control, ResumeRecording(client)
  PROVE  /\ now.pc = "idle"
         /\ state = "RecordingPaused"
         /\ UNCHANGED <<writing, capturing, activeRecord, reading, fileLen, readPos, replaying,
                        activeReplay, targets, status, loop, running, thread, queue, inflight, stopped,
                        openedOver, seekFailed>>
         /\ state' = "Recording"
         /\ timelinePaused' = FALSE
         /\ UNCHANGED now
  BY Client, ResumeRecordingDoes DEF now

\* A call of StopRecording begins.
LEMMA CallStopRecordingNow ==
  ASSUME OneClient, TypeOK, Control, CallStopRecording(client)
  PROVE  /\ now.pc = "idle"
         /\ <<client, "StopRecording", state>> \in Offered
         /\ UNCHANGED <<state, timelinePaused, writing, capturing, reading, fileLen, readPos, replaying,
                        activeReplay, targets, status, loop, running, thread, queue, inflight, stopped,
                        openedOver, seekFailed>>
         /\ activeRecord' = {}
         /\ Now("StopRecording", "stopCapture", "Idle", activeRecord, {})
  BY Client, CallStopRecordingDoes, NowBecomes

\* The next capture is stopped, or was the last.
LEMMA StopCaptureNow ==
  ASSUME OneClient, TypeOK, Control, StopCapture(client)
  PROVE  /\ now.pc = "stopCapture"
         /\ UNCHANGED <<state, timelinePaused, writing, activeRecord, reading, fileLen, readPos,
                        replaying, activeReplay, targets, status, loop, running, thread, queue,
                        inflight, stopped, openedOver, seekFailed>>
         /\ \/ \E p \in now.todo : 
                  /\ capturing' = capturing \ {p}
                  /\ Now(now.op, now.pc, now.prev, now.todo \ {p}, now.started)
            \/ /\ now.todo = {}
               /\ UNCHANGED capturing
               /\ Now(now.op, "finalizeOpen", now.prev, now.todo, now.started)
  BY Client, StopCaptureDoes, NowBecomes

\* The file of the recording is finalized.
LEMMA FinalizeRecordingNow ==
  ASSUME OneClient, TypeOK, Control, FinalizeRecording(client)
  PROVE  /\ now.pc = "finalizeOpen"
         /\ UNCHANGED <<state, timelinePaused, capturing, activeRecord, reading, fileLen, readPos,
                        replaying, activeReplay, targets, status, loop, running, thread, queue,
                        inflight, stopped, openedOver, seekFailed>>
         /\ writing' = FALSE
         /\ Now(now.op, "leaveRecording", now.prev, now.todo, now.started)
  BY Client, FinalizeRecordingDoes, NowBecomes

\* The recording ends in Stopped.
LEMMA LeaveRecordingNow ==
  ASSUME OneClient, TypeOK, Control, LeaveRecording(client)
  PROVE  /\ now.pc = "leaveRecording"
         /\ UNCHANGED <<timelinePaused, writing, capturing, activeRecord, reading, fileLen, readPos,
                        replaying, activeReplay, targets, status, loop, running, thread, queue,
                        inflight, stopped, seekFailed>>
         /\ openedOver' = openedOver \ {"recording"}
         /\ \/ /\ IsValidTransition(state, "Stopped")
               /\ state' = "Stopped"
               /\ Now("none", "idle", "Idle", {}, {})
            \/ /\ ~IsValidTransition(state, "Stopped")
               /\ UNCHANGED state
               /\ Now("none", "idle", "Idle", {}, {})
  BY Client, LeaveRecordingDoes, NowBecomes

\* A call of OpenForPlayback begins.
LEMMA CallOpenForPlaybackNow ==
  ASSUME OneClient, TypeOK, Control, CallOpenForPlayback(client)
  PROVE  /\ now.pc = "idle"
         /\ <<client, "OpenForPlayback", state>> \in Offered
         /\ UNCHANGED <<state, timelinePaused, writing, capturing, activeRecord, reading, fileLen,
                        readPos, replaying, activeReplay, targets, status, loop, running, thread, queue,
                        inflight, openedOver, seekFailed>>
         /\ stopped' = FALSE
         /\ Now("OpenForPlayback", "open", state, {}, {})
  BY Client, CallOpenForPlaybackDoes, NowBecomes

\* The file is opened, or not.
LEMMA OpenFileNow ==
  ASSUME OneClient, TypeOK, Control, OpenFile(client)
  PROVE  /\ now.pc = "open"
         /\ UNCHANGED <<state, timelinePaused, writing, capturing, activeRecord, replaying,
                        activeReplay, targets, status, loop, running, thread, stopped, seekFailed>>
         /\ openedOver' = (IF state = "Playing" THEN openedOver \cup {"playback"} ELSE openedOver)
         /\ \/ \E recorded \in RecordedProtocols, inferred \in InferredProtocols : 
                  /\ fileLen' \in FileLengths
                  /\ reading' = TRUE
                  /\ readPos' = 1
                  /\ queue' = {Stale(e) : e \in queue}
                  /\ inflight' = (IF inflight = NoPacket THEN NoPacket ELSE Stale(inflight))
                  /\ Now(now.op, "replay", now.prev, ReplayProtocols(recorded, inferred), now.started)
            \/ /\ reading' = FALSE
               /\ queue' = {Stale(e) : e \in queue}
               /\ inflight' = (IF inflight = NoPacket THEN NoPacket ELSE Stale(inflight))
               /\ UNCHANGED <<fileLen, readPos>>
               /\ Now("none", "idle", "Idle", {}, {})
  BY Client, OpenFileDoes, NowBecomes

\* The next replay starts, fails to or was the last.
LEMMA StartReplayNow ==
  ASSUME OneClient, TypeOK, Control, StartReplay(client)
  PROVE  /\ now.pc = "replay"
         /\ UNCHANGED <<state, timelinePaused, writing, capturing, activeRecord, reading, fileLen,
                        readPos, activeReplay, targets, status, loop, running, thread, queue, inflight,
                        stopped, openedOver, seekFailed>>
         /\ \/ \E p \in now.todo : 
                  /\ replaying' = replaying \cup {p}
                  /\ Now(now.op, now.pc, now.prev, now.todo \ {p}, now.started \cup {p})
            \/ \E p \in now.todo : 
                  /\ replaying' \in {replaying, replaying \ {p}}
                  /\ Now(now.op, "undoReplay", now.prev, {p}, now.started)
            \/ /\ now.todo = {}
               /\ UNCHANGED replaying
               /\ Now(now.op, "commitReplay", now.prev, now.todo, now.started)
  BY Client, StartReplayDoes, NowBecomes

\* The next replay is undone, or was the last.
LEMMA UndoReplayNow ==
  ASSUME OneClient, TypeOK, Control, UndoReplay(client)
  PROVE  /\ now.pc = "undoReplay"
         /\ UNCHANGED <<state, timelinePaused, writing, capturing, activeRecord, reading, fileLen,
                        readPos, activeReplay, targets, status, loop, running, thread, queue, inflight,
                        stopped, openedOver, seekFailed>>
         /\ \/ \E p \in now.started : 
                  /\ replaying' = replaying \ {p}
                  /\ Now(now.op, now.pc, now.prev, now.todo, now.started \ {p})
            \/ /\ now.started = {}
               /\ UNCHANGED replaying
               /\ Now(now.op, "abandonOpen", now.prev, now.todo, now.started)
  BY Client, UndoReplayDoes, NowBecomes

\* An open that failed closes the file.
LEMMA AbandonOpenNow ==
  ASSUME OneClient, TypeOK, Control, AbandonOpen(client)
  PROVE  /\ now.pc = "abandonOpen"
         /\ UNCHANGED <<state, timelinePaused, writing, capturing, activeRecord, fileLen, readPos,
                        replaying, targets, loop, running, thread, queue, inflight, stopped, openedOver,
                        seekFailed>>
         /\ reading' = FALSE
         /\ activeReplay' = {}
         /\ status' = Status(targets, {}, now.todo)
         /\ Now("none", "idle", "Idle", {}, {})
  BY Client, AbandonOpenDoes, NowBecomes

\* The replays have started.
LEMMA CommitReplayNow ==
  ASSUME OneClient, TypeOK, Control, CommitReplay(client)
  PROVE  /\ now.pc = "commitReplay"
         /\ UNCHANGED <<state, timelinePaused, writing, capturing, activeRecord, reading, fileLen,
                        readPos, replaying, targets, loop, running, thread, queue, inflight, stopped,
                        openedOver, seekFailed>>
         /\ activeReplay' = now.started
         /\ status' = Status(targets, now.started, {})
         /\ Now(now.op, "clear", now.prev, now.todo, now.started)
  BY Client, CommitReplayDoes, NowBecomes

\* The first packets are queued.
LEMMA FillAfterOpenNow ==
  ASSUME OneClient, TypeOK, Control, FillAfterOpen(client)
  PROVE  /\ now.pc = "fillOpen"
         /\ UNCHANGED <<state, timelinePaused, writing, capturing, activeRecord, reading, fileLen,
                        replaying, activeReplay, targets, status, loop, running, inflight, stopped,
                        openedOver, seekFailed>>
         /\ thread # "toWait"
         /\ thread' \in {thread, Notified}
         /\ \/ \E k \in FillCounts(readPos) : 
                  /\ ReadOn(readPos, k)
                  /\ queue' = queue \cup Packets(readPos, k)
                  /\ Now(now.op, "stage", now.prev, now.todo, now.started)
            \/ \E k \in FillCounts(readPos) : 
                  /\ ReadOn(readPos, k)
                  /\ queue' = queue \cup Packets(readPos, k)
                  /\ Now(now.op, "takeReplay", now.prev, now.todo, now.started)
  BY Client, FillAfterOpenDoes, NowBecomes

\* The opened file is staged.
LEMMA StageNow ==
  ASSUME OneClient, TypeOK, Control, Stage(client)
  PROVE  /\ now.pc = "stage"
         /\ UNCHANGED <<timelinePaused, writing, capturing, activeRecord, reading, fileLen, readPos,
                        replaying, activeReplay, targets, status, loop, running, thread, queue,
                        inflight, stopped, seekFailed>>
         /\ openedOver' = (IF state \in RecordingStates THEN openedOver \cup {"recording"} ELSE openedOver)
         /\ \/ /\ IsValidTransition(state, "Stopped")
               /\ state' = "Stopped"
               /\ Now("none", "idle", "Idle", {}, {})
            \/ /\ ~IsValidTransition(state, "Stopped")
               /\ UNCHANGED state
               /\ Now("none", "idle", "Idle", {}, {})
  BY Client, StageDoes, NowBecomes

\* A call of Play begins.
LEMMA CallPlayNow ==
  ASSUME OneClient, TypeOK, Control, CallPlay(client)
  PROVE  /\ now.pc = "idle"
         /\ UNCHANGED <<state, timelinePaused, writing, capturing, activeRecord, reading, fileLen,
                        readPos, replaying, activeReplay, targets, status, loop, running, thread, queue,
                        inflight, stopped, openedOver, seekFailed>>
         /\ Now("Play", "play", state, {}, {})
  BY Client, CallPlayDoes, NowBecomes

\* Play starts the timeline, or has nothing to play.
LEMMA StartTimelineNow ==
  ASSUME OneClient, TypeOK, Control, StartTimeline(client)
  PROVE  /\ now.pc = "play"
         /\ UNCHANGED <<state, writing, capturing, activeRecord, reading, fileLen, readPos, replaying,
                        activeReplay, targets, status, loop, running, thread, queue, inflight, stopped,
                        openedOver, seekFailed>>
         /\ \/ /\ reading
               /\ timelinePaused' = FALSE
               /\ Now(now.op, "halt", now.prev, now.todo, now.started)
            \/ /\ ~reading
               /\ UNCHANGED timelinePaused
               /\ Now("none", "idle", "Idle", {}, {})
  BY Client, StartTimelineDoes, NowBecomes

\* A call of Pause begins.
LEMMA CallPauseNow ==
  ASSUME OneClient, TypeOK, Control, CallPause(client)
  PROVE  /\ now.pc = "idle"
         /\ state = "Playing"
         /\ UNCHANGED <<state, writing, capturing, activeRecord, reading, fileLen, readPos, replaying,
                        activeReplay, targets, status, loop, running, thread, queue, inflight, stopped,
                        openedOver, seekFailed>>
         /\ timelinePaused' = TRUE
         /\ Now("Pause", "halt", state, {}, {})
  BY Client, CallPauseDoes, NowBecomes

\* A call of SeekTo begins.
LEMMA CallSeekToNow ==
  ASSUME OneClient, TypeOK, Control, CallSeekTo(client)
  PROVE  /\ now.pc = "idle"
         /\ reading
         /\ UNCHANGED <<state, timelinePaused, writing, capturing, activeRecord, reading, fileLen,
                        readPos, replaying, activeReplay, targets, status, loop, running, thread, queue,
                        inflight, stopped, openedOver, seekFailed>>
         /\ Now("SeekTo", "enterSeeking", state, {}, {})
  BY Client, CallSeekToDoes, NowBecomes

\* The state becomes Seeking, or refuses.
LEMMA EnterSeekingNow ==
  ASSUME OneClient, TypeOK, Control, EnterSeeking(client)
  PROVE  /\ now.pc = "enterSeeking"
         /\ UNCHANGED <<timelinePaused, writing, capturing, activeRecord, reading, fileLen, readPos,
                        replaying, activeReplay, targets, status, loop, running, thread, queue,
                        inflight, stopped, openedOver, seekFailed>>
         /\ \/ /\ IsValidTransition(state, "Seeking")
               /\ state' = "Seeking"
               /\ Now(now.op, "halt", now.prev, now.todo, now.started)
            \/ /\ ~IsValidTransition(state, "Seeking")
               /\ UNCHANGED state
               /\ Now("none", "idle", "Idle", {}, {})
  BY Client, EnterSeekingDoes, NowBecomes

\* A call of Stop begins.
LEMMA CallStopNow ==
  ASSUME OneClient, TypeOK, Control, CallStop(client)
  PROVE  /\ now.pc = "idle"
         /\ (state \in PlaybackStates \/ (state = "Stopped" /\ (reading \/ activeReplay # {})))
         /\ UNCHANGED <<state, timelinePaused, writing, capturing, activeRecord, reading, fileLen,
                        readPos, replaying, activeReplay, targets, status, loop, running, thread, queue,
                        inflight, stopped, openedOver, seekFailed>>
         /\ Now("Stop", "halt", state, {}, {})
  BY Client, CallStopDoes, NowBecomes

\* running_ is lowered.
LEMMA HaltNow ==
  ASSUME OneClient, TypeOK, Control, Halt(client)
  PROVE  /\ now.pc = "halt"
         /\ UNCHANGED <<state, timelinePaused, writing, capturing, activeRecord, reading, fileLen,
                        readPos, replaying, activeReplay, targets, status, loop, queue, inflight,
                        stopped, openedOver, seekFailed>>
         /\ thread' = Notified
         /\ running' = FALSE
         /\ Now(now.op, "join", now.prev, now.todo, now.started)
  BY Client, HaltDoes, NowBecomes

\* The scheduler thread has been joined.
LEMMA JoinNow ==
  ASSUME OneClient, TypeOK, Control, Join(client)
  PROVE  /\ now.pc = "join"
         /\ thread \in {"none", "exited"}
         /\ UNCHANGED <<state, timelinePaused, writing, capturing, activeRecord, reading, fileLen,
                        readPos, replaying, activeReplay, targets, status, loop, running, queue,
                        inflight, stopped, seekFailed>>
         /\ openedOver' = openedOver \ {"playback"}
         /\ \/ /\ now.op = "Play"
               /\ thread' = "none"
               /\ Now(now.op, "spawn", now.prev, now.todo, now.started)
            \/ /\ now.op = "Pause"
               /\ thread' = "none"
               /\ Now(now.op, "enterPaused", now.prev, now.todo, now.started)
            \/ /\ now.op = "SeekTo"
               /\ thread' = "none"
               /\ Now(now.op, "clear", now.prev, now.todo, now.started)
            \/ /\ now.op = "Stop"
               /\ thread' = "none"
               /\ Now(now.op, "clear", now.prev, now.todo, now.started)
  BY Client, JoinDoes, NowBecomes

\* The scheduler thread starts.
LEMMA SpawnNow ==
  ASSUME OneClient, TypeOK, Control, Spawn(client)
  PROVE  /\ now.pc = "spawn"
         /\ UNCHANGED <<state, timelinePaused, writing, capturing, activeRecord, reading, fileLen,
                        readPos, replaying, activeReplay, targets, status, loop, queue, inflight,
                        stopped, openedOver>>
         /\ seekFailed' = FALSE
         /\ running' = TRUE
         /\ thread' = "loop"
         /\ Now(now.op, "enterPlaying", now.prev, now.todo, now.started)
  BY Client, SpawnDoes, NowBecomes

\* The state becomes Playing, or refuses.
LEMMA EnterPlayingNow ==
  ASSUME OneClient, TypeOK, Control, EnterPlaying(client)
  PROVE  /\ now.pc = "enterPlaying"
         /\ UNCHANGED <<timelinePaused, writing, capturing, activeRecord, reading, fileLen, readPos,
                        replaying, activeReplay, targets, status, loop, running, thread, queue,
                        inflight, stopped, openedOver, seekFailed>>
         /\ \/ /\ IsValidTransition(state, "Playing")
               /\ state' = "Playing"
               /\ Now("none", "idle", "Idle", {}, {})
            \/ /\ ~IsValidTransition(state, "Playing")
               /\ UNCHANGED state
               /\ Now("none", "idle", "Idle", {}, {})
  BY Client, EnterPlayingDoes, NowBecomes

\* The state becomes PlaybackPaused, or refuses.
LEMMA EnterPausedNow ==
  ASSUME OneClient, TypeOK, Control, EnterPaused(client)
  PROVE  /\ now.pc = "enterPaused"
         /\ UNCHANGED <<timelinePaused, writing, capturing, activeRecord, reading, fileLen, readPos,
                        replaying, activeReplay, targets, status, loop, running, thread, queue,
                        inflight, stopped, openedOver, seekFailed>>
         /\ \/ /\ IsValidTransition(state, "PlaybackPaused")
               /\ state' = "PlaybackPaused"
               /\ Now("none", "idle", "Idle", {}, {})
            \/ /\ ~IsValidTransition(state, "PlaybackPaused")
               /\ UNCHANGED state
               /\ Now("none", "idle", "Idle", {}, {})
  BY Client, EnterPausedDoes, NowBecomes

\* The queue is cleared.
LEMMA ClearQueueNow ==
  ASSUME OneClient, TypeOK, Control, ClearQueue(client)
  PROVE  /\ now.pc = "clear"
         /\ UNCHANGED <<state, timelinePaused, writing, capturing, activeRecord, reading, fileLen,
                        readPos, replaying, activeReplay, targets, status, loop, running, inflight,
                        stopped, openedOver, seekFailed>>
         /\ thread # "toWait"
         /\ thread' = Notified
         /\ \/ /\ now.op = "OpenForPlayback"
               /\ queue' = {}
               /\ Now(now.op, "fillOpen", now.prev, now.todo, now.started)
            \/ /\ now.op = "SeekTo"
               /\ queue' = {}
               /\ Now(now.op, "seek", now.prev, now.todo, now.started)
            \/ /\ now.op = "Stop"
               /\ queue' = {}
               /\ Now(now.op, "takeReplay", now.prev, now.todo, now.started)
  BY Client, ClearQueueDoes, NowBecomes

\* The reader is moved, or the seek fails.
LEMMA SeekFileNow ==
  ASSUME OneClient, TypeOK, Control, SeekFile(client)
  PROVE  /\ now.pc = "seek"
         /\ UNCHANGED <<timelinePaused, writing, capturing, activeRecord, reading, fileLen, replaying,
                        activeReplay, targets, status, loop, running, thread, stopped, openedOver>>
         /\ \/ \E t \in 0 .. fileLen + 1 : 
                  /\ SeekMaySucceed
                  /\ readPos' = SeekPosition(t)
                  /\ queue' = {Stale(e) : e \in queue}
                  /\ inflight' = (IF inflight = NoPacket THEN NoPacket ELSE Stale(inflight))
                  /\ UNCHANGED <<state, seekFailed>>
                  /\ Now(now.op, "fillSeek", now.prev, now.todo, now.started)
            \/ /\ SeekMayFail
               /\ TryTransition(IF now.prev = "PlaybackPaused" THEN "PlaybackPaused" ELSE "Playing")
               /\ readPos' \in WhereSeekFails /\ seekFailed' = TRUE
               /\ UNCHANGED <<queue, inflight>>
               /\ Now("none", "idle", "Idle", {}, {})
  BY Client, SeekFileDoes, NowBecomes

\* The packets from the new position on are queued.
LEMMA FillAfterSeekNow ==
  ASSUME OneClient, TypeOK, Control, FillAfterSeek(client)
  PROVE  /\ now.pc = "fillSeek"
         /\ UNCHANGED <<state, timelinePaused, writing, capturing, activeRecord, reading, fileLen,
                        replaying, activeReplay, targets, status, loop, running, inflight, stopped,
                        openedOver, seekFailed>>
         /\ thread # "toWait"
         /\ thread' \in {thread, Notified}
         /\ \E k \in FillCounts(readPos) : 
              /\ ReadOn(readPos, k)
              /\ queue' = queue \cup Packets(readPos, k)
              /\ Now(now.op, "leaveSeeking", now.prev, now.todo, now.started)
  BY Client, FillAfterSeekDoes, NowBecomes

\* The seek ends in PlaybackPaused or as a Play.
LEMMA LeaveSeekingNow ==
  ASSUME OneClient, TypeOK, Control, LeaveSeeking(client)
  PROVE  /\ now.pc = "leaveSeeking"
         /\ UNCHANGED <<timelinePaused, writing, capturing, activeRecord, reading, fileLen, readPos,
                        replaying, activeReplay, targets, status, loop, running, thread, queue,
                        inflight, stopped, openedOver, seekFailed>>
         /\ \/ /\ now.prev = "PlaybackPaused"
               /\ TryTransition("PlaybackPaused")
               /\ Now("none", "idle", "Idle", {}, {})
            \/ /\ now.prev # "PlaybackPaused"
               /\ UNCHANGED state
               /\ Now("Play", "play", now.prev, now.todo, now.started)
  BY Client, LeaveSeekingDoes, NowBecomes

\* The list of replays is taken.
LEMMA TakeReplayNow ==
  ASSUME OneClient, TypeOK, Control, TakeReplay(client)
  PROVE  /\ now.pc = "takeReplay"
         /\ UNCHANGED <<state, timelinePaused, writing, capturing, activeRecord, reading, fileLen,
                        readPos, replaying, targets, loop, running, thread, queue, inflight, stopped,
                        openedOver, seekFailed>>
         /\ activeReplay' = {}
         /\ status' = Status(targets, {}, {})
         /\ Now(now.op, "stopReplay", now.prev, activeReplay, now.started)
  BY Client, TakeReplayDoes, NowBecomes

\* The next replay is stopped, or was the last.
LEMMA StopReplayNow ==
  ASSUME OneClient, TypeOK, Control, StopReplay(client)
  PROVE  /\ now.pc = "stopReplay"
         /\ UNCHANGED <<state, timelinePaused, writing, capturing, activeRecord, reading, fileLen,
                        readPos, activeReplay, targets, status, loop, running, thread, queue, inflight,
                        stopped, openedOver, seekFailed>>
         /\ \/ \E p \in now.todo : 
                  /\ replaying' = replaying \ {p}
                  /\ Now(now.op, now.pc, now.prev, now.todo \ {p}, now.started)
            \/ /\ now.todo = {}
               /\ UNCHANGED replaying
               /\ Now(now.op, "close", now.prev, now.todo, now.started)
  BY Client, StopReplayDoes, NowBecomes

\* The file is closed.
LEMMA CloseFileNow ==
  ASSUME OneClient, TypeOK, Control, CloseFile(client)
  PROVE  /\ now.pc = "close"
         /\ UNCHANGED <<state, timelinePaused, writing, capturing, activeRecord, fileLen, readPos,
                        replaying, activeReplay, targets, status, loop, running, thread, queue,
                        inflight, stopped, openedOver, seekFailed>>
         /\ \/ /\ now.op = "OpenForPlayback"
               /\ reading' = FALSE
               /\ Now("none", "idle", "Idle", {}, {})
            \/ /\ now.op # "OpenForPlayback"
               /\ now.prev = "Seeking"
               /\ reading' = FALSE
               /\ Now(now.op, "leaveSeekState", now.prev, now.todo, now.started)
            \/ /\ now.op # "OpenForPlayback"
               /\ now.prev # "Seeking"
               /\ reading' = FALSE
               /\ Now(now.op, "leavePlayback", now.prev, now.todo, now.started)
  BY Client, CloseFileDoes, NowBecomes

\* Stop passes through PlaybackPaused.
LEMMA LeaveSeekStateNow ==
  ASSUME OneClient, TypeOK, Control, LeaveSeekState(client)
  PROVE  /\ now.pc = "leaveSeekState"
         /\ UNCHANGED <<timelinePaused, writing, capturing, activeRecord, reading, fileLen, readPos,
                        replaying, activeReplay, targets, status, loop, running, thread, queue,
                        inflight, stopped, openedOver, seekFailed>>
         /\ \/ /\ IsValidTransition(state, "PlaybackPaused")
               /\ state' = "PlaybackPaused"
               /\ Now(now.op, "leavePlayback", now.prev, now.todo, now.started)
            \/ /\ ~IsValidTransition(state, "PlaybackPaused")
               /\ UNCHANGED state
               /\ Now(now.op, "leavePlayback", now.prev, now.todo, now.started)
  BY Client, LeaveSeekStateDoes, NowBecomes

\* Stop ends in Stopped.
LEMMA LeavePlaybackNow ==
  ASSUME OneClient, TypeOK, Control, LeavePlayback(client)
  PROVE  /\ now.pc = "leavePlayback"
         /\ UNCHANGED <<timelinePaused, writing, capturing, activeRecord, reading, fileLen, readPos,
                        replaying, activeReplay, targets, status, loop, running, thread, queue,
                        inflight, openedOver, seekFailed>>
         /\ \/ /\ IsValidTransition(state, "Stopped")
               /\ state' = "Stopped"
               /\ stopped' = TRUE
               /\ Now("none", "idle", "Idle", {}, {})
            \/ /\ ~IsValidTransition(state, "Stopped")
               /\ stopped' = TRUE
               /\ UNCHANGED state
               /\ Now("none", "idle", "Idle", {}, {})
  BY Client, LeavePlaybackDoes, NowBecomes

\* The loop range is set.
LEMMA SetLoopRangeNow ==
  ASSUME OneClient, TypeOK, Control, SetLoopRange(client)
  PROVE  /\ now.pc = "idle"
         /\ UNCHANGED <<state, timelinePaused, writing, capturing, activeRecord, reading, fileLen,
                        readPos, replaying, activeReplay, targets, status, running, thread, queue,
                        inflight, stopped, openedOver, seekFailed>>
         /\ loop' \in LoopRanges
         /\ UNCHANGED now
  BY Client, SetLoopRangeDoes DEF now

\* The replay targets are set.
LEMMA SetReplayTargetsNow ==
  ASSUME OneClient, TypeOK, Control, SetReplayTargets(client)
  PROVE  /\ now.pc = "idle"
         /\ UNCHANGED <<state, timelinePaused, writing, capturing, activeRecord, reading, fileLen,
                        readPos, replaying, activeReplay, loop, running, thread, queue, inflight,
                        stopped, openedOver, seekFailed>>
         /\ targets' \in SUBSET Protocols
         /\ status' = Status(targets', activeReplay, {})
         /\ UNCHANGED now
  BY Client, SetReplayTargetsDoes DEF now

\* Every step of the call keeps what the targets show.
LEMMA ShownKept ==
  ASSUME OneClient, TypeOK, Control, Shown, Begin(client) \/ Continue(client)
  PROVE  Shown'
<1>1. client \in Callers /\ call[client] = now /\ StepOf(now.op, now.pc) /\ now.todo \in SUBSET Protocols
      /\ (now.pc = "idle" => now.op = "none") /\ state \in SessionState
  BY Client DEF TypeOK
<1>2. CASE CallStartRecording(client)
  BY <1>1, <1>2, CallStartRecordingNow DEF Shown, Now
<1>3. CASE CreateFile(client)
  BY <1>1, <1>3, CreateFileNow DEF Shown, Now, StepOf
<1>4. CASE StartCapture(client)
  BY <1>1, <1>4, StartCaptureNow DEF Shown, Now, StepOf
<1>5. CASE EnterRecording(client)
  BY <1>1, <1>5, EnterRecordingNow DEF Shown, Now, TryTransition, IsValidTransition, Successors, StepOf
<1>6. CASE CommitRecord(client)
  BY <1>1, <1>6, CommitRecordNow DEF Shown, Now, StepOf
<1>7. CASE UndoCapture(client)
  BY <1>1, <1>7, UndoCaptureNow DEF Shown, Now, StepOf
<1>8. CASE FinalizeFailedRecording(client)
  BY <1>1, <1>8, FinalizeFailedRecordingNow DEF Shown, Now, StepOf
<1>9. CASE PauseRecording(client)
  BY <1>1, <1>9, PauseRecordingNow DEF Shown
<1>10. CASE ResumeRecording(client)
  BY <1>1, <1>10, ResumeRecordingNow DEF Shown
<1>11. CASE CallStopRecording(client)
  BY <1>1, <1>11, CallStopRecordingNow DEF Shown, Now
<1>12. CASE StopCapture(client)
  BY <1>1, <1>12, StopCaptureNow DEF Shown, Now, StepOf
<1>13. CASE FinalizeRecording(client)
  BY <1>1, <1>13, FinalizeRecordingNow DEF Shown, Now, StepOf
<1>14. CASE LeaveRecording(client)
  BY <1>1, <1>14, LeaveRecordingNow DEF Shown, Now, TryTransition, IsValidTransition, Successors, StepOf
<1>15. CASE CallOpenForPlayback(client)
  BY <1>1, <1>15, CallOpenForPlaybackNow DEF Shown, Now
<1>16. CASE OpenFile(client)
  <2>1. UNCHANGED <<targets, status, activeReplay, replaying>> /\ now.pc = "open"
    BY <1>16, OpenFileNow
  <2>2. now'.pc = "idle" \/ (now'.pc = "replay" /\ now'.started = now.started)
    BY <1>16, OpenFileNow DEF Now
  <2>3. QED
    BY <2>1, <2>2 DEF Shown
<1>17. CASE StartReplay(client)
  BY <1>1, <1>17, StartReplayNow DEF Shown, Now, StepOf
<1>18. CASE UndoReplay(client)
  BY <1>1, <1>18, UndoReplayNow DEF Shown, Now, StepOf
<1>19. CASE AbandonOpen(client)
  <2>1. PICK active, failing : active = {} /\ failing = now.todo
    OBVIOUS
  <2>2. status' = Status(targets, active, failing) /\ targets' = targets /\ active \subseteq activeReplay'
    BY <1>1, <1>19, <2>1, AbandonOpenNow
  <2>3. \A p \in targets' : status'[p] = "active" => p \in activeReplay'
    BY ONLY <2>2, StatusTypes
  <2>4. /\ now'.pc \notin {"undoReplay", "abandonOpen"} => activeReplay' \subseteq replaying'
        /\ now'.pc \in {"open", "replay", "commitReplay"} => now'.started \subseteq replaying'
        /\ now'.pc = "stopReplay" => activeReplay' = {}
    BY <1>1, <1>19, AbandonOpenNow DEF Shown, Now, StepOf
  <2>5. QED
    BY <2>3, <2>4 DEF Shown
<1>20. CASE CommitReplay(client)
  <2>1. PICK active, failing : active = now.started /\ failing = {}
    OBVIOUS
  <2>2. status' = Status(targets, active, failing) /\ targets' = targets /\ active \subseteq activeReplay'
    BY <1>1, <1>20, <2>1, CommitReplayNow
  <2>3. \A p \in targets' : status'[p] = "active" => p \in activeReplay'
    BY ONLY <2>2, StatusTypes
  <2>4. /\ now'.pc \notin {"undoReplay", "abandonOpen"} => activeReplay' \subseteq replaying'
        /\ now'.pc \in {"open", "replay", "commitReplay"} => now'.started \subseteq replaying'
        /\ now'.pc = "stopReplay" => activeReplay' = {}
    BY <1>1, <1>20, CommitReplayNow DEF Shown, Now, StepOf
  <2>5. QED
    BY <2>3, <2>4 DEF Shown
<1>21. CASE FillAfterOpen(client)
  BY <1>1, <1>21, FillAfterOpenNow DEF Shown, Now, StepOf
<1>22. CASE Stage(client)
  BY <1>1, <1>22, StageNow DEF Shown, Now, TryTransition, IsValidTransition, Successors, StepOf
<1>23. CASE CallPlay(client)
  BY <1>1, <1>23, CallPlayNow DEF Shown, Now
<1>24. CASE StartTimeline(client)
  BY <1>1, <1>24, StartTimelineNow DEF Shown, Now, StepOf
<1>25. CASE CallPause(client)
  BY <1>1, <1>25, CallPauseNow DEF Shown, Now
<1>26. CASE CallSeekTo(client)
  BY <1>1, <1>26, CallSeekToNow DEF Shown, Now
<1>27. CASE EnterSeeking(client)
  BY <1>1, <1>27, EnterSeekingNow DEF Shown, Now, TryTransition, IsValidTransition, Successors, StepOf
<1>28. CASE CallStop(client)
  BY <1>1, <1>28, CallStopNow DEF Shown, Now
<1>29. CASE Halt(client)
  BY <1>1, <1>29, HaltNow DEF Shown, Now, StepOf
<1>30. CASE Join(client)
  BY <1>1, <1>30, JoinNow DEF Shown, Now, StepOf
<1>31. CASE Spawn(client)
  BY <1>1, <1>31, SpawnNow DEF Shown, Now, StepOf
<1>32. CASE EnterPlaying(client)
  BY <1>1, <1>32, EnterPlayingNow DEF Shown, Now, TryTransition, IsValidTransition, Successors, StepOf
<1>33. CASE EnterPaused(client)
  BY <1>1, <1>33, EnterPausedNow DEF Shown, Now, TryTransition, IsValidTransition, Successors, StepOf
<1>34. CASE ClearQueue(client)
  BY <1>1, <1>34, ClearQueueNow DEF Shown, Now, StepOf
<1>35. CASE SeekFile(client)
  BY <1>1, <1>35, SeekFileNow DEF Shown, Now, TryTransition, IsValidTransition, Successors, StepOf
<1>36. CASE FillAfterSeek(client)
  BY <1>1, <1>36, FillAfterSeekNow DEF Shown, Now, StepOf
<1>37. CASE LeaveSeeking(client)
  BY <1>1, <1>37, LeaveSeekingNow DEF Shown, Now, TryTransition, IsValidTransition, Successors, StepOf
<1>38. CASE TakeReplay(client)
  <2>1. PICK active, failing : active = {} /\ failing = {}
    OBVIOUS
  <2>2. status' = Status(targets, active, failing) /\ targets' = targets /\ active \subseteq activeReplay'
    BY <1>1, <1>38, <2>1, TakeReplayNow
  <2>3. \A p \in targets' : status'[p] = "active" => p \in activeReplay'
    BY ONLY <2>2, StatusTypes
  <2>4. /\ now'.pc \notin {"undoReplay", "abandonOpen"} => activeReplay' \subseteq replaying'
        /\ now'.pc \in {"open", "replay", "commitReplay"} => now'.started \subseteq replaying'
        /\ now'.pc = "stopReplay" => activeReplay' = {}
    BY <1>1, <1>38, TakeReplayNow DEF Shown, Now, StepOf
  <2>5. QED
    BY <2>3, <2>4 DEF Shown
<1>39. CASE StopReplay(client)
  BY <1>1, <1>39, StopReplayNow DEF Shown, Now, StepOf
<1>40. CASE CloseFile(client)
  BY <1>1, <1>40, CloseFileNow DEF Shown, Now, StepOf
<1>41. CASE LeaveSeekState(client)
  BY <1>1, <1>41, LeaveSeekStateNow DEF Shown, Now, TryTransition, IsValidTransition, Successors, StepOf
<1>42. CASE LeavePlayback(client)
  BY <1>1, <1>42, LeavePlaybackNow DEF Shown, Now, TryTransition, IsValidTransition, Successors, StepOf
<1>43. CASE SetLoopRange(client)
  BY <1>1, <1>43, SetLoopRangeNow DEF Shown
<1>44. CASE SetReplayTargets(client)
  <2>1. PICK active, failing : active = activeReplay /\ failing = {}
    OBVIOUS
  <2>2. status' = Status(targets', active, failing) /\ targets' = targets' /\ active \subseteq activeReplay'
    BY <1>1, <1>44, <2>1, SetReplayTargetsNow
  <2>3. \A p \in targets' : status'[p] = "active" => p \in activeReplay'
    BY ONLY <2>2, StatusTypes
  <2>4. /\ now'.pc \notin {"undoReplay", "abandonOpen"} => activeReplay' \subseteq replaying'
        /\ now'.pc \in {"open", "replay", "commitReplay"} => now'.started \subseteq replaying'
        /\ now'.pc = "stopReplay" => activeReplay' = {}
    BY <1>1, <1>44, SetReplayTargetsNow DEF Shown, Now, StepOf
  <2>5. QED
    BY <2>3, <2>4 DEF Shown
<1>45. QED
  BY <1>2, <1>3, <1>4, <1>5, <1>6, <1>7, <1>8, <1>9, <1>10, <1>11, <1>12, <1>13, <1>14, <1>15, <1>16, <1>17,
     <1>18, <1>19, <1>20, <1>21, <1>22, <1>23, <1>24, <1>25, <1>26, <1>27, <1>28, <1>29, <1>30, <1>31, <1>32,
     <1>33, <1>34, <1>35, <1>36, <1>37, <1>38, <1>39, <1>40, <1>41, <1>42, <1>43, <1>44 DEF Begin, Continue


\* Every step of the call keeps what runs of a recording.
LEMMA RecordKept ==
  ASSUME OneClient, TypeOK, Control, UiOffers, Rest, Begin(client) \/ Continue(client)
  PROVE  Record'
<1>1. client \in Callers /\ call[client] = now /\ StepOf(now.op, now.pc) /\ now.todo \in SUBSET Protocols
      /\ (now.pc = "idle" => now.op = "none") /\ state \in SessionState
  BY Client DEF TypeOK
<1>2. CASE CallStartRecording(client)
  <2>1. /\ now'.op = "StartRecording" /\ now'.pc = "create" /\ now'.todo = {} /\ now'.started = {}
    BY <1>2, CallStartRecordingNow DEF Now
  <2>2. /\ now.pc = "idle"
        /\ <<client, "StartRecording", state>> \in Offered
        /\ Protocols # {}
        /\ UNCHANGED <<state, writing, capturing, activeRecord, openedOver>>
    BY <1>2, CallStartRecordingNow
  <2>3. QED
    BY <1>1, <2>1, <2>2 DEF Record, Recorded, Overrun, RecordingLive, RecordingStates, PlaybackStates,
       Rest, StepOf, UiOffers
<1>3. CASE CreateFile(client)
  <2>1. \/ \E request \in RecordRequests :
             /\ writing' = TRUE
             /\ now'.op = now.op /\ now'.pc = "capture" /\ now'.todo = request /\ now'.started = now.started
        \/ /\ writing' = FALSE
           /\ now'.op = "none" /\ now'.pc = "idle" /\ now'.todo = {} /\ now'.started = {}
    BY <1>3, CreateFileNow DEF Now
  <2>2. /\ now.pc = "create"
        /\ UNCHANGED <<state, capturing, activeRecord, openedOver>>
    BY <1>3, CreateFileNow
  <2>3. QED
    BY <1>1, <2>1, <2>2, Requests DEF Record, Recorded, Overrun, RecordingLive, RecordingStates,
       PlaybackStates, Rest, StepOf
<1>4. CASE StartCapture(client)
  BY <1>1, <1>4, StartCaptureNow DEF Record, Recorded, Overrun, RecordingLive, RecordingStates,
     PlaybackStates, Rest, Now, StepOf
<1>5. CASE EnterRecording(client)
  <2>1. /\ now.pc = "enterRecording" /\ now.op = "StartRecording"
        /\ UNCHANGED <<writing, capturing, activeRecord, openedOver>>
        /\ now'.op = now.op /\ now'.todo = now.todo /\ now'.started = now.started
    BY <1>1, <1>5, EnterRecordingNow DEF Now, StepOf
  <2>2. CASE "recording" \in openedOver
    <3>1. Overrun /\ state \in SessionState \ ({"Idle"} \cup RecordingStates)
      BY <1>1, <2>2 DEF Rest, Record, Overrun
    <3>2. ~IsValidTransition(state, "Recording")
      BY <3>1 DEF IsValidTransition, Successors, SessionState, RecordingStates
    <3>3. state' = state /\ now'.pc = "undoCapture"
      BY <3>2, <1>5, EnterRecordingNow DEF Now
    <3>4. QED
      BY <2>1, <2>2, <3>1, <3>3 DEF Record, Overrun
  <2>3. CASE "recording" \notin openedOver
    <3>1. Recorded /\ state \notin RecordingStates /\ writing /\ activeRecord = {}
      BY <2>1, <2>3 DEF Rest, Record, Recorded
    <3>2. CASE state' = "Recording" /\ now'.pc = "commitRecord"
      BY <2>1, <2>3, <3>1, <3>2 DEF Record, Recorded, RecordingStates
    <3>3. CASE state' = state /\ now'.pc = "undoCapture"
      BY <2>1, <2>3, <3>1, <3>3 DEF Record, Recorded
    <3>4. QED
      BY <1>5, <3>2, <3>3, EnterRecordingNow DEF Now
  <2>4. QED
    BY <2>2, <2>3
<1>6. CASE CommitRecord(client)
  BY <1>1, <1>6, CommitRecordNow DEF Record, Recorded, Overrun, RecordingLive, RecordingStates,
     PlaybackStates, Rest, Now, StepOf
<1>7. CASE UndoCapture(client)
  BY <1>1, <1>7, UndoCaptureNow DEF Record, Recorded, Overrun, RecordingLive, RecordingStates,
     PlaybackStates, Rest, Now, StepOf
<1>8. CASE FinalizeFailedRecording(client)
  BY <1>1, <1>8, FinalizeFailedRecordingNow DEF Record, Recorded, Overrun, RecordingLive, RecordingStates,
     PlaybackStates, Rest, Now, StepOf
<1>9. CASE PauseRecording(client)
  BY <1>1, <1>9, PauseRecordingNow DEF Record, Recorded, Overrun, RecordingLive, RecordingStates,
     PlaybackStates, Rest, TryTransition, IsValidTransition, Successors
<1>10. CASE ResumeRecording(client)
  BY <1>1, <1>10, ResumeRecordingNow DEF Record, Recorded, Overrun, RecordingLive, RecordingStates,
     PlaybackStates, Rest, TryTransition, IsValidTransition, Successors
<1>11. CASE CallStopRecording(client)
  <2>1. /\ now'.op = "StopRecording" /\ now'.pc = "stopCapture" /\ now'.todo = activeRecord /\ now'.started = {}
    BY <1>11, CallStopRecordingNow DEF Now
  <2>2. /\ now.pc = "idle"
        /\ <<client, "StopRecording", state>> \in Offered
        /\ UNCHANGED <<state, writing, capturing, openedOver>>
        /\ activeRecord' = {}
    BY <1>11, CallStopRecordingNow
  <2>3. QED
    BY <1>1, <2>1, <2>2 DEF Record, Recorded, Overrun, RecordingLive, RecordingStates, PlaybackStates,
       Rest, StepOf, UiOffers
<1>12. CASE StopCapture(client)
  BY <1>1, <1>12, StopCaptureNow DEF Record, Recorded, Overrun, RecordingLive, RecordingStates,
     PlaybackStates, Rest, Now, StepOf
<1>13. CASE FinalizeRecording(client)
  BY <1>1, <1>13, FinalizeRecordingNow DEF Record, Recorded, Overrun, RecordingLive, RecordingStates,
     PlaybackStates, Rest, Now, StepOf
<1>14. CASE LeaveRecording(client)
  BY <1>1, <1>14, LeaveRecordingNow DEF Record, Recorded, Overrun, RecordingLive, RecordingStates,
     PlaybackStates, Rest, Now, StepOf, TryTransition, IsValidTransition, Successors
<1>15. CASE CallOpenForPlayback(client)
  BY <1>1, <1>15, CallOpenForPlaybackNow DEF Record, Recorded, Overrun, RecordingLive, RecordingStates,
     PlaybackStates, Rest, Now
<1>16. CASE OpenFile(client)
  <2>1. \/ \E recorded \in RecordedProtocols, inferred \in InferredProtocols :
             /\ now'.op = now.op /\ now'.pc = "replay"
             /\ now'.todo = ReplayProtocols(recorded, inferred) /\ now'.started = now.started
        \/ /\ now'.op = "none" /\ now'.pc = "idle" /\ now'.todo = {} /\ now'.started = {}
    BY <1>16, OpenFileNow DEF Now
  <2>2. /\ now.pc = "open"
        /\ UNCHANGED <<state, writing, capturing, activeRecord>>
        /\ openedOver' = (IF state = "Playing" THEN openedOver \cup {"playback"} ELSE openedOver)
    BY <1>16, OpenFileNow
  <2>3. QED
    BY <1>1, <2>1, <2>2 DEF Record, Recorded, Overrun, RecordingLive, RecordingStates, PlaybackStates,
       Rest, StepOf
<1>17. CASE StartReplay(client)
  BY <1>1, <1>17, StartReplayNow DEF Record, Recorded, Overrun, RecordingLive, RecordingStates,
     PlaybackStates, Rest, Now, StepOf
<1>18. CASE UndoReplay(client)
  BY <1>1, <1>18, UndoReplayNow DEF Record, Recorded, Overrun, RecordingLive, RecordingStates,
     PlaybackStates, Rest, Now, StepOf
<1>19. CASE AbandonOpen(client)
  BY <1>1, <1>19, AbandonOpenNow DEF Record, Recorded, Overrun, RecordingLive, RecordingStates,
     PlaybackStates, Rest, Now, StepOf
<1>20. CASE CommitReplay(client)
  BY <1>1, <1>20, CommitReplayNow DEF Record, Recorded, Overrun, RecordingLive, RecordingStates,
     PlaybackStates, Rest, Now, StepOf
<1>21. CASE FillAfterOpen(client)
  BY <1>1, <1>21, FillAfterOpenNow DEF Record, Recorded, Overrun, RecordingLive, RecordingStates,
     PlaybackStates, Rest, Now, StepOf
<1>22. CASE Stage(client)
  BY <1>1, <1>22, StageNow DEF Record, Recorded, Overrun, RecordingLive, RecordingStates, PlaybackStates,
     Rest, Now, StepOf, TryTransition, IsValidTransition, Successors
<1>23. CASE CallPlay(client)
  BY <1>1, <1>23, CallPlayNow DEF Record, Recorded, Overrun, RecordingLive, RecordingStates,
     PlaybackStates, Rest, Now
<1>24. CASE StartTimeline(client)
  <2>1. \/ /\ reading
           /\ now'.op = now.op /\ now'.pc = "halt" /\ now'.todo = now.todo /\ now'.started = now.started
        \/ /\ ~reading
           /\ now'.op = "none" /\ now'.pc = "idle" /\ now'.todo = {} /\ now'.started = {}
    BY <1>24, StartTimelineNow DEF Now
  <2>2. /\ now.pc = "play"
        /\ UNCHANGED <<state, writing, capturing, activeRecord, openedOver>>
    BY <1>24, StartTimelineNow
  <2>3. QED
    BY <1>1, <2>1, <2>2 DEF Record, Recorded, Overrun, RecordingLive, RecordingStates, PlaybackStates,
       Rest, StepOf
<1>25. CASE CallPause(client)
  BY <1>1, <1>25, CallPauseNow DEF Record, Recorded, Overrun, RecordingLive, RecordingStates,
     PlaybackStates, Rest, Now
<1>26. CASE CallSeekTo(client)
  BY <1>1, <1>26, CallSeekToNow DEF Record, Recorded, Overrun, RecordingLive, RecordingStates,
     PlaybackStates, Rest, Now
<1>27. CASE EnterSeeking(client)
  BY <1>1, <1>27, EnterSeekingNow DEF Record, Recorded, Overrun, RecordingLive, RecordingStates,
     PlaybackStates, Rest, Now, StepOf, TryTransition, IsValidTransition, Successors
<1>28. CASE CallStop(client)
  BY <1>1, <1>28, CallStopNow DEF Record, Recorded, Overrun, RecordingLive, RecordingStates,
     PlaybackStates, Rest, Now
<1>29. CASE Halt(client)
  BY <1>1, <1>29, HaltNow DEF Record, Recorded, Overrun, RecordingLive, RecordingStates, PlaybackStates,
     Rest, Now, StepOf
<1>30. CASE Join(client)
  BY <1>1, <1>30, JoinNow DEF Record, Recorded, Overrun, RecordingLive, RecordingStates, PlaybackStates,
     Rest, Now, StepOf
<1>31. CASE Spawn(client)
  BY <1>1, <1>31, SpawnNow DEF Record, Recorded, Overrun, RecordingLive, RecordingStates, PlaybackStates,
     Rest, Now, StepOf
<1>32. CASE EnterPlaying(client)
  BY <1>1, <1>32, EnterPlayingNow DEF Record, Recorded, Overrun, RecordingLive, RecordingStates,
     PlaybackStates, Rest, Now, StepOf, TryTransition, IsValidTransition, Successors
<1>33. CASE EnterPaused(client)
  BY <1>1, <1>33, EnterPausedNow DEF Record, Recorded, Overrun, RecordingLive, RecordingStates,
     PlaybackStates, Rest, Now, StepOf, TryTransition, IsValidTransition, Successors
<1>34. CASE ClearQueue(client)
  BY <1>1, <1>34, ClearQueueNow DEF Record, Recorded, Overrun, RecordingLive, RecordingStates,
     PlaybackStates, Rest, Now, StepOf
<1>35. CASE SeekFile(client)
  <2>1. \/ /\ SeekMaySucceed
           /\ UNCHANGED <<state>>
           /\ now'.op = now.op /\ now'.pc = "fillSeek" /\ now'.todo = now.todo /\ now'.started = now.started
        \/ /\ SeekMayFail
           /\ TryTransition(IF now.prev = "PlaybackPaused" THEN "PlaybackPaused" ELSE "Playing")
           /\ now'.op = "none" /\ now'.pc = "idle" /\ now'.todo = {} /\ now'.started = {}
    BY <1>35, SeekFileNow DEF Now
  <2>2. /\ now.pc = "seek"
        /\ UNCHANGED <<writing, capturing, activeRecord, openedOver>>
    BY <1>35, SeekFileNow
  <2>3. QED
    BY <1>1, <2>1, <2>2 DEF Record, Recorded, Overrun, RecordingLive, RecordingStates, PlaybackStates,
       Rest, StepOf, IsValidTransition, Successors, TryTransition, Playback
<1>36. CASE FillAfterSeek(client)
  BY <1>1, <1>36, FillAfterSeekNow DEF Record, Recorded, Overrun, RecordingLive, RecordingStates,
     PlaybackStates, Rest, Now, StepOf
<1>37. CASE LeaveSeeking(client)
  BY <1>1, <1>37, LeaveSeekingNow DEF Record, Recorded, Overrun, RecordingLive, RecordingStates,
     PlaybackStates, Rest, Now, StepOf, TryTransition, IsValidTransition, Successors
<1>38. CASE TakeReplay(client)
  BY <1>1, <1>38, TakeReplayNow DEF Record, Recorded, Overrun, RecordingLive, RecordingStates,
     PlaybackStates, Rest, Now, StepOf
<1>39. CASE StopReplay(client)
  BY <1>1, <1>39, StopReplayNow DEF Record, Recorded, Overrun, RecordingLive, RecordingStates,
     PlaybackStates, Rest, Now, StepOf
<1>40. CASE CloseFile(client)
  <2>1. \/ /\ now.op = "OpenForPlayback"
           /\ now'.op = "none" /\ now'.pc = "idle" /\ now'.todo = {} /\ now'.started = {}
        \/ /\ now.op # "OpenForPlayback"
           /\ now.prev = "Seeking"
           /\ now'.op = now.op /\ now'.pc = "leaveSeekState" /\ now'.todo = now.todo
           /\ now'.started = now.started
        \/ /\ now.op # "OpenForPlayback"
           /\ now.prev # "Seeking"
           /\ now'.op = now.op /\ now'.pc = "leavePlayback" /\ now'.todo = now.todo
           /\ now'.started = now.started
    BY <1>40, CloseFileNow DEF Now
  <2>2. /\ now.pc = "close"
        /\ UNCHANGED <<state, writing, capturing, activeRecord, openedOver>>
    BY <1>40, CloseFileNow
  <2>3. QED
    BY <1>1, <2>1, <2>2 DEF Record, Recorded, Overrun, RecordingLive, RecordingStates, PlaybackStates,
       Rest, StepOf
<1>41. CASE LeaveSeekState(client)
  BY <1>1, <1>41, LeaveSeekStateNow DEF Record, Recorded, Overrun, RecordingLive, RecordingStates,
     PlaybackStates, Rest, Now, StepOf, TryTransition, IsValidTransition, Successors
<1>42. CASE LeavePlayback(client)
  <2>1. \/ /\ IsValidTransition(state, "Stopped")
           /\ state' = "Stopped"
           /\ now'.op = "none" /\ now'.pc = "idle" /\ now'.todo = {} /\ now'.started = {}
        \/ /\ ~IsValidTransition(state, "Stopped")
           /\ state' = state
           /\ now'.op = "none" /\ now'.pc = "idle" /\ now'.todo = {} /\ now'.started = {}
    BY <1>42, LeavePlaybackNow DEF Now
  <2>2. /\ now.pc = "leavePlayback"
        /\ UNCHANGED <<writing, capturing, activeRecord, openedOver>>
    BY <1>42, LeavePlaybackNow
  <2>3. QED
    BY <1>1, <2>1, <2>2 DEF Record, Recorded, Overrun, RecordingLive, RecordingStates, PlaybackStates,
       Rest, StepOf, IsValidTransition, Successors, Playback
<1>43. CASE SetLoopRange(client)
  BY <1>1, <1>43, SetLoopRangeNow DEF Record, Recorded, Overrun, RecordingLive, RecordingStates,
     PlaybackStates, Rest
<1>44. CASE SetReplayTargets(client)
  BY <1>1, <1>44, SetReplayTargetsNow DEF Record, Recorded, Overrun, RecordingLive, RecordingStates,
     PlaybackStates, Rest
<1>45. QED
  BY <1>2, <1>3, <1>4, <1>5, <1>6, <1>7, <1>8, <1>9, <1>10, <1>11, <1>12, <1>13, <1>14, <1>15, <1>16,
     <1>17, <1>18, <1>19, <1>20, <1>21, <1>22, <1>23, <1>24, <1>25, <1>26, <1>27, <1>28, <1>29, <1>30,
     <1>31, <1>32, <1>33, <1>34, <1>35, <1>36, <1>37, <1>38, <1>39, <1>40, <1>41, <1>42, <1>43, <1>44 DEF
     Begin, Continue

\* Every step of the call keeps the scheduler thread to Playing.
LEMMA ThreadsKept ==
  ASSUME OneClient, TypeOK, Control, UiOffers, Rest, Begin(client) \/ Continue(client)
  PROVE  Threads'
<1>1. client \in Callers /\ call[client] = now /\ StepOf(now.op, now.pc) /\ now.todo \in SUBSET Protocols
      /\ (now.pc = "idle" => now.op = "none") /\ state \in SessionState
  BY Client DEF TypeOK
<1>2. CASE CallStartRecording(client)
  BY <1>1, <1>2, CallStartRecordingNow DEF Threads, Joined, Rest, Now
<1>3. CASE CreateFile(client)
  <2>1. \/ /\ now'.op = now.op /\ now'.pc = "capture"
        \/ /\ now'.op = "none" /\ now'.pc = "idle"
    BY <1>3, CreateFileNow DEF Now
  <2>2. /\ now.pc = "create"
        /\ UNCHANGED <<state, running, thread, openedOver>>
    BY <1>3, CreateFileNow
  <2>3. QED
    BY <1>1, <2>1, <2>2 DEF Threads, Joined, Rest, StepOf
<1>4. CASE StartCapture(client)
  BY <1>1, <1>4, StartCaptureNow DEF Threads, Joined, Rest, Now, StepOf
<1>5. CASE EnterRecording(client)
  BY <1>1, <1>5, EnterRecordingNow DEF Threads, Joined, Rest, Now, StepOf, TryTransition,
     IsValidTransition, Successors
<1>6. CASE CommitRecord(client)
  BY <1>1, <1>6, CommitRecordNow DEF Threads, Joined, Rest, Now, StepOf
<1>7. CASE UndoCapture(client)
  BY <1>1, <1>7, UndoCaptureNow DEF Threads, Joined, Rest, Now, StepOf
<1>8. CASE FinalizeFailedRecording(client)
  BY <1>1, <1>8, FinalizeFailedRecordingNow DEF Threads, Joined, Rest, Now, StepOf
<1>9. CASE PauseRecording(client)
  BY <1>1, <1>9, PauseRecordingNow DEF Threads, Joined, Rest, TryTransition, IsValidTransition, Successors
<1>10. CASE ResumeRecording(client)
  BY <1>1, <1>10, ResumeRecordingNow DEF Threads, Joined, Rest, TryTransition, IsValidTransition,
     Successors
<1>11. CASE CallStopRecording(client)
  BY <1>1, <1>11, CallStopRecordingNow DEF Threads, Joined, Rest, Now
<1>12. CASE StopCapture(client)
  BY <1>1, <1>12, StopCaptureNow DEF Threads, Joined, Rest, Now, StepOf
<1>13. CASE FinalizeRecording(client)
  BY <1>1, <1>13, FinalizeRecordingNow DEF Threads, Joined, Rest, Now, StepOf
<1>14. CASE LeaveRecording(client)
  <2>1. \/ /\ IsValidTransition(state, "Stopped")
           /\ state' = "Stopped"
           /\ now'.op = "none" /\ now'.pc = "idle"
        \/ /\ ~IsValidTransition(state, "Stopped")
           /\ state' = state
           /\ now'.op = "none" /\ now'.pc = "idle"
    BY <1>14, LeaveRecordingNow DEF Now
  <2>2. /\ now.pc = "leaveRecording"
        /\ UNCHANGED <<running, thread>>
        /\ openedOver' = openedOver \ {"recording"}
    BY <1>14, LeaveRecordingNow
  <2>3. QED
    BY <1>1, <2>1, <2>2 DEF Threads, Joined, Rest, StepOf, IsValidTransition, Successors, Record,
       PlaybackStates
<1>15. CASE CallOpenForPlayback(client)
  BY <1>1, <1>15, CallOpenForPlaybackNow DEF Threads, Joined, Rest, Now
<1>16. CASE OpenFile(client)
  <2>1. \/ /\ now'.op = now.op /\ now'.pc = "replay"
        \/ /\ now'.op = "none" /\ now'.pc = "idle"
    BY <1>16, OpenFileNow DEF Now
  <2>2. /\ now.pc = "open"
        /\ UNCHANGED <<state, running, thread>>
        /\ openedOver' = (IF state = "Playing" THEN openedOver \cup {"playback"} ELSE openedOver)
    BY <1>16, OpenFileNow
  <2>3. QED
    BY <1>1, <2>1, <2>2 DEF Threads, Joined, Rest, StepOf
<1>17. CASE StartReplay(client)
  BY <1>1, <1>17, StartReplayNow DEF Threads, Joined, Rest, Now, StepOf
<1>18. CASE UndoReplay(client)
  BY <1>1, <1>18, UndoReplayNow DEF Threads, Joined, Rest, Now, StepOf
<1>19. CASE AbandonOpen(client)
  BY <1>1, <1>19, AbandonOpenNow DEF Threads, Joined, Rest, Now, StepOf
<1>20. CASE CommitReplay(client)
  BY <1>1, <1>20, CommitReplayNow DEF Threads, Joined, Rest, Now, StepOf
<1>21. CASE FillAfterOpen(client)
  <2>1. \/ \E k \in FillCounts(readPos) :
             /\ ReadOn(readPos, k)
             /\ now'.op = now.op /\ now'.pc = "stage"
        \/ \E k \in FillCounts(readPos) :
             /\ ReadOn(readPos, k)
             /\ now'.op = now.op /\ now'.pc = "takeReplay"
    BY <1>21, FillAfterOpenNow DEF Now
  <2>2. /\ now.pc = "fillOpen"
        /\ UNCHANGED <<state, running, openedOver>>
        /\ thread # "toWait"
        /\ thread' \in {thread, Notified}
    BY <1>21, FillAfterOpenNow
  <2>3. QED
    BY <1>1, <2>1, <2>2, NotifiedThread DEF Threads, Joined, Rest, StepOf
<1>22. CASE Stage(client)
  <2>1. \/ /\ IsValidTransition(state, "Stopped")
           /\ state' = "Stopped"
           /\ now'.op = "none" /\ now'.pc = "idle"
        \/ /\ ~IsValidTransition(state, "Stopped")
           /\ state' = state
           /\ now'.op = "none" /\ now'.pc = "idle"
    BY <1>22, StageNow DEF Now
  <2>2. /\ now.pc = "stage"
        /\ UNCHANGED <<running, thread>>
        /\ openedOver' = (IF state \in RecordingStates THEN openedOver \cup {"recording"} ELSE openedOver)
    BY <1>22, StageNow
  <2>3. QED
    BY <1>1, <2>1, <2>2 DEF Threads, Joined, Rest, StepOf, IsValidTransition, Successors, Playback,
       PlaybackStates
<1>23. CASE CallPlay(client)
  BY <1>1, <1>23, CallPlayNow DEF Threads, Joined, Rest, Now
<1>24. CASE StartTimeline(client)
  <2>1. \/ /\ reading
           /\ now'.op = now.op /\ now'.pc = "halt"
        \/ /\ ~reading
           /\ now'.op = "none" /\ now'.pc = "idle"
    BY <1>24, StartTimelineNow DEF Now
  <2>2. /\ now.pc = "play"
        /\ UNCHANGED <<state, running, thread, openedOver>>
    BY <1>24, StartTimelineNow
  <2>3. QED
    BY <1>1, <2>1, <2>2 DEF Threads, Joined, Rest, StepOf
<1>25. CASE CallPause(client)
  BY <1>1, <1>25, CallPauseNow DEF Threads, Joined, Rest, Now
<1>26. CASE CallSeekTo(client)
  BY <1>1, <1>26, CallSeekToNow DEF Threads, Joined, Rest, Now
<1>27. CASE EnterSeeking(client)
  BY <1>1, <1>27, EnterSeekingNow DEF Threads, Joined, Rest, Now, StepOf, TryTransition,
     IsValidTransition, Successors
<1>28. CASE CallStop(client)
  BY <1>1, <1>28, CallStopNow DEF Threads, Joined, Rest, Now
<1>29. CASE Halt(client)
  BY <1>1, <1>29, HaltNow DEF Threads, Joined, Rest, Now, StepOf
<1>30. CASE Join(client)
  BY <1>1, <1>30, JoinNow DEF Threads, Joined, Rest, Now, StepOf
<1>31. CASE Spawn(client)
  BY <1>1, <1>31, SpawnNow DEF Threads, Joined, Rest, Now, StepOf
<1>32. CASE EnterPlaying(client)
  <2>1. \/ /\ IsValidTransition(state, "Playing")
           /\ state' = "Playing"
           /\ now'.op = "none" /\ now'.pc = "idle"
        \/ /\ ~IsValidTransition(state, "Playing")
           /\ state' = state
           /\ now'.op = "none" /\ now'.pc = "idle"
    BY <1>32, EnterPlayingNow DEF Now
  <2>2. /\ now.pc = "enterPlaying"
        /\ UNCHANGED <<running, thread, openedOver>>
    BY <1>32, EnterPlayingNow
  <2>3. QED
    BY <1>1, <2>1, <2>2 DEF Threads, Joined, Rest, StepOf, IsValidTransition, Successors, Playback,
       PlaybackStates
<1>33. CASE EnterPaused(client)
  BY <1>1, <1>33, EnterPausedNow DEF Threads, Joined, Rest, Now, StepOf, TryTransition, IsValidTransition,
     Successors
<1>34. CASE ClearQueue(client)
  <2>1. \/ /\ now.op = "OpenForPlayback"
           /\ now'.op = now.op /\ now'.pc = "fillOpen"
        \/ /\ now.op = "SeekTo"
           /\ now'.op = now.op /\ now'.pc = "seek"
        \/ /\ now.op = "Stop"
           /\ now'.op = now.op /\ now'.pc = "takeReplay"
    BY <1>34, ClearQueueNow DEF Now
  <2>2. /\ now.pc = "clear"
        /\ UNCHANGED <<state, running, openedOver>>
        /\ thread # "toWait"
        /\ thread' = Notified
    BY <1>34, ClearQueueNow
  <2>3. QED
    BY <1>1, <2>1, <2>2, NotifiedThread DEF Threads, Joined, Rest, StepOf
<1>35. CASE SeekFile(client)
  <2>1. \/ /\ SeekMaySucceed
           /\ UNCHANGED <<state>>
           /\ now'.op = now.op /\ now'.pc = "fillSeek"
        \/ /\ SeekMayFail
           /\ TryTransition(IF now.prev = "PlaybackPaused" THEN "PlaybackPaused" ELSE "Playing")
           /\ now'.op = "none" /\ now'.pc = "idle"
    BY <1>35, SeekFileNow DEF Now
  <2>2. /\ now.pc = "seek"
        /\ UNCHANGED <<running, thread, openedOver>>
    BY <1>35, SeekFileNow
  <2>3. QED
    BY <1>1, <2>1, <2>2 DEF Threads, Joined, Rest, StepOf, IsValidTransition, Successors, TryTransition,
       Playback, PlaybackStates
<1>36. CASE FillAfterSeek(client)
  <2>1. /\ \E k \in FillCounts(readPos) :
             /\ ReadOn(readPos, k)
             /\ now'.op = now.op /\ now'.pc = "leaveSeeking"
    BY <1>36, FillAfterSeekNow DEF Now
  <2>2. /\ now.pc = "fillSeek"
        /\ UNCHANGED <<state, running, openedOver>>
        /\ thread # "toWait"
        /\ thread' \in {thread, Notified}
    BY <1>36, FillAfterSeekNow
  <2>3. QED
    BY <1>1, <2>1, <2>2, NotifiedThread DEF Threads, Joined, Rest, StepOf
<1>37. CASE LeaveSeeking(client)
  BY <1>1, <1>37, LeaveSeekingNow DEF Threads, Joined, Rest, Now, StepOf, TryTransition,
     IsValidTransition, Successors
<1>38. CASE TakeReplay(client)
  BY <1>1, <1>38, TakeReplayNow DEF Threads, Joined, Rest, Now, StepOf
<1>39. CASE StopReplay(client)
  BY <1>1, <1>39, StopReplayNow DEF Threads, Joined, Rest, Now, StepOf
<1>40. CASE CloseFile(client)
  <2>1. \/ /\ now.op = "OpenForPlayback"
           /\ now'.op = "none" /\ now'.pc = "idle"
        \/ /\ now.op # "OpenForPlayback"
           /\ now.prev = "Seeking"
           /\ now'.op = now.op /\ now'.pc = "leaveSeekState"
        \/ /\ now.op # "OpenForPlayback"
           /\ now.prev # "Seeking"
           /\ now'.op = now.op /\ now'.pc = "leavePlayback"
    BY <1>40, CloseFileNow DEF Now
  <2>2. /\ now.pc = "close"
        /\ UNCHANGED <<state, running, thread, openedOver>>
    BY <1>40, CloseFileNow
  <2>3. QED
    BY <1>1, <2>1, <2>2 DEF Threads, Joined, Rest, StepOf
<1>41. CASE LeaveSeekState(client)
  BY <1>1, <1>41, LeaveSeekStateNow DEF Threads, Joined, Rest, Now, StepOf, TryTransition,
     IsValidTransition, Successors
<1>42. CASE LeavePlayback(client)
  <2>1. \/ /\ IsValidTransition(state, "Stopped")
           /\ state' = "Stopped"
           /\ now'.op = "none" /\ now'.pc = "idle"
        \/ /\ ~IsValidTransition(state, "Stopped")
           /\ state' = state
           /\ now'.op = "none" /\ now'.pc = "idle"
    BY <1>42, LeavePlaybackNow DEF Now
  <2>2. /\ now.pc = "leavePlayback"
        /\ UNCHANGED <<running, thread, openedOver>>
    BY <1>42, LeavePlaybackNow
  <2>3. QED
    BY <1>1, <2>1, <2>2 DEF Threads, Joined, Rest, StepOf, IsValidTransition, Successors, Playback,
       PlaybackStates
<1>43. CASE SetLoopRange(client)
  BY <1>1, <1>43, SetLoopRangeNow DEF Threads, Joined, Rest
<1>44. CASE SetReplayTargets(client)
  BY <1>1, <1>44, SetReplayTargetsNow DEF Threads, Joined, Rest
<1>45. QED
  BY <1>2, <1>3, <1>4, <1>5, <1>6, <1>7, <1>8, <1>9, <1>10, <1>11, <1>12, <1>13, <1>14, <1>15, <1>16,
     <1>17, <1>18, <1>19, <1>20, <1>21, <1>22, <1>23, <1>24, <1>25, <1>26, <1>27, <1>28, <1>29, <1>30,
     <1>31, <1>32, <1>33, <1>34, <1>35, <1>36, <1>37, <1>38, <1>39, <1>40, <1>41, <1>42, <1>43, <1>44 DEF
     Begin, Continue

\* Every step of the call keeps state, reader and timeline in step.
LEMMA PlaybackKept ==
  ASSUME OneClient, TypeOK, Control, UiOffers, Rest, Begin(client) \/ Continue(client)
  PROVE  Playback'
<1>1. client \in Callers /\ call[client] = now /\ StepOf(now.op, now.pc) /\ now.todo \in SUBSET Protocols
      /\ (now.pc = "idle" => now.op = "none") /\ state \in SessionState
  BY Client DEF TypeOK
<1>2. CASE CallStartRecording(client)
  BY <1>1, <1>2, CallStartRecordingNow DEF Playback, PlaybackStates, Rest, Now
<1>3. CASE CreateFile(client)
  <2>1. \/ /\ now'.op = now.op /\ now'.pc = "capture" /\ now'.prev = now.prev
        \/ /\ now'.op = "none" /\ now'.pc = "idle" /\ now'.prev = "Idle"
    BY <1>3, CreateFileNow DEF Now
  <2>2. /\ now.pc = "create"
        /\ UNCHANGED <<state, timelinePaused, reading, running, openedOver, seekFailed>>
    BY <1>3, CreateFileNow
  <2>3. QED
    BY <1>1, <2>1, <2>2 DEF Playback, PlaybackStates, Rest, StepOf
<1>4. CASE StartCapture(client)
  BY <1>1, <1>4, StartCaptureNow DEF Playback, PlaybackStates, Rest, Now, StepOf
<1>5. CASE EnterRecording(client)
  BY <1>1, <1>5, EnterRecordingNow DEF Playback, PlaybackStates, Rest, Now, StepOf, TryTransition,
     IsValidTransition, Successors
<1>6. CASE CommitRecord(client)
  BY <1>1, <1>6, CommitRecordNow DEF Playback, PlaybackStates, Rest, Now, StepOf
<1>7. CASE UndoCapture(client)
  BY <1>1, <1>7, UndoCaptureNow DEF Playback, PlaybackStates, Rest, Now, StepOf
<1>8. CASE FinalizeFailedRecording(client)
  BY <1>1, <1>8, FinalizeFailedRecordingNow DEF Playback, PlaybackStates, Rest, Now, StepOf
<1>9. CASE PauseRecording(client)
  BY <1>1, <1>9, PauseRecordingNow DEF Playback, PlaybackStates, Rest, TryTransition, IsValidTransition,
     Successors
<1>10. CASE ResumeRecording(client)
  BY <1>1, <1>10, ResumeRecordingNow DEF Playback, PlaybackStates, Rest, TryTransition, IsValidTransition,
     Successors
<1>11. CASE CallStopRecording(client)
  BY <1>1, <1>11, CallStopRecordingNow DEF Playback, PlaybackStates, Rest, Now
<1>12. CASE StopCapture(client)
  BY <1>1, <1>12, StopCaptureNow DEF Playback, PlaybackStates, Rest, Now, StepOf
<1>13. CASE FinalizeRecording(client)
  BY <1>1, <1>13, FinalizeRecordingNow DEF Playback, PlaybackStates, Rest, Now, StepOf
<1>14. CASE LeaveRecording(client)
  BY <1>1, <1>14, LeaveRecordingNow DEF Playback, PlaybackStates, Rest, Now, StepOf, TryTransition,
     IsValidTransition, Successors
<1>15. CASE CallOpenForPlayback(client)
  BY <1>1, <1>15, CallOpenForPlaybackNow DEF Playback, PlaybackStates, Rest, Now
<1>16. CASE OpenFile(client)
  <2>1. \/ /\ reading' = TRUE
           /\ now'.op = now.op /\ now'.pc = "replay" /\ now'.prev = now.prev
        \/ /\ reading' = FALSE
           /\ now'.op = "none" /\ now'.pc = "idle" /\ now'.prev = "Idle"
    BY <1>16, OpenFileNow DEF Now
  <2>2. /\ now.pc = "open"
        /\ UNCHANGED <<state, timelinePaused, running, seekFailed>>
        /\ openedOver' = (IF state = "Playing" THEN openedOver \cup {"playback"} ELSE openedOver)
    BY <1>16, OpenFileNow
  <2>3. QED
    BY <1>1, <2>1, <2>2 DEF Playback, PlaybackStates, Rest, StepOf, Threads, Joined
<1>17. CASE StartReplay(client)
  BY <1>1, <1>17, StartReplayNow DEF Playback, PlaybackStates, Rest, Now, StepOf
<1>18. CASE UndoReplay(client)
  BY <1>1, <1>18, UndoReplayNow DEF Playback, PlaybackStates, Rest, Now, StepOf
<1>19. CASE AbandonOpen(client)
  <2>1. /\ now'.op = "none" /\ now'.pc = "idle" /\ now'.prev = "Idle"
    BY <1>19, AbandonOpenNow DEF Now
  <2>2. /\ now.pc = "abandonOpen"
        /\ UNCHANGED <<state, timelinePaused, running, openedOver, seekFailed>>
        /\ reading' = FALSE
    BY <1>19, AbandonOpenNow
  <2>3. QED
    BY <1>1, <2>1, <2>2 DEF Playback, PlaybackStates, Rest, StepOf, Threads, Joined
<1>20. CASE CommitReplay(client)
  BY <1>1, <1>20, CommitReplayNow DEF Playback, PlaybackStates, Rest, Now, StepOf
<1>21. CASE FillAfterOpen(client)
  BY <1>1, <1>21, FillAfterOpenNow DEF Playback, PlaybackStates, Rest, Now, StepOf
<1>22. CASE Stage(client)
  <2>1. /\ now.pc = "stage" /\ now.op = "OpenForPlayback"
        /\ now'.op = "none" /\ now'.pc = "idle"
        /\ UNCHANGED <<timelinePaused, reading, running, seekFailed>>
        /\ "playback" \in openedOver => "playback" \in openedOver'
        /\ IF IsValidTransition(state, "Stopped") THEN state' = "Stopped" ELSE state' = state
    BY <1>1, <1>22, StageNow DEF Now, StepOf
  <2>2. state # "Seeking" /\ (state = "Playing" => "playback" \in openedOver /\ ~timelinePaused)
    BY <2>1 DEF Rest, Playback, Threads
  <2>3. state \in {"Idle", "Stopped"} \cup RecordingStates \cup PlaybackStates
    BY <1>1 DEF SessionState, RecordingStates, PlaybackStates
  <2>4. state' = "Stopped" \/ (state' = state /\ state \in {"Stopped", "Seeking"})
    BY <2>1, <2>3 DEF IsValidTransition, Successors, RecordingStates, PlaybackStates
  <2>5. QED
    BY <2>1, <2>2, <2>4 DEF Playback, PlaybackStates
<1>23. CASE CallPlay(client)
  BY <1>1, <1>23, CallPlayNow DEF Playback, PlaybackStates, Rest, Now
<1>24. CASE StartTimeline(client)
  <2>1. \/ /\ reading
           /\ timelinePaused' = FALSE
           /\ now'.op = now.op /\ now'.pc = "halt" /\ now'.prev = now.prev
        \/ /\ ~reading
           /\ timelinePaused' = timelinePaused
           /\ now'.op = "none" /\ now'.pc = "idle" /\ now'.prev = "Idle"
    BY <1>24, StartTimelineNow DEF Now
  <2>2. /\ now.pc = "play"
        /\ UNCHANGED <<state, reading, running, openedOver, seekFailed>>
    BY <1>24, StartTimelineNow
  <2>3. QED
    BY <1>1, <2>1, <2>2 DEF Playback, PlaybackStates, Rest, StepOf
<1>25. CASE CallPause(client)
  BY <1>1, <1>25, CallPauseNow DEF Playback, PlaybackStates, Rest, Now
<1>26. CASE CallSeekTo(client)
  BY <1>1, <1>26, CallSeekToNow DEF Playback, PlaybackStates, Rest, Now
<1>27. CASE EnterSeeking(client)
  BY <1>1, <1>27, EnterSeekingNow DEF Playback, PlaybackStates, Rest, Now, StepOf, TryTransition,
     IsValidTransition, Successors
<1>28. CASE CallStop(client)
  BY <1>1, <1>28, CallStopNow DEF Playback, PlaybackStates, Rest, Now
<1>29. CASE Halt(client)
  BY <1>1, <1>29, HaltNow DEF Playback, PlaybackStates, Rest, Now, StepOf
<1>30. CASE Join(client)
  BY <1>1, <1>30, JoinNow DEF Playback, PlaybackStates, Rest, Now, StepOf
<1>31. CASE Spawn(client)
  BY <1>1, <1>31, SpawnNow DEF Playback, PlaybackStates, Rest, Now, StepOf
<1>32. CASE EnterPlaying(client)
  <2>1. \/ /\ IsValidTransition(state, "Playing")
           /\ state' = "Playing"
           /\ now'.op = "none" /\ now'.pc = "idle" /\ now'.prev = "Idle"
        \/ /\ ~IsValidTransition(state, "Playing")
           /\ state' = state
           /\ now'.op = "none" /\ now'.pc = "idle" /\ now'.prev = "Idle"
    BY <1>32, EnterPlayingNow DEF Now
  <2>2. /\ now.pc = "enterPlaying"
        /\ UNCHANGED <<timelinePaused, reading, running, openedOver, seekFailed>>
    BY <1>32, EnterPlayingNow
  <2>3. QED
    BY <1>1, <2>1, <2>2 DEF Playback, PlaybackStates, Rest, StepOf, IsValidTransition, Successors,
       Threads, Joined
<1>33. CASE EnterPaused(client)
  BY <1>1, <1>33, EnterPausedNow DEF Playback, PlaybackStates, Rest, Now, StepOf, TryTransition,
     IsValidTransition, Successors
<1>34. CASE ClearQueue(client)
  BY <1>1, <1>34, ClearQueueNow DEF Playback, PlaybackStates, Rest, Now, StepOf
<1>35. CASE SeekFile(client)
  <2>1. \/ /\ SeekMaySucceed
           /\ UNCHANGED <<state, seekFailed>>
           /\ now'.op = now.op /\ now'.pc = "fillSeek" /\ now'.prev = now.prev
        \/ /\ SeekMayFail
           /\ TryTransition(IF now.prev = "PlaybackPaused" THEN "PlaybackPaused" ELSE "Playing")
           /\ readPos' \in WhereSeekFails /\ seekFailed' = TRUE
           /\ now'.op = "none" /\ now'.pc = "idle" /\ now'.prev = "Idle"
    BY <1>35, SeekFileNow DEF Now
  <2>2. /\ now.pc = "seek"
        /\ UNCHANGED <<timelinePaused, reading, running, openedOver>>
    BY <1>35, SeekFileNow
  <2>3. QED
    BY <1>1, <2>1, <2>2 DEF Playback, PlaybackStates, Rest, StepOf, IsValidTransition, Successors,
       TryTransition, Threads, Joined
<1>36. CASE FillAfterSeek(client)
  BY <1>1, <1>36, FillAfterSeekNow DEF Playback, PlaybackStates, Rest, Now, StepOf
<1>37. CASE LeaveSeeking(client)
  BY <1>1, <1>37, LeaveSeekingNow DEF Playback, PlaybackStates, Rest, Now, StepOf, TryTransition,
     IsValidTransition, Successors
<1>38. CASE TakeReplay(client)
  BY <1>1, <1>38, TakeReplayNow DEF Playback, PlaybackStates, Rest, Now, StepOf
<1>39. CASE StopReplay(client)
  BY <1>1, <1>39, StopReplayNow DEF Playback, PlaybackStates, Rest, Now, StepOf
<1>40. CASE CloseFile(client)
  <2>1. \/ /\ now.op = "OpenForPlayback"
           /\ reading' = FALSE
           /\ now'.op = "none" /\ now'.pc = "idle" /\ now'.prev = "Idle"
        \/ /\ now.op # "OpenForPlayback"
           /\ now.prev = "Seeking"
           /\ reading' = FALSE
           /\ now'.op = now.op /\ now'.pc = "leaveSeekState" /\ now'.prev = now.prev
        \/ /\ now.op # "OpenForPlayback"
           /\ now.prev # "Seeking"
           /\ reading' = FALSE
           /\ now'.op = now.op /\ now'.pc = "leavePlayback" /\ now'.prev = now.prev
    BY <1>40, CloseFileNow DEF Now
  <2>2. /\ now.pc = "close"
        /\ UNCHANGED <<state, timelinePaused, running, openedOver, seekFailed>>
    BY <1>40, CloseFileNow
  <2>3. QED
    BY <1>1, <2>1, <2>2 DEF Playback, PlaybackStates, Rest, StepOf, Threads, Joined
<1>41. CASE LeaveSeekState(client)
  BY <1>1, <1>41, LeaveSeekStateNow DEF Playback, PlaybackStates, Rest, Now, StepOf, TryTransition,
     IsValidTransition, Successors
<1>42. CASE LeavePlayback(client)
  <2>1. \/ /\ IsValidTransition(state, "Stopped")
           /\ state' = "Stopped"
           /\ now'.op = "none" /\ now'.pc = "idle" /\ now'.prev = "Idle"
        \/ /\ ~IsValidTransition(state, "Stopped")
           /\ state' = state
           /\ now'.op = "none" /\ now'.pc = "idle" /\ now'.prev = "Idle"
    BY <1>42, LeavePlaybackNow DEF Now
  <2>2. /\ now.pc = "leavePlayback"
        /\ UNCHANGED <<timelinePaused, reading, running, openedOver, seekFailed>>
    BY <1>42, LeavePlaybackNow
  <2>3. QED
    BY <1>1, <2>1, <2>2 DEF Playback, PlaybackStates, Rest, StepOf, IsValidTransition, Successors,
       Threads, Joined
<1>43. CASE SetLoopRange(client)
  BY <1>1, <1>43, SetLoopRangeNow DEF Playback, PlaybackStates, Rest
<1>44. CASE SetReplayTargets(client)
  BY <1>1, <1>44, SetReplayTargetsNow DEF Playback, PlaybackStates, Rest
<1>45. QED
  BY <1>2, <1>3, <1>4, <1>5, <1>6, <1>7, <1>8, <1>9, <1>10, <1>11, <1>12, <1>13, <1>14, <1>15, <1>16,
     <1>17, <1>18, <1>19, <1>20, <1>21, <1>22, <1>23, <1>24, <1>25, <1>26, <1>27, <1>28, <1>29, <1>30,
     <1>31, <1>32, <1>33, <1>34, <1>35, <1>36, <1>37, <1>38, <1>39, <1>40, <1>41, <1>42, <1>43, <1>44 DEF
     Begin, Continue

\* Every step of the call keeps what is queued fresh.
LEMMA PacketedKept ==
  ASSUME OneClient, TypeOK, Control, UiOffers, Rest, Begin(client) \/ Continue(client)
  PROVE  Packeted'
<1>1. client \in Callers /\ call[client] = now /\ StepOf(now.op, now.pc) /\ now.todo \in SUBSET Protocols
      /\ (now.pc = "idle" => now.op = "none") /\ state \in SessionState
  BY Client DEF TypeOK
<1>2. CASE CallStartRecording(client)
  BY <1>1, <1>2, CallStartRecordingNow DEF Packeted, FreshQueue, Rest, Now
<1>3. CASE CreateFile(client)
  <2>1. \/ /\ now'.op = now.op /\ now'.pc = "capture"
        \/ /\ now'.op = "none" /\ now'.pc = "idle"
    BY <1>3, CreateFileNow DEF Now
  <2>2. /\ now.pc = "create"
        /\ UNCHANGED <<reading, activeReplay, thread, queue, inflight, openedOver>>
    BY <1>3, CreateFileNow
  <2>3. QED
    BY <1>1, <2>1, <2>2 DEF Packeted, FreshQueue, Rest, StepOf
<1>4. CASE StartCapture(client)
  BY <1>1, <1>4, StartCaptureNow DEF Packeted, FreshQueue, Rest, Now, StepOf
<1>5. CASE EnterRecording(client)
  BY <1>1, <1>5, EnterRecordingNow DEF Packeted, FreshQueue, Rest, Now, StepOf, TryTransition,
     IsValidTransition, Successors
<1>6. CASE CommitRecord(client)
  BY <1>1, <1>6, CommitRecordNow DEF Packeted, FreshQueue, Rest, Now, StepOf
<1>7. CASE UndoCapture(client)
  BY <1>1, <1>7, UndoCaptureNow DEF Packeted, FreshQueue, Rest, Now, StepOf
<1>8. CASE FinalizeFailedRecording(client)
  BY <1>1, <1>8, FinalizeFailedRecordingNow DEF Packeted, FreshQueue, Rest, Now, StepOf
<1>9. CASE PauseRecording(client)
  BY <1>1, <1>9, PauseRecordingNow DEF Packeted, FreshQueue, Rest, TryTransition, IsValidTransition,
     Successors
<1>10. CASE ResumeRecording(client)
  BY <1>1, <1>10, ResumeRecordingNow DEF Packeted, FreshQueue, Rest, TryTransition, IsValidTransition,
     Successors
<1>11. CASE CallStopRecording(client)
  BY <1>1, <1>11, CallStopRecordingNow DEF Packeted, FreshQueue, Rest, Now
<1>12. CASE StopCapture(client)
  BY <1>1, <1>12, StopCaptureNow DEF Packeted, FreshQueue, Rest, Now, StepOf
<1>13. CASE FinalizeRecording(client)
  BY <1>1, <1>13, FinalizeRecordingNow DEF Packeted, FreshQueue, Rest, Now, StepOf
<1>14. CASE LeaveRecording(client)
  BY <1>1, <1>14, LeaveRecordingNow DEF Packeted, FreshQueue, Rest, Now, StepOf, TryTransition,
     IsValidTransition, Successors
<1>15. CASE CallOpenForPlayback(client)
  BY <1>1, <1>15, CallOpenForPlaybackNow DEF Packeted, FreshQueue, Rest, Now
<1>16. CASE OpenFile(client)
  <2>1. \/ /\ reading' = TRUE
           /\ queue' = {Stale(e) : e \in queue}
           /\ inflight' = (IF inflight = NoPacket THEN NoPacket ELSE Stale(inflight))
           /\ now'.op = now.op /\ now'.pc = "replay"
        \/ /\ reading' = FALSE
           /\ queue' = {Stale(e) : e \in queue}
           /\ inflight' = (IF inflight = NoPacket THEN NoPacket ELSE Stale(inflight))
           /\ now'.op = "none" /\ now'.pc = "idle"
    BY <1>16, OpenFileNow DEF Now
  <2>2. /\ now.pc = "open"
        /\ UNCHANGED <<activeReplay, thread>>
        /\ openedOver' = (IF state = "Playing" THEN openedOver \cup {"playback"} ELSE openedOver)
    BY <1>16, OpenFileNow
  <2>3. QED
    BY <1>1, <2>1, <2>2, NoPacketType DEF Packeted, FreshQueue, Rest, StepOf, Threads, Joined, Playback
<1>17. CASE StartReplay(client)
  BY <1>1, <1>17, StartReplayNow DEF Packeted, FreshQueue, Rest, Now, StepOf
<1>18. CASE UndoReplay(client)
  BY <1>1, <1>18, UndoReplayNow DEF Packeted, FreshQueue, Rest, Now, StepOf
<1>19. CASE AbandonOpen(client)
  BY <1>1, <1>19, AbandonOpenNow DEF Packeted, FreshQueue, Rest, Now, StepOf
<1>20. CASE CommitReplay(client)
  BY <1>1, <1>20, CommitReplayNow DEF Packeted, FreshQueue, Rest, Now, StepOf
<1>21. CASE FillAfterOpen(client)
  <2>1. PICK k \in FillCounts(readPos) : queue' = queue \cup Packets(readPos, k)
    BY <1>21, FillAfterOpenNow
  <2>2. readPos \in 1 .. fileLen + 1
    BY DEF TypeOK
  <2>3. \A e \in Packets(readPos, k) : e.fresh
    BY <2>2, FillEnds
  <2>4. FreshQueue => FreshQueue'
    BY <2>1, <2>3 DEF FreshQueue
  <2>5. /\ now.pc = "fillOpen" /\ now.op = "OpenForPlayback" /\ now'.op = now.op
        /\ now'.pc \in {"stage", "takeReplay"}
        /\ UNCHANGED <<reading, activeReplay, inflight, openedOver>>
        /\ thread # "toWait" /\ thread' \in {thread, Notified}
    BY <1>1, <1>21, FillAfterOpenNow DEF Now, StepOf
  <2>6. FreshQueue
    BY <2>5 DEF Rest, Packeted
  <2>7. QED
    BY <2>4, <2>5, <2>6, NotifiedThread DEF Rest, Packeted
<1>22. CASE Stage(client)
  BY <1>1, <1>22, StageNow DEF Packeted, FreshQueue, Rest, Now, StepOf, TryTransition, IsValidTransition,
     Successors
<1>23. CASE CallPlay(client)
  BY <1>1, <1>23, CallPlayNow DEF Packeted, FreshQueue, Rest, Now
<1>24. CASE StartTimeline(client)
  <2>1. \/ /\ reading
           /\ now'.op = now.op /\ now'.pc = "halt"
        \/ /\ ~reading
           /\ now'.op = "none" /\ now'.pc = "idle"
    BY <1>24, StartTimelineNow DEF Now
  <2>2. /\ now.pc = "play"
        /\ UNCHANGED <<reading, activeReplay, thread, queue, inflight, openedOver>>
    BY <1>24, StartTimelineNow
  <2>3. QED
    BY <1>1, <2>1, <2>2, NoPacketType DEF Packeted, FreshQueue, Rest, StepOf, Threads, Joined, Playback
<1>25. CASE CallPause(client)
  BY <1>1, <1>25, CallPauseNow DEF Packeted, FreshQueue, Rest, Now
<1>26. CASE CallSeekTo(client)
  BY <1>1, <1>26, CallSeekToNow DEF Packeted, FreshQueue, Rest, Now
<1>27. CASE EnterSeeking(client)
  BY <1>1, <1>27, EnterSeekingNow DEF Packeted, FreshQueue, Rest, Now, StepOf, TryTransition,
     IsValidTransition, Successors
<1>28. CASE CallStop(client)
  BY <1>1, <1>28, CallStopNow DEF Packeted, FreshQueue, Rest, Now
<1>29. CASE Halt(client)
  <2>1. /\ now'.op = now.op /\ now'.pc = "join"
    BY <1>29, HaltNow DEF Now
  <2>2. /\ now.pc = "halt"
        /\ UNCHANGED <<reading, activeReplay, queue, inflight, openedOver>>
        /\ thread' = Notified
    BY <1>29, HaltNow
  <2>3. QED
    BY <1>1, <2>1, <2>2, NotifiedThread DEF Packeted, FreshQueue, Rest, StepOf
<1>30. CASE Join(client)
  <2>1. \/ /\ now.op = "Play"
           /\ thread' = "none"
           /\ now'.op = now.op /\ now'.pc = "spawn"
        \/ /\ now.op = "Pause"
           /\ thread' = "none"
           /\ now'.op = now.op /\ now'.pc = "enterPaused"
        \/ /\ now.op = "SeekTo"
           /\ thread' = "none"
           /\ now'.op = now.op /\ now'.pc = "clear"
        \/ /\ now.op = "Stop"
           /\ thread' = "none"
           /\ now'.op = now.op /\ now'.pc = "clear"
    BY <1>30, JoinNow DEF Now
  <2>2. /\ now.pc = "join"
        /\ thread \in {"none", "exited"}
        /\ UNCHANGED <<reading, activeReplay, queue, inflight>>
        /\ openedOver' = openedOver \ {"playback"}
    BY <1>30, JoinNow
  <2>3. QED
    BY <1>1, <2>1, <2>2, NoPacketType DEF Packeted, FreshQueue, Rest, StepOf, Threads, Joined, Playback
<1>31. CASE Spawn(client)
  <2>1. /\ now'.op = now.op /\ now'.pc = "enterPlaying"
    BY <1>31, SpawnNow DEF Now
  <2>2. /\ now.pc = "spawn"
        /\ UNCHANGED <<reading, activeReplay, queue, inflight, openedOver>>
        /\ thread' = "loop"
    BY <1>31, SpawnNow
  <2>3. QED
    BY <1>1, <2>1, <2>2, NoPacketType DEF Packeted, FreshQueue, Rest, StepOf, Threads, Joined, Playback
<1>32. CASE EnterPlaying(client)
  BY <1>1, <1>32, EnterPlayingNow DEF Packeted, FreshQueue, Rest, Now, StepOf, TryTransition,
     IsValidTransition, Successors
<1>33. CASE EnterPaused(client)
  BY <1>1, <1>33, EnterPausedNow DEF Packeted, FreshQueue, Rest, Now, StepOf, TryTransition,
     IsValidTransition, Successors
<1>34. CASE ClearQueue(client)
  <2>1. \/ /\ now.op = "OpenForPlayback"
           /\ queue' = {}
           /\ now'.op = now.op /\ now'.pc = "fillOpen"
        \/ /\ now.op = "SeekTo"
           /\ queue' = {}
           /\ now'.op = now.op /\ now'.pc = "seek"
        \/ /\ now.op = "Stop"
           /\ queue' = {}
           /\ now'.op = now.op /\ now'.pc = "takeReplay"
    BY <1>34, ClearQueueNow DEF Now
  <2>2. /\ now.pc = "clear"
        /\ UNCHANGED <<reading, activeReplay, inflight, openedOver>>
        /\ thread # "toWait"
        /\ thread' = Notified
    BY <1>34, ClearQueueNow
  <2>3. QED
    BY <1>1, <2>1, <2>2, NotifiedThread, NoPacketType DEF Packeted, FreshQueue, Rest, StepOf
<1>35. CASE SeekFile(client)
  <2>1. \/ /\ SeekMaySucceed
           /\ queue' = {Stale(e) : e \in queue}
           /\ inflight' = (IF inflight = NoPacket THEN NoPacket ELSE Stale(inflight))
           /\ now'.op = now.op /\ now'.pc = "fillSeek"
        \/ /\ SeekMayFail
           /\ TryTransition(IF now.prev = "PlaybackPaused" THEN "PlaybackPaused" ELSE "Playing")
           /\ UNCHANGED <<queue, inflight>>
           /\ now'.op = "none" /\ now'.pc = "idle"
    BY <1>35, SeekFileNow DEF Now
  <2>2. /\ now.pc = "seek"
        /\ UNCHANGED <<reading, activeReplay, thread, openedOver>>
    BY <1>35, SeekFileNow
  <2>3. QED
    BY <1>1, <2>1, <2>2, NoPacketType DEF Packeted, FreshQueue, Rest, StepOf, IsValidTransition,
       Successors, TryTransition, Threads, Joined, Playback
<1>36. CASE FillAfterSeek(client)
  <2>1. PICK k \in FillCounts(readPos) : queue' = queue \cup Packets(readPos, k)
    BY <1>36, FillAfterSeekNow
  <2>2. readPos \in 1 .. fileLen + 1
    BY DEF TypeOK
  <2>3. \A e \in Packets(readPos, k) : e.fresh
    BY <2>2, FillEnds
  <2>4. FreshQueue => FreshQueue'
    BY <2>1, <2>3 DEF FreshQueue
  <2>5. /\ now.pc = "fillSeek" /\ now.op = "SeekTo" /\ now'.op = now.op /\ now'.pc = "leaveSeeking"
        /\ UNCHANGED <<reading, activeReplay, inflight, openedOver>>
        /\ thread # "toWait" /\ thread' \in {thread, Notified}
    BY <1>1, <1>36, FillAfterSeekNow DEF Now, StepOf
  <2>6. FreshQueue
    BY <2>5 DEF Rest, Packeted, FreshQueue
  <2>7. QED
    BY <2>4, <2>5, <2>6, NotifiedThread DEF Rest, Packeted
<1>37. CASE LeaveSeeking(client)
  BY <1>1, <1>37, LeaveSeekingNow DEF Packeted, FreshQueue, Rest, Now, StepOf, TryTransition,
     IsValidTransition, Successors
<1>38. CASE TakeReplay(client)
  BY <1>1, <1>38, TakeReplayNow DEF Packeted, FreshQueue, Rest, Now, StepOf
<1>39. CASE StopReplay(client)
  BY <1>1, <1>39, StopReplayNow DEF Packeted, FreshQueue, Rest, Now, StepOf
<1>40. CASE CloseFile(client)
  BY <1>1, <1>40, CloseFileNow DEF Packeted, FreshQueue, Rest, Now, StepOf
<1>41. CASE LeaveSeekState(client)
  <2>1. \/ /\ IsValidTransition(state, "PlaybackPaused")
           /\ now'.op = now.op /\ now'.pc = "leavePlayback"
        \/ /\ ~IsValidTransition(state, "PlaybackPaused")
           /\ now'.op = now.op /\ now'.pc = "leavePlayback"
    BY <1>41, LeaveSeekStateNow DEF Now
  <2>2. /\ now.pc = "leaveSeekState"
        /\ UNCHANGED <<reading, activeReplay, thread, queue, inflight, openedOver>>
    BY <1>41, LeaveSeekStateNow
  <2>3. QED
    BY <1>1, <2>1, <2>2, NoPacketType DEF Packeted, FreshQueue, Rest, StepOf, IsValidTransition,
       Successors, Threads, Joined, Playback
<1>42. CASE LeavePlayback(client)
  BY <1>1, <1>42, LeavePlaybackNow DEF Packeted, FreshQueue, Rest, Now, StepOf, TryTransition,
     IsValidTransition, Successors
<1>43. CASE SetLoopRange(client)
  BY <1>1, <1>43, SetLoopRangeNow DEF Packeted, FreshQueue, Rest
<1>44. CASE SetReplayTargets(client)
  BY <1>1, <1>44, SetReplayTargetsNow DEF Packeted, FreshQueue, Rest
<1>45. QED
  BY <1>2, <1>3, <1>4, <1>5, <1>6, <1>7, <1>8, <1>9, <1>10, <1>11, <1>12, <1>13, <1>14, <1>15, <1>16,
     <1>17, <1>18, <1>19, <1>20, <1>21, <1>22, <1>23, <1>24, <1>25, <1>26, <1>27, <1>28, <1>29, <1>30,
     <1>31, <1>32, <1>33, <1>34, <1>35, <1>36, <1>37, <1>38, <1>39, <1>40, <1>41, <1>42, <1>43, <1>44 DEF
     Begin, Continue

\* Every step of the call keeps what has ended ended.
LEMMA EndedKept ==
  ASSUME OneClient, TypeOK, Control, UiOffers, Rest, Begin(client) \/ Continue(client)
  PROVE  Ended'
<1>1. client \in Callers /\ call[client] = now /\ StepOf(now.op, now.pc) /\ now.todo \in SUBSET Protocols
      /\ (now.pc = "idle" => now.op = "none") /\ state \in SessionState
  BY Client DEF TypeOK
<1>2. CASE CallStartRecording(client)
  BY <1>1, <1>2, CallStartRecordingNow DEF Ended, PlaybackStates, Rest, Now
<1>3. CASE CreateFile(client)
  BY <1>1, <1>3, CreateFileNow DEF Ended, PlaybackStates, Rest, Now, StepOf
<1>4. CASE StartCapture(client)
  BY <1>1, <1>4, StartCaptureNow DEF Ended, PlaybackStates, Rest, Now, StepOf
<1>5. CASE EnterRecording(client)
  BY <1>1, <1>5, EnterRecordingNow DEF Ended, PlaybackStates, Rest, Now, StepOf, TryTransition,
     IsValidTransition, Successors
<1>6. CASE CommitRecord(client)
  BY <1>1, <1>6, CommitRecordNow DEF Ended, PlaybackStates, Rest, Now, StepOf
<1>7. CASE UndoCapture(client)
  BY <1>1, <1>7, UndoCaptureNow DEF Ended, PlaybackStates, Rest, Now, StepOf
<1>8. CASE FinalizeFailedRecording(client)
  BY <1>1, <1>8, FinalizeFailedRecordingNow DEF Ended, PlaybackStates, Rest, Now, StepOf
<1>9. CASE PauseRecording(client)
  BY <1>1, <1>9, PauseRecordingNow DEF Ended, PlaybackStates, Rest, TryTransition, IsValidTransition,
     Successors
<1>10. CASE ResumeRecording(client)
  BY <1>1, <1>10, ResumeRecordingNow DEF Ended, PlaybackStates, Rest, TryTransition, IsValidTransition,
     Successors
<1>11. CASE CallStopRecording(client)
  BY <1>1, <1>11, CallStopRecordingNow DEF Ended, PlaybackStates, Rest, Now
<1>12. CASE StopCapture(client)
  BY <1>1, <1>12, StopCaptureNow DEF Ended, PlaybackStates, Rest, Now, StepOf
<1>13. CASE FinalizeRecording(client)
  BY <1>1, <1>13, FinalizeRecordingNow DEF Ended, PlaybackStates, Rest, Now, StepOf
<1>14. CASE LeaveRecording(client)
  BY <1>1, <1>14, LeaveRecordingNow DEF Ended, PlaybackStates, Rest, Now, StepOf, TryTransition,
     IsValidTransition, Successors
<1>15. CASE CallOpenForPlayback(client)
  BY <1>1, <1>15, CallOpenForPlaybackNow DEF Ended, PlaybackStates, Rest, Now
<1>16. CASE OpenFile(client)
  BY <1>1, <1>16, OpenFileNow DEF Ended, PlaybackStates, Rest, Now, StepOf
<1>17. CASE StartReplay(client)
  BY <1>1, <1>17, StartReplayNow DEF Ended, PlaybackStates, Rest, Now, StepOf
<1>18. CASE UndoReplay(client)
  BY <1>1, <1>18, UndoReplayNow DEF Ended, PlaybackStates, Rest, Now, StepOf
<1>19. CASE AbandonOpen(client)
  BY <1>1, <1>19, AbandonOpenNow DEF Ended, PlaybackStates, Rest, Now, StepOf
<1>20. CASE CommitReplay(client)
  BY <1>1, <1>20, CommitReplayNow DEF Ended, PlaybackStates, Rest, Now, StepOf
<1>21. CASE FillAfterOpen(client)
  BY <1>1, <1>21, FillAfterOpenNow DEF Ended, PlaybackStates, Rest, Now, StepOf
<1>22. CASE Stage(client)
  BY <1>1, <1>22, StageNow DEF Ended, PlaybackStates, Rest, Now, StepOf, TryTransition, IsValidTransition,
     Successors
<1>23. CASE CallPlay(client)
  BY <1>1, <1>23, CallPlayNow DEF Ended, PlaybackStates, Rest, Now
<1>24. CASE StartTimeline(client)
  BY <1>1, <1>24, StartTimelineNow DEF Ended, PlaybackStates, Rest, Now, StepOf
<1>25. CASE CallPause(client)
  BY <1>1, <1>25, CallPauseNow DEF Ended, PlaybackStates, Rest, Now
<1>26. CASE CallSeekTo(client)
  BY <1>1, <1>26, CallSeekToNow DEF Ended, PlaybackStates, Rest, Now
<1>27. CASE EnterSeeking(client)
  BY <1>1, <1>27, EnterSeekingNow DEF Ended, PlaybackStates, Rest, Now, StepOf, TryTransition,
     IsValidTransition, Successors
<1>28. CASE CallStop(client)
  BY <1>1, <1>28, CallStopNow DEF Ended, PlaybackStates, Rest, Now
<1>29. CASE Halt(client)
  BY <1>1, <1>29, HaltNow DEF Ended, PlaybackStates, Rest, Now, StepOf
<1>30. CASE Join(client)
  BY <1>1, <1>30, JoinNow DEF Ended, PlaybackStates, Rest, Now, StepOf
<1>31. CASE Spawn(client)
  BY <1>1, <1>31, SpawnNow DEF Ended, PlaybackStates, Rest, Now, StepOf
<1>32. CASE EnterPlaying(client)
  BY <1>1, <1>32, EnterPlayingNow DEF Ended, PlaybackStates, Rest, Now, StepOf, TryTransition,
     IsValidTransition, Successors
<1>33. CASE EnterPaused(client)
  BY <1>1, <1>33, EnterPausedNow DEF Ended, PlaybackStates, Rest, Now, StepOf, TryTransition,
     IsValidTransition, Successors
<1>34. CASE ClearQueue(client)
  BY <1>1, <1>34, ClearQueueNow DEF Ended, PlaybackStates, Rest, Now, StepOf
<1>35. CASE SeekFile(client)
  BY <1>1, <1>35, SeekFileNow DEF Ended, PlaybackStates, Rest, Now, StepOf, TryTransition,
     IsValidTransition, Successors
<1>36. CASE FillAfterSeek(client)
  BY <1>1, <1>36, FillAfterSeekNow DEF Ended, PlaybackStates, Rest, Now, StepOf
<1>37. CASE LeaveSeeking(client)
  BY <1>1, <1>37, LeaveSeekingNow DEF Ended, PlaybackStates, Rest, Now, StepOf, TryTransition,
     IsValidTransition, Successors
<1>38. CASE TakeReplay(client)
  BY <1>1, <1>38, TakeReplayNow DEF Ended, PlaybackStates, Rest, Now, StepOf
<1>39. CASE StopReplay(client)
  BY <1>1, <1>39, StopReplayNow DEF Ended, PlaybackStates, Rest, Now, StepOf
<1>40. CASE CloseFile(client)
  BY <1>1, <1>40, CloseFileNow DEF Ended, PlaybackStates, Rest, Now, StepOf
<1>41. CASE LeaveSeekState(client)
  BY <1>1, <1>41, LeaveSeekStateNow DEF Ended, PlaybackStates, Rest, Now, StepOf, TryTransition,
     IsValidTransition, Successors
<1>42. CASE LeavePlayback(client)
  <2>1. \/ /\ IsValidTransition(state, "Stopped")
           /\ state' = "Stopped"
           /\ stopped' = TRUE
           /\ now'.op = "none" /\ now'.pc = "idle"
        \/ /\ ~IsValidTransition(state, "Stopped")
           /\ stopped' = TRUE
           /\ state' = state
           /\ now'.op = "none" /\ now'.pc = "idle"
    BY <1>42, LeavePlaybackNow DEF Now
  <2>2. /\ now.pc = "leavePlayback"
        /\ UNCHANGED <<reading, activeReplay, queue, openedOver>>
    BY <1>42, LeavePlaybackNow
  <2>3. QED
    BY <1>1, <2>1, <2>2 DEF Ended, PlaybackStates, Rest, StepOf, IsValidTransition, Successors, Playback,
       Packeted, Threads, Joined
<1>43. CASE SetLoopRange(client)
  BY <1>1, <1>43, SetLoopRangeNow DEF Ended, PlaybackStates, Rest
<1>44. CASE SetReplayTargets(client)
  BY <1>1, <1>44, SetReplayTargetsNow DEF Ended, PlaybackStates, Rest
<1>45. QED
  BY <1>2, <1>3, <1>4, <1>5, <1>6, <1>7, <1>8, <1>9, <1>10, <1>11, <1>12, <1>13, <1>14, <1>15, <1>16,
     <1>17, <1>18, <1>19, <1>20, <1>21, <1>22, <1>23, <1>24, <1>25, <1>26, <1>27, <1>28, <1>29, <1>30,
     <1>31, <1>32, <1>33, <1>34, <1>35, <1>36, <1>37, <1>38, <1>39, <1>40, <1>41, <1>42, <1>43, <1>44 DEF
     Begin, Continue

-----------------------------------------------------------------------------
(***************************************************************************)
(* The scheduler thread, for one client.                                   *)
(***************************************************************************)

\* Of what the calls are about, a step of the thread moves only the reader, and that
\* only after a packet was sent.
LEMMA SchedulerDoes ==
  ASSUME TypeOK, Scheduler
  PROVE  /\ UNCHANGED <<state, call, timelinePaused, writing, capturing, activeRecord, reading, fileLen,
                        replaying, activeReplay, targets, status, loop, running, stopped,
                        openedOver, seekFailed>>
         /\ thread \notin {"none", "exited"} /\ thread' # "none"
         /\ thread' = "exited" => ~running
<1>1. CASE PopPacket
  BY <1>1, PopPacketDoes
<1>2. CASE RecheckRunning
  BY <1>2, RecheckRunningDoes
<1>3. CASE Dispatch
  BY <1>3, DispatchDoes
<1>4. CASE LoopBack
  BY <1>4, LoopBackDoes
<1>5. CASE Refill
  BY <1>5, RefillDoes
<1>6. CASE DecideWait
  BY <1>6, DecideWaitDoes
<1>7. CASE Block
  BY <1>7, BlockDoes
<1>8. CASE ExitLoop
  BY <1>8, ExitLoopDoes
<1>9. QED
  BY <1>1, <1>2, <1>3, <1>4, <1>5, <1>6, <1>7, <1>8 DEF Scheduler

\* A step of the thread keeps the queue fresh and, with it, the packet in hand; between
\* packets the thread has none in hand.
LEMMA SchedulerFresh ==
  ASSUME TypeOK, Scheduler,
         thread \in {"none", "loop", "toWait", "waiting", "exited"} => inflight = NoPacket
  PROVE  /\ FreshQueue => FreshQueue' /\ (inflight.fresh => inflight'.fresh)
         /\ thread' \in {"none", "loop", "toWait", "waiting", "exited"} => inflight' = NoPacket
<1>1. CASE PopPacket
  BY <1>1, PopPacketDoes DEF FreshQueue
<1>2. CASE RecheckRunning
  BY <1>2, RecheckRunningDoes, NoPacketType DEF FreshQueue
<1>3. CASE Dispatch
  BY <1>3, DispatchDoes, NoPacketType DEF FreshQueue
<1>4. CASE LoopBack
  <2>1. thread' = "loop" /\ inflight' = NoPacket
    BY <1>4, LoopBackDoes
  <2>2. PICK pos : pos = SeekPosition(loop[1])
    OBVIOUS
  <2>3. pos \in 1 .. fileLen + 1
    <3>1. loop[1] \in Nat
      BY DEF TypeOK
    <3>2. QED
      BY <2>2, <3>1, SeeksInFile
  <2>4. \A k \in FillCounts(pos) : \A e \in Packets(pos, k) : e.fresh
    BY <2>3, FillEnds
  <2>5. queue' = {} \/ \E k \in FillCounts(pos) : queue' = Packets(pos, k)
    BY <1>4, <2>2, LoopBackDoes
  <2>6. QED
    BY <2>1, <2>4, <2>5, NoPacketType DEF FreshQueue
<1>5. CASE Refill
  <2>1. thread' = "loop" /\ inflight' = NoPacket
    BY <1>5, RefillDoes
  <2>2. \A k \in FillCounts(readPos) : \A e \in Packets(readPos, k) : e.fresh
    BY FillEnds DEF TypeOK
  <2>3. \E k \in FillCounts(readPos) : queue' = queue \cup Packets(readPos, k)
    BY <1>5, RefillDoes
  <2>4. QED
    BY <2>1, <2>2, <2>3, NoPacketType DEF FreshQueue
<1>6. CASE DecideWait
  BY <1>6, DecideWaitDoes DEF FreshQueue
<1>7. CASE Block
  BY <1>7, BlockDoes DEF FreshQueue
<1>8. CASE ExitLoop
  BY <1>8, ExitLoopDoes DEF FreshQueue
<1>9. QED
  BY <1>1, <1>2, <1>3, <1>4, <1>5, <1>6, <1>7, <1>8 DEF Scheduler

\* A step of the thread keeps the invariant of the calls.
LEMMA SchedulerKept ==
  ASSUME OneClient, TypeOK, Control, Rest, Scheduler
  PROVE  Rest'
<1>1. /\ UNCHANGED <<state, call, timelinePaused, writing, capturing, activeRecord, reading, fileLen,
                     replaying, activeReplay, targets, status, loop, running, stopped,
                     openedOver, seekFailed>>
      /\ thread \notin {"none", "exited"} /\ thread' # "none"
      /\ thread' = "exited" => ~running
  BY SchedulerDoes
<1>2. now' = now /\ StepOf(now.op, now.pc)
  BY <1>1, Client DEF now
<1>3. /\ ~Joined
      /\ "playback" \in openedOver \/ state = "Playing" \/ now.pc \in {"halt", "join", "enterPlaying"}
  BY <1>1 DEF Rest, Threads
<1>4. Record'
  BY <1>1, <1>2 DEF Rest, Record, Recorded, Overrun, RecordingLive
<1>5. Threads'
  BY <1>1, <1>2, <1>3 DEF Rest, Threads, Joined
<1>6. Playback'
  BY <1>1, <1>2 DEF Rest, Playback
<1>7. Packeted'
  <2>1. thread \in {"none", "loop", "toWait", "waiting", "exited"} => inflight = NoPacket
    BY DEF Rest, Packeted
  <2>2. /\ FreshQueue => FreshQueue' /\ (inflight.fresh => inflight'.fresh)
        /\ thread' \in {"none", "loop", "toWait", "waiting", "exited"} => inflight' = NoPacket
    BY <2>1, SchedulerFresh
  <2>3. /\ now.pc \notin {"seek", "fillSeek"}
        /\ ~(now.op = "Stop" /\ now.pc \in {"takeReplay", "stopReplay", "close", "leavePlayback"})
    BY <1>3 DEF Joined
  <2>4. QED
    BY <1>1, <1>2, <2>2, <2>3 DEF Rest, Packeted
<1>8. Ended'
  BY <1>1, <1>2, <1>3 DEF Rest, Ended, PlaybackStates, StepOf
<1>9. QED
  BY <1>4, <1>5, <1>6, <1>7, <1>8 DEF Rest

-----------------------------------------------------------------------------
(***************************************************************************)
(* The theorems.                                                           *)
(***************************************************************************)

\* A step of the specification is one of a call or of the scheduler thread.
LEMMA Steps ==
  ASSUME [Next]_vars
  PROVE  UNCHANGED vars \/ Scheduler \/ \E c \in Callers : Begin(c) \/ Continue(c)
  BY DEF Next

\* The first state is typed, and no call is under way.
LEMMA Starting ==
  ASSUME Init
  PROVE  TypeOK /\ Control
<1>1. call \in [Callers -> CallType] /\ \A c \in Callers : call[c] = NoCall
  BY NoCallType DEF Init
<1>2. status \in [targets -> {"idle", "active", "error"}]
  BY StatusTypes DEF Init
<1>3. TypeOK
  <2>1. state \in SessionState /\ loop \in Nat \X Nat
    BY DEF Init, SessionState
  <2>2. fileLen \in Nat /\ readPos \in 1 .. fileLen + 1
    BY DEF Init
  <2>3. queue \subseteq Entry /\ inflight \in Entry
    BY NoPacketType DEF Init
  <2>4. /\ timelinePaused \in BOOLEAN /\ writing \in BOOLEAN /\ reading \in BOOLEAN
        /\ running \in BOOLEAN /\ stopped \in BOOLEAN /\ seekFailed \in BOOLEAN
        /\ openedOver \subseteq OpenedOver
        /\ thread \in {"none", "loop", "toWait", "waiting", "popped", "dispatch", "sent", "exited"}
    BY DEF Init
  <2>5. /\ capturing \subseteq Protocols /\ activeRecord \subseteq Protocols
        /\ replaying \subseteq Protocols /\ activeReplay \subseteq Protocols
        /\ targets \subseteq Protocols
    BY DEF Init
  <2>6. QED
    BY <1>1, <1>2, <2>1, <2>2, <2>3, <2>4, <2>5 DEF TypeOK
<1>4. Control
  BY <1>1, NoCallType DEF Control, StepOf
<1>5. QED
  BY <1>3, <1>4

\* Every step keeps the types.
LEMMA Typing ==
  ASSUME TypeOK, Control, [Next]_vars
  PROVE  TypeOK' /\ Control'
<1>1. CASE UNCHANGED vars
  BY <1>1 DEF vars, recordVars, playVars, fileVars, replayVars, settings, schedVars, history, TypeOK,
     Control, At
<1>2. CASE Scheduler
  <2>1. call' = call
    BY <1>2, SchedulerDoes
  <2>2. QED
    BY <1>2, <2>1, SchedulerTyped DEF Control, At
<1>3. ASSUME NEW c \in Callers, Begin(c) \/ Continue(c)
      PROVE  TypeOK' /\ Control'
  BY <1>3, CallsTyped, CallsControlled
<1>4. QED
  BY <1>1, <1>2, <1>3, Steps

\* For any number of clients, protocols and files, with any calls offered and any
\* of them failing, the state of the session has its type: the reader is at a packet
\* of its file or at the end, and what the targets show is a status.
THEOREM TypeCorrect == Spec => []TypeOK
<1>1. Init => TypeOK /\ Control
  BY Starting
<1>2. TypeOK /\ Control /\ [Next]_vars => (TypeOK /\ Control)'
  BY Typing
<1>3. QED
  BY <1>1, <1>2, PTL DEF Spec

\* The inductive invariant of what the targets show.
ShownInv == TypeOK /\ Control /\ Shown

\* Every step keeps it.
LEMMA Showing ==
  ASSUME OneClient, ShownInv, [Next]_vars
  PROVE  ShownInv'
<1> USE DEF ShownInv
<1>1. TypeOK' /\ Control'
  BY Typing
<1>2. CASE UNCHANGED vars
  BY <1>1, <1>2 DEF vars, recordVars, playVars, fileVars, replayVars, settings, schedVars, history, Shown, now
<1>3. CASE Scheduler
  <2>1. UNCHANGED <<call, replaying, activeReplay, targets, status>>
    BY <1>3, SchedulerDoes
  <2>2. QED
    BY <1>1, <2>1 DEF Shown, now
<1>4. CASE \E c \in Callers : Begin(c) \/ Continue(c)
  BY <1>1, <1>4, ShownKept DEF OneClient
<1>5. QED
  BY <1>2, <1>3, <1>4, Steps

\* With one client, whatever it calls and whatever fails, between calls a target that
\* is shown active replays.
THEOREM ShownCorrect ==
  ASSUME OneClient
  PROVE  Spec => []ShownActiveReplays
<1>1. Init => ShownInv
  <2>1. ASSUME Init PROVE Shown /\ TypeOK /\ Control
    <3>1. now = NoCall
      BY <2>1, Client, Starting DEF Init, now
    <3>2. Shown
      BY <2>1, <3>1, NoCallType DEF Init, Shown
    <3>3. QED
      BY <2>1, <3>2, Starting
  <2>2. QED
    BY <2>1 DEF ShownInv
<1>2. ShownInv /\ [Next]_vars => ShownInv'
  BY Showing
<1>3. ShownInv => ShownActiveReplays
  BY Client DEF ShownInv, Shown, ShownActiveReplays
<1>4. QED
  BY <1>1, <1>2, <1>3, PTL DEF Spec

\* The inductive invariant of a session with one client that makes the calls that the
\* web UI offers.
SessionInv == TypeOK /\ Control /\ Rest

\* Every step keeps it.
LEMMA SessionKept ==
  ASSUME OneClient, UiOffers, SessionInv, [Next]_vars
  PROVE  SessionInv'
<1> USE DEF SessionInv
<1>1. TypeOK' /\ Control'
  BY Typing
<1>2. CASE UNCHANGED vars
  <2>1. UNCHANGED <<state, timelinePaused, writing, capturing, activeRecord, reading, fileLen, activeReplay,
                    running, thread, queue, inflight, stopped, openedOver, seekFailed>> /\ now' = now
    BY <1>2 DEF vars, recordVars, playVars, fileVars, replayVars, settings, schedVars, history, now
  <2>2. Record' /\ Threads' /\ Playback'
    BY <2>1 DEF Rest, Record, Recorded, Overrun, RecordingLive, Threads, Joined, Playback
  <2>3. Packeted' /\ Ended'
    BY <2>1 DEF Rest, Packeted, FreshQueue, Ended
  <2>4. QED
    BY <1>1, <2>2, <2>3 DEF Rest
<1>3. CASE Scheduler
  BY <1>1, <1>3, SchedulerKept
<1>4. CASE \E c \in Callers : Begin(c) \/ Continue(c)
  <2>1. Begin(client) \/ Continue(client)
    BY <1>4 DEF OneClient
  <2>2. Record' /\ Threads' /\ Playback'
    BY <2>1, RecordKept, ThreadsKept, PlaybackKept
  <2>3. Packeted' /\ Ended'
    BY <2>1, PacketedKept, EndedKept
  <2>4. QED
    BY <1>1, <2>2, <2>3 DEF Rest
<1>5. QED
  BY <1>2, <1>3, <1>4, Steps

\* It holds throughout.
LEMMA Invariance ==
  ASSUME OneClient, UiOffers
  PROVE  Spec => []SessionInv
<1>1. Init => SessionInv
  <2>1. ASSUME Init PROVE Rest
    <3>1. now = NoCall
      BY <2>1, Client, Starting DEF Init, now
    <3>2. Record /\ Threads /\ Playback
      BY <2>1, <3>1, NoCallType DEF Init, Record, Recorded, RecordingLive, RecordingStates, Threads,
         Joined, Playback, PlaybackStates
    <3>3. Packeted /\ Ended
      BY <2>1, <3>1, NoCallType, NoPacketType DEF Init, Packeted, FreshQueue, Ended
    <3>4. QED
      BY <3>2, <3>3 DEF Rest
  <2>2. QED
    BY <2>1, Starting DEF SessionInv
<1>2. SessionInv /\ [Next]_vars => SessionInv'
  BY SessionKept
<1>3. QED
  BY <1>1, <1>2, PTL DEF Spec

\* Between calls the state of the session tells what runs: captures and writer,
\* reader, timeline and scheduler thread.
THEOREM StateCorrect ==
  ASSUME OneClient, UiOffers
  PROVE  Spec => []StateTellsWhatRuns
<1>1. SessionInv => StateTellsWhatRuns
  <2>1. ASSUME SessionInv PROVE StateTellsWhatRuns
    <3>1. AtRest => now.pc = "idle" /\ now.op = "none"
      BY <2>1, Client DEF SessionInv
    <3>2. RecordingIsLive
      BY <2>1, <3>1 DEF SessionInv, Rest, Record, Recorded, RecordingLive, RecordingIsLive
    <3>3. PlayingIsLive
      BY <2>1, <3>1 DEF SessionInv, Rest, Playback, Threads, PlayingIsLive
    <3>4. OnlyPlayingDispatches
      BY <2>1, <3>1 DEF SessionInv, Rest, Threads, OnlyPlayingDispatches
    <3>5. QED
      BY <2>1, <3>2, <3>3, <3>4 DEF SessionInv, StateTellsWhatRuns
  <2>2. QED
    BY <2>1
<1>2. QED
  BY <1>1, Invariance, PTL

\* Once Stop has returned from playback, and until a file is opened again, nothing of
\* the playback is left.
THEOREM StopCorrect ==
  ASSUME OneClient, UiOffers
  PROVE  Spec => []StopIsFinal
<1>1. SessionInv => StopIsFinal
  <2>1. ASSUME SessionInv PROVE StopIsFinal
    <3>1. AtRest => now.pc = "idle"
      BY <2>1, Client DEF SessionInv
    <3>2. QED
      BY <2>1, <3>1 DEF SessionInv, Rest, Threads, Ended, PlaybackStates, StopIsFinal
  <2>2. QED
    BY <2>1
<1>2. QED
  BY <1>1, Invariance, PTL

\* No packet is sent that was read before a seek or from the file open before.
THEOREM SendsFresh ==
  ASSUME OneClient, UiOffers
  PROVE  Spec => []NoStalePacketSent
<1>1. SessionInv => NoStalePacketSent
  BY DEF SessionInv, Rest, Packeted, NoStalePacketSent
<1>2. QED
  BY <1>1, Invariance, PTL

-----------------------------------------------------------------------------
(***************************************************************************)
(* Any number of clients, and one replay.                                  *)
(***************************************************************************)

\* One client opens a file, in Idle and with no recording before.  What else is called,
\* when and by whom is left open.
OneOpen ==
  /\ \A c, d \in Callers, s, t \in SessionState :
       <<c, "OpenForPlayback", s>> \in Offered /\ <<d, "OpenForPlayback", t>> \in Offered =>
         c = d /\ s = "Idle"
  /\ \A c \in Callers :
       <<c, "StartRecording", "Idle">> \notin Offered /\ <<c, "StopRecording", "Idle">> \notin Offered

\* Caller c opens a file; it has listed the protocols; it stops and has taken the list.
Opens(c) == call[c].op = "OpenForPlayback"
Committed(c) == Opens(c) /\ call[c].pc \in {"clear", "fillOpen", "stage", "takeReplay"}
Taken(c) == call[c].op = "Stop" /\ call[c].pc \in {"stopReplay", "close", "leaveSeekState", "leavePlayback"}

\* In Idle the file is opened and nothing has ended.
Idling ==
  /\ \A c \in Callers : Opens(c) => state = "Idle" /\ <<c, "OpenForPlayback", "Idle">> \in Offered
  /\ \A c \in Callers : call[c].op \in {"Stop", "StartRecording", "StopRecording"} => state # "Idle"
  /\ stopped => state # "Idle"

\* Until the open has committed its protocols nothing is in the list, and once a Stop has
\* taken the list it stays empty.
Listed ==
  /\ activeReplay # {} /\ state = "Idle" =>
       \E c \in Callers : Committed(c)
  /\ \A c \in Callers : Taken(c) => activeReplay = {}
  /\ stopped => activeReplay = {}

\* What replays is in the list, or a call is on its way to list it or to stop it.
Answered(p) ==
  \/ p \in activeReplay
  \/ \E c \in Callers : call[c].pc \in {"replay", "undoReplay", "commitReplay"} /\ p \in call[c].started
  \/ \E c \in Callers : call[c].pc = "stopReplay" /\ p \in call[c].todo
Replayed == \A p \in replaying : Answered(p)

ReplayInv == TypeOK /\ Control /\ Idling /\ Listed /\ Replayed

\* Two calls that open a file are one.
LEMMA Opener ==
  ASSUME OneOpen, Idling, NEW c \in Callers, NEW d \in Callers, Opens(c), Opens(d)
  PROVE  c = d
<1>1. <<c, "OpenForPlayback", "Idle">> \in Offered /\ <<d, "OpenForPlayback", "Idle">> \in Offered
  BY DEF Idling
<1>2. "Idle" \in SessionState
  BY DEF SessionState
<1>3. QED
  BY ONLY <1>1, <1>2, OneOpen, c \in Callers, d \in Callers DEF OneOpen

\* While the open has not committed its protocols the list is empty.
LEMMA NotListed ==
  ASSUME OneOpen, Idling, Listed, NEW c \in Callers, Opens(c), ~Committed(c)
  PROVE  activeReplay = {}
<1>1. ASSUME activeReplay # {} PROVE FALSE
  <2>1. state = "Idle"
    BY DEF Idling
  <2>2. PICK d \in Callers : Committed(d)
    BY <1>1, <2>1 DEF Listed
  <2>3. d = c
    BY <2>2, Opener DEF Committed
  <2>4. QED
    BY <2>2, <2>3
<1>2. QED
  BY <1>1

\* A call with no part in the replays leaves them as they are.
LEMMA ReplaysOn ==
  ASSUME Replayed, NEW c \in Callers, UNCHANGED <<replaying, activeReplay>>,
         call[c].pc \notin {"replay", "undoReplay", "commitReplay", "stopReplay"},
         \A d \in Callers : d # c => call'[d] = call[d]
  PROVE  Replayed'
<1> SUFFICES ASSUME NEW p \in replaying PROVE Answered(p)'
  BY DEF Replayed
<1>1. Answered(p)
  BY DEF Replayed
<1>2. CASE p \in activeReplay
  BY <1>2 DEF Answered
<1>3. CASE \E d \in Callers : call[d].pc \in {"replay", "undoReplay", "commitReplay"} /\ p \in call[d].started
  BY <1>3 DEF Answered
<1>4. CASE \E d \in Callers : call[d].pc = "stopReplay" /\ p \in call[d].todo
  BY <1>4 DEF Answered
<1>5. QED
  BY <1>1, <1>2, <1>3, <1>4 DEF Answered

\* A call that neither takes nor commits the list leaves it as it is.
LEMMA ListStays ==
  ASSUME Listed, NEW c \in Callers, UNCHANGED <<activeReplay, stopped>>, state' = "Idle" => state = "Idle",
         ~Committed(c), Taken(c)' => Taken(c),
         \A d \in Callers : d # c => call'[d] = call[d]
  PROVE  Listed'
  BY DEF Listed, Committed, Taken, Opens

\* A call that begins or ends nothing in Idle leaves it as it is.
LEMMA IdleStays ==
  ASSUME Idling, NEW c \in Callers, UNCHANGED <<state, stopped>>,
         call'[c].op = call[c].op \/ call'[c].op \notin {"OpenForPlayback", "Stop", "StartRecording",
                                                         "StopRecording"},
         \A d \in Callers : d # c => call'[d] = call[d]
  PROVE  Idling'
  BY DEF Idling, Opens

\* Every step of a call leaves the session in Idle until the file is open.
LEMMA IdlingKept ==
  ASSUME OneOpen, ReplayInv, NEW c \in Callers, Begin(c) \/ Continue(c)
  PROVE  Idling'
<1>1. TypeOK /\ Control /\ Idling /\ Listed /\ Replayed /\ state \in SessionState
      /\ StepOf(call[c].op, call[c].pc)
  BY DEF ReplayInv, TypeOK, Control
<1>2. CASE CallStartRecording(c)
  <2>1. state # "Idle" /\ UNCHANGED <<state, stopped>>
    BY <1>1, <1>2, CallStartRecordingDoes DEF OneOpen
  <2>2. call'[c].op # "OpenForPlayback" /\ \A d \in Callers : d # c => call'[d] = call[d]
    BY <1>1, <1>2, CallStartRecordingDoes DEF Becomes
  <2>3. QED
    BY <1>1, <2>1, <2>2 DEF Idling, Opens
<1>3. CASE CreateFile(c)
  BY <1>1, <1>3, CreateFileDoes, IdleStays DEF Becomes
<1>4. CASE StartCapture(c)
  BY <1>1, <1>4, StartCaptureDoes, IdleStays DEF Becomes
<1>5. CASE EnterRecording(c)
  BY <1>1, <1>5, EnterRecordingDoes DEF Idling, Opens, Becomes, TryTransition, IsValidTransition, Successors,
     StepOf
<1>6. CASE CommitRecord(c)
  BY <1>1, <1>6, CommitRecordDoes, IdleStays DEF Becomes
<1>7. CASE UndoCapture(c)
  BY <1>1, <1>7, UndoCaptureDoes, IdleStays DEF Becomes
<1>8. CASE FinalizeFailedRecording(c)
  BY <1>1, <1>8, FinalizeFailedRecordingDoes, IdleStays DEF Becomes
<1>9. CASE PauseRecording(c)
  BY <1>1, <1>9, PauseRecordingDoes DEF Idling, Opens
<1>10. CASE ResumeRecording(c)
  BY <1>1, <1>10, ResumeRecordingDoes DEF Idling, Opens
<1>11. CASE CallStopRecording(c)
  <2>1. state # "Idle" /\ UNCHANGED <<state, stopped>>
    BY <1>1, <1>11, CallStopRecordingDoes DEF OneOpen
  <2>2. call'[c].op # "OpenForPlayback" /\ \A d \in Callers : d # c => call'[d] = call[d]
    BY <1>1, <1>11, CallStopRecordingDoes DEF Becomes
  <2>3. QED
    BY <1>1, <2>1, <2>2 DEF Idling, Opens
<1>12. CASE StopCapture(c)
  BY <1>1, <1>12, StopCaptureDoes, IdleStays DEF Becomes
<1>13. CASE FinalizeRecording(c)
  BY <1>1, <1>13, FinalizeRecordingDoes, IdleStays DEF Becomes
<1>14. CASE LeaveRecording(c)
  BY <1>1, <1>14, LeaveRecordingDoes DEF Idling, Opens, Becomes, TryTransition, IsValidTransition,
     Successors, StepOf
<1>15. CASE CallOpenForPlayback(c)
  <2>1. <<c, "OpenForPlayback", state>> \in Offered /\ state' = state /\ ~stopped'
    BY <1>1, <1>15, CallOpenForPlaybackDoes
  <2>2. state = "Idle"
    BY <1>1, <2>1 DEF OneOpen
  <2>3. call'[c].op = "OpenForPlayback" /\ \A d \in Callers : d # c => call'[d] = call[d]
    BY <1>1, <1>15, CallOpenForPlaybackDoes DEF Becomes
  <2>4. QED
    BY <1>1, <2>1, <2>2, <2>3 DEF Idling, Opens
<1>16. CASE OpenFile(c)
  BY <1>1, <1>16, OpenFileDoes, IdleStays DEF Becomes
<1>17. CASE StartReplay(c)
  BY <1>1, <1>17, StartReplayDoes, IdleStays DEF Becomes
<1>18. CASE UndoReplay(c)
  BY <1>1, <1>18, UndoReplayDoes, IdleStays DEF Becomes
<1>19. CASE AbandonOpen(c)
  BY <1>1, <1>19, AbandonOpenDoes, IdleStays DEF Becomes
<1>20. CASE CommitReplay(c)
  BY <1>1, <1>20, CommitReplayDoes, IdleStays DEF Becomes
<1>21. CASE FillAfterOpen(c)
  BY <1>1, <1>21, FillAfterOpenDoes, IdleStays DEF Becomes
<1>22. CASE Stage(c)
  <2>1. Opens(c) /\ state = "Idle"
    BY <1>1, <1>22, StageDoes DEF StepOf, Idling, Opens
  <2>2. state' = "Stopped" /\ stopped' = stopped
    BY <1>1, <1>22, <2>1, StageDoes DEF IsValidTransition, Successors
  <2>3. call'[c].op = "none" /\ \A d \in Callers : d # c => call'[d] = call[d]
    BY <1>1, <1>22, StageDoes DEF Becomes
  <2>4. \A d \in Callers : d # c => ~Opens(d)
    BY <1>1, <2>1, Opener
  <2>5. QED
    BY <2>2, <2>3, <2>4 DEF Idling, Opens
<1>23. CASE CallPlay(c)
  BY <1>1, <1>23, CallPlayDoes DEF Idling, Opens, Becomes
<1>24. CASE StartTimeline(c)
  BY <1>1, <1>24, StartTimelineDoes, IdleStays DEF Becomes
<1>25. CASE CallPause(c)
  BY <1>1, <1>25, CallPauseDoes DEF Idling, Opens, Becomes
<1>26. CASE CallSeekTo(c)
  BY <1>1, <1>26, CallSeekToDoes DEF Idling, Opens, Becomes
<1>27. CASE EnterSeeking(c)
  BY <1>1, <1>27, EnterSeekingDoes DEF Idling, Opens, Becomes, TryTransition, IsValidTransition, Successors,
     StepOf
<1>28. CASE CallStop(c)
  <2>1. state # "Idle" /\ UNCHANGED <<state, stopped>>
    BY <1>1, <1>28, CallStopDoes DEF PlaybackStates
  <2>2. call'[c].op # "OpenForPlayback" /\ \A d \in Callers : d # c => call'[d] = call[d]
    BY <1>1, <1>28, CallStopDoes DEF Becomes
  <2>3. QED
    BY <1>1, <2>1, <2>2 DEF Idling, Opens
<1>29. CASE Halt(c)
  BY <1>1, <1>29, HaltDoes, IdleStays DEF Becomes
<1>30. CASE Join(c)
  BY <1>1, <1>30, JoinDoes, IdleStays DEF Becomes
<1>31. CASE Spawn(c)
  BY <1>1, <1>31, SpawnDoes, IdleStays DEF Becomes
<1>32. CASE EnterPlaying(c)
  BY <1>1, <1>32, EnterPlayingDoes DEF Idling, Opens, Becomes, TryTransition, IsValidTransition, Successors,
     StepOf
<1>33. CASE EnterPaused(c)
  BY <1>1, <1>33, EnterPausedDoes DEF Idling, Opens, Becomes, TryTransition, IsValidTransition, Successors,
     StepOf
<1>34. CASE ClearQueue(c)
  BY <1>1, <1>34, ClearQueueDoes, IdleStays DEF Becomes
<1>35. CASE SeekFile(c)
  <2>1. stopped' = stopped /\ call[c].op = "SeekTo" /\ (state # "Idle" => state' # "Idle")
    BY <1>1, <1>35, SeekFileDoes DEF StepOf, TryTransition
  <2>2. state = "Idle" => state' = "Idle"
    <3>1. ~IsValidTransition("Idle", "Playing") /\ ~IsValidTransition("Idle", "PlaybackPaused")
      BY DEF IsValidTransition, Successors
    <3>2. \/ state' = state
          \/ \E target \in {"Playing", "PlaybackPaused"} : IsValidTransition(state, target)
      BY <1>1, <1>35, SeekFileDoes DEF TryTransition
    <3>3. QED
      BY <3>1, <3>2
  <2>3. call'[c].op \in {"SeekTo", "none"} /\ \A d \in Callers : d # c => call'[d] = call[d]
    BY <1>1, <1>35, SeekFileDoes DEF Becomes, StepOf
  <2>4. QED
    BY <1>1, <2>1, <2>2, <2>3 DEF Idling, Opens
<1>36. CASE FillAfterSeek(c)
  BY <1>1, <1>36, FillAfterSeekDoes, IdleStays DEF Becomes
<1>37. CASE LeaveSeeking(c)
  BY <1>1, <1>37, LeaveSeekingDoes DEF Idling, Opens, Becomes, TryTransition, IsValidTransition, Successors,
     StepOf
<1>38. CASE TakeReplay(c)
  BY <1>1, <1>38, TakeReplayDoes, IdleStays DEF Becomes
<1>39. CASE StopReplay(c)
  BY <1>1, <1>39, StopReplayDoes, IdleStays DEF Becomes
<1>40. CASE CloseFile(c)
  BY <1>1, <1>40, CloseFileDoes, IdleStays DEF Becomes
<1>41. CASE LeaveSeekState(c)
  BY <1>1, <1>41, LeaveSeekStateDoes DEF Idling, Opens, Becomes, TryTransition, IsValidTransition,
     Successors, StepOf
<1>42. CASE LeavePlayback(c)
  BY <1>1, <1>42, LeavePlaybackDoes DEF Idling, Opens, Becomes, TryTransition, IsValidTransition, Successors,
     StepOf
<1>43. CASE SetLoopRange(c)
  BY <1>1, <1>43, SetLoopRangeDoes DEF Idling, Opens
<1>44. CASE SetReplayTargets(c)
  BY <1>1, <1>44, SetReplayTargetsDoes DEF Idling, Opens
<1>45. QED
  BY <1>2, <1>3, <1>4, <1>5, <1>6, <1>7, <1>8, <1>9, <1>10, <1>11, <1>12, <1>13, <1>14, <1>15, <1>16,
     <1>17, <1>18, <1>19, <1>20, <1>21, <1>22, <1>23, <1>24, <1>25, <1>26, <1>27, <1>28, <1>29, <1>30,
     <1>31, <1>32, <1>33, <1>34, <1>35, <1>36, <1>37, <1>38, <1>39, <1>40, <1>41, <1>42, <1>43,
     <1>44 DEF Begin, Continue

\* Every step of a call keeps the list of protocols empty before the open has committed and
\* after a Stop has taken it.
LEMMA ListedKept ==
  ASSUME OneOpen, ReplayInv, NEW c \in Callers, Begin(c) \/ Continue(c)
  PROVE  Listed'
<1>1. TypeOK /\ Control /\ Idling /\ Listed /\ Replayed /\ state \in SessionState
      /\ StepOf(call[c].op, call[c].pc)
  BY DEF ReplayInv, TypeOK, Control
<1>2. CASE CallStartRecording(c)
  BY <1>1, <1>2, CallStartRecordingDoes, ListStays DEF Becomes, StepOf, Opens, Committed, Taken
<1>3. CASE CreateFile(c)
  <2>1. UNCHANGED <<state, activeReplay, stopped>> /\ \A d \in Callers : d # c => call'[d] = call[d]
    BY <1>1, <1>3, CreateFileDoes DEF Becomes
  <2>2. ~Committed(c) /\ (Taken(c)' => Taken(c))
    BY <1>1, <1>3, CreateFileDoes DEF Becomes, Committed, Taken
  <2>3. QED
    BY <1>1, <2>1, <2>2, ListStays
<1>4. CASE StartCapture(c)
  <2>1. UNCHANGED <<state, activeReplay, stopped>> /\ \A d \in Callers : d # c => call'[d] = call[d]
    BY <1>1, <1>4, StartCaptureDoes DEF Becomes
  <2>2. ~Committed(c) /\ (Taken(c)' => Taken(c))
    BY <1>1, <1>4, StartCaptureDoes DEF Becomes, Committed, Taken
  <2>3. QED
    BY <1>1, <2>1, <2>2, ListStays
<1>5. CASE EnterRecording(c)
  BY <1>1, <1>5, EnterRecordingDoes DEF Listed, Idling, Committed, Taken, Opens, Becomes, TryTransition,
     IsValidTransition, Successors, StepOf
<1>6. CASE CommitRecord(c)
  <2>1. UNCHANGED <<state, activeReplay, stopped>> /\ \A d \in Callers : d # c => call'[d] = call[d]
    BY <1>1, <1>6, CommitRecordDoes DEF Becomes
  <2>2. ~Committed(c) /\ (Taken(c)' => Taken(c))
    BY <1>1, <1>6, CommitRecordDoes DEF Becomes, Committed, Taken
  <2>3. QED
    BY <1>1, <2>1, <2>2, ListStays
<1>7. CASE UndoCapture(c)
  <2>1. UNCHANGED <<state, activeReplay, stopped>> /\ \A d \in Callers : d # c => call'[d] = call[d]
    BY <1>1, <1>7, UndoCaptureDoes DEF Becomes
  <2>2. ~Committed(c) /\ (Taken(c)' => Taken(c))
    BY <1>1, <1>7, UndoCaptureDoes DEF Becomes, Committed, Taken
  <2>3. QED
    BY <1>1, <2>1, <2>2, ListStays
<1>8. CASE FinalizeFailedRecording(c)
  <2>1. UNCHANGED <<state, activeReplay, stopped>> /\ \A d \in Callers : d # c => call'[d] = call[d]
    BY <1>1, <1>8, FinalizeFailedRecordingDoes DEF Becomes
  <2>2. ~Committed(c) /\ (Taken(c)' => Taken(c))
    BY <1>1, <1>8, FinalizeFailedRecordingDoes DEF Becomes, Committed, Taken
  <2>3. QED
    BY <1>1, <2>1, <2>2, ListStays
<1>9. CASE PauseRecording(c)
  BY <1>1, <1>9, PauseRecordingDoes DEF Listed, Idling, Committed, Taken, Opens
<1>10. CASE ResumeRecording(c)
  BY <1>1, <1>10, ResumeRecordingDoes DEF Listed, Idling, Committed, Taken, Opens
<1>11. CASE CallStopRecording(c)
  BY <1>1, <1>11, CallStopRecordingDoes, ListStays DEF Becomes, StepOf, Opens, Committed, Taken
<1>12. CASE StopCapture(c)
  <2>1. UNCHANGED <<state, activeReplay, stopped>> /\ \A d \in Callers : d # c => call'[d] = call[d]
    BY <1>1, <1>12, StopCaptureDoes DEF Becomes
  <2>2. ~Committed(c) /\ (Taken(c)' => Taken(c))
    BY <1>1, <1>12, StopCaptureDoes DEF Becomes, Committed, Taken
  <2>3. QED
    BY <1>1, <2>1, <2>2, ListStays
<1>13. CASE FinalizeRecording(c)
  <2>1. UNCHANGED <<state, activeReplay, stopped>> /\ \A d \in Callers : d # c => call'[d] = call[d]
    BY <1>1, <1>13, FinalizeRecordingDoes DEF Becomes
  <2>2. ~Committed(c) /\ (Taken(c)' => Taken(c))
    BY <1>1, <1>13, FinalizeRecordingDoes DEF Becomes, Committed, Taken
  <2>3. QED
    BY <1>1, <2>1, <2>2, ListStays
<1>14. CASE LeaveRecording(c)
  BY <1>1, <1>14, LeaveRecordingDoes DEF Listed, Idling, Committed, Taken, Opens, Becomes, TryTransition,
     IsValidTransition, Successors, StepOf
<1>15. CASE CallOpenForPlayback(c)
  BY <1>1, <1>15, CallOpenForPlaybackDoes DEF Listed, Idling, Committed, Taken, Opens, Becomes,
     CallOpenForPlayback, Offers
<1>16. CASE OpenFile(c)
  <2>1. UNCHANGED <<state, activeReplay, stopped>> /\ \A d \in Callers : d # c => call'[d] = call[d]
    BY <1>1, <1>16, OpenFileDoes DEF Becomes
  <2>2. ~Committed(c) /\ (Taken(c)' => Taken(c))
    BY <1>1, <1>16, OpenFileDoes DEF Becomes, Committed, Taken
  <2>3. QED
    BY <1>1, <2>1, <2>2, ListStays
<1>17. CASE StartReplay(c)
  <2>1. UNCHANGED <<state, activeReplay, stopped>> /\ \A d \in Callers : d # c => call'[d] = call[d]
    BY <1>1, <1>17, StartReplayDoes DEF Becomes
  <2>2. ~Committed(c) /\ (Taken(c)' => Taken(c))
    BY <1>1, <1>17, StartReplayDoes DEF Becomes, Committed, Taken
  <2>3. QED
    BY <1>1, <2>1, <2>2, ListStays
<1>18. CASE UndoReplay(c)
  <2>1. UNCHANGED <<state, activeReplay, stopped>> /\ \A d \in Callers : d # c => call'[d] = call[d]
    BY <1>1, <1>18, UndoReplayDoes DEF Becomes
  <2>2. ~Committed(c) /\ (Taken(c)' => Taken(c))
    BY <1>1, <1>18, UndoReplayDoes DEF Becomes, Committed, Taken
  <2>3. QED
    BY <1>1, <2>1, <2>2, ListStays
<1>19. CASE AbandonOpen(c)
  BY <1>1, <1>19, AbandonOpenDoes DEF Listed, Idling, Committed, Taken, Opens, Becomes, StepOf
<1>20. CASE CommitReplay(c)
  <2>1. Opens(c) /\ state = "Idle" /\ ~stopped /\ \A d \in Callers : call[d].op # "Stop"
    BY <1>1, <1>20, CommitReplayDoes DEF StepOf, Idling, Opens
  <2>2. UNCHANGED <<state, stopped>> /\ \A d \in Callers : d # c => call'[d] = call[d]
    BY <1>1, <1>20, CommitReplayDoes DEF Becomes
  <2>3. call'[c].op = call[c].op /\ call'[c].pc = "clear"
    BY <1>1, <1>20, CommitReplayDoes DEF Becomes
  <2>4. QED
    BY <2>1, <2>2, <2>3 DEF Listed, Opens, Committed, Taken
<1>21. CASE FillAfterOpen(c)
  BY <1>1, <1>21, FillAfterOpenDoes DEF Listed, Idling, Committed, Taken, Opens, Becomes, StepOf
<1>22. CASE Stage(c)
  BY <1>1, <1>22, StageDoes DEF Listed, Idling, Committed, Taken, Opens, Becomes, TryTransition,
     IsValidTransition, Successors, StepOf
<1>23. CASE CallPlay(c)
  BY <1>1, <1>23, CallPlayDoes, ListStays DEF Becomes, StepOf, Opens, Committed, Taken
<1>24. CASE StartTimeline(c)
  <2>1. UNCHANGED <<state, activeReplay, stopped>> /\ \A d \in Callers : d # c => call'[d] = call[d]
    BY <1>1, <1>24, StartTimelineDoes DEF Becomes
  <2>2. ~Committed(c) /\ (Taken(c)' => Taken(c))
    BY <1>1, <1>24, StartTimelineDoes DEF Becomes, Committed, Taken
  <2>3. QED
    BY <1>1, <2>1, <2>2, ListStays
<1>25. CASE CallPause(c)
  BY <1>1, <1>25, CallPauseDoes, ListStays DEF Becomes, StepOf, Opens, Committed, Taken
<1>26. CASE CallSeekTo(c)
  BY <1>1, <1>26, CallSeekToDoes, ListStays DEF Becomes, StepOf, Opens, Committed, Taken
<1>27. CASE EnterSeeking(c)
  BY <1>1, <1>27, EnterSeekingDoes DEF Listed, Idling, Committed, Taken, Opens, Becomes, TryTransition,
     IsValidTransition, Successors, StepOf
<1>28. CASE CallStop(c)
  BY <1>1, <1>28, CallStopDoes, ListStays DEF Becomes, StepOf, Opens, Committed, Taken
<1>29. CASE Halt(c)
  BY <1>1, <1>29, HaltDoes, ListStays DEF Becomes, StepOf, Opens, Committed, Taken
<1>30. CASE Join(c)
  BY <1>1, <1>30, JoinDoes, ListStays DEF Becomes, StepOf, Opens, Committed, Taken
<1>31. CASE Spawn(c)
  <2>1. UNCHANGED <<state, activeReplay, stopped>> /\ \A d \in Callers : d # c => call'[d] = call[d]
    BY <1>1, <1>31, SpawnDoes DEF Becomes
  <2>2. ~Committed(c) /\ (Taken(c)' => Taken(c))
    BY <1>1, <1>31, SpawnDoes DEF Becomes, Committed, Taken
  <2>3. QED
    BY <1>1, <2>1, <2>2, ListStays
<1>32. CASE EnterPlaying(c)
  BY <1>1, <1>32, EnterPlayingDoes DEF Listed, Idling, Committed, Taken, Opens, Becomes, TryTransition,
     IsValidTransition, Successors, StepOf
<1>33. CASE EnterPaused(c)
  BY <1>1, <1>33, EnterPausedDoes DEF Listed, Idling, Committed, Taken, Opens, Becomes, TryTransition,
     IsValidTransition, Successors, StepOf
<1>34. CASE ClearQueue(c)
  BY <1>1, <1>34, ClearQueueDoes DEF Listed, Idling, Committed, Taken, Opens, Becomes, StepOf
<1>35. CASE SeekFile(c)
  BY <1>1, <1>35, SeekFileDoes DEF Listed, Idling, Committed, Taken, Opens, Becomes, TryTransition,
     IsValidTransition, Successors, StepOf
<1>36. CASE FillAfterSeek(c)
  <2>1. UNCHANGED <<state, activeReplay, stopped>> /\ \A d \in Callers : d # c => call'[d] = call[d]
    BY <1>1, <1>36, FillAfterSeekDoes DEF Becomes
  <2>2. ~Committed(c) /\ (Taken(c)' => Taken(c))
    BY <1>1, <1>36, FillAfterSeekDoes DEF Becomes, Committed, Taken
  <2>3. QED
    BY <1>1, <2>1, <2>2, ListStays
<1>37. CASE LeaveSeeking(c)
  BY <1>1, <1>37, LeaveSeekingDoes DEF Listed, Idling, Committed, Taken, Opens, Becomes, TryTransition,
     IsValidTransition, Successors, StepOf
<1>38. CASE TakeReplay(c)
  BY <1>1, <1>38, TakeReplayDoes DEF Listed, Idling, Committed, Taken, Opens, Becomes, StepOf
<1>39. CASE StopReplay(c)
  <2>1. UNCHANGED <<state, activeReplay, stopped>> /\ \A d \in Callers : d # c => call'[d] = call[d]
    BY <1>1, <1>39, StopReplayDoes DEF Becomes
  <2>2. ~Committed(c) /\ (Taken(c)' => Taken(c))
    BY <1>1, <1>39, StopReplayDoes DEF Becomes, Committed, Taken
  <2>3. QED
    BY <1>1, <2>1, <2>2, ListStays
<1>40. CASE CloseFile(c)
  <2>1. UNCHANGED <<state, activeReplay, stopped>> /\ \A d \in Callers : d # c => call'[d] = call[d]
    BY <1>1, <1>40, CloseFileDoes DEF Becomes
  <2>2. ~Committed(c) /\ (Taken(c)' => Taken(c))
    BY <1>1, <1>40, CloseFileDoes DEF Becomes, Committed, Taken
  <2>3. QED
    BY <1>1, <2>1, <2>2, ListStays
<1>41. CASE LeaveSeekState(c)
  BY <1>1, <1>41, LeaveSeekStateDoes DEF Listed, Idling, Committed, Taken, Opens, Becomes, TryTransition,
     IsValidTransition, Successors, StepOf
<1>42. CASE LeavePlayback(c)
  BY <1>1, <1>42, LeavePlaybackDoes DEF Listed, Idling, Committed, Taken, Opens, Becomes, TryTransition,
     IsValidTransition, Successors, StepOf
<1>43. CASE SetLoopRange(c)
  BY <1>1, <1>43, SetLoopRangeDoes DEF Listed, Idling, Committed, Taken, Opens
<1>44. CASE SetReplayTargets(c)
  BY <1>1, <1>44, SetReplayTargetsDoes DEF Listed, Idling, Committed, Taken, Opens
<1>45. QED
  BY <1>2, <1>3, <1>4, <1>5, <1>6, <1>7, <1>8, <1>9, <1>10, <1>11, <1>12, <1>13, <1>14, <1>15, <1>16,
     <1>17, <1>18, <1>19, <1>20, <1>21, <1>22, <1>23, <1>24, <1>25, <1>26, <1>27, <1>28, <1>29, <1>30,
     <1>31, <1>32, <1>33, <1>34, <1>35, <1>36, <1>37, <1>38, <1>39, <1>40, <1>41, <1>42, <1>43,
     <1>44 DEF Begin, Continue

\* Every step of a call keeps a protocol that replays in the list or in the hands of a call.
LEMMA ReplayedKept ==
  ASSUME OneOpen, ReplayInv, NEW c \in Callers, Begin(c) \/ Continue(c)
  PROVE  Replayed'
<1>1. TypeOK /\ Control /\ Idling /\ Listed /\ Replayed /\ state \in SessionState
      /\ StepOf(call[c].op, call[c].pc)
  BY DEF ReplayInv, TypeOK, Control
<1>2. CASE CallStartRecording(c)
  BY <1>1, <1>2, CallStartRecordingDoes, ReplaysOn DEF Becomes
<1>3. CASE CreateFile(c)
  BY <1>1, <1>3, CreateFileDoes, ReplaysOn DEF Becomes
<1>4. CASE StartCapture(c)
  BY <1>1, <1>4, StartCaptureDoes, ReplaysOn DEF Becomes
<1>5. CASE EnterRecording(c)
  BY <1>1, <1>5, EnterRecordingDoes, ReplaysOn DEF Becomes
<1>6. CASE CommitRecord(c)
  BY <1>1, <1>6, CommitRecordDoes, ReplaysOn DEF Becomes
<1>7. CASE UndoCapture(c)
  BY <1>1, <1>7, UndoCaptureDoes, ReplaysOn DEF Becomes
<1>8. CASE FinalizeFailedRecording(c)
  BY <1>1, <1>8, FinalizeFailedRecordingDoes, ReplaysOn DEF Becomes
<1>9. CASE PauseRecording(c)
  BY <1>1, <1>9, PauseRecordingDoes DEF Replayed, Answered
<1>10. CASE ResumeRecording(c)
  BY <1>1, <1>10, ResumeRecordingDoes DEF Replayed, Answered
<1>11. CASE CallStopRecording(c)
  BY <1>1, <1>11, CallStopRecordingDoes, ReplaysOn DEF Becomes
<1>12. CASE StopCapture(c)
  BY <1>1, <1>12, StopCaptureDoes, ReplaysOn DEF Becomes
<1>13. CASE FinalizeRecording(c)
  BY <1>1, <1>13, FinalizeRecordingDoes, ReplaysOn DEF Becomes
<1>14. CASE LeaveRecording(c)
  BY <1>1, <1>14, LeaveRecordingDoes, ReplaysOn DEF Becomes
<1>15. CASE CallOpenForPlayback(c)
  BY <1>1, <1>15, CallOpenForPlaybackDoes, ReplaysOn DEF Becomes
<1>16. CASE OpenFile(c)
  BY <1>1, <1>16, OpenFileDoes, ReplaysOn DEF Becomes
<1>17. CASE StartReplay(c)
  BY <1>1, <1>17, StartReplayDoes DEF Replayed, Answered, Becomes, StepOf
<1>18. CASE UndoReplay(c)
  BY <1>1, <1>18, UndoReplayDoes DEF Replayed, Answered, Becomes, StepOf
<1>19. CASE AbandonOpen(c)
  <2>1. replaying' = replaying /\ \A d \in Callers : d # c => call'[d] = call[d]
    BY <1>1, <1>19, AbandonOpenDoes DEF Becomes
  <2>2. call[c].pc = "abandonOpen" /\ Opens(c) /\ ~Committed(c)
    BY <1>1, <1>19, AbandonOpenDoes DEF StepOf, Opens, Committed
  <2>3. activeReplay = {}
    BY <1>1, <2>2, NotListed
  <2>4. QED
    BY <1>1, <2>1, <2>2, <2>3 DEF Replayed, Answered
<1>20. CASE CommitReplay(c)
  <2>1. replaying' = replaying /\ activeReplay' = call[c].started /\ \A d \in Callers : d # c => call'[d] = call[d]
    BY <1>1, <1>20, CommitReplayDoes DEF Becomes
  <2>2. call[c].pc = "commitReplay" /\ Opens(c) /\ ~Committed(c)
    BY <1>1, <1>20, CommitReplayDoes DEF StepOf, Opens, Committed
  <2>3. activeReplay = {}
    BY <1>1, <2>2, NotListed
  <2>4. QED
    BY <1>1, <2>1, <2>2, <2>3 DEF Replayed, Answered
<1>21. CASE FillAfterOpen(c)
  BY <1>1, <1>21, FillAfterOpenDoes, ReplaysOn DEF Becomes
<1>22. CASE Stage(c)
  BY <1>1, <1>22, StageDoes, ReplaysOn DEF Becomes
<1>23. CASE CallPlay(c)
  BY <1>1, <1>23, CallPlayDoes, ReplaysOn DEF Becomes
<1>24. CASE StartTimeline(c)
  BY <1>1, <1>24, StartTimelineDoes, ReplaysOn DEF Becomes
<1>25. CASE CallPause(c)
  BY <1>1, <1>25, CallPauseDoes, ReplaysOn DEF Becomes
<1>26. CASE CallSeekTo(c)
  BY <1>1, <1>26, CallSeekToDoes, ReplaysOn DEF Becomes
<1>27. CASE EnterSeeking(c)
  BY <1>1, <1>27, EnterSeekingDoes, ReplaysOn DEF Becomes
<1>28. CASE CallStop(c)
  BY <1>1, <1>28, CallStopDoes, ReplaysOn DEF Becomes
<1>29. CASE Halt(c)
  BY <1>1, <1>29, HaltDoes, ReplaysOn DEF Becomes
<1>30. CASE Join(c)
  BY <1>1, <1>30, JoinDoes, ReplaysOn DEF Becomes
<1>31. CASE Spawn(c)
  BY <1>1, <1>31, SpawnDoes, ReplaysOn DEF Becomes
<1>32. CASE EnterPlaying(c)
  BY <1>1, <1>32, EnterPlayingDoes, ReplaysOn DEF Becomes
<1>33. CASE EnterPaused(c)
  BY <1>1, <1>33, EnterPausedDoes, ReplaysOn DEF Becomes
<1>34. CASE ClearQueue(c)
  BY <1>1, <1>34, ClearQueueDoes, ReplaysOn DEF Becomes
<1>35. CASE SeekFile(c)
  BY <1>1, <1>35, SeekFileDoes, ReplaysOn DEF Becomes
<1>36. CASE FillAfterSeek(c)
  BY <1>1, <1>36, FillAfterSeekDoes, ReplaysOn DEF Becomes
<1>37. CASE LeaveSeeking(c)
  BY <1>1, <1>37, LeaveSeekingDoes, ReplaysOn DEF Becomes
<1>38. CASE TakeReplay(c)
  BY <1>1, <1>38, TakeReplayDoes DEF Replayed, Answered, Becomes, StepOf
<1>39. CASE StopReplay(c)
  BY <1>1, <1>39, StopReplayDoes DEF Replayed, Answered, Becomes, StepOf
<1>40. CASE CloseFile(c)
  BY <1>1, <1>40, CloseFileDoes, ReplaysOn DEF Becomes
<1>41. CASE LeaveSeekState(c)
  BY <1>1, <1>41, LeaveSeekStateDoes, ReplaysOn DEF Becomes
<1>42. CASE LeavePlayback(c)
  BY <1>1, <1>42, LeavePlaybackDoes, ReplaysOn DEF Becomes
<1>43. CASE SetLoopRange(c)
  BY <1>1, <1>43, SetLoopRangeDoes DEF Replayed, Answered
<1>44. CASE SetReplayTargets(c)
  BY <1>1, <1>44, SetReplayTargetsDoes DEF Replayed, Answered
<1>45. QED
  BY <1>2, <1>3, <1>4, <1>5, <1>6, <1>7, <1>8, <1>9, <1>10, <1>11, <1>12, <1>13, <1>14, <1>15, <1>16,
     <1>17, <1>18, <1>19, <1>20, <1>21, <1>22, <1>23, <1>24, <1>25, <1>26, <1>27, <1>28, <1>29, <1>30,
     <1>31, <1>32, <1>33, <1>34, <1>35, <1>36, <1>37, <1>38, <1>39, <1>40, <1>41, <1>42, <1>43,
     <1>44 DEF Begin, Continue
\* Every step keeps the invariant of the one replay.
LEMMA ReplayKept ==
  ASSUME OneOpen, ReplayInv, [Next]_vars
  PROVE  ReplayInv'
<1>1. TypeOK' /\ Control'
  BY Typing DEF ReplayInv
<1>2. CASE UNCHANGED <<state, call, replaying, activeReplay, stopped>>
  <2>1. Idling' /\ Listed'
    BY <1>2 DEF ReplayInv, Idling, Listed, Opens, Committed, Taken
  <2>2. Replayed'
    BY <1>2 DEF ReplayInv, Replayed, Answered
  <2>3. QED
    BY <1>1, <2>1, <2>2 DEF ReplayInv
<1>3. CASE UNCHANGED vars
  <2>1. UNCHANGED <<state, call, replaying, activeReplay, stopped>>
    BY <1>3 DEF vars, playVars, replayVars, history
  <2>2. QED
    BY <1>2, <2>1
<1>4. CASE Scheduler
  <2>1. UNCHANGED <<state, call, replaying, activeReplay, stopped>>
    BY <1>4, SchedulerDoes DEF ReplayInv
  <2>2. QED
    BY <1>2, <2>1
<1>5. ASSUME NEW c \in Callers, Begin(c) \/ Continue(c)
      PROVE  ReplayInv'
  BY <1>1, <1>5, IdlingKept, ListedKept, ReplayedKept DEF ReplayInv
<1>6. QED
  BY <1>3, <1>4, <1>5, Steps

\* For any number of clients, of which one opens a file once: after a Stop, whichever
\* client made it and whatever the others were doing, no protocol replays between calls.
THEOREM EndsReplay ==
  ASSUME OneOpen
  PROVE  Spec => []StopEndsReplay
<1>1. Init => ReplayInv
  <2>1. ASSUME Init PROVE Idling /\ Listed /\ Replayed
    <3>1. \A c \in Callers : call[c].op = "none"
      BY <2>1, NoCallType DEF Init
    <3>2. state = "Idle" /\ ~stopped /\ replaying = {} /\ activeReplay = {}
      BY <2>1 DEF Init
    <3>3. QED
      BY <3>1, <3>2 DEF Idling, Listed, Replayed, Opens, Committed, Taken
  <2>2. QED
    BY <2>1, Starting DEF ReplayInv
<1>2. ReplayInv /\ [Next]_vars => ReplayInv'
  BY ReplayKept
<1>3. ReplayInv => StopEndsReplay
  BY DEF ReplayInv, Listed, Replayed, Answered, AtRest, At, StopEndsReplay
<1>4. QED
  BY <1>1, <1>2, <1>3, PTL DEF Spec

=============================================================================
