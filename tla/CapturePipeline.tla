---------------------------- MODULE CapturePipeline ----------------------------
(***************************************************************************)
(* Capture in CoreEngine (recplay_core/src/CoreEngine.cpp): the callback   *)
(* that a protocol's I/O thread calls for each packet, the ring it fills,  *)
(* the worker thread that empties the ring into the file, and the calls    *)
(* that start and stop them - from the session for a recording, from the   *)
(* runtime catalog for a single plugin.  Both run on the HTTP thread, one  *)
(* call after another.                                                     *)
(*                                                                         *)
(* The ring is the atomic FIFO that module SpscRing implements.  The ends  *)
(* of the storage service's WritePacket and FinalizeFile are steps of      *)
(* their own, since nothing keeps the two apart but the order of calls.    *)
(***************************************************************************)
EXTENDS Naturals, FiniteSets, SequencesExt

CONSTANTS
  Protocols,      \* attached protocols
  Requests,       \* sets of protocols a recording may ask for
  Plugins,        \* protocols started and stopped as plugins too
  SharedIo,       \* protocols whose I/O thread serves a replay as well
  Failing,        \* protocols whose service may refuse to start
  RingSize,       \* items that fit a ring
  MaxPackets,     \* how many packets each protocol receives
  Filtered,       \* numbers of packets that a filter or an injector drops
  MaxRecordings   \* how many recordings are begun

ASSUME PipelineAssumption ==
  /\ Requests \subseteq SUBSET Protocols /\ Plugins \subseteq Protocols
  /\ SharedIo \subseteq Protocols /\ Failing \subseteq Protocols
  /\ RingSize \in Nat \ {0} /\ MaxPackets \in [Protocols -> Nat] /\ Filtered \subseteq Nat
  /\ MaxRecordings \in Nat

VARIABLES
  active,      \* capture_active of each protocol
  running,     \* worker_running
  service,     \* capturing_ of the protocol service, with its callback
  io,          \* where the I/O thread is in the callback: "idle", "called", "loop", "push", "notify"
  received,    \* packets received so far; the last one is the callback's argument
  ring,        \* the queue of each protocol
  worker,      \* where the worker is in RunProtocolWorker, "none" if not joinable
  draining,    \* whether it is in the second loop
  hand,        \* the packet the worker handles, 0 if none
  writing,     \* StorageService::writing_
  file,        \* <<protocol, packet>> pairs in the order they are written
  call,        \* what the API thread is doing
  activeRecord, \* SessionController::active_record_protocols_
  accepted,    \* history: packets pushed while the file was being written
  recorded,    \* history: protocols whose captures the last recording stopped
  recordings   \* history: recordings begun

ioVars == <<service, io, received, ring, accepted>>
workerVars == <<worker, draining, hand>>
flags == <<active, running>>
storageVars == <<writing, file>>
apiVars == <<call, activeRecord, recorded, recordings>>
vars == <<flags, ioVars, workerVars, storageVars, apiVars>>

NoCall == [op |-> "none", pc |-> "idle", proto |-> "none", todo |-> {}, started |-> {}]
At(pc) == call.pc = pc
Goto(pc) == call' = [call EXCEPT !.pc = pc]

-----------------------------------------------------------------------------
(***************************************************************************)
(* The I/O thread of a protocol.                                           *)
(***************************************************************************)

\* A packet arrives: the handler copies the callback under the service's mutex.
Receive(p) ==
  /\ io[p] = "idle"
  /\ service[p]
  /\ received[p] < MaxPackets[p]
  /\ received' = [received EXCEPT ![p] = @ + 1]
  /\ io' = [io EXCEPT ![p] = "called"]
  /\ UNCHANGED <<flags, service, ring, accepted, workerVars, storageVars, apiVars>>

\* The callback gives the packet up once the worker is told to end: at its
\* beginning without a word, in the loop around TryPush with a notification.
TestRunning(p) ==
  /\ \/ io[p] = "called" /\ io' = [io EXCEPT ![p] = IF running[p] THEN "loop" ELSE "idle"]
     \/ io[p] = "loop" /\ io' = [io EXCEPT ![p] = IF running[p] THEN "push" ELSE "notify"]
  /\ UNCHANGED <<flags, service, received, ring, accepted, workerVars, storageVars, apiVars>>

\* A plausible bug, for a mutant run: the callback pushes into a full ring.
TryPushWhenFull(p) ==
  /\ io[p] = "push"
  /\ ring' = [ring EXCEPT ![p] = Append(@, received[p])]
  /\ accepted' = [accepted EXCEPT ![p] = IF writing THEN Append(@, received[p]) ELSE @]
  /\ io' = [io EXCEPT ![p] = "notify"]
  /\ UNCHANGED <<flags, service, received, workerVars, storageVars, apiVars>>

\* TryPush; when the ring is full the callback sleeps and tries again.
TryPush(p) ==
  /\ io[p] = "push"
  /\ IF Len(ring[p]) < RingSize
       THEN /\ ring' = [ring EXCEPT ![p] = Append(@, received[p])]
            /\ accepted' = [accepted EXCEPT ![p] = IF writing THEN Append(@, received[p]) ELSE @]
            /\ io' = [io EXCEPT ![p] = "notify"]
       ELSE /\ io' = [io EXCEPT ![p] = "loop"]
            /\ UNCHANGED <<ring, accepted>>
  /\ UNCHANGED <<flags, service, received, workerVars, storageVars, apiVars>>

\* notify_one, without wait_mutex: a worker about to block hears nothing.
Notified(w) == IF w = "asleep" THEN "decide" ELSE w

NotifyPacket(p) ==
  /\ io[p] = "notify"
  /\ io' = [io EXCEPT ![p] = "idle"]
  /\ worker' = [worker EXCEPT ![p] = Notified(@)]
  /\ UNCHANGED <<flags, service, received, ring, accepted, draining, hand, storageVars, apiVars>>

-----------------------------------------------------------------------------
(***************************************************************************)
(* The worker.                                                             *)
(***************************************************************************)

\* The test of the first loop; the second loop has none.
WorkerTest(p) ==
  /\ worker[p] = "loop"
  /\ draining' = [draining EXCEPT ![p] = @ \/ ~running[p]]
  /\ worker' = [worker EXCEPT ![p] = "pop"]
  /\ UNCHANGED <<flags, ioVars, hand, storageVars, apiVars>>

\* A plausible bug, for a mutant run: the second loop is missing.
WorkerPopNoDrain(p) ==
  /\ worker[p] = "pop"
  /\ IF ring[p] # <<>> /\ ~draining[p]
       THEN /\ hand' = [hand EXCEPT ![p] = Head(ring[p])]
            /\ ring' = [ring EXCEPT ![p] = Tail(@)]
            /\ worker' = [worker EXCEPT ![p] = "handle"]
       ELSE /\ worker' = [worker EXCEPT ![p] = IF draining[p] THEN "exited" ELSE "decide"]
            /\ UNCHANGED <<hand, ring>>
  /\ UNCHANGED <<flags, service, io, received, accepted, draining, storageVars, apiVars>>

WorkerPop(p) ==
  /\ worker[p] = "pop"
  /\ IF ring[p] # <<>>
       THEN /\ hand' = [hand EXCEPT ![p] = Head(ring[p])]
            /\ ring' = [ring EXCEPT ![p] = Tail(@)]
            /\ worker' = [worker EXCEPT ![p] = "handle"]
       ELSE /\ worker' = [worker EXCEPT ![p] = IF draining[p] THEN "exited" ELSE "decide"]
            /\ UNCHANGED <<hand, ring>>
  /\ UNCHANGED <<flags, service, io, received, accepted, draining, storageVars, apiVars>>

\* wait_for: the predicate, then the block, then a notification or the timeout.
WorkerDecide(p) ==
  /\ worker[p] = "decide"
  /\ worker' = [worker EXCEPT ![p] = IF ~running[p] \/ ring[p] # <<>> THEN "loop" ELSE "toSleep"]
  /\ UNCHANGED <<flags, ioVars, draining, hand, storageVars, apiVars>>

WorkerBlock(p) ==
  /\ worker[p] = "toSleep"
  /\ worker' = [worker EXCEPT ![p] = "asleep"]
  /\ UNCHANGED <<flags, ioVars, draining, hand, storageVars, apiVars>>

\* A plausible bug, for a mutant run: cv.wait instead of cv.wait_for.
WorkerTimeoutNever(p) ==
  /\ worker[p] = "asleep"
  /\ UNCHANGED vars

WorkerTimeout(p) ==
  /\ worker[p] = "asleep"
  /\ worker' = [worker EXCEPT ![p] = "loop"]
  /\ UNCHANGED <<flags, ioVars, draining, hand, storageVars, apiVars>>

\* HandleCapturedPacket up to the check of IsWriting, with pipeline_mutex_ held
\* from here to the end of the write.
WorkerHandle(p) ==
  /\ worker[p] = "handle"
  /\ IF hand[p] \in Filtered
       THEN worker' = [worker EXCEPT ![p] = "loop"] /\ hand' = [hand EXCEPT ![p] = 0]
       ELSE /\ \A q \in Protocols : worker[q] # "inWriter"
            /\ worker' = [worker EXCEPT ![p] = IF writing THEN "inWriter" ELSE "loop"]
            /\ hand' = [hand EXCEPT ![p] = IF writing THEN @ ELSE 0]
  /\ UNCHANGED <<flags, ioVars, draining, storageVars, apiVars>>

WorkerWrite(p) ==
  /\ worker[p] = "inWriter"
  /\ file' = Append(file, <<p, hand[p]>>)
  /\ hand' = [hand EXCEPT ![p] = 0]
  /\ worker' = [worker EXCEPT ![p] = "loop"]
  /\ UNCHANGED <<flags, ioVars, draining, writing, apiVars>>

-----------------------------------------------------------------------------
(***************************************************************************)
(* The API thread.                                                         *)
(***************************************************************************)

\* StartRecording creates the file before anything else.
BeginRecording ==
  /\ At("idle") /\ activeRecord = {} /\ recordings < MaxRecordings
  /\ \E request \in Requests :
       call' = [NoCall EXCEPT !.op = "record", !.pc = "next", !.todo = request]
  /\ writing' = TRUE /\ file' = <<>>
  /\ accepted' = [p \in Protocols |-> <<>>]
  /\ recordings' = recordings + 1
  /\ recorded' = {}
  /\ UNCHANGED <<flags, service, io, received, ring, workerVars, activeRecord>>

\* The next protocol of the recording; after the last the session commits, or
\* its state refuses the recording and all that was started is stopped.
NextStart ==
  /\ At("next")
  /\ \/ \E p \in call.todo :
          /\ call' = [call EXCEPT !.pc = "start", !.proto = p, !.todo = @ \ {p}]
          /\ UNCHANGED <<activeRecord, recorded>>
     \/ /\ call.todo = {}
        /\ \/ activeRecord' = call.started /\ call' = NoCall /\ UNCHANGED recorded
           \/ /\ call' = [call EXCEPT !.pc = "nextStop", !.todo = call.started]
              /\ recorded' = call.started
              /\ UNCHANGED activeRecord
  /\ UNCHANGED <<flags, ioVars, workerVars, storageVars, recordings>>

BeginPlugin ==
  /\ At("idle")
  /\ \E p \in Plugins : call' = [NoCall EXCEPT !.op = "startPlugin", !.pc = "start", !.proto = p]
  /\ UNCHANGED <<flags, ioVars, workerVars, storageVars, activeRecord, recorded, recordings>>

\* StartProtocolCapture returned true or false.
Succeed ==
  call' = IF call.op = "startPlugin" THEN NoCall
          ELSE [call EXCEPT !.pc = "next", !.started = @ \cup {call.proto}]

\* StartProtocolCapture: nothing to do for a capture that runs already.
StartWorker ==
  /\ At("start")
  /\ LET p == call.proto IN
     IF active[p]
       THEN Succeed /\ UNCHANGED <<running, worker, draining>>
       ELSE /\ running' = [running EXCEPT ![p] = TRUE]
            /\ worker' = [worker EXCEPT ![p] = IF @ = "none" THEN "loop" ELSE @]
            /\ draining' = [draining EXCEPT ![p] = IF worker[p] = "none" THEN FALSE ELSE @]
            /\ Goto("service")
  /\ UNCHANGED <<active, ioVars, hand, storageVars, activeRecord, recorded, recordings>>

\* The service starts to receive, or refuses; then the worker is told to end.
StartService ==
  /\ At("service")
  /\ \/ /\ service' = [service EXCEPT ![call.proto] = TRUE]
        /\ Goto("activate")
        /\ UNCHANGED running
     \/ /\ call.proto \in Failing
        /\ running' = [running EXCEPT ![call.proto] = FALSE]
        /\ Goto("undoNotify")
        /\ UNCHANGED service
  /\ UNCHANGED <<active, io, received, ring, accepted, workerVars, storageVars,
                 activeRecord, recorded, recordings>>

Activate ==
  /\ At("activate")
  /\ active' = [active EXCEPT ![call.proto] = TRUE]
  /\ Succeed
  /\ UNCHANGED <<running, ioVars, workerVars, storageVars, activeRecord, recorded, recordings>>

BeginStop ==
  /\ At("idle")
  /\ \/ /\ activeRecord # {}
        /\ call' = [NoCall EXCEPT !.op = "stopRecord", !.pc = "nextStop", !.todo = activeRecord]
        /\ activeRecord' = {}
        /\ recorded' = activeRecord
     \/ \E p \in Plugins :
          /\ call' = [NoCall EXCEPT !.op = "stopPlugin", !.pc = "nextStop", !.todo = {p}]
          /\ UNCHANGED <<activeRecord, recorded>>
  /\ UNCHANGED <<flags, ioVars, workerVars, storageVars, recordings>>

NextStop ==
  /\ At("nextStop")
  /\ \/ \E p \in call.todo :
          call' = [call EXCEPT !.pc = "stopService", !.proto = p, !.todo = @ \ {p}]
     \/ call.todo = {} /\ call.op = "stopPlugin" /\ call' = NoCall
     \/ call.todo = {} /\ call.op # "stopPlugin" /\ Goto("finalize")
  /\ UNCHANGED <<flags, ioVars, workerVars, storageVars, activeRecord, recorded, recordings>>

\* The service's StopCapture: no handler starts any more ...
StopService ==
  /\ At("stopService")
  /\ service' = [service EXCEPT ![call.proto] = FALSE]
  /\ Goto("joinIo")
  /\ UNCHANGED <<flags, io, received, ring, accepted, workerVars, storageVars,
                 activeRecord, recorded, recordings>>

\* A plausible bug, for a mutant run: the I/O thread is never waited for.
JoinIoNever ==
  /\ At("joinIo")
  /\ Goto("lower")
  /\ UNCHANGED <<flags, ioVars, workerVars, storageVars, activeRecord, recorded, recordings>>

\* ... and the I/O thread is joined, unless a replay still needs it.
JoinIo ==
  /\ At("joinIo")
  /\ call.proto \in SharedIo \/ io[call.proto] = "idle"
  /\ Goto("lower")
  /\ UNCHANGED <<flags, ioVars, workerVars, storageVars, activeRecord, recorded, recordings>>

LowerFlags ==
  /\ At("lower")
  /\ active' = [active EXCEPT ![call.proto] = FALSE]
  /\ running' = [running EXCEPT ![call.proto] = FALSE]
  /\ Goto("notify")
  /\ UNCHANGED <<ioVars, workerVars, storageVars, activeRecord, recorded, recordings>>

\* notify_all, after either end of worker_running.
NotifyEnd ==
  /\ At("notify") \/ At("undoNotify")
  /\ worker' = [worker EXCEPT ![call.proto] = Notified(@)]
  /\ Goto(IF At("notify") THEN "join" ELSE "undoJoin")
  /\ UNCHANGED <<flags, ioVars, draining, hand, storageVars, activeRecord, recorded, recordings>>

\* A plausible bug, for a mutant run: StopProtocolCapture does not join the worker.
JoinWorkerNever ==
  /\ At("join") \/ At("undoJoin")
  /\ IF At("join")
       THEN Goto("nextStop") /\ UNCHANGED recorded
       ELSE IF call.op = "startPlugin" THEN call' = NoCall /\ UNCHANGED recorded
       ELSE /\ call' = [call EXCEPT !.pc = "nextStop", !.todo = call.started]
            /\ recorded' = call.started
  /\ UNCHANGED <<flags, ioVars, workerVars, storageVars, activeRecord, recordings>>

JoinWorker ==
  /\ At("join") \/ At("undoJoin")
  /\ worker[call.proto] \in {"none", "exited"}
  /\ worker' = [worker EXCEPT ![call.proto] = "none"]
  /\ IF At("join")
       THEN Goto("nextStop") /\ UNCHANGED recorded
       ELSE IF call.op = "startPlugin" THEN call' = NoCall /\ UNCHANGED recorded
       ELSE /\ call' = [call EXCEPT !.pc = "nextStop", !.todo = call.started]
            /\ recorded' = call.started
  /\ UNCHANGED <<flags, ioVars, draining, hand, storageVars, activeRecord, recordings>>

\* FinalizeFile lowers writing_, then closes the writer.
Finalize ==
  /\ At("finalize")
  /\ writing' = FALSE
  /\ Goto("inFinalize")
  /\ UNCHANGED <<flags, ioVars, workerVars, file, activeRecord, recorded, recordings>>

CloseWriter ==
  /\ At("inFinalize")
  /\ call' = NoCall
  /\ UNCHANGED <<flags, ioVars, workerVars, storageVars, activeRecord, recorded, recordings>>

-----------------------------------------------------------------------------
Init ==
  /\ active = [p \in Protocols |-> FALSE]
  /\ running = [p \in Protocols |-> FALSE]
  /\ service = [p \in Protocols |-> FALSE]
  /\ io = [p \in Protocols |-> "idle"]
  /\ received = [p \in Protocols |-> 0]
  /\ ring = [p \in Protocols |-> <<>>]
  /\ worker = [p \in Protocols |-> "none"]
  /\ draining = [p \in Protocols |-> FALSE]
  /\ hand = [p \in Protocols |-> 0]
  /\ writing = FALSE /\ file = <<>>
  /\ call = NoCall /\ activeRecord = {}
  /\ accepted = [p \in Protocols |-> <<>>]
  /\ recorded = {} /\ recordings = 0

Callback(p) == TestRunning(p) \/ TryPush(p) \/ NotifyPacket(p)

Worker(p) ==
  \/ WorkerTest(p) \/ WorkerPop(p) \/ WorkerDecide(p) \/ WorkerBlock(p) \/ WorkerTimeout(p)
  \/ WorkerHandle(p) \/ WorkerWrite(p)

Continue ==
  \/ NextStart \/ StartWorker \/ StartService \/ Activate
  \/ NextStop \/ StopService \/ JoinIo \/ LowerFlags \/ NotifyEnd \/ JoinWorker
  \/ Finalize \/ CloseWriter

Next ==
  \/ \E p \in Protocols : Receive(p) \/ Callback(p) \/ Worker(p)
  \/ BeginRecording \/ BeginPlugin \/ BeginStop
  \/ Continue

Spec == Init /\ [][Next]_vars

\* Threads that can run do run; no packet has to arrive and no call to be made.
FairSpec ==
  /\ Spec
  /\ \A p \in Protocols : WF_vars(Callback(p)) /\ WF_vars(Worker(p))
  /\ WF_vars(Continue)

-----------------------------------------------------------------------------
(***************************************************************************)
(* Properties.                                                             *)
(***************************************************************************)

\* Every variable has its type; no ring holds more than fits it.
TypeOK ==
  /\ active \in [Protocols -> BOOLEAN] /\ running \in [Protocols -> BOOLEAN]
  /\ service \in [Protocols -> BOOLEAN] /\ draining \in [Protocols -> BOOLEAN]
  /\ io \in [Protocols -> {"idle", "called", "loop", "push", "notify"}]
  /\ received \in [Protocols -> Nat] /\ \A p \in Protocols : received[p] <= MaxPackets[p]
  /\ ring \in [Protocols -> Seq(Nat)] /\ accepted \in [Protocols -> Seq(Nat)]
  /\ \A p \in Protocols : Len(ring[p]) <= RingSize
  /\ worker \in [Protocols -> {"none", "loop", "pop", "decide", "toSleep", "asleep", "handle", "inWriter", "exited"}]
  /\ hand \in [Protocols -> Nat]
  /\ writing \in BOOLEAN /\ file \in Seq(Protocols \X Nat)
  /\ call.todo \subseteq Protocols /\ call.started \subseteq Protocols
  /\ activeRecord \subseteq Protocols /\ recorded \subseteq Protocols
  /\ recordings \in 0 .. MaxRecordings

NoRecording == At("idle") /\ activeRecord = {}

\* The file holds the packets of protocol p once and in the order they were received in.
InOrderOnce(p) ==
  \A i, j \in 1 .. Len(file) :
    i < j /\ file[i][1] = p /\ file[j][1] = p => file[i][2] < file[j][2]

\* When StartRecording has failed or StopRecording has returned, the file holds
\* every packet accepted from the protocols it stopped but for the filtered ones, once
\* and in order; before them may come packets that waited in the ring of a capture
\* that ran already.
CapturedIsWritten ==
  NoRecording =>
    \A p \in recorded :
      /\ \A n \in ToSet(accepted[p]) \ Filtered : <<p, n>> \in ToSet(file)
      /\ InOrderOnce(p)
      /\ \A e \in ToSet(file) :
           e[1] = p =>
             /\ e[2] \notin Filtered
             /\ e[2] \in ToSet(accepted[p]) \/ \A n \in ToSet(accepted[p]) : e[2] < n

\* Whoever is inside WritePacket while the API thread closes the writer captures as a plugin
\* beside the recording: of the protocols that the recording has stopped nobody is, since its
\* calls join their workers first, also when a capture had run before or another refused to start.
RecordingLeavesWriter ==
  At("inFinalize") => \A p \in Protocols : worker[p] = "inWriter" => p \in Plugins \ recorded

\* Between calls a capture that is not active has no thread in the callback, no
\* worker and nothing in its ring.
StoppedIsQuiet ==
  At("idle") =>
    \A p \in Protocols : ~active[p] => io[p] = "idle" /\ worker[p] = "none" /\ ring[p] = <<>>

\* A packet that was accepted is handled, though its notification may be lost.
AcceptedIsHandled ==
  \A p \in Protocols : \A n \in 1 .. MaxPackets[p] :
    Contains(ring[p], n) ~> ~Contains(ring[p], n)

\* Every call returns: the callback that waits for room in a full ring does not
\* keep StopProtocolCapture waiting for its thread.
CallsReturn == ~At("idle") ~> At("idle")

\* The I/O thread, the worker and the caller wait for each other, but never all of them.
NothingHangs == AcceptedIsHandled /\ CallsReturn
=============================================================================
