------------------------- MODULE CapturePipeline_proofs -------------------------
(***************************************************************************)
(* Proofs about the capture pipeline: its types; that a capture which is   *)
(* not active is quiet between calls; that the writer has one user; that   *)
(* what a recording has accepted is written.                               *)
(***************************************************************************)
EXTENDS CapturePipeline, TLAPS

-----------------------------------------------------------------------------
(***************************************************************************)
(* Types, and which call is where.                                         *)
(***************************************************************************)
Starting == {"start", "service", "activate", "undoNotify", "undoJoin"}
Stopping == {"stopService", "joinIo", "lower", "notify", "join"}
Ending == {"finalize", "inFinalize"}

WorkerPc == {"none", "loop", "pop", "decide", "toSleep", "asleep", "handle", "inWriter", "exited"}

CallType ==
  [op : {"none", "record", "startPlugin", "stopRecord", "stopPlugin"},
   pc : {"idle", "next", "nextStop"} \cup Starting \cup Stopping \cup Ending,
   proto : Protocols \cup {"none"}, todo : SUBSET Protocols, started : SUBSET Protocols]

\* A step that works on one protocol has one; each call passes its own steps.
Control ==
  /\ call \in CallType
  /\ call.pc \in Starting \cup Stopping => call.proto \in Protocols
  /\ call.op = "none" <=> call.pc = "idle"
  /\ call.op = "startPlugin" => call.pc \in Starting
  /\ call.op = "stopRecord" => call.pc \in {"nextStop"} \cup Stopping \cup Ending
  /\ call.op = "stopPlugin" => call.pc \in {"nextStop"} \cup Stopping
  /\ call.op = "startPlugin" => call.proto \in Plugins

Typed == TypeOK /\ Control

\* What is assumed of the sizes.
LEMMA Sizes ==
  /\ RingSize \in Nat /\ MaxRecordings \in Nat
  /\ \A p \in Protocols : MaxPackets[p] \in Nat
  BY PipelineAssumption

\* A sequence grows by one item at its end.
LEMMA Grows ==
  ASSUME NEW S, NEW s \in Seq(S), NEW x \in S
  PROVE  /\ Append(s, x) \in Seq(S) /\ Len(Append(s, x)) = Len(s) + 1
         /\ Len(s) \in Nat
  OBVIOUS

\* A sequence that is not empty loses its first item.
LEMMA Shrinks ==
  ASSUME NEW S, NEW s \in Seq(S), s # <<>>
  PROVE  /\ Head(s) \in S /\ Tail(s) \in Seq(S) /\ Len(Tail(s)) = Len(s) - 1
         /\ Len(s) \in Nat
  OBVIOUS

\* One ring is replaced.
LEMMA OneRing ==
  ASSUME NEW r \in [Protocols -> Seq(Nat)], NEW p \in Protocols, NEW s \in Seq(Nat), Len(s) <= RingSize,
         \A q \in Protocols : Len(r[q]) <= RingSize
  PROVE  /\ [r EXCEPT ![p] = s] \in [Protocols -> Seq(Nat)]
         /\ \A q \in Protocols : Len([r EXCEPT ![p] = s][q]) <= RingSize
<1>1. [r EXCEPT ![p] = s] \in [Protocols -> Seq(Nat)]
  OBVIOUS
<1>2. ASSUME NEW q \in Protocols
      PROVE  Len([r EXCEPT ![p] = s][q]) <= RingSize
  <2>1. CASE q = p
    BY <2>1
  <2>2. CASE q # p
    BY <2>2
  <2>3. QED
    BY <2>1, <2>2
<1>3. QED
  BY <1>1, <1>2

\* Initially every variable has its type.
LEMMA TypedInit == Init => Typed
<1> SUFFICES ASSUME Init
             PROVE  Typed
  OBVIOUS
<1>1. call \in CallType
  BY DEF Init, CallType, NoCall
<1>2. Control
  BY <1>1 DEF Init, Control, NoCall, Starting, Stopping, Ending
<1>3. TypeOK
  <2>1. ring \in [Protocols -> Seq(Nat)] /\ accepted \in [Protocols -> Seq(Nat)]
    BY DEF Init
  <2>2. \A p \in Protocols : received[p] <= MaxPackets[p] /\ Len(ring[p]) <= RingSize
    BY Sizes DEF Init
  <2>3. file \in Seq(Protocols \X Nat)
    BY DEF Init
  <2>4. recordings \in 0 .. MaxRecordings
    BY Sizes DEF Init
  <2>5. QED
    BY <2>1, <2>2, <2>3, <2>4 DEF Init, TypeOK, NoCall
<1>4. QED
  BY <1>2, <1>3 DEF Typed

\* A step of a callback keeps the types.
LEMMA IoKeepsTypes ==
  ASSUME NEW p \in Protocols, Typed, Receive(p) \/ Callback(p)
  PROVE  Typed'
<1> USE DEF flags, ioVars, workerVars, storageVars, apiVars
<1>1. Control'
  BY DEF Typed, Control, Receive, Callback, TestRunning, TryPush, NotifyPacket
<1>2. CASE Receive(p)
  <2>1. received' \in [Protocols -> Nat]
    BY <1>2 DEF Receive, Typed, TypeOK
  <2>2. \A q \in Protocols : received'[q] <= MaxPackets[q]
    <3>1. ASSUME NEW q \in Protocols
          PROVE  received'[q] <= MaxPackets[q]
      <4>1. received \in [Protocols -> Nat] /\ received[q] <= MaxPackets[q] /\ MaxPackets[q] \in Nat
        BY Sizes DEF Typed, TypeOK
      <4>2. QED
        BY <1>2, <4>1 DEF Receive
    <3>2. QED
      BY <3>1
  <2>3. io' \in [Protocols -> {"idle", "called", "loop", "push", "notify"}]
    BY <1>2 DEF Receive, Typed, TypeOK
  <2>4. QED
    BY <1>1, <1>2, <2>1, <2>2, <2>3 DEF Receive, Typed, TypeOK
<1>3. CASE TestRunning(p)
  BY <1>1, <1>3 DEF TestRunning, Typed, TypeOK
<1>4. CASE TryPush(p)
  <2>1. CASE Len(ring[p]) < RingSize
    <3>0. ring[p] \in Seq(Nat) /\ accepted[p] \in Seq(Nat) /\ received[p] \in Nat
      BY DEF Typed, TypeOK
    <3>1. Append(ring[p], received[p]) \in Seq(Nat) /\ Len(Append(ring[p], received[p])) <= RingSize
      BY <2>1, <3>0, Grows, Sizes
    <3>2. Append(accepted[p], received[p]) \in Seq(Nat)
      BY <3>0, Grows
    <3>3. ring' \in [Protocols -> Seq(Nat)] /\ \A q \in Protocols : Len(ring'[q]) <= RingSize
      <4>1. ring' = [ring EXCEPT ![p] = Append(ring[p], received[p])]
        BY <1>4, <2>1 DEF TryPush
      <4>2. ring \in [Protocols -> Seq(Nat)] /\ \A q \in Protocols : Len(ring[q]) <= RingSize
        BY DEF Typed, TypeOK
      <4>3. QED
        BY <3>1, <4>1, <4>2, OneRing
    <3>4. accepted' \in [Protocols -> Seq(Nat)]
      <4>1. accepted' = IF writing THEN [accepted EXCEPT ![p] = Append(accepted[p], received[p])]
                        ELSE [accepted EXCEPT ![p] = accepted[p]]
        BY <1>4, <2>1 DEF TryPush
      <4>2. accepted \in [Protocols -> Seq(Nat)]
        BY DEF Typed, TypeOK
      <4>3. QED
        BY <3>0, <3>2, <4>1, <4>2
    <3>5. QED
      BY <1>1, <1>4, <2>1, <3>3, <3>4 DEF TryPush, Typed, TypeOK
  <2>2. CASE ~(Len(ring[p]) < RingSize)
    BY <1>1, <1>4, <2>2 DEF TryPush, Typed, TypeOK
  <2>3. QED
    BY <2>1, <2>2
<1>5. CASE NotifyPacket(p)
  BY <1>1, <1>5 DEF NotifyPacket, Notified, Typed, TypeOK
<1>6. QED
  BY <1>2, <1>3, <1>4, <1>5 DEF Callback

\* A step of a worker keeps them.
LEMMA WorkerKeepsTypes ==
  ASSUME NEW p \in Protocols, Typed, Worker(p)
  PROVE  Typed'
<1> USE DEF flags, ioVars, workerVars, storageVars, apiVars
<1>1. Control'
  BY DEF Typed, Control, Worker, WorkerTest, WorkerPop, WorkerDecide, WorkerBlock, WorkerTimeout,
         WorkerHandle, WorkerWrite
<1>2. CASE WorkerTest(p)
  BY <1>1, <1>2 DEF WorkerTest, Typed, TypeOK
<1>3. CASE WorkerPop(p)
  <2>1. CASE ring[p] # <<>>
    <3>0. ring \in [Protocols -> Seq(Nat)] /\ \A q \in Protocols : Len(ring[q]) <= RingSize
      BY DEF Typed, TypeOK
    <3>1. Head(ring[p]) \in Nat /\ Tail(ring[p]) \in Seq(Nat) /\ Len(Tail(ring[p])) <= RingSize
      <4>1. ring[p] \in Seq(Nat) /\ Len(ring[p]) <= RingSize
        BY <3>0
      <4>2. QED
        BY <2>1, <4>1, Shrinks, Sizes
    <3>2. ring' \in [Protocols -> Seq(Nat)] /\ \A q \in Protocols : Len(ring'[q]) <= RingSize
      <4>1. ring' = [ring EXCEPT ![p] = Tail(ring[p])]
        BY <1>3, <2>1 DEF WorkerPop
      <4>2. QED
        BY <3>0, <3>1, <4>1, OneRing
    <3>3. hand' \in [Protocols -> Nat] /\ worker' \in [Protocols -> WorkerPc]
      <4>1. hand \in [Protocols -> Nat] /\ worker \in [Protocols -> WorkerPc]
        BY DEF Typed, TypeOK, WorkerPc
      <4>2. hand' = [hand EXCEPT ![p] = Head(ring[p])] /\ worker' = [worker EXCEPT ![p] = "handle"]
        BY <1>3, <2>1 DEF WorkerPop
      <4>3. QED
        BY <3>1, <4>1, <4>2 DEF WorkerPc
    <3>4. QED
      BY <1>1, <1>3, <3>2, <3>3 DEF WorkerPop, Typed, TypeOK, WorkerPc
  <2>2. CASE ring[p] = <<>>
    BY <1>1, <1>3, <2>2 DEF WorkerPop, Typed, TypeOK
  <2>3. QED
    BY <2>1, <2>2
<1>4. CASE WorkerDecide(p) \/ WorkerBlock(p) \/ WorkerTimeout(p)
  BY <1>1, <1>4 DEF WorkerDecide, WorkerBlock, WorkerTimeout, Typed, TypeOK
<1>5. CASE WorkerHandle(p)
  <2>1. hand' \in [Protocols -> Nat] /\ worker' \in [Protocols -> WorkerPc]
    <3>1. /\ hand \in [Protocols -> Nat] /\ hand[p] \in Nat /\ writing \in BOOLEAN
          /\ worker \in [Protocols -> WorkerPc]
      BY DEF Typed, TypeOK, WorkerPc
    <3>2. \E w \in WorkerPc, n \in Nat : worker' = [worker EXCEPT ![p] = w] /\ hand' = [hand EXCEPT ![p] = n]
      <4>1. CASE hand[p] \in Filtered
        BY <1>5, <4>1 DEF WorkerHandle, WorkerPc
      <4>2. CASE hand[p] \notin Filtered /\ writing
        BY <1>5, <3>1, <4>2 DEF WorkerHandle, WorkerPc
      <4>3. CASE hand[p] \notin Filtered /\ ~writing
        BY <1>5, <4>3 DEF WorkerHandle, WorkerPc
      <4>4. QED
        BY <3>1, <4>1, <4>2, <4>3
    <3>3. QED
      BY <3>1, <3>2
  <2>2. QED
    BY <1>1, <1>5, <2>1 DEF WorkerHandle, Typed, TypeOK, WorkerPc
<1>6. CASE WorkerWrite(p)
  <2>1. Append(file, <<p, hand[p]>>) \in Seq(Protocols \X Nat)
    BY DEF Typed, TypeOK
  <2>2. QED
    BY <1>1, <1>6, <2>1 DEF WorkerWrite, Typed, TypeOK
<1>7. QED
  BY <1>2, <1>3, <1>4, <1>5, <1>6 DEF Worker

\* A capture that is started ends the call for a plugin, or lets the recording go on.
LEMMA SucceedKeepsControl ==
  ASSUME Typed, Succeed, call.pc \in Starting, call.op \in {"record", "startPlugin"}
  PROVE  Control'
<1> USE DEF NoCall, Starting, Stopping, Ending
<1>0. call \in CallType /\ call.proto \in Protocols
  BY DEF Typed, Control
<1>1. CASE call.op = "startPlugin"
  <2>1. call' = NoCall
    BY <1>1 DEF Succeed
  <2>2. call' \in CallType
    BY <2>1 DEF CallType
  <2>3. QED
    BY <2>1, <2>2 DEF Control
<1>2. CASE call.op = "record"
  <2>1. call' = [call EXCEPT !.pc = "next", !.started = @ \cup {call.proto}]
    BY <1>2 DEF Succeed
  <2>2. call' \in CallType
    BY <1>0, <2>1 DEF CallType
  <2>3. call'.op = "record" /\ call'.pc = "next"
    BY <1>0, <1>2, <2>1 DEF CallType
  <2>4. QED
    BY <2>2, <2>3 DEF Control
<1>3. QED
  BY <1>1, <1>2

\* A step of the API thread keeps the order of its steps.
LEMMA ApiKeepsControl ==
  ASSUME Typed, BeginRecording \/ BeginPlugin \/ BeginStop \/ Continue
  PROVE  Control'
<1> USE DEF At, Goto, NoCall, Starting, Stopping, Ending
<1>0. call \in CallType /\ activeRecord \subseteq Protocols
  BY DEF Typed, Control, TypeOK
<1>1. CASE BeginRecording
  <2>1. PICK request \in Requests :
          call' = [op |-> "record", pc |-> "next", proto |-> "none", todo |-> request, started |-> {}]
    BY <1>1 DEF BeginRecording
  <2>2. request \subseteq Protocols
    BY PipelineAssumption
  <2>3. call' \in CallType
    BY <2>1, <2>2 DEF CallType
  <2>4. QED
    BY <2>1, <2>3 DEF Control
<1>2. CASE NextStart
  <2>1. call.pc = "next" /\ call.op = "record"
    BY <1>2 DEF NextStart, Typed, Control, CallType
  <2>2. CASE \E p \in call.todo : call' = [call EXCEPT !.pc = "start", !.proto = p, !.todo = @ \ {p}]
    <3>1. PICK p \in call.todo : call' = [call EXCEPT !.pc = "start", !.proto = p, !.todo = @ \ {p}]
      BY <2>2
    <3>2. p \in Protocols
      BY <1>0 DEF CallType
    <3>3. call' \in CallType
      BY <1>0, <3>1, <3>2 DEF CallType
    <3>4. call'.op = "record" /\ call'.pc = "start" /\ call'.proto = p
      BY <1>0, <2>1, <3>1 DEF CallType
    <3>5. QED
      BY <3>2, <3>3, <3>4 DEF Control
  <2>3. CASE call' = NoCall
    <3>1. call' \in CallType
      BY <2>3 DEF CallType
    <3>2. QED
      BY <2>3, <3>1 DEF Control
  <2>4. CASE call' = [call EXCEPT !.pc = "nextStop", !.todo = call.started]
    <3>1. call' \in CallType
      BY <1>0, <2>4 DEF CallType
    <3>2. call'.op = "record" /\ call'.pc = "nextStop"
      BY <1>0, <2>1, <2>4 DEF CallType
    <3>3. QED
      BY <3>1, <3>2 DEF Control
  <2>5. QED
    BY <1>2, <2>2, <2>3, <2>4 DEF NextStart
<1>3. CASE BeginPlugin
  <2>1. PICK p \in Plugins :
          call' = [op |-> "startPlugin", pc |-> "start", proto |-> p, todo |-> {}, started |-> {}]
    BY <1>3 DEF BeginPlugin
  <2>2. p \in Protocols
    BY PipelineAssumption
  <2>3. call' \in CallType
    BY <2>1, <2>2 DEF CallType
  <2>4. QED
    BY <2>1, <2>2, <2>3 DEF Control
<1>4. CASE StartWorker
  <2>1. call.pc = "start" /\ call.op \in {"record", "startPlugin"}
    BY <1>4 DEF StartWorker, Typed, Control, CallType
  <2>2. CASE Succeed
    BY <2>1, <2>2, SucceedKeepsControl
  <2>3. CASE Goto("service")
    <3>1. call' \in CallType
      BY <1>0, <2>3 DEF CallType
    <3>2. QED
      BY <1>0, <2>1, <2>3, <3>1 DEF Typed, Control, CallType
  <2>4. QED
    BY <1>4, <2>2, <2>3 DEF StartWorker
<1>5. CASE StartService
  <2>1. call' \in CallType
    BY <1>0, <1>5 DEF StartService, Typed, Control, CallType
  <2>2. QED
    BY <1>0, <1>5, <2>1 DEF StartService, Typed, Control, CallType
<1>6. CASE Activate
  <2>1. call.pc = "activate" /\ call.op \in {"record", "startPlugin"}
    BY <1>6 DEF Activate, Typed, Control, CallType
  <2>2. QED
    BY <1>6, <2>1, SucceedKeepsControl DEF Activate
<1>7. CASE BeginStop
  <2>1. CASE call' = [NoCall EXCEPT !.op = "stopRecord", !.pc = "nextStop", !.todo = activeRecord]
    <3>1. call' = [op |-> "stopRecord", pc |-> "nextStop", proto |-> "none", todo |-> activeRecord, started |-> {}]
      BY <2>1
    <3>2. call' \in CallType
      BY <1>0, <3>1 DEF CallType
    <3>3. QED
      BY <3>1, <3>2 DEF Control
  <2>2. CASE \E p \in Plugins : call' = [NoCall EXCEPT !.op = "stopPlugin", !.pc = "nextStop", !.todo = {p}]
    <3>1. PICK p \in Plugins :
            call' = [op |-> "stopPlugin", pc |-> "nextStop", proto |-> "none", todo |-> {p}, started |-> {}]
      BY <2>2
    <3>2. {p} \subseteq Protocols
      BY PipelineAssumption
    <3>3. call' \in CallType
      BY <3>1, <3>2 DEF CallType
    <3>4. QED
      BY <3>1, <3>3 DEF Control
  <2>3. QED
    BY <1>7, <2>1, <2>2 DEF BeginStop
<1>8. CASE NextStop
  <2>1. call.pc = "nextStop" /\ call.op \in {"record", "stopRecord", "stopPlugin"}
    BY <1>8 DEF NextStop, Typed, Control, CallType
  <2>2. CASE \E p \in call.todo : call' = [call EXCEPT !.pc = "stopService", !.proto = p, !.todo = @ \ {p}]
    <3>1. PICK p \in call.todo : call' = [call EXCEPT !.pc = "stopService", !.proto = p, !.todo = @ \ {p}]
      BY <2>2
    <3>2. p \in Protocols
      BY <1>0 DEF CallType
    <3>3. call' \in CallType
      BY <1>0, <3>1, <3>2 DEF CallType
    <3>4. call'.op = call.op /\ call'.pc = "stopService" /\ call'.proto = p
      BY <1>0, <3>1 DEF CallType
    <3>5. QED
      BY <2>1, <3>2, <3>3, <3>4 DEF Control
  <2>3. CASE call' = NoCall
    <3>1. call' \in CallType
      BY <2>3 DEF CallType
    <3>2. QED
      BY <2>3, <3>1 DEF Control
  <2>4. CASE call.op # "stopPlugin" /\ Goto("finalize")
    <3>1. call' \in CallType
      BY <1>0, <2>4 DEF CallType
    <3>2. call'.op = call.op /\ call'.pc = "finalize"
      BY <1>0, <2>4 DEF CallType
    <3>3. QED
      BY <2>1, <2>4, <3>1, <3>2 DEF Control
  <2>5. QED
    BY <1>8, <2>2, <2>3, <2>4 DEF NextStop
<1>9. CASE StopService
  <2>1. call' \in CallType
    BY <1>0, <1>9 DEF StopService, Typed, Control, CallType
  <2>2. QED
    BY <1>0, <1>9, <2>1 DEF StopService, Typed, Control, CallType
<1>10. CASE JoinIo
  <2>1. call' \in CallType
    BY <1>0, <1>10 DEF JoinIo, Typed, Control, CallType
  <2>2. QED
    BY <1>0, <1>10, <2>1 DEF JoinIo, Typed, Control, CallType
<1>11. CASE LowerFlags
  <2>1. call' \in CallType
    BY <1>0, <1>11 DEF LowerFlags, Typed, Control, CallType
  <2>2. QED
    BY <1>0, <1>11, <2>1 DEF LowerFlags, Typed, Control, CallType
<1>12. CASE NotifyEnd
  <2>1. call' \in CallType
    BY <1>0, <1>12 DEF NotifyEnd, Notified, Typed, Control, CallType
  <2>2. QED
    BY <1>0, <1>12, <2>1 DEF NotifyEnd, Notified, Typed, Control, CallType
<1>13. CASE JoinWorker
  <2>1. CASE Goto("nextStop") /\ At("join")
    <3>1. call' \in CallType
      BY <1>0, <2>1 DEF CallType
    <3>2. call'.op = call.op /\ call'.pc = "nextStop"
      BY <1>0, <2>1 DEF CallType
    <3>3. call.op \in {"record", "stopRecord", "stopPlugin"}
      BY <2>1 DEF Typed, Control, CallType
    <3>4. QED
      BY <3>1, <3>2, <3>3 DEF Control
  <2>2. CASE call' = NoCall
    <3>1. call' \in CallType
      BY <2>2 DEF CallType
    <3>2. QED
      BY <2>2, <3>1 DEF Control
  <2>3. CASE /\ At("undoJoin") /\ call.op # "startPlugin"
             /\ call' = [call EXCEPT !.pc = "nextStop", !.todo = call.started]
    <3>1. call' \in CallType
      BY <1>0, <2>3 DEF CallType
    <3>2. call.op = "record"
      BY <2>3 DEF Typed, Control, CallType
    <3>3. call'.op = "record" /\ call'.pc = "nextStop"
      BY <1>0, <2>3, <3>2 DEF CallType
    <3>4. QED
      BY <3>1, <3>3 DEF Control
  <2>4. QED
    BY <1>13, <2>1, <2>2, <2>3 DEF JoinWorker
<1>14. CASE Finalize
  <2>1. call' \in CallType
    BY <1>0, <1>14 DEF Finalize, Typed, Control, CallType
  <2>2. QED
    BY <1>0, <1>14, <2>1 DEF Finalize, Typed, Control, CallType
<1>15. CASE CloseWriter
  <2>1. call' \in CallType
    BY <1>0, <1>15 DEF CloseWriter, Typed, Control, CallType
  <2>2. QED
    BY <1>0, <1>15, <2>1 DEF CloseWriter, Typed, Control, CallType
<1>16. QED
  BY <1>1, <1>2, <1>3, <1>4, <1>5, <1>6, <1>7, <1>8, <1>9, <1>10, <1>11, <1>12, <1>13, <1>14, <1>15 DEF Continue

\* A step of the API thread keeps the types.
LEMMA ApiKeepsTypes ==
  ASSUME Typed, BeginRecording \/ BeginPlugin \/ BeginStop \/ Continue
  PROVE  Typed'
<1> USE DEF flags, ioVars, workerVars, storageVars, apiVars
<1>0. Control' /\ call'.todo \subseteq Protocols /\ call'.started \subseteq Protocols
  BY ApiKeepsControl DEF Control, CallType
<1>1. CASE BeginRecording
  <2>1. accepted' \in [Protocols -> Seq(Nat)] /\ file' \in Seq(Protocols \X Nat)
    <3>1. accepted' = [p \in Protocols |-> <<>>] /\ file' = <<>>
      BY <1>1 DEF BeginRecording
    <3>2. QED
      BY <3>1
  <2>2. recordings' \in 0 .. MaxRecordings
    <3>1. recordings \in 0 .. MaxRecordings
      BY DEF Typed, TypeOK
    <3>2. recordings < MaxRecordings /\ recordings' = recordings + 1
      BY <1>1 DEF BeginRecording
    <3>3. QED
      BY <3>1, <3>2, Sizes
  <2>3. QED
    BY <1>0, <1>1, <2>1, <2>2 DEF BeginRecording, Typed, TypeOK
<1>2. CASE NextStart
  BY <1>0, <1>2 DEF NextStart, Typed, Control, Starting, Stopping, At, TypeOK
<1>3. CASE BeginPlugin
  BY <1>0, <1>3 DEF BeginPlugin, Typed, Control, Starting, Stopping, At, TypeOK
<1>4. CASE StartWorker
  <2>1. call.proto \in Protocols
    BY <1>4 DEF StartWorker, Typed, Control, Starting, At
  <2>2. /\ running' \in [Protocols -> BOOLEAN] /\ draining' \in [Protocols -> BOOLEAN]
        /\ worker' \in [Protocols -> WorkerPc]
    BY <1>4, <2>1 DEF StartWorker, Typed, TypeOK, WorkerPc
  <2>3. QED
    BY <1>0, <1>4, <2>2 DEF StartWorker, Typed, TypeOK, WorkerPc
<1>5. CASE StartService
  BY <1>0, <1>5 DEF StartService, Typed, Control, Starting, Stopping, At, TypeOK
<1>6. CASE Activate
  BY <1>0, <1>6 DEF Activate, Succeed, Typed, Control, Starting, Stopping, At, TypeOK
<1>7. CASE BeginStop
  BY <1>0, <1>7 DEF BeginStop, Typed, Control, Starting, Stopping, At, TypeOK
<1>8. CASE NextStop
  BY <1>0, <1>8 DEF NextStop, Typed, Control, Starting, Stopping, At, TypeOK
<1>9. CASE StopService
  BY <1>0, <1>9 DEF StopService, Typed, Control, Starting, Stopping, At, TypeOK
<1>10. CASE JoinIo
  BY <1>0, <1>10 DEF JoinIo, Typed, Control, Starting, Stopping, At, TypeOK
<1>11. CASE LowerFlags
  BY <1>0, <1>11 DEF LowerFlags, Typed, Control, Starting, Stopping, At, TypeOK
<1>12. CASE NotifyEnd
  BY <1>0, <1>12 DEF NotifyEnd, Notified, Typed, Control, Starting, Stopping, At, TypeOK
<1>13. CASE JoinWorker
  BY <1>0, <1>13 DEF JoinWorker, Typed, Control, Starting, Stopping, At, TypeOK
<1>14. CASE Finalize
  BY <1>0, <1>14 DEF Finalize, Typed, Control, Starting, Stopping, At, TypeOK
<1>15. CASE CloseWriter
  BY <1>0, <1>15 DEF CloseWriter, Typed, Control, Starting, Stopping, At, TypeOK
<1>16. QED
  BY <1>1, <1>2, <1>3, <1>4, <1>5, <1>6, <1>7, <1>8, <1>9, <1>10, <1>11, <1>12, <1>13, <1>14, <1>15 DEF Continue

\* Every step keeps the types.
LEMMA TypedStep == Typed /\ [Next]_vars => Typed'
<1> SUFFICES ASSUME Typed, [Next]_vars
             PROVE  Typed'
  OBVIOUS
<1>1. CASE UNCHANGED vars
  BY <1>1 DEF Typed, TypeOK, Control, vars, flags, ioVars, workerVars, storageVars, apiVars
<1>2. CASE Next
  BY <1>2, IoKeepsTypes, WorkerKeepsTypes, ApiKeepsTypes DEF Next
<1>3. QED
  BY <1>1, <1>2

\* Every variable always has its type, and no ring ever holds more than fits it.
THEOREM TypeCorrect == Spec => []TypeOK
<1>1. Typed => TypeOK
  BY DEF Typed
<1>2. QED
  BY <1>1, TypedInit, TypedStep, PTL DEF Spec

-----------------------------------------------------------------------------
(***************************************************************************)
(* A capture that is not active is quiet, where no I/O thread is shared.   *)
(*                                                                         *)
(* The two flags, the service, the I/O thread and the worker of a protocol *)
(* change at different steps.  The invariant says what is known of them at *)
(* every moment, and which step of which call is under way where they      *)
(* differ.                                                                 *)
(***************************************************************************)

\* The call is at one of these steps, for this protocol.
During(p, steps) == call.proto = p /\ call.pc \in steps

\* While worker_running is set the worker is there and in its first loop; one that has
\* ended, or is not there, has left nothing.
WorkersInOrder ==
  \A p \in Protocols :
    /\ running[p] => ~draining[p] /\ worker[p] \notin {"none", "exited"}
    /\ worker[p] \in {"none", "exited"} => ring[p] = <<>>
    /\ ~running[p] /\ worker[p] # "none" => During(p, {"undoNotify", "undoJoin", "notify", "join"})

\* Packets arrive only while the worker runs, and until the I/O thread is joined.
ArrivalsInOrder ==
  \A p \in Protocols :
    /\ service[p] => running[p]
    /\ io[p] # "idle" => running[p] /\ (service[p] \/ During(p, {"joinIo"}))

\* capture_active follows worker_running, but for the steps that change them.
FlagsInOrder ==
  \A p \in Protocols :
    /\ active[p] => running[p]
    /\ running[p] /\ ~active[p] => During(p, {"service", "activate"})
    /\ active[p] /\ ~service[p] => During(p, {"joinIo", "lower"})

\* What a call has done so far.
CallInOrder ==
  /\ At("service") => running[call.proto] /\ ~active[call.proto] /\ ~service[call.proto]
  /\ At("activate") => service[call.proto]
  /\ call.pc \in {"joinIo", "lower"} => ~service[call.proto]
  /\ call.pc \in {"undoNotify", "undoJoin", "notify", "join"} => ~running[call.proto]

InOrder == WorkersInOrder /\ ArrivalsInOrder /\ FlagsInOrder /\ CallInOrder
\* Initially nothing runs.
LEMMA InOrderInit == Init => InOrder
  BY DEF Init, InOrder, WorkersInOrder, ArrivalsInOrder, FlagsInOrder, CallInOrder, NoCall, At

\* What the types say of the variables that the invariant is about.
LEMMA Flags ==
  ASSUME Typed
  PROVE  /\ active \in [Protocols -> BOOLEAN] /\ running \in [Protocols -> BOOLEAN]
         /\ service \in [Protocols -> BOOLEAN] /\ draining \in [Protocols -> BOOLEAN]
         /\ DOMAIN io = Protocols /\ DOMAIN worker = Protocols /\ DOMAIN ring = Protocols
         /\ io = [p \in Protocols |-> io[p]] /\ worker = [p \in Protocols |-> worker[p]]
         /\ ring = [p \in Protocols |-> ring[p]]
  BY DEF Typed, TypeOK

\* A call that goes to another step stays what it is.
LEMMA Moves ==
  ASSUME Typed, NEW pc, Goto(pc)
  PROVE  /\ call'.pc = pc /\ call'.op = call.op /\ call'.proto = call.proto
         /\ call'.todo = call.todo /\ call'.started = call.started
  BY DEF Goto, Typed, Control, CallType

\* A call that has started a capture ends, or takes the next protocol.
LEMMA Succeeds ==
  ASSUME Typed, Succeed
  PROVE  /\ call.op = "startPlugin" => call' = NoCall
         /\ call.op # "startPlugin" => /\ call'.pc = "next" /\ call'.op = call.op
                                       /\ call'.todo = call.todo
                                       /\ call'.started = call.started \cup {call.proto}
  BY DEF Succeed, Typed, Control, CallType

\* A step of a callback keeps the order.
LEMMA IoKeepsOrder ==
  ASSUME Typed, InOrder, NEW p \in Protocols, Receive(p) \/ Callback(p)
  PROVE  InOrder'
<1> USE Flags DEF flags, ioVars, workerVars, storageVars, apiVars, During, At, InOrder
<1>1. CASE Receive(p)
  <2>1. WorkersInOrder'
    BY <1>1 DEF Receive, WorkersInOrder, ArrivalsInOrder, FlagsInOrder, CallInOrder
  <2>2. ArrivalsInOrder'
    BY <1>1 DEF Receive, WorkersInOrder, ArrivalsInOrder, FlagsInOrder, CallInOrder
  <2>3. FlagsInOrder'
    BY <1>1 DEF Receive, WorkersInOrder, ArrivalsInOrder, FlagsInOrder, CallInOrder
  <2>4. CallInOrder'
    BY <1>1 DEF Receive, WorkersInOrder, ArrivalsInOrder, FlagsInOrder, CallInOrder
  <2>5. QED
    BY <2>1, <2>2, <2>3, <2>4
<1>2. CASE TestRunning(p)
  <2>1. WorkersInOrder'
    BY <1>2 DEF TestRunning, WorkersInOrder, ArrivalsInOrder, FlagsInOrder, CallInOrder
  <2>2. ArrivalsInOrder'
    BY <1>2 DEF TestRunning, WorkersInOrder, ArrivalsInOrder, FlagsInOrder, CallInOrder
  <2>3. FlagsInOrder'
    BY <1>2 DEF TestRunning, WorkersInOrder, ArrivalsInOrder, FlagsInOrder, CallInOrder
  <2>4. CallInOrder'
    BY <1>2 DEF TestRunning, WorkersInOrder, ArrivalsInOrder, FlagsInOrder, CallInOrder
  <2>5. QED
    BY <2>1, <2>2, <2>3, <2>4
<1>3. CASE TryPush(p)
  <2>1. WorkersInOrder'
    BY <1>3 DEF TryPush, WorkersInOrder, ArrivalsInOrder, FlagsInOrder, CallInOrder
  <2>2. ArrivalsInOrder'
    BY <1>3 DEF TryPush, WorkersInOrder, ArrivalsInOrder, FlagsInOrder, CallInOrder
  <2>3. FlagsInOrder'
    BY <1>3 DEF TryPush, WorkersInOrder, ArrivalsInOrder, FlagsInOrder, CallInOrder
  <2>4. CallInOrder'
    BY <1>3 DEF TryPush, WorkersInOrder, ArrivalsInOrder, FlagsInOrder, CallInOrder
  <2>5. QED
    BY <2>1, <2>2, <2>3, <2>4
<1>4. CASE NotifyPacket(p)
  <2>1. WorkersInOrder'
    BY <1>4 DEF NotifyPacket, Notified, WorkersInOrder, ArrivalsInOrder, FlagsInOrder, CallInOrder
  <2>2. ArrivalsInOrder'
    BY <1>4 DEF NotifyPacket, Notified, WorkersInOrder, ArrivalsInOrder, FlagsInOrder, CallInOrder
  <2>3. FlagsInOrder'
    BY <1>4 DEF NotifyPacket, Notified, WorkersInOrder, ArrivalsInOrder, FlagsInOrder, CallInOrder
  <2>4. CallInOrder'
    BY <1>4 DEF NotifyPacket, Notified, WorkersInOrder, ArrivalsInOrder, FlagsInOrder, CallInOrder
  <2>5. QED
    BY <2>1, <2>2, <2>3, <2>4
<1>5. QED
  BY <1>1, <1>2, <1>3, <1>4 DEF Callback

\* A step of a worker keeps it.
LEMMA WorkerKeepsOrder ==
  ASSUME Typed, InOrder, NEW p \in Protocols, Worker(p)
  PROVE  InOrder'
<1> USE Flags DEF flags, ioVars, workerVars, storageVars, apiVars, During, At, InOrder
<1>1. CASE WorkerTest(p)
  <2>1. WorkersInOrder'
    BY <1>1 DEF WorkerTest, WorkersInOrder
  <2>2. QED
    BY <1>1, <2>1 DEF WorkerTest, ArrivalsInOrder, FlagsInOrder, CallInOrder
<1>2. CASE WorkerPop(p)
  <2>1. WorkersInOrder'
    BY <1>2 DEF WorkerPop, WorkersInOrder
  <2>2. QED
    BY <1>2, <2>1 DEF WorkerPop, ArrivalsInOrder, FlagsInOrder, CallInOrder
<1>3. CASE WorkerDecide(p)
  <2>1. WorkersInOrder'
    BY <1>3 DEF WorkerDecide, WorkersInOrder
  <2>2. QED
    BY <1>3, <2>1 DEF WorkerDecide, ArrivalsInOrder, FlagsInOrder, CallInOrder
<1>4. CASE WorkerBlock(p)
  <2>1. WorkersInOrder'
    BY <1>4 DEF WorkerBlock, WorkersInOrder
  <2>2. QED
    BY <1>4, <2>1 DEF WorkerBlock, ArrivalsInOrder, FlagsInOrder, CallInOrder
<1>5. CASE WorkerTimeout(p)
  <2>1. WorkersInOrder'
    BY <1>5 DEF WorkerTimeout, WorkersInOrder
  <2>2. QED
    BY <1>5, <2>1 DEF WorkerTimeout, ArrivalsInOrder, FlagsInOrder, CallInOrder
<1>6. CASE WorkerHandle(p)
  <2>1. WorkersInOrder'
    BY <1>6 DEF WorkerHandle, WorkersInOrder
  <2>2. QED
    BY <1>6, <2>1 DEF WorkerHandle, ArrivalsInOrder, FlagsInOrder, CallInOrder
<1>7. CASE WorkerWrite(p)
  <2>1. WorkersInOrder'
    BY <1>7 DEF WorkerWrite, WorkersInOrder
  <2>2. QED
    BY <1>7, <2>1 DEF WorkerWrite, ArrivalsInOrder, FlagsInOrder, CallInOrder
<1>8. QED
  BY <1>1, <1>2, <1>3, <1>4, <1>5, <1>6, <1>7 DEF Worker

\* A step of the API thread keeps it.
LEMMA ApiKeepsOrder ==
  ASSUME SharedIo = {}, Typed, InOrder, BeginRecording \/ BeginPlugin \/ BeginStop \/ Continue
  PROVE  InOrder'
<1> USE Flags DEF flags, ioVars, workerVars, storageVars, apiVars, During, At, InOrder
<1>0. call \in CallType /\ (call.pc \in Starting \cup Stopping => call.proto \in Protocols)
  BY DEF Typed, Control
<1>1. CASE BeginRecording
  <2>1. call.pc = "idle" /\ call'.pc = "next"
    BY <1>0, <1>1, Moves DEF BeginRecording, NoCall
  <2>2. WorkersInOrder'
    BY <1>1, <2>1 DEF BeginRecording, WorkersInOrder, ArrivalsInOrder, FlagsInOrder, CallInOrder
  <2>3. ArrivalsInOrder'
    BY <1>1, <2>1 DEF BeginRecording, WorkersInOrder, ArrivalsInOrder, FlagsInOrder, CallInOrder
  <2>4. FlagsInOrder'
    BY <1>1, <2>1 DEF BeginRecording, WorkersInOrder, ArrivalsInOrder, FlagsInOrder, CallInOrder
  <2>5. CallInOrder'
    BY <1>1, <2>1 DEF BeginRecording, WorkersInOrder, ArrivalsInOrder, FlagsInOrder, CallInOrder
  <2>6. QED
    BY <2>2, <2>3, <2>4, <2>5
<1>2. CASE NextStart
  <2>1. call.pc = "next" /\ call'.pc \in {"idle", "start", "nextStop"}
    <3>1. call.pc = "next"
      BY <1>2 DEF NextStart
    <3>2. CASE \E p \in call.todo : call' = [call EXCEPT !.pc = "start", !.proto = p, !.todo = @ \ {p}]
      BY <1>0, <3>1, <3>2 DEF CallType
    <3>3. CASE call' = NoCall
      BY <3>1, <3>3 DEF NoCall
    <3>4. CASE call' = [call EXCEPT !.pc = "nextStop", !.todo = call.started]
      BY <1>0, <3>1, <3>4 DEF CallType
    <3>5. QED
      BY <1>2, <3>2, <3>3, <3>4 DEF NextStart
  <2>2. WorkersInOrder'
    BY <1>2, <2>1 DEF NextStart, WorkersInOrder, ArrivalsInOrder, FlagsInOrder, CallInOrder
  <2>3. ArrivalsInOrder'
    BY <1>2, <2>1 DEF NextStart, WorkersInOrder, ArrivalsInOrder, FlagsInOrder, CallInOrder
  <2>4. FlagsInOrder'
    BY <1>2, <2>1 DEF NextStart, WorkersInOrder, ArrivalsInOrder, FlagsInOrder, CallInOrder
  <2>5. CallInOrder'
    BY <1>2, <2>1 DEF NextStart, WorkersInOrder, ArrivalsInOrder, FlagsInOrder, CallInOrder
  <2>6. QED
    BY <2>2, <2>3, <2>4, <2>5
<1>3. CASE BeginPlugin
  <2>1. call.pc = "idle" /\ call'.pc = "start"
    BY <1>0, <1>3, Moves DEF BeginPlugin, NoCall
  <2>2. WorkersInOrder'
    BY <1>3, <2>1 DEF BeginPlugin, WorkersInOrder, ArrivalsInOrder, FlagsInOrder, CallInOrder
  <2>3. ArrivalsInOrder'
    BY <1>3, <2>1 DEF BeginPlugin, WorkersInOrder, ArrivalsInOrder, FlagsInOrder, CallInOrder
  <2>4. FlagsInOrder'
    BY <1>3, <2>1 DEF BeginPlugin, WorkersInOrder, ArrivalsInOrder, FlagsInOrder, CallInOrder
  <2>5. CallInOrder'
    BY <1>3, <2>1 DEF BeginPlugin, WorkersInOrder, ArrivalsInOrder, FlagsInOrder, CallInOrder
  <2>6. QED
    BY <2>2, <2>3, <2>4, <2>5
<1>4. CASE StartWorker
  <2>1. CASE active[call.proto]
    <3>1. call.pc = "start" /\ call'.pc \in {"idle", "next"}
      BY <1>0, <1>4, <2>1, Succeeds DEF StartWorker, NoCall
    <3>2. QED
      BY <1>4, <2>1, <3>1 DEF StartWorker, WorkersInOrder, ArrivalsInOrder, FlagsInOrder, CallInOrder
  <2>2. CASE ~active[call.proto]
    <3>1. call.pc = "start" /\ call.proto \in Protocols /\ call'.pc = "service" /\ call'.proto = call.proto
      BY <1>0, <1>4, <2>2, Moves DEF StartWorker, Starting
    <3>2. ~running[call.proto]
      BY <2>2, <3>1 DEF FlagsInOrder
    <3>3. worker[call.proto] = "none"
      BY <3>1, <3>2 DEF WorkersInOrder
    <3>4. /\ running' = [running EXCEPT ![call.proto] = TRUE]
          /\ worker' = [worker EXCEPT ![call.proto] = "loop"]
          /\ draining' = [draining EXCEPT ![call.proto] = FALSE]
          /\ UNCHANGED <<active, service, io, ring>>
      BY <1>4, <2>2, <3>3 DEF StartWorker
    <3>5. WorkersInOrder'
      BY <3>1, <3>4 DEF WorkersInOrder
    <3>6. ArrivalsInOrder'
      BY <3>1, <3>4 DEF ArrivalsInOrder
    <3>7. FlagsInOrder'
      BY <3>1, <3>4 DEF FlagsInOrder, ArrivalsInOrder
    <3>8. CallInOrder'
      BY <2>2, <3>1, <3>2, <3>4 DEF CallInOrder, ArrivalsInOrder
    <3>9. QED
      BY <3>5, <3>6, <3>7, <3>8
  <2>3. QED
    BY <2>1, <2>2
<1>5. CASE StartService
  <2>1. /\ call.pc = "service" /\ call.proto \in Protocols
        /\ running[call.proto] /\ ~active[call.proto] /\ ~service[call.proto]
    BY <1>0, <1>5 DEF StartService, Starting, CallInOrder
  <2>2. UNCHANGED <<active, io, ring, worker, draining>>
    BY <1>5 DEF StartService
  <2>3. CASE Goto("activate") /\ service' = [service EXCEPT ![call.proto] = TRUE] /\ UNCHANGED running
    <3>1. call'.pc = "activate" /\ call'.proto = call.proto
      BY <2>3, Moves
    <3>2. WorkersInOrder'
      BY <2>1, <2>2, <2>3, <3>1 DEF WorkersInOrder, ArrivalsInOrder, FlagsInOrder, CallInOrder
    <3>3. ArrivalsInOrder'
      BY <2>1, <2>2, <2>3, <3>1 DEF WorkersInOrder, ArrivalsInOrder, FlagsInOrder, CallInOrder
    <3>4. FlagsInOrder'
      BY <2>1, <2>2, <2>3, <3>1 DEF WorkersInOrder, ArrivalsInOrder, FlagsInOrder, CallInOrder
    <3>5. CallInOrder'
      BY <2>1, <2>2, <2>3, <3>1 DEF WorkersInOrder, ArrivalsInOrder, FlagsInOrder, CallInOrder
    <3>6. QED
      BY <3>2, <3>3, <3>4, <3>5
  <2>4. CASE Goto("undoNotify") /\ running' = [running EXCEPT ![call.proto] = FALSE] /\ UNCHANGED service
    <3>1. call'.pc = "undoNotify" /\ call'.proto = call.proto
      BY <2>4, Moves
    <3>2. WorkersInOrder'
      BY <2>1, <2>2, <2>4, <3>1 DEF WorkersInOrder, ArrivalsInOrder, FlagsInOrder, CallInOrder
    <3>3. ArrivalsInOrder'
      BY <2>1, <2>2, <2>4, <3>1 DEF WorkersInOrder, ArrivalsInOrder, FlagsInOrder, CallInOrder
    <3>4. FlagsInOrder'
      BY <2>1, <2>2, <2>4, <3>1 DEF WorkersInOrder, ArrivalsInOrder, FlagsInOrder, CallInOrder
    <3>5. CallInOrder'
      BY <2>1, <2>2, <2>4, <3>1 DEF WorkersInOrder, ArrivalsInOrder, FlagsInOrder, CallInOrder
    <3>6. QED
      BY <3>2, <3>3, <3>4, <3>5
  <2>5. QED
    BY <1>5, <2>3, <2>4 DEF StartService
<1>6. CASE Activate
  <2>1. call.pc = "activate" /\ call.proto \in Protocols /\ call'.pc \in {"idle", "next"}
    BY <1>0, <1>6, Moves DEF Activate, Succeed, Starting, NoCall, CallType
  <2>2. WorkersInOrder'
    BY <1>6, <2>1 DEF Activate, WorkersInOrder, ArrivalsInOrder, FlagsInOrder, CallInOrder
  <2>3. ArrivalsInOrder'
    BY <1>6, <2>1 DEF Activate, WorkersInOrder, ArrivalsInOrder, FlagsInOrder, CallInOrder
  <2>4. FlagsInOrder'
    BY <1>6, <2>1 DEF Activate, WorkersInOrder, ArrivalsInOrder, FlagsInOrder, CallInOrder
  <2>5. CallInOrder'
    BY <1>6, <2>1 DEF Activate, WorkersInOrder, ArrivalsInOrder, FlagsInOrder, CallInOrder
  <2>6. QED
    BY <2>2, <2>3, <2>4, <2>5
<1>7. CASE BeginStop
  <2>1. call.pc = "idle" /\ call'.pc = "nextStop"
    BY <1>0, <1>7, Moves DEF BeginStop, NoCall
  <2>2. WorkersInOrder'
    BY <1>7, <2>1 DEF BeginStop, WorkersInOrder, ArrivalsInOrder, FlagsInOrder, CallInOrder
  <2>3. ArrivalsInOrder'
    BY <1>7, <2>1 DEF BeginStop, WorkersInOrder, ArrivalsInOrder, FlagsInOrder, CallInOrder
  <2>4. FlagsInOrder'
    BY <1>7, <2>1 DEF BeginStop, WorkersInOrder, ArrivalsInOrder, FlagsInOrder, CallInOrder
  <2>5. CallInOrder'
    BY <1>7, <2>1 DEF BeginStop, WorkersInOrder, ArrivalsInOrder, FlagsInOrder, CallInOrder
  <2>6. QED
    BY <2>2, <2>3, <2>4, <2>5
<1>8. CASE NextStop
  <2>1. call.pc = "nextStop" /\ call'.pc \in {"idle", "stopService", "finalize"}
    <3>1. call.pc = "nextStop"
      BY <1>8 DEF NextStop
    <3>2. CASE \E p \in call.todo : call' = [call EXCEPT !.pc = "stopService", !.proto = p, !.todo = @ \ {p}]
      BY <1>0, <3>1, <3>2 DEF CallType
    <3>3. CASE call' = NoCall
      BY <3>1, <3>3 DEF NoCall
    <3>4. CASE Goto("finalize")
      BY <3>1, <3>4, Moves
    <3>5. QED
      BY <1>8, <3>2, <3>3, <3>4 DEF NextStop
  <2>2. WorkersInOrder'
    BY <1>8, <2>1 DEF NextStop, WorkersInOrder, ArrivalsInOrder, FlagsInOrder, CallInOrder
  <2>3. ArrivalsInOrder'
    BY <1>8, <2>1 DEF NextStop, WorkersInOrder, ArrivalsInOrder, FlagsInOrder, CallInOrder
  <2>4. FlagsInOrder'
    BY <1>8, <2>1 DEF NextStop, WorkersInOrder, ArrivalsInOrder, FlagsInOrder, CallInOrder
  <2>5. CallInOrder'
    BY <1>8, <2>1 DEF NextStop, WorkersInOrder, ArrivalsInOrder, FlagsInOrder, CallInOrder
  <2>6. QED
    BY <2>2, <2>3, <2>4, <2>5
<1>9. CASE StopService
  <2>1. call.pc = "stopService" /\ call.proto \in Protocols /\ call'.proto = call.proto /\ call'.pc = "joinIo"
    BY <1>0, <1>9, Moves DEF StopService, Stopping
  <2>2. WorkersInOrder'
    BY <1>9, <2>1 DEF StopService, WorkersInOrder, ArrivalsInOrder, FlagsInOrder, CallInOrder
  <2>3. ArrivalsInOrder'
    BY <1>9, <2>1 DEF StopService, WorkersInOrder, ArrivalsInOrder, FlagsInOrder, CallInOrder
  <2>4. FlagsInOrder'
    BY <1>9, <2>1 DEF StopService, WorkersInOrder, ArrivalsInOrder, FlagsInOrder, CallInOrder
  <2>5. CallInOrder'
    BY <1>9, <2>1 DEF StopService, WorkersInOrder, ArrivalsInOrder, FlagsInOrder, CallInOrder
  <2>6. QED
    BY <2>2, <2>3, <2>4, <2>5
<1>10. CASE JoinIo
  <2>1. call.pc = "joinIo" /\ call.proto \in Protocols /\ call'.proto = call.proto /\ call'.pc = "lower"
    BY <1>0, <1>10, Moves DEF JoinIo, Stopping
  <2>2. WorkersInOrder'
    BY <1>10, <2>1 DEF JoinIo, WorkersInOrder, ArrivalsInOrder, FlagsInOrder, CallInOrder
  <2>3. ArrivalsInOrder'
    BY <1>10, <2>1 DEF JoinIo, WorkersInOrder, ArrivalsInOrder, FlagsInOrder, CallInOrder
  <2>4. FlagsInOrder'
    BY <1>10, <2>1 DEF JoinIo, WorkersInOrder, ArrivalsInOrder, FlagsInOrder, CallInOrder
  <2>5. CallInOrder'
    BY <1>10, <2>1 DEF JoinIo, WorkersInOrder, ArrivalsInOrder, FlagsInOrder, CallInOrder
  <2>6. QED
    BY <2>2, <2>3, <2>4, <2>5
<1>11. CASE LowerFlags
  <2>1. call.pc = "lower" /\ call.proto \in Protocols /\ call'.proto = call.proto /\ call'.pc = "notify"
    BY <1>0, <1>11, Moves DEF LowerFlags, Stopping
  <2>2. WorkersInOrder'
    BY <1>11, <2>1 DEF LowerFlags, WorkersInOrder, ArrivalsInOrder, FlagsInOrder, CallInOrder
  <2>3. ArrivalsInOrder'
    BY <1>11, <2>1 DEF LowerFlags, WorkersInOrder, ArrivalsInOrder, FlagsInOrder, CallInOrder
  <2>4. FlagsInOrder'
    BY <1>11, <2>1 DEF LowerFlags, WorkersInOrder, ArrivalsInOrder, FlagsInOrder, CallInOrder
  <2>5. CallInOrder'
    BY <1>11, <2>1 DEF LowerFlags, WorkersInOrder, ArrivalsInOrder, FlagsInOrder, CallInOrder
  <2>6. QED
    BY <2>2, <2>3, <2>4, <2>5
<1>12. CASE NotifyEnd
  <2>1. /\ call.proto \in Protocols /\ call'.proto = call.proto
        /\ \/ (call.pc = "notify" /\ call'.pc = "join")
           \/ (call.pc = "undoNotify" /\ call'.pc = "undoJoin")
    <3>1. CASE call.pc = "notify"
      BY <1>0, <1>12, <3>1, Moves DEF NotifyEnd, Stopping
    <3>2. CASE call.pc = "undoNotify"
      BY <1>0, <1>12, <3>2, Moves DEF NotifyEnd, Starting
    <3>3. QED
      BY <1>12, <3>1, <3>2 DEF NotifyEnd
  <2>2. WorkersInOrder'
    BY <1>12, <2>1 DEF NotifyEnd, Notified, WorkersInOrder, ArrivalsInOrder, FlagsInOrder, CallInOrder
  <2>3. ArrivalsInOrder'
    BY <1>12, <2>1 DEF NotifyEnd, Notified, WorkersInOrder, ArrivalsInOrder, FlagsInOrder, CallInOrder
  <2>4. FlagsInOrder'
    BY <1>12, <2>1 DEF NotifyEnd, Notified, WorkersInOrder, ArrivalsInOrder, FlagsInOrder, CallInOrder
  <2>5. CallInOrder'
    BY <1>12, <2>1 DEF NotifyEnd, Notified, WorkersInOrder, ArrivalsInOrder, FlagsInOrder, CallInOrder
  <2>6. QED
    BY <2>2, <2>3, <2>4, <2>5
<1>13. CASE JoinWorker
  <2>1. call.proto \in Protocols /\ call.pc \in {"join", "undoJoin"} /\ call'.pc \in {"idle", "nextStop"}
    <3>1. call.proto \in Protocols /\ call.pc \in {"join", "undoJoin"}
      BY <1>0, <1>13 DEF JoinWorker, Starting, Stopping
    <3>2. CASE Goto("nextStop")
      BY <3>1, <3>2, Moves
    <3>3. CASE call' = NoCall
      BY <3>1, <3>3 DEF NoCall
    <3>4. CASE call' = [call EXCEPT !.pc = "nextStop", !.todo = call.started]
      BY <1>0, <3>1, <3>4 DEF CallType
    <3>5. QED
      BY <1>13, <3>2, <3>3, <3>4 DEF JoinWorker
  <2>2. WorkersInOrder'
    BY <1>13, <2>1 DEF JoinWorker, WorkersInOrder, ArrivalsInOrder, FlagsInOrder, CallInOrder
  <2>3. ArrivalsInOrder'
    BY <1>13, <2>1 DEF JoinWorker, WorkersInOrder, ArrivalsInOrder, FlagsInOrder, CallInOrder
  <2>4. FlagsInOrder'
    BY <1>13, <2>1 DEF JoinWorker, WorkersInOrder, ArrivalsInOrder, FlagsInOrder, CallInOrder
  <2>5. CallInOrder'
    BY <1>13, <2>1 DEF JoinWorker, WorkersInOrder, ArrivalsInOrder, FlagsInOrder, CallInOrder
  <2>6. QED
    BY <2>2, <2>3, <2>4, <2>5
<1>14. CASE Finalize
  <2>1. call.pc = "finalize" /\ call'.pc = "inFinalize"
    BY <1>0, <1>14, Moves DEF Finalize
  <2>2. WorkersInOrder'
    BY <1>14, <2>1 DEF Finalize, WorkersInOrder, ArrivalsInOrder, FlagsInOrder, CallInOrder
  <2>3. ArrivalsInOrder'
    BY <1>14, <2>1 DEF Finalize, WorkersInOrder, ArrivalsInOrder, FlagsInOrder, CallInOrder
  <2>4. FlagsInOrder'
    BY <1>14, <2>1 DEF Finalize, WorkersInOrder, ArrivalsInOrder, FlagsInOrder, CallInOrder
  <2>5. CallInOrder'
    BY <1>14, <2>1 DEF Finalize, WorkersInOrder, ArrivalsInOrder, FlagsInOrder, CallInOrder
  <2>6. QED
    BY <2>2, <2>3, <2>4, <2>5
<1>15. CASE CloseWriter
  <2>1. call.pc = "inFinalize" /\ call'.pc = "idle"
    BY <1>0, <1>15, Moves DEF CloseWriter, NoCall
  <2>2. WorkersInOrder'
    BY <1>15, <2>1 DEF CloseWriter, WorkersInOrder, ArrivalsInOrder, FlagsInOrder, CallInOrder
  <2>3. ArrivalsInOrder'
    BY <1>15, <2>1 DEF CloseWriter, WorkersInOrder, ArrivalsInOrder, FlagsInOrder, CallInOrder
  <2>4. FlagsInOrder'
    BY <1>15, <2>1 DEF CloseWriter, WorkersInOrder, ArrivalsInOrder, FlagsInOrder, CallInOrder
  <2>5. CallInOrder'
    BY <1>15, <2>1 DEF CloseWriter, WorkersInOrder, ArrivalsInOrder, FlagsInOrder, CallInOrder
  <2>6. QED
    BY <2>2, <2>3, <2>4, <2>5
<1>16. QED
  BY <1>1, <1>2, <1>3, <1>4, <1>5, <1>6, <1>7, <1>8, <1>9, <1>10, <1>11, <1>12, <1>13, <1>14, <1>15 DEF Continue

\* Every step keeps the order.
LEMMA InOrderStep ==
  ASSUME SharedIo = {}
  PROVE  Typed /\ InOrder /\ [Next]_vars => InOrder'
<1> SUFFICES ASSUME Typed, InOrder, [Next]_vars
             PROVE  InOrder'
  OBVIOUS
<1>1. CASE UNCHANGED vars
  BY <1>1 DEF vars, flags, ioVars, workerVars, storageVars, apiVars, During, At, InOrder, WorkersInOrder,
              ArrivalsInOrder, FlagsInOrder, CallInOrder
<1>2. CASE Next
  BY <1>2, IoKeepsOrder, WorkerKeepsOrder, ApiKeepsOrder DEF Next
<1>3. QED
  BY <1>1, <1>2

\* Where no I/O thread serves a replay as well, a capture that is not active between two
\* calls has no thread in its callback, no worker, and nothing in its ring.
THEOREM Quiet ==
  ASSUME SharedIo = {}
  PROVE  Spec => []StoppedIsQuiet
<1>1. Typed /\ InOrder => StoppedIsQuiet
  BY DEF InOrder, WorkersInOrder, ArrivalsInOrder, FlagsInOrder, StoppedIsQuiet, Typed, TypeOK, At, During
<1>2. Typed /\ InOrder /\ [Next]_vars => InOrder'
  BY InOrderStep
<1>3. QED
  BY <1>1, <1>2, TypedInit, TypedStep, InOrderInit, PTL DEF Spec
-----------------------------------------------------------------------------
(***************************************************************************)
(* A recording leaves the writer before it is closed.                      *)
(***************************************************************************)
Recording == call.op \in {"record", "stopRecord"}

\* The protocols that may have a worker.
Owners ==
  IF ~Recording THEN Plugins \cup activeRecord
  ELSE IF call.pc \in {"next", "start"} THEN Plugins \cup call.started
  ELSE IF call.pc \in Starting THEN Plugins \cup call.started \cup {call.proto}
  ELSE IF call.pc = "nextStop" THEN (Plugins \ recorded) \cup call.todo
  ELSE IF call.pc \in Stopping THEN (Plugins \ recorded) \cup call.todo \cup {call.proto}
  ELSE Plugins \ recorded

Owned == \A p \in Protocols : worker[p] # "none" => p \in Owners

\* Initially there is no worker.
LEMMA OwnedInit == Init => Owned
  BY DEF Init, Owned

\* Only StartWorker and JoinWorker make a worker or take one away.
LEMMA ThreadsKeepOwned ==
  ASSUME Typed, Owned, NEW p \in Protocols, Receive(p) \/ Callback(p) \/ Worker(p)
  PROVE  Owned'
<1>1. UNCHANGED <<call, activeRecord, recorded>>
  BY DEF Receive, Callback, TestRunning, TryPush, NotifyPacket, Worker, WorkerTest, WorkerPop, WorkerDecide,
         WorkerBlock, WorkerTimeout, WorkerHandle, WorkerWrite, apiVars, workerVars
<1>2. ASSUME NEW q \in Protocols, worker'[q] # "none"
      PROVE  worker[q] # "none"
  BY <1>2, Flags DEF Receive, Callback, TestRunning, TryPush, NotifyPacket, Notified, Worker, WorkerTest, WorkerPop,
         WorkerDecide, WorkerBlock, WorkerTimeout, WorkerHandle, WorkerWrite, workerVars
<1>3. QED
  BY <1>1, <1>2 DEF Owned, Owners, Recording

\* A capture that is started belongs to its recording, or to a plugin.
LEMMA SucceedKeepsOwned ==
  ASSUME Typed, Owned, Succeed, UNCHANGED <<worker, activeRecord, recorded>>,
         call.pc \in {"start", "activate"}, call.op \in {"record", "startPlugin"}
  PROVE  Owned'
<1> USE DEF Starting, Recording
<1>1. CASE call.op = "startPlugin"
  <2>1. call'.op = "none" /\ call'.pc = "idle"
    BY <1>1, Succeeds DEF NoCall
  <2>2. QED
    BY <1>1, <2>1 DEF Owned, Owners
<1>2. CASE call.op = "record"
  <2>1. /\ call'.op = "record" /\ call'.pc = "next" /\ call'.todo = call.todo
        /\ call'.started = call.started \cup {call.proto}
    BY <1>2, Succeeds
  <2>2. QED
    BY <1>2, <2>1 DEF Owned, Owners
<1>3. QED
  BY <1>1, <1>2

\* A step of the API thread keeps the workers owned.
LEMMA ApiKeepsOwned ==
  ASSUME Typed, Owned, BeginRecording \/ BeginPlugin \/ BeginStop \/ Continue
  PROVE  Owned'
<1> USE DEF Starting, Stopping, Ending, Recording, At
<1>0. /\ call \in CallType /\ DOMAIN worker = Protocols /\ worker = [p \in Protocols |-> worker[p]]
      /\ activeRecord \subseteq Protocols
  BY Flags DEF Typed, Control, TypeOK
<1>1. CASE BeginRecording
  <2>1. PICK request \in Requests :
          call' = [op |-> "record", pc |-> "next", proto |-> "none", todo |-> request, started |-> {}]
    BY <1>1 DEF BeginRecording, NoCall
  <2>2. activeRecord = {} /\ worker' = worker /\ call.op = "none"
    BY <1>1 DEF BeginRecording, workerVars, Typed, Control
  <2>3. QED
    BY <2>1, <2>2 DEF Owned, Owners
<1>2. CASE NextStart
  <2>1. call.pc = "next" /\ call.op = "record" /\ worker' = worker
    BY <1>2 DEF NextStart, Typed, Control, CallType, workerVars
  <2>2. CASE \E p \in call.todo : call' = [call EXCEPT !.pc = "start", !.proto = p, !.todo = @ \ {p}]
    <3>1. call'.op = "record" /\ call'.pc = "start" /\ call'.started = call.started
      BY <1>0, <2>1, <2>2 DEF CallType
    <3>2. QED
      BY <2>1, <3>1 DEF Owned, Owners
  <2>3. CASE call' = NoCall /\ activeRecord' = call.started
    BY <2>1, <2>3 DEF Owned, Owners, NoCall
  <2>4. CASE recorded' = call.started /\ call' = [call EXCEPT !.pc = "nextStop", !.todo = call.started]
    <3>1. call'.op = "record" /\ call'.pc = "nextStop" /\ call'.todo = call.started
      BY <1>0, <2>1, <2>4 DEF CallType
    <3>2. QED
      BY <2>1, <2>4, <3>1 DEF Owned, Owners
  <2>5. QED
    BY <1>2, <2>2, <2>3, <2>4 DEF NextStart
<1>3. CASE BeginPlugin
  <2>1. call'.op = "startPlugin" /\ call.op = "none" /\ worker' = worker /\ activeRecord' = activeRecord
    BY <1>3 DEF BeginPlugin, NoCall, workerVars, Typed, Control
  <2>2. QED
    BY <2>1 DEF Owned, Owners
<1>4. CASE StartWorker
  <2>1. /\ call.pc = "start" /\ call.proto \in Protocols /\ call.op \in {"record", "startPlugin"}
        /\ call.op = "startPlugin" => call.proto \in Plugins
    BY <1>4 DEF StartWorker, Typed, Control, CallType
  <2>2. activeRecord' = activeRecord /\ recorded' = recorded
    BY <1>4 DEF StartWorker
  <2>3. CASE active[call.proto]
    <3>1. Succeed /\ worker' = worker
      BY <1>4, <2>3 DEF StartWorker
    <3>2. QED
      BY <2>1, <2>2, <3>1, SucceedKeepsOwned
  <2>4. CASE ~active[call.proto]
    <3>1. /\ call'.op = call.op /\ call'.pc = "service" /\ call'.proto = call.proto
          /\ call'.started = call.started
      BY <1>4, <2>4, Moves DEF StartWorker
    <3>2. \A q \in Protocols : q # call.proto => worker'[q] = worker[q]
      BY <1>0, <1>4, <2>1, <2>4 DEF StartWorker
    <3>3. QED
      BY <2>1, <2>2, <3>1, <3>2 DEF Owned, Owners
  <2>5. QED
    BY <2>3, <2>4
<1>5. CASE StartService
  <2>1. /\ call.pc = "service" /\ call.op \in {"record", "startPlugin"}
        /\ UNCHANGED <<worker, activeRecord, recorded>>
    BY <1>5 DEF StartService, Typed, Control, CallType, workerVars
  <2>2. /\ call'.pc \in {"activate", "undoNotify"} /\ call'.op = call.op /\ call'.proto = call.proto
        /\ call'.started = call.started
    BY <1>5, Moves DEF StartService
  <2>3. QED
    BY <2>1, <2>2 DEF Owned, Owners
<1>6. CASE Activate
  <2>1. call.pc = "activate" /\ call.op \in {"record", "startPlugin"}
    BY <1>6 DEF Activate, Typed, Control, CallType
  <2>2. Succeed /\ UNCHANGED <<worker, activeRecord, recorded>>
    BY <1>6 DEF Activate, workerVars
  <2>3. QED
    BY <2>1, <2>2, SucceedKeepsOwned
<1>7. CASE BeginStop
  <2>1. worker' = worker /\ call.op = "none"
    BY <1>7 DEF BeginStop, workerVars, Typed, Control
  <2>2. CASE /\ recorded' = activeRecord
             /\ call' = [NoCall EXCEPT !.op = "stopRecord", !.pc = "nextStop", !.todo = activeRecord]
    <3>1. call'.op = "stopRecord" /\ call'.pc = "nextStop" /\ call'.todo = activeRecord
      BY <2>2 DEF NoCall
    <3>2. QED
      BY <2>1, <2>2, <3>1 DEF Owned, Owners
  <2>3. CASE /\ activeRecord' = activeRecord
             /\ \E p \in Plugins : call' = [NoCall EXCEPT !.op = "stopPlugin", !.pc = "nextStop", !.todo = {p}]
    <3>1. call'.op = "stopPlugin"
      BY <2>3 DEF NoCall
    <3>2. QED
      BY <2>1, <2>3, <3>1 DEF Owned, Owners
  <2>4. QED
    BY <1>7, <2>2, <2>3 DEF BeginStop
<1>8. CASE NextStop
  <2>1. call.pc = "nextStop" /\ UNCHANGED <<worker, activeRecord, recorded>>
    BY <1>8 DEF NextStop, workerVars
  <2>2. CASE \E p \in call.todo : call' = [call EXCEPT !.pc = "stopService", !.proto = p, !.todo = @ \ {p}]
    <3>1. PICK p \in call.todo : call' = [call EXCEPT !.pc = "stopService", !.proto = p, !.todo = @ \ {p}]
      BY <2>2
    <3>2. /\ call'.op = call.op /\ call'.pc = "stopService" /\ call'.proto = p
          /\ call'.todo = call.todo \ {p}
      BY <1>0, <3>1 DEF CallType
    <3>3. QED
      BY <2>1, <3>2 DEF Owned, Owners
  <2>3. CASE call.op = "stopPlugin" /\ call' = NoCall
    BY <2>1, <2>3 DEF Owned, Owners, NoCall
  <2>4. CASE call.todo = {} /\ call.op # "stopPlugin" /\ Goto("finalize")
    <3>1. call'.op = call.op /\ call'.pc = "finalize" /\ call.op \in {"record", "stopRecord"}
      BY <2>1, <2>4, Moves DEF Typed, Control, CallType
    <3>2. QED
      BY <2>1, <2>4, <3>1 DEF Owned, Owners
  <2>5. QED
    BY <1>8, <2>2, <2>3, <2>4 DEF NextStop
<1>9. CASE StopService \/ JoinIo \/ LowerFlags
  <2>1. /\ call.pc \in Stopping /\ call'.pc \in Stopping /\ call'.op = call.op /\ call'.proto = call.proto
        /\ call'.todo = call.todo /\ UNCHANGED <<worker, activeRecord, recorded>>
    BY <1>9, Moves DEF StopService, JoinIo, LowerFlags, workerVars
  <2>2. QED
    BY <2>1 DEF Owned, Owners
<1>10. CASE NotifyEnd
  <2>1. /\ call'.op = call.op /\ call'.proto = call.proto /\ call'.todo = call.todo
        /\ call'.started = call.started
        /\ \/ call.pc = "notify" /\ call'.pc = "join"
           \/ call.pc = "undoNotify" /\ call'.pc = "undoJoin"
    BY <1>10, Moves DEF NotifyEnd
  <2>2. /\ UNCHANGED <<activeRecord, recorded>>
        /\ \A q \in Protocols : worker'[q] # "none" => worker[q] # "none"
    BY <1>0, <1>10 DEF NotifyEnd, Notified
  <2>3. QED
    BY <2>1, <2>2 DEF Owned, Owners
<1>11. CASE JoinWorker
  <2>1. call.proto \in Protocols /\ activeRecord' = activeRecord
    BY <1>11 DEF JoinWorker, Typed, Control
  <2>2. \A q \in Protocols : worker'[q] # "none" => q # call.proto /\ worker[q] # "none"
    BY <1>0, <1>11, <2>1 DEF JoinWorker
  <2>3. CASE At("join") /\ Goto("nextStop") /\ recorded' = recorded
    <3>1. call'.op = call.op /\ call'.pc = "nextStop" /\ call'.todo = call.todo
      BY <2>3, Moves
    <3>2. QED
      BY <2>1, <2>2, <2>3, <3>1 DEF Owned, Owners
  <2>4. CASE At("undoJoin") /\ call.op = "startPlugin" /\ call' = NoCall
    BY <2>1, <2>2, <2>4 DEF Owned, Owners, NoCall
  <2>5. CASE /\ At("undoJoin") /\ call.op # "startPlugin" /\ recorded' = call.started
             /\ call' = [call EXCEPT !.pc = "nextStop", !.todo = call.started]
    <3>1. call.op = "record"
      BY <2>5 DEF Typed, Control, CallType
    <3>2. call'.op = "record" /\ call'.pc = "nextStop" /\ call'.todo = call.started
      BY <1>0, <2>5, <3>1 DEF CallType
    <3>3. QED
      BY <2>1, <2>2, <2>5, <3>1, <3>2 DEF Owned, Owners
  <2>6. QED
    BY <1>11, <2>3, <2>4, <2>5 DEF JoinWorker
<1>12. CASE Finalize
  <2>1. /\ call.pc = "finalize" /\ call'.pc = "inFinalize" /\ call'.op = call.op
        /\ UNCHANGED <<worker, activeRecord, recorded>>
    BY <1>12, Moves DEF Finalize, workerVars
  <2>2. QED
    BY <2>1 DEF Owned, Owners
<1>13. CASE CloseWriter
  <2>1. /\ call.pc = "inFinalize" /\ call.op \in {"record", "stopRecord"}
        /\ UNCHANGED <<worker, activeRecord, recorded>>
    BY <1>13 DEF CloseWriter, workerVars, Typed, Control, CallType
  <2>2. call'.op = "none" /\ call'.pc = "idle"
    BY <1>13 DEF CloseWriter, NoCall
  <2>3. QED
    BY <2>1, <2>2 DEF Owned, Owners
<1>14. QED
  BY <1>1, <1>2, <1>3, <1>4, <1>5, <1>6, <1>7, <1>8, <1>9, <1>10, <1>11, <1>12, <1>13 DEF Continue

\* Every step keeps the workers owned.
LEMMA OwnedStep == Typed /\ Owned /\ [Next]_vars => Owned'
<1> SUFFICES ASSUME Typed, Owned, [Next]_vars
             PROVE  Owned'
  OBVIOUS
<1>1. CASE UNCHANGED vars
  BY <1>1 DEF vars, workerVars, apiVars, Owned, Owners, Recording
<1>2. CASE Next
  BY <1>2, ThreadsKeepOwned, ApiKeepsOwned DEF Next
<1>3. QED
  BY <1>1, <1>2

\* For any protocols, requests and plugins, whichever of them refuse to start: nobody whom the
\* recording has stopped is inside WritePacket while FinalizeFile closes the writer.  Whoever is
\* there captures as a plugin beside the recording.
THEOREM LeavesWriter == Spec => []RecordingLeavesWriter
<1>1. Typed /\ Owned => RecordingLeavesWriter
  <2> SUFFICES ASSUME Typed, Owned, At("inFinalize"), NEW p \in Protocols, worker[p] # "none"
               PROVE  p \in Plugins \ recorded
    BY DEF RecordingLeavesWriter
  <2>1. call.op \in {"record", "stopRecord"}
    BY DEF Typed, Control, CallType, At, Starting, Stopping
  <2>2. QED
    BY <2>1 DEF Owned, Owners, Recording, At, Starting, Stopping
<1>2. Typed /\ Owned /\ [Next]_vars => Owned'
  BY OwnedStep
<1>3. QED
  BY <1>1, <1>2, TypedInit, TypedStep, OwnedInit, PTL DEF Spec

-----------------------------------------------------------------------------
(***************************************************************************)
(* What a recording has accepted is in its file, once and in order, where  *)
(* no I/O thread is shared.                                                *)
(*                                                                         *)
(* The invariant follows a packet from the I/O thread through ring and     *)
(* worker into the file: on each of these places the packets are in the    *)
(* order they were received in, and while the file is being written none   *)
(* that was accepted is anywhere else.                                     *)
(***************************************************************************)

\* The worker has a packet in hand; the I/O thread has one that is not pushed yet.
Holding(p) == worker[p] \in {"handle", "inWriter"}
Pushing(p) == io[p] \in {"called", "loop", "push"}

\* The I/O thread is done with packet n of protocol p.
GivenOn(p, n) == n < received[p] \/ (n = received[p] /\ ~Pushing(p))

Sorted(s) == \A i, j \in 1 .. Len(s) : i < j => s[i] < s[j]

\* First come the packets of the file, then the one in hand, then those of the ring.
OnTheirWay(p) ==
  /\ Sorted(ring[p]) /\ InOrderOnce(p)
  /\ \A n \in ToSet(ring[p]) : GivenOn(p, n) /\ (Holding(p) => hand[p] < n)
  /\ Holding(p) => GivenOn(p, hand[p])
  /\ \A e \in ToSet(file) :
       e[1] = p =>
         GivenOn(p, e[2]) /\ (Holding(p) => e[2] < hand[p]) /\ \A n \in ToSet(ring[p]) : e[2] < n

\* Packet n is accepted, or comes before all that are.
Early(p, n) == n \in ToSet(accepted[p]) \/ \A a \in ToSet(accepted[p]) : n < a

\* What the file has of p, and what will get there, is accepted or early; nothing filtered gets there.
AcceptedLast(p) ==
  /\ \A a \in ToSet(accepted[p]) : GivenOn(p, a)
  /\ writing => \A n \in ToSet(ring[p]) : Early(p, n)
  /\ Holding(p) /\ (writing \/ worker[p] = "inWriter") => Early(p, hand[p])
  /\ worker[p] = "inWriter" => hand[p] \notin Filtered
  /\ \A e \in ToSet(file) : e[1] = p => Early(p, e[2]) /\ e[2] \notin Filtered

\* A packet that was accepted is filtered, in the file, in hand or in the ring; of the
\* protocols that a finished recording has stopped it is filtered or in the file.
Found(p, n) == n \in Filtered \/ <<p, n>> \in ToSet(file)
NothingLost(p) ==
  /\ writing =>
       \A a \in ToSet(accepted[p]) :
         Found(p, a) \/ (Holding(p) /\ a = hand[p]) \/ a \in ToSet(ring[p])
  /\ ~writing /\ p \in recorded => \A a \in ToSet(accepted[p]) : Found(p, a)

Delivery(p) == OnTheirWay(p) /\ AcceptedLast(p) /\ NothingLost(p)
Delivered == \A p \in Protocols : Delivery(p)

\* The call stops the captures of a recording, or is about to finalize the file.
Ends == call.op \in {"record", "stopRecord"} /\ call.pc \in {"nextStop", "finalize"} \cup Stopping

\* The file is written from the start of a recording to its end, and when it is finalized no
\* protocol that the recording has stopped has a worker.
RecordingWrites ==
  /\ activeRecord # {} => writing /\ recorded = {}
  /\ call.op \in {"record", "stopRecord"} => activeRecord = {} /\ (writing <=> call.pc # "inFinalize")
  /\ writing /\ recorded # {} => Ends
  /\ Ends => \A p \in recorded :
       p \in call.todo \/ (call.pc \in Stopping /\ p = call.proto) \/ worker[p] = "none"
  /\ call.pc = "finalize" => call.todo = {}

\* A sequence that grows at its end has one item more, and stays sorted if that is the largest.
LEMMA GrowsSorted ==
  ASSUME NEW s \in Seq(Nat), NEW x \in Nat
  PROVE  /\ ToSet(Append(s, x)) = ToSet(s) \cup {x}
         /\ Sorted(s) /\ (\A n \in ToSet(s) : n < x) => Sorted(Append(s, x))
<1>1. /\ Append(s, x) \in Seq(Nat) /\ Len(Append(s, x)) = Len(s) + 1 /\ Len(s) \in Nat
      /\ \A i \in 1 .. Len(s) : Append(s, x)[i] = s[i]
      /\ Append(s, x)[Len(s) + 1] = x
  OBVIOUS
<1>2. DOMAIN s = 1 .. Len(s) /\ DOMAIN Append(s, x) = 1 .. Len(s) + 1
  BY <1>1
<1>3. ToSet(Append(s, x)) = ToSet(s) \cup {x}
  <2>1. 1 .. Len(s) + 1 = (1 .. Len(s)) \cup {Len(s) + 1}
    BY <1>1
  <2>2. QED
    BY <1>1, <1>2, <2>1 DEF ToSet
<1>4. ASSUME Sorted(s), \A n \in ToSet(s) : n < x
      PROVE  Sorted(Append(s, x))
  <2>1. \A i \in 1 .. Len(s) : s[i] < x
    BY <1>2, <1>4 DEF ToSet
  <2>2. ASSUME NEW i \in 1 .. Len(s) + 1, NEW j \in 1 .. Len(s) + 1, i < j
        PROVE  Append(s, x)[i] < Append(s, x)[j]
    <3>1. i \in 1 .. Len(s)
      BY <1>1, <2>2
    <3>2. CASE j = Len(s) + 1
      BY <1>1, <2>1, <3>1, <3>2
    <3>3. CASE j \in 1 .. Len(s)
      BY <1>1, <1>4, <2>2, <3>1, <3>3 DEF Sorted
    <3>4. QED
      BY <1>1, <3>2, <3>3
  <2>3. QED
    BY <1>1, <2>2 DEF Sorted
<1>5. QED
  BY <1>3, <1>4

\* The first item of a sorted sequence comes before the rest.
LEMMA ShrinksSorted ==
  ASSUME NEW s \in Seq(Nat), s # <<>>
  PROVE  /\ ToSet(s) = {Head(s)} \cup ToSet(Tail(s))
         /\ Sorted(s) => Sorted(Tail(s)) /\ \A n \in ToSet(Tail(s)) : Head(s) < n
<1>1. /\ Tail(s) \in Seq(Nat) /\ Len(s) \in Nat \ {0} /\ Len(Tail(s)) = Len(s) - 1 /\ Head(s) = s[1]
      /\ \A i \in 1 .. Len(s) - 1 : Tail(s)[i] = s[i + 1]
  OBVIOUS
<1>2. DOMAIN s = 1 .. Len(s) /\ DOMAIN Tail(s) = 1 .. Len(s) - 1
  BY <1>1
<1>3. \A i \in 2 .. Len(s) : i - 1 \in 1 .. Len(s) - 1 /\ s[i] = Tail(s)[i - 1]
  BY <1>1
<1>4. ToSet(s) = {Head(s)} \cup ToSet(Tail(s))
  <2>1. ASSUME NEW n \in ToSet(s)
        PROVE  n \in {Head(s)} \cup ToSet(Tail(s))
    <3>1. PICK i \in 1 .. Len(s) : n = s[i]
      BY <1>2 DEF ToSet
    <3>2. CASE i = 1
      BY <1>1, <3>1, <3>2
    <3>3. CASE i # 1
      <4>1. i \in 2 .. Len(s)
        BY <1>1, <3>3
      <4>2. QED
        BY <1>2, <1>3, <3>1, <4>1 DEF ToSet
    <3>4. QED
      BY <3>2, <3>3
  <2>2. ASSUME NEW n \in ToSet(Tail(s))
        PROVE  n \in ToSet(s)
    <3>1. PICK i \in 1 .. Len(s) - 1 : n = Tail(s)[i]
      BY <1>2 DEF ToSet
    <3>2. n = s[i + 1] /\ i + 1 \in 1 .. Len(s)
      BY <1>1, <3>1
    <3>3. QED
      BY <1>2, <3>2 DEF ToSet
  <2>3. Head(s) \in ToSet(s)
    BY <1>1, <1>2 DEF ToSet
  <2>4. QED
    BY <2>1, <2>2, <2>3
<1>5. ASSUME Sorted(s)
      PROVE  Sorted(Tail(s)) /\ \A n \in ToSet(Tail(s)) : Head(s) < n
  <2>1. ASSUME NEW i \in 1 .. Len(s) - 1
        PROVE  Head(s) < Tail(s)[i] /\ \A j \in 1 .. Len(s) - 1 : i < j => Tail(s)[i] < Tail(s)[j]
    BY <1>1, <1>5 DEF Sorted
  <2>2. QED
    BY <1>1, <1>2, <2>1 DEF Sorted, ToSet
<1>6. QED
  BY <1>4, <1>5

\* The file grows by a packet of p that is later than those it has of p.
LEMMA FileGrows ==
  ASSUME Typed, NEW p \in Protocols, NEW n \in Nat, file' = Append(file, <<p, n>>)
  PROVE  /\ ToSet(file') = ToSet(file) \cup {<<p, n>>}
         /\ \A q \in Protocols :
              InOrderOnce(q) /\ (q = p => \A e \in ToSet(file) : e[1] = p => e[2] < n) => InOrderOnce(q)'
<1>1. file \in Seq(Protocols \X Nat)
  BY DEF Typed, TypeOK
<1>2. /\ Len(file') = Len(file) + 1 /\ Len(file) \in Nat /\ file' \in Seq(Protocols \X Nat)
      /\ \A i \in 1 .. Len(file) : file'[i] = file[i]
      /\ file'[Len(file) + 1] = <<p, n>>
  BY <1>1
<1>3. DOMAIN file = 1 .. Len(file) /\ DOMAIN file' = 1 .. Len(file) + 1
  BY <1>1, <1>2
<1>4. ToSet(file') = ToSet(file) \cup {<<p, n>>}
  <2>1. 1 .. Len(file) + 1 = (1 .. Len(file)) \cup {Len(file) + 1}
    BY <1>2
  <2>2. QED
    BY <1>2, <1>3, <2>1 DEF ToSet
<1>5. ASSUME NEW q \in Protocols, InOrderOnce(q), q = p => \A e \in ToSet(file) : e[1] = p => e[2] < n
      PROVE  InOrderOnce(q)'
  <2>1. q = p => \A i \in 1 .. Len(file) : file[i][1] = p => file[i][2] < n
    BY <1>3, <1>5 DEF ToSet
  <2>2. ASSUME NEW i \in 1 .. Len(file) + 1, NEW j \in 1 .. Len(file) + 1, i < j,
               file'[i][1] = q, file'[j][1] = q
        PROVE  file'[i][2] < file'[j][2]
    <3>1. i \in 1 .. Len(file)
      BY <1>2, <2>2
    <3>2. CASE j = Len(file) + 1
      <4>1. file'[j] = <<p, n>> /\ file'[i] = file[i]
        BY <1>2, <3>1, <3>2
      <4>2. QED
        BY <2>1, <2>2, <3>1, <4>1
    <3>3. CASE j \in 1 .. Len(file)
      <4>1. file'[j] = file[j] /\ file'[i] = file[i]
        BY <1>2, <3>1, <3>3
      <4>2. QED
        BY <1>5, <2>2, <3>1, <3>3, <4>1 DEF InOrderOnce
    <3>4. QED
      BY <1>2, <3>2, <3>3
  <2>3. QED
    BY <1>2, <2>2 DEF InOrderOnce
<1>6. QED
  BY <1>4, <1>5

\* What the types say of the items on their way.
LEMMA Items ==
  ASSUME Typed, NEW p \in Protocols
  PROVE  /\ ring[p] \in Seq(Nat) /\ accepted[p] \in Seq(Nat) /\ hand[p] \in Nat /\ received[p] \in Nat
         /\ ToSet(ring[p]) \subseteq Nat /\ ToSet(accepted[p]) \subseteq Nat
         /\ ToSet(file) \subseteq Protocols \X Nat
<1>1. /\ ring[p] \in Seq(Nat) /\ accepted[p] \in Seq(Nat) /\ hand[p] \in Nat /\ received[p] \in Nat
      /\ file \in Seq(Protocols \X Nat)
  BY DEF Typed, TypeOK
<1>2. ToSet(ring[p]) \subseteq Nat
  BY <1>1 DEF ToSet
<1>3. ToSet(accepted[p]) \subseteq Nat
  BY <1>1 DEF ToSet
<1>4. ToSet(file) \subseteq Protocols \X Nat
  BY <1>1 DEF ToSet
<1>5. QED
  BY <1>1, <1>2, <1>3, <1>4

\* A step that leaves the packets of q where they are keeps what is known of them.
LEMMA Waits ==
  ASSUME Typed, NEW q \in Protocols, Delivery(q),
         ring'[q] = ring[q], accepted'[q] = accepted[q], file' = file, writing' = writing,
         ~writing /\ q \in recorded' => q \in recorded,
         Holding(q)' <=> Holding(q), Holding(q) => hand'[q] = hand[q],
         worker'[q] = "inWriter" => worker[q] = "inWriter",
         \A n \in Nat : GivenOn(q, n) => GivenOn(q, n)'
  PROVE  Delivery(q)'
<1>0. /\ hand[q] \in Nat /\ ToSet(ring[q]) \subseteq Nat /\ ToSet(accepted[q]) \subseteq Nat
      /\ \A e \in ToSet(file) : e[2] \in Nat
  BY Items
<1>1. OnTheirWay(q)'
  BY <1>0 DEF Delivery, OnTheirWay, InOrderOnce
<1>2. AcceptedLast(q)'
  BY <1>0 DEF Delivery, AcceptedLast, Early, Holding
<1>3. NothingLost(q)'
  BY <1>0 DEF Delivery, NothingLost, Found
<1>4. QED
  BY <1>1, <1>2, <1>3 DEF Delivery

\* A packet that is pushed comes after all that were given on before it.
LEMMA PushDelivers ==
  ASSUME Typed, NEW p \in Protocols, Delivery(p), TryPush(p), Len(ring[p]) < RingSize
  PROVE  Delivery(p)'
<1>0. /\ ring[p] \in Seq(Nat) /\ accepted[p] \in Seq(Nat) /\ hand[p] \in Nat /\ received[p] \in Nat
      /\ ToSet(ring[p]) \subseteq Nat /\ ToSet(accepted[p]) \subseteq Nat
      /\ \A e \in ToSet(file) : e[2] \in Nat
  BY Items
<1>1. /\ ring'[p] = Append(ring[p], received[p])
      /\ accepted'[p] = IF writing THEN Append(accepted[p], received[p]) ELSE accepted[p]
      /\ io[p] = "push" /\ io'[p] = "notify"
      /\ UNCHANGED <<received, worker, hand, writing, file, recorded>>
  BY DEF TryPush, Typed, TypeOK, workerVars, storageVars, apiVars
<1>2. /\ ToSet(ring'[p]) = ToSet(ring[p]) \cup {received[p]}
      /\ Sorted(ring[p]) /\ (\A n \in ToSet(ring[p]) : n < received[p]) => Sorted(ring'[p])
  BY <1>0, <1>1, GrowsSorted
<1>3. ToSet(accepted'[p]) = ToSet(accepted[p]) \cup IF writing THEN {received[p]} ELSE {}
  BY <1>0, <1>1, GrowsSorted
<1>4. \A n \in Nat : /\ GivenOn(p, n) => n < received[p]
                     /\ GivenOn(p, n)' <=> n < received[p] \/ n = received[p]
  BY <1>1 DEF GivenOn, Pushing
<1>5. Holding(p)' <=> Holding(p)
  BY <1>1 DEF Holding
<1>6. OnTheirWay(p)'
  <2>1. Sorted(ring[p])' /\ InOrderOnce(p)'
    BY <1>0, <1>1, <1>2, <1>4 DEF Delivery, OnTheirWay, InOrderOnce, Sorted
  <2>2. \A n \in ToSet(ring'[p]) : GivenOn(p, n)' /\ (Holding(p) => hand[p] < n)
    BY <1>0, <1>2, <1>4 DEF Delivery, OnTheirWay
  <2>3. \A e \in ToSet(file) : e[1] = p =>
          GivenOn(p, e[2])' /\ (Holding(p) => e[2] < hand[p]) /\ \A n \in ToSet(ring'[p]) : e[2] < n
    BY <1>0, <1>2, <1>4 DEF Delivery, OnTheirWay
  <2>4. Holding(p) => GivenOn(p, hand[p])'
    BY <1>0, <1>1, <1>4 DEF Delivery, OnTheirWay
  <2>5. QED
    BY <1>1, <1>5, <2>1, <2>2, <2>3, <2>4 DEF OnTheirWay
<1>7. AcceptedLast(p)'
  <2>1. \A n \in Nat : GivenOn(p, n) /\ Early(p, n) => Early(p, n)'
    BY <1>0, <1>3, <1>4 DEF Early
  <2>2. writing => Early(p, received[p])'
    BY <1>1, <1>3 DEF Early
  <2>3. \A a \in ToSet(accepted'[p]) : GivenOn(p, a)'
    BY <1>0, <1>3, <1>4 DEF Delivery, AcceptedLast
  <2>4. writing => \A n \in ToSet(ring'[p]) : Early(p, n)'
    BY <1>0, <1>1, <1>2, <2>1, <2>2 DEF Delivery, AcceptedLast, OnTheirWay
  <2>5. Holding(p) /\ (writing \/ worker[p] = "inWriter") => Early(p, hand[p])'
    BY <1>0, <1>1, <2>1 DEF Delivery, AcceptedLast, OnTheirWay
  <2>6. \A e \in ToSet(file) : e[1] = p => Early(p, e[2])' /\ e[2] \notin Filtered
    BY <1>0, <2>1 DEF Delivery, AcceptedLast, OnTheirWay
  <2>7. worker[p] = "inWriter" => hand[p] \notin Filtered
    BY DEF Delivery, AcceptedLast
  <2>8. QED
    BY <1>1, <1>5, <2>3, <2>4, <2>5, <2>6, <2>7 DEF AcceptedLast, Early
<1>8. NothingLost(p)'
  BY <1>1, <1>2, <1>3, <1>5 DEF Delivery, NothingLost, Found
<1>9. QED
  BY <1>6, <1>7, <1>8 DEF Delivery

\* A step of an I/O thread keeps what is known of the packets.
LEMMA IoDelivers ==
  ASSUME Typed, Delivered, NEW p \in Protocols, Receive(p) \/ Callback(p)
  PROVE  Delivered'
<1> SUFFICES ASSUME NEW q \in Protocols
             PROVE  Delivery(q)'
  BY DEF Delivered
<1>0. /\ DOMAIN worker = Protocols /\ DOMAIN io = Protocols /\ received \in [Protocols -> Nat] /\ Delivery(q)
      /\ received[q] \in Nat
  BY Flags DEF Typed, TypeOK, Delivered
<1>1. UNCHANGED <<file, writing, hand, recorded>>
  BY DEF Receive, Callback, TestRunning, TryPush, NotifyPacket, workerVars, storageVars, apiVars
<1>2. (Holding(q)' <=> Holding(q)) /\ (worker'[q] = "inWriter" => worker[q] = "inWriter")
  BY <1>0 DEF Receive, Callback, TestRunning, TryPush, NotifyPacket, Notified, Holding, workerVars
<1>3. CASE q = p /\ TryPush(p) /\ Len(ring[p]) < RingSize
  BY <1>0, <1>3, PushDelivers
<1>4. CASE ~(q = p /\ TryPush(p) /\ Len(ring[p]) < RingSize)
  <2>1. ring'[q] = ring[q] /\ accepted'[q] = accepted[q]
    <3>1. CASE TryPush(p)
      BY <1>4, <3>1 DEF TryPush, Typed, TypeOK
    <3>2. CASE Receive(p) \/ TestRunning(p) \/ NotifyPacket(p)
      BY <3>2 DEF Receive, TestRunning, NotifyPacket
    <3>3. QED
      BY <3>1, <3>2 DEF Callback
  <2>2. \A n \in Nat : GivenOn(q, n) => GivenOn(q, n)'
    <3>1. CASE Receive(p)
      <4>1. CASE q = p
        <5>1. received'[q] = received[q] + 1
          BY <1>0, <3>1, <4>1 DEF Receive
        <5>2. QED
          BY <1>0, <5>1 DEF GivenOn
      <4>2. CASE q # p
        BY <1>0, <3>1, <4>2 DEF Receive, GivenOn, Pushing
      <4>3. QED
        BY <4>1, <4>2
    <3>2. CASE Callback(p)
      BY <1>0, <1>4, <3>2 DEF Callback, TestRunning, TryPush, NotifyPacket, GivenOn, Pushing
    <3>3. QED
      BY <3>1, <3>2
  <2>3. QED
    BY <1>0, <1>1, <1>2, <2>1, <2>2, Waits
<1>5. QED
  BY <1>3, <1>4

\* The packet that the worker pops comes before the rest of the ring, and after those of the file.
LEMMA PopDelivers ==
  ASSUME Typed, NEW p \in Protocols, Delivery(p), WorkerPop(p), ring[p] # <<>>
  PROVE  Delivery(p)'
<1>0. /\ ring[p] \in Seq(Nat) /\ accepted[p] \in Seq(Nat) /\ ToSet(ring[p]) \subseteq Nat
      /\ \A e \in ToSet(file) : e[2] \in Nat
  BY Items
<1>1. /\ hand'[p] = Head(ring[p]) /\ ring'[p] = Tail(ring[p]) /\ worker[p] = "pop" /\ worker'[p] = "handle"
      /\ UNCHANGED <<io, received, accepted, writing, file, recorded>>
  BY DEF WorkerPop, Typed, TypeOK, storageVars, apiVars
<1>2. ~Holding(p) /\ Holding(p)'
  BY <1>1 DEF Holding
<1>3. /\ ToSet(ring[p]) = {hand'[p]} \cup ToSet(ring'[p])
      /\ Sorted(ring[p]) => Sorted(ring'[p]) /\ \A n \in ToSet(ring'[p]) : hand'[p] < n
  BY <1>0, <1>1, ShrinksSorted
<1>4. \A n : (GivenOn(p, n) <=> GivenOn(p, n)') /\ (Early(p, n) <=> Early(p, n)')
  BY <1>1 DEF GivenOn, Pushing, Early
<1>5. OnTheirWay(p)'
  <2>1. Sorted(ring[p])' /\ InOrderOnce(p)'
    BY <1>1, <1>3 DEF Delivery, OnTheirWay, InOrderOnce, Sorted
  <2>2. /\ \A n \in ToSet(ring'[p]) : GivenOn(p, n)' /\ hand'[p] < n
        /\ GivenOn(p, hand[p])'
    BY <1>3, <1>4 DEF Delivery, OnTheirWay, GivenOn, Pushing
  <2>3. \A e \in ToSet(file) : e[1] = p =>
          GivenOn(p, e[2])' /\ e[2] < hand'[p] /\ \A n \in ToSet(ring'[p]) : e[2] < n
    BY <1>3, <1>4 DEF Delivery, OnTheirWay
  <2>4. QED
    BY <1>1, <2>1, <2>2, <2>3 DEF OnTheirWay
<1>6. AcceptedLast(p)'
  <2>1. writing => Early(p, hand[p])' /\ \A n \in ToSet(ring'[p]) : Early(p, n)'
    BY <1>1, <1>3 DEF Delivery, AcceptedLast, Early
  <2>2. \A e \in ToSet(file) : e[1] = p => Early(p, e[2])' /\ e[2] \notin Filtered
    BY <1>4 DEF Delivery, AcceptedLast
  <2>3. \A a \in ToSet(accepted[p]) : GivenOn(p, a)'
    BY <1>4 DEF Delivery, AcceptedLast
  <2>4. QED
    BY <1>1, <2>1, <2>2, <2>3 DEF AcceptedLast
<1>7. NothingLost(p)'
  BY <1>1, <1>2, <1>3 DEF Delivery, NothingLost, Found
<1>8. QED
  BY <1>5, <1>6, <1>7 DEF Delivery

\* A packet that is filtered, or finds no file being written, is dropped; any other goes to the writer.
LEMMA HandleDelivers ==
  ASSUME Typed, NEW p \in Protocols, Delivery(p), WorkerHandle(p)
  PROVE  Delivery(p)'
<1>0. /\ hand[p] \in Nat /\ ToSet(ring[p]) \subseteq Nat /\ ToSet(accepted[p]) \subseteq Nat
      /\ \A e \in ToSet(file) : e[2] \in Nat
  BY Items
<1>1. /\ Holding(p) /\ UNCHANGED <<io, received, ring, accepted, writing, file, recorded>>
      /\ DOMAIN worker = Protocols /\ DOMAIN hand = Protocols /\ writing \in BOOLEAN
  BY DEF WorkerHandle, ioVars, storageVars, apiVars, Holding, Typed, TypeOK
<1>2. \A n : (GivenOn(p, n) <=> GivenOn(p, n)') /\ (Early(p, n) <=> Early(p, n)')
  BY <1>1 DEF GivenOn, Pushing, Early
<1>3. CASE hand[p] \in Filtered \/ ~writing
  <2>1. worker'[p] = "loop" /\ ~Holding(p)'
    BY <1>1, <1>3 DEF WorkerHandle, Holding
  <2>2. OnTheirWay(p)'
    BY <1>1, <1>2, <2>1 DEF Delivery, OnTheirWay, InOrderOnce
  <2>3. AcceptedLast(p)'
    BY <1>1, <1>2, <2>1 DEF Delivery, AcceptedLast
  <2>4. NothingLost(p)'
    BY <1>1, <1>3, <2>1 DEF Delivery, NothingLost, Found
  <2>5. QED
    BY <2>2, <2>3, <2>4 DEF Delivery
<1>4. CASE hand[p] \notin Filtered /\ writing
  <2>1. worker'[p] = "inWriter" /\ Holding(p)' /\ hand'[p] = hand[p]
    BY <1>1, <1>4 DEF WorkerHandle, Holding
  <2>2. OnTheirWay(p)'
    BY <1>1, <2>1 DEF Delivery, OnTheirWay, InOrderOnce, GivenOn, Pushing
  <2>3. AcceptedLast(p)'
    BY <1>1, <1>4, <2>1 DEF Delivery, AcceptedLast, GivenOn, Pushing, Early
  <2>4. NothingLost(p)'
    BY <1>1, <1>4, <2>1 DEF Delivery, NothingLost, Found
  <2>5. QED
    BY <2>2, <2>3, <2>4 DEF Delivery
<1>5. QED
  BY <1>3, <1>4

\* The packet in hand goes into the file; for another protocol the file has what it had.
LEMMA WriteDelivers ==
  ASSUME Typed, NEW p \in Protocols, NEW q \in Protocols, Delivery(q), WorkerWrite(p)
  PROVE  Delivery(q)'
<1>0. /\ hand[p] \in Nat /\ hand[q] \in Nat /\ ToSet(ring[q]) \subseteq Nat /\ ToSet(accepted[q]) \subseteq Nat
      /\ \A e \in ToSet(file) : e[2] \in Nat
  BY Items
<1>1. /\ file' = Append(file, <<p, hand[p]>>) /\ worker[p] = "inWriter" /\ worker'[p] = "loop"
      /\ q # p => worker'[q] = worker[q] /\ hand'[q] = hand[q]
      /\ UNCHANGED <<io, received, ring, accepted, writing, recorded>>
  BY DEF WorkerWrite, Typed, TypeOK, ioVars, apiVars
<1>2. \A n : (GivenOn(q, n) <=> GivenOn(q, n)') /\ (Early(q, n) <=> Early(q, n)')
  BY <1>1 DEF GivenOn, Pushing, Early
<1>3. q = p => \A e \in ToSet(file) : e[1] = p => e[2] < hand[p]
  BY <1>1 DEF Delivery, OnTheirWay, Holding
<1>4. InOrderOnce(q)' /\ ToSet(file') = ToSet(file) \cup {<<p, hand[p]>>}
  BY <1>0, <1>1, <1>3, FileGrows DEF Delivery, OnTheirWay
<1>5. CASE q = p
  <2>1. Holding(p) /\ ~Holding(p)'
    BY <1>1 DEF Holding
  <2>2. OnTheirWay(q)'
    <3>1. Sorted(ring[q])' /\ \A n \in ToSet(ring[q]) : GivenOn(q, n)'
      BY <1>1, <1>2 DEF Delivery, OnTheirWay, Sorted
    <3>2. \A e \in ToSet(file') : e[1] = q => GivenOn(q, e[2])' /\ \A n \in ToSet(ring[q]) : e[2] < n
      BY <1>2, <1>4, <1>5, <2>1 DEF Delivery, OnTheirWay
    <3>3. QED
      BY <1>1, <1>4, <1>5, <2>1, <3>1, <3>2 DEF OnTheirWay
  <2>3. AcceptedLast(q)'
    <3>1. Early(q, hand[q]) /\ hand[q] \notin Filtered
      BY <1>1, <1>5, <2>1 DEF Delivery, AcceptedLast
    <3>2. \A e \in ToSet(file') : e[1] = q => Early(q, e[2])' /\ e[2] \notin Filtered
      BY <1>2, <1>4, <1>5, <3>1 DEF Delivery, AcceptedLast
    <3>3. QED
      BY <1>1, <1>2, <1>5, <2>1, <3>2 DEF Delivery, AcceptedLast
  <2>4. NothingLost(q)'
    BY <1>1, <1>4, <1>5, <2>1 DEF Delivery, NothingLost, Found
  <2>5. QED
    BY <2>2, <2>3, <2>4 DEF Delivery
<1>6. CASE q # p
  <2>1. /\ Holding(q)' <=> Holding(q)
        /\ \A e \in ToSet(file') : e[1] = q => e \in ToSet(file)
    BY <1>1, <1>4, <1>6 DEF Holding
  <2>2. OnTheirWay(q)'
    <3>1. /\ Sorted(ring[q])' /\ \A n \in ToSet(ring[q]) : GivenOn(q, n)' /\ (Holding(q) => hand[q] < n)
          /\ Holding(q) => GivenOn(q, hand[q])'
      BY <1>1, <1>6 DEF Delivery, OnTheirWay, Sorted, GivenOn, Pushing
    <3>2. \A e \in ToSet(file') : e[1] = q =>
            GivenOn(q, e[2])' /\ (Holding(q) => e[2] < hand[q]) /\ \A n \in ToSet(ring[q]) : e[2] < n
      BY <1>2, <2>1 DEF Delivery, OnTheirWay
    <3>3. QED
      BY <1>1, <1>4, <1>6, <2>1, <3>1, <3>2 DEF OnTheirWay
  <2>3. AcceptedLast(q)'
    BY <1>1, <1>6, <2>1 DEF Delivery, AcceptedLast, Early, GivenOn, Pushing, Holding
  <2>4. NothingLost(q)'
    BY <1>1, <1>4, <1>6, <2>1 DEF Delivery, NothingLost, Found
  <2>5. QED
    BY <2>2, <2>3, <2>4 DEF Delivery
<1>7. QED
  BY <1>5, <1>6

\* A step of a worker keeps what is known of the packets.
LEMMA WorkerDelivers ==
  ASSUME Typed, Delivered, NEW p \in Protocols, Worker(p)
  PROVE  Delivered'
<1> SUFFICES ASSUME NEW q \in Protocols
             PROVE  Delivery(q)'
  BY DEF Delivered
<1>0. DOMAIN worker = Protocols /\ DOMAIN hand = Protocols /\ DOMAIN ring = Protocols /\ Delivery(q)
  BY DEF Typed, TypeOK, Delivered
<1>1. CASE WorkerWrite(p)
  BY <1>0, <1>1, WriteDelivers
<1>2. CASE q = p /\ WorkerHandle(p)
  BY <1>0, <1>2, HandleDelivers
<1>3. CASE q = p /\ WorkerPop(p) /\ ring[p] # <<>>
  BY <1>0, <1>3, PopDelivers
<1>4. CASE ~WorkerWrite(p) /\ ~(q = p /\ WorkerHandle(p)) /\ ~(q = p /\ WorkerPop(p) /\ ring[p] # <<>>)
  <2>1. UNCHANGED <<received, accepted, io, writing, file, recorded>>
    BY <1>4 DEF Worker, WorkerTest, WorkerPop, WorkerDecide, WorkerBlock, WorkerTimeout, WorkerHandle,
                ioVars, storageVars, apiVars
  <2>2. \A n : GivenOn(q, n) => GivenOn(q, n)'
    BY <2>1 DEF GivenOn, Pushing
  <2>3. ring'[q] = ring[q]
    BY <1>0, <1>4 DEF Worker, WorkerTest, WorkerPop, WorkerDecide, WorkerBlock, WorkerTimeout, WorkerHandle, ioVars
  <2>4. /\ Holding(q)' <=> Holding(q)
        /\ Holding(q) => hand'[q] = hand[q]
        /\ worker'[q] = "inWriter" => worker[q] = "inWriter"
    BY <1>0, <1>4 DEF Worker, WorkerTest, WorkerPop, WorkerDecide, WorkerBlock, WorkerTimeout, WorkerHandle, Holding
  <2>5. QED
    BY <1>0, <2>1, <2>2, <2>3, <2>4, Waits
<1>5. QED
  BY <1>1, <1>2, <1>3, <1>4

\* Initially nothing was received and no file is written.
LEMMA DeliveredInit == Init => Delivered /\ RecordingWrites
<1> SUFFICES ASSUME Init
             PROVE  Delivered /\ RecordingWrites
  OBVIOUS
<1>1. RecordingWrites
  BY DEF Init, RecordingWrites, Ends, NoCall
<1>2. ASSUME NEW p \in Protocols
      PROVE  Delivery(p)
  <2>1. ToSet(<<>>) = {} /\ Len(<<>>) = 0
    BY DEF ToSet
  <2>2. ring[p] = <<>> /\ accepted[p] = <<>> /\ file = <<>> /\ worker[p] = "none" /\ recorded = {}
    BY DEF Init
  <2>3. Sorted(<<>>) /\ InOrderOnce(p)
    BY <2>1, <2>2 DEF Sorted, InOrderOnce
  <2>4. QED
    BY <2>1, <2>2, <2>3 DEF Delivery, OnTheirWay, AcceptedLast, NothingLost, Holding
<1>3. QED
  BY <1>1, <1>2 DEF Delivered

\* No thread but the API thread makes a worker, or takes one away.
LEMMA ThreadsKeepWrites ==
  ASSUME Typed, RecordingWrites, NEW p \in Protocols, Receive(p) \/ Callback(p) \/ Worker(p)
  PROVE  RecordingWrites'
<1>1. UNCHANGED <<call, activeRecord, recorded, writing>>
  BY DEF Receive, Callback, TestRunning, TryPush, NotifyPacket, Worker, WorkerTest, WorkerPop, WorkerDecide,
         WorkerBlock, WorkerTimeout, WorkerHandle, WorkerWrite, apiVars, storageVars
<1>2. ASSUME NEW q \in Protocols, worker[q] = "none"
      PROVE  worker'[q] = "none"
  BY <1>2, Flags DEF Receive, Callback, TestRunning, TryPush, NotifyPacket, Notified, Worker, WorkerTest, WorkerPop,
         WorkerDecide, WorkerBlock, WorkerTimeout, WorkerHandle, WorkerWrite, workerVars
<1>3. recorded \subseteq Protocols
  BY DEF Typed, TypeOK
<1>4. QED
  BY <1>1, <1>2, <1>3 DEF RecordingWrites, Ends

\* A capture that is started ends no recording.
LEMMA SucceedKeepsWrites ==
  ASSUME Typed, RecordingWrites, Succeed, call.pc \in {"start", "activate"},
         UNCHANGED <<writing, activeRecord, recorded>>
  PROVE  RecordingWrites'
<1> USE DEF Stopping
<1>1. CASE call.op = "startPlugin"
  <2>1. call'.op = "none" /\ call'.pc = "idle"
    BY <1>1, Succeeds DEF NoCall
  <2>2. QED
    BY <1>1, <2>1 DEF RecordingWrites, Ends
<1>2. CASE call.op # "startPlugin"
  <2>1. call'.op = call.op /\ call'.pc = "next"
    BY <1>2, Succeeds
  <2>2. QED
    BY <1>2, <2>1 DEF RecordingWrites, Ends
<1>3. QED
  BY <1>1, <1>2

\* A step of the API thread that starts captures keeps the order of writing and recording.
LEMMA StartKeepsWrites ==
  ASSUME Typed, RecordingWrites,
         BeginRecording \/ NextStart \/ BeginPlugin \/ StartWorker \/ StartService \/ Activate
  PROVE  RecordingWrites'
<1> USE DEF Stopping, At
<1>0. call \in CallType
  BY DEF Typed, Control
<1>1. CASE BeginRecording
  <2>1. call'.op = "record" /\ call'.pc = "next"
    BY <1>1 DEF BeginRecording, NoCall
  <2>2. QED
    BY <1>1, <2>1 DEF BeginRecording, RecordingWrites, Ends
<1>2. CASE NextStart
  <2>1. call.pc = "next" /\ call.op = "record" /\ writing' = writing
    <3>1. call.pc = "next" /\ writing' = writing
      BY <1>2 DEF NextStart, storageVars
    <3>2. call.op = "record"
      BY <3>1 DEF Typed, Control, CallType, Starting, Ending
    <3>3. QED
      BY <3>1, <3>2
  <2>2. writing /\ recorded = {} /\ activeRecord = {}
    BY <2>1 DEF RecordingWrites, Ends
  <2>3. CASE /\ \E p \in call.todo : call' = [call EXCEPT !.pc = "start", !.proto = p, !.todo = @ \ {p}]
             /\ UNCHANGED <<activeRecord, recorded>>
    <3>1. call'.op = "record" /\ call'.pc = "start"
      BY <1>0, <2>1, <2>3 DEF CallType
    <3>2. QED
      BY <2>1, <2>2, <2>3, <3>1 DEF RecordingWrites, Ends
  <2>4. CASE activeRecord' = call.started /\ call' = NoCall /\ UNCHANGED recorded
    <3>1. call'.op = "none" /\ call'.pc = "idle"
      BY <2>4 DEF NoCall
    <3>2. QED
      BY <2>1, <2>2, <2>4, <3>1 DEF RecordingWrites, Ends
  <2>5. CASE /\ call' = [call EXCEPT !.pc = "nextStop", !.todo = call.started]
             /\ recorded' = call.started /\ UNCHANGED activeRecord
    <3>1. call'.op = "record" /\ call'.pc = "nextStop" /\ call'.todo = call.started
      BY <1>0, <2>1, <2>5 DEF CallType
    <3>2. QED
      BY <2>1, <2>2, <2>5, <3>1 DEF RecordingWrites, Ends
  <2>6. QED
    BY <1>2, <2>3, <2>4, <2>5 DEF NextStart
<1>3. CASE BeginPlugin
  <2>1. call'.op = "startPlugin" /\ call'.pc = "start" /\ call.op = "none" /\ call.pc = "idle"
    BY <1>3 DEF BeginPlugin, NoCall, Typed, Control
  <2>2. UNCHANGED <<writing, activeRecord, recorded>>
    BY <1>3 DEF BeginPlugin, storageVars
  <2>3. QED
    BY <2>1, <2>2 DEF RecordingWrites, Ends
<1>4. CASE StartWorker
  <2>1. call.pc = "start" /\ UNCHANGED <<writing, activeRecord, recorded>>
    BY <1>4 DEF StartWorker, storageVars
  <2>2. CASE Succeed
    BY <2>1, <2>2, SucceedKeepsWrites
  <2>3. CASE Goto("service")
    BY <2>1, <2>3, Moves DEF RecordingWrites, Ends
  <2>4. QED
    BY <1>4, <2>2, <2>3 DEF StartWorker
<1>5. CASE StartService
  <2>1. call.pc = "service" /\ UNCHANGED <<writing, activeRecord, recorded>>
    BY <1>5 DEF StartService, storageVars
  <2>2. CASE Goto("activate")
    BY <2>1, <2>2, Moves DEF RecordingWrites, Ends
  <2>3. CASE Goto("undoNotify")
    BY <2>1, <2>3, Moves DEF RecordingWrites, Ends
  <2>4. QED
    BY <1>5, <2>2, <2>3 DEF StartService
<1>6. CASE Activate
  BY <1>6, SucceedKeepsWrites DEF Activate, storageVars
<1>7. QED
  BY <1>1, <1>2, <1>3, <1>4, <1>5, <1>6

\* A step of the API thread that stops captures keeps it.
LEMMA StopKeepsWrites ==
  ASSUME Typed, RecordingWrites,
         BeginStop \/ NextStop \/ StopService \/ JoinIo \/ LowerFlags \/ NotifyEnd \/ JoinWorker
           \/ Finalize \/ CloseWriter
  PROVE  RecordingWrites'
<1> USE DEF Stopping, At
<1>0. call \in CallType /\ recorded \subseteq Protocols /\ DOMAIN worker = Protocols
  BY DEF Typed, Control, TypeOK
<1>1. CASE BeginStop
  <2>1. call.pc = "idle" /\ call.op = "none" /\ UNCHANGED <<writing, worker>>
    BY <1>1 DEF BeginStop, storageVars, workerVars, Typed, Control
  <2>2. CASE /\ activeRecord # {} /\ activeRecord' = {} /\ recorded' = activeRecord
             /\ call' = [NoCall EXCEPT !.op = "stopRecord", !.pc = "nextStop", !.todo = activeRecord]
    <3>1. call'.op = "stopRecord" /\ call'.pc = "nextStop" /\ call'.todo = activeRecord
      BY <2>2 DEF NoCall
    <3>2. QED
      BY <2>1, <2>2, <3>1 DEF RecordingWrites, Ends
  <2>3. CASE /\ \E p \in Plugins : call' = [NoCall EXCEPT !.op = "stopPlugin", !.pc = "nextStop", !.todo = {p}]
             /\ UNCHANGED <<activeRecord, recorded>>
    <3>1. call'.op = "stopPlugin" /\ call'.pc = "nextStop"
      BY <2>3 DEF NoCall
    <3>2. QED
      BY <2>1, <2>3, <3>1 DEF RecordingWrites, Ends
  <2>4. QED
    BY <1>1, <2>2, <2>3 DEF BeginStop
<1>2. CASE NextStop
  <2>1. call.pc = "nextStop" /\ UNCHANGED <<writing, worker, activeRecord, recorded>>
    BY <1>2 DEF NextStop, storageVars, workerVars
  <2>2. CASE \E p \in call.todo : call' = [call EXCEPT !.pc = "stopService", !.proto = p, !.todo = @ \ {p}]
    <3>1. PICK p \in call.todo : call' = [call EXCEPT !.pc = "stopService", !.proto = p, !.todo = @ \ {p}]
      BY <2>2
    <3>2. call'.op = call.op /\ call'.pc = "stopService" /\ call'.proto = p /\ call'.todo = call.todo \ {p}
      BY <1>0, <3>1 DEF CallType
    <3>3. QED
      BY <2>1, <3>2 DEF RecordingWrites, Ends
  <2>3. CASE call.op = "stopPlugin" /\ call' = NoCall
    <3>1. call'.op = "none" /\ call'.pc = "idle"
      BY <2>3 DEF NoCall
    <3>2. QED
      BY <2>1, <2>3, <3>1 DEF RecordingWrites, Ends
  <2>4. CASE call.todo = {} /\ call.op # "stopPlugin" /\ Goto("finalize")
    <3>1. call'.op = call.op /\ call'.pc = "finalize" /\ call'.todo = {}
      BY <2>4, Moves
    <3>2. QED
      BY <2>1, <2>4, <3>1 DEF RecordingWrites, Ends
  <2>5. QED
    BY <1>2, <2>2, <2>3, <2>4 DEF NextStop
<1>3. CASE StopService \/ JoinIo \/ LowerFlags
  <2>1. /\ call.pc \in Stopping /\ call'.pc \in Stopping /\ call'.op = call.op /\ call'.proto = call.proto
        /\ call'.todo = call.todo /\ UNCHANGED <<writing, worker, activeRecord, recorded>>
    BY <1>3, Moves DEF StopService, JoinIo, LowerFlags, workerVars, storageVars
  <2>2. QED
    BY <2>1 DEF RecordingWrites, Ends
<1>4. CASE NotifyEnd
  <2>1. /\ call'.op = call.op /\ call'.proto = call.proto /\ call'.todo = call.todo
        /\ \/ call.pc = "notify" /\ call'.pc = "join"
           \/ call.pc = "undoNotify" /\ call'.pc = "undoJoin"
        /\ UNCHANGED <<writing, activeRecord, recorded>>
    BY <1>4, Moves DEF NotifyEnd, storageVars
  <2>2. \A q \in Protocols : worker[q] = "none" => worker'[q] = "none"
    BY <1>0, <1>4 DEF NotifyEnd, Notified
  <2>3. QED
    BY <1>0, <2>1, <2>2 DEF RecordingWrites, Ends
<1>5. CASE JoinWorker
  <2>1. /\ call.proto \in Protocols /\ UNCHANGED <<writing, activeRecord>>
        /\ \A q \in Protocols : worker[q] = "none" \/ q = call.proto => worker'[q] = "none"
    BY <1>0, <1>5 DEF JoinWorker, Typed, Control, Starting, storageVars
  <2>2. CASE At("join") /\ Goto("nextStop") /\ UNCHANGED recorded
    <3>1. call'.op = call.op /\ call'.pc = "nextStop" /\ call'.todo = call.todo
      BY <2>2, Moves
    <3>2. QED
      BY <1>0, <2>1, <2>2, <3>1 DEF RecordingWrites, Ends
  <2>3. CASE At("undoJoin") /\ call' = NoCall /\ UNCHANGED recorded
    <3>1. call'.op = "none" /\ call'.pc = "idle"
      BY <2>3 DEF NoCall
    <3>2. QED
      BY <2>1, <2>3, <3>1 DEF RecordingWrites, Ends
  <2>4. CASE /\ At("undoJoin") /\ call.op # "startPlugin" /\ recorded' = call.started
             /\ call' = [call EXCEPT !.pc = "nextStop", !.todo = call.started]
    <3>1. call.op = "record"
      BY <2>4 DEF Typed, Control, CallType, Starting, Ending
    <3>2. call'.op = "record" /\ call'.pc = "nextStop" /\ call'.todo = call.started
      BY <1>0, <2>4, <3>1 DEF CallType
    <3>3. QED
      BY <2>1, <2>4, <3>1, <3>2 DEF RecordingWrites, Ends
  <2>5. QED
    BY <1>5, <2>2, <2>3, <2>4 DEF JoinWorker
<1>6. CASE Finalize
  <2>1. /\ call.pc = "finalize" /\ call'.pc = "inFinalize" /\ call'.op = call.op /\ ~writing'
        /\ UNCHANGED <<activeRecord, recorded>>
    BY <1>6, Moves DEF Finalize
  <2>2. call.op \in {"record", "stopRecord"}
    BY <2>1 DEF Typed, Control, CallType, Starting
  <2>3. QED
    BY <2>1, <2>2 DEF RecordingWrites, Ends
<1>7. CASE CloseWriter
  <2>1. call.pc = "inFinalize" /\ UNCHANGED <<writing, activeRecord, recorded>>
    BY <1>7 DEF CloseWriter, storageVars
  <2>2. call.op \in {"record", "stopRecord"}
    BY <2>1 DEF Typed, Control, CallType, Starting
  <2>3. call'.op = "none" /\ call'.pc = "idle"
    BY <1>7 DEF CloseWriter, NoCall
  <2>4. QED
    BY <2>1, <2>2, <2>3 DEF RecordingWrites, Ends
<1>8. QED
  BY <1>1, <1>2, <1>3, <1>4, <1>5, <1>6, <1>7

\* A recording begins with an empty file, and nothing accepted.
LEMMA BeginDelivers ==
  ASSUME Typed, NEW p \in Protocols, Delivery(p), BeginRecording
  PROVE  Delivery(p)'
<1>1. /\ accepted'[p] = <<>> /\ file' = <<>> /\ recorded' = {} /\ ToSet(<<>>) = {} /\ Len(<<>>) = 0
      /\ UNCHANGED <<io, received, ring, worker, hand>>
  BY DEF BeginRecording, workerVars, ToSet
<1>2. /\ Holding(p)' <=> Holding(p)
      /\ \A n : GivenOn(p, n)' <=> GivenOn(p, n)
      /\ \A n : Early(p, n)'
  BY <1>1 DEF Holding, GivenOn, Pushing, Early
<1>3. OnTheirWay(p)'
  <2>1. InOrderOnce(p)'
    BY <1>1 DEF InOrderOnce
  <2>2. Sorted(ring[p])'
    BY <1>1 DEF Delivery, OnTheirWay, Sorted
  <2>3. /\ \A n \in ToSet(ring'[p]) : GivenOn(p, n)' /\ (Holding(p)' => hand'[p] < n)
        /\ Holding(p)' => GivenOn(p, hand[p])'
    BY <1>1, <1>2 DEF Delivery, OnTheirWay, GivenOn, Pushing
  <2>4. QED
    BY <1>1, <2>1, <2>2, <2>3 DEF OnTheirWay
<1>4. AcceptedLast(p)'
  <2>1. worker'[p] = "inWriter" => hand'[p] \notin Filtered
    BY <1>1 DEF Delivery, AcceptedLast
  <2>2. Early(p, hand[p])'
    BY <1>1 DEF Early
  <2>3. QED
    BY <1>1, <1>2, <2>1, <2>2 DEF AcceptedLast
<1>5. NothingLost(p)'
  BY <1>1 DEF NothingLost
<1>6. QED
  BY <1>3, <1>4, <1>5 DEF Delivery

\* When the file is finalized nothing is left of the packets of the protocols that were stopped.
LEMMA FinalizeDelivers ==
  ASSUME Typed, InOrder, RecordingWrites, NEW p \in Protocols, Delivery(p), Finalize
  PROVE  Delivery(p)'
<1>1. UNCHANGED <<io, received, ring, accepted, worker, hand, file, recorded>> /\ ~writing' /\ call.pc = "finalize"
  BY DEF Finalize, ioVars, workerVars, At
<1>2. OnTheirWay(p)'
  BY <1>1 DEF Delivery, OnTheirWay, InOrderOnce, Holding, GivenOn, Pushing
<1>3. AcceptedLast(p)'
  BY <1>1 DEF Delivery, AcceptedLast, Holding, GivenOn, Pushing, Early
<1>4. ASSUME p \in recorded, NEW a \in ToSet(accepted[p])
      PROVE  Found(p, a)
  <2>1. writing /\ worker[p] = "none"
    <3>1. call.op \in {"record", "stopRecord"}
      BY <1>1 DEF Typed, Control, CallType, Starting, Stopping
    <3>2. QED
      BY <1>1, <1>4, <3>1 DEF RecordingWrites, Ends, Stopping
  <2>2. ring[p] = <<>> /\ ToSet(<<>>) = {} /\ ~Holding(p)
    BY <2>1 DEF InOrder, WorkersInOrder, Holding, ToSet
  <2>3. QED
    BY <1>4, <2>1, <2>2 DEF Delivery, NothingLost
<1>5. NothingLost(p)'
  BY <1>1, <1>4 DEF NothingLost, Found
<1>6. QED
  BY <1>2, <1>3, <1>5 DEF Delivery

\* No other step of the API thread moves a packet; the file is being written when a
\* recording stops.
LEMMA ApiDelivers ==
  ASSUME Typed, InOrder, RecordingWrites, Delivered, BeginRecording \/ BeginPlugin \/ BeginStop \/ Continue
  PROVE  Delivered'
<1> SUFFICES ASSUME NEW p \in Protocols
             PROVE  Delivery(p)'
  BY DEF Delivered
<1>0. Delivery(p) /\ DOMAIN worker = Protocols /\ call.proto \in Protocols \cup {"none"} /\ call \in CallType
  BY DEF Typed, TypeOK, Delivered, Control, CallType
<1>1. CASE BeginRecording
  BY <1>0, <1>1, BeginDelivers
<1>2. CASE Finalize
  BY <1>0, <1>2, FinalizeDelivers
<1>3. CASE /\ ~BeginRecording /\ ~Finalize
  <2> DEFINE Starts == BeginPlugin \/ NextStart \/ StartWorker \/ StartService \/ Activate
             Stops == BeginStop \/ NextStop \/ StopService \/ JoinIo \/ LowerFlags \/ NotifyEnd \/ JoinWorker \/ CloseWriter
  <2>1. Starts \/ Stops
    BY <1>3 DEF Continue
  <2>2. UNCHANGED <<io, received, ring, accepted, hand, writing, file>>
    <3>1. CASE Starts
      BY <3>1 DEF BeginPlugin, NextStart, StartWorker, StartService, Activate, ioVars, workerVars, storageVars
    <3>2. CASE Stops
      BY <3>2 DEF BeginStop, NextStop, StopService, JoinIo, LowerFlags, NotifyEnd, JoinWorker, CloseWriter,
                  ioVars, workerVars, storageVars
    <3>3. QED
      BY <2>1, <3>1, <3>2
  <2>3. (Holding(p)' <=> Holding(p)) /\ (worker'[p] = "inWriter" => worker[p] = "inWriter")
    <3>1. CASE StartWorker \/ NotifyEnd \/ JoinWorker
      <4>1. CASE StartWorker
        BY <1>0, <4>1 DEF StartWorker, Holding
      <4>2. CASE NotifyEnd
        BY <1>0, <4>2 DEF NotifyEnd, Notified, Holding
      <4>3. CASE JoinWorker
        BY <1>0, <4>3 DEF JoinWorker, Holding
      <4>4. QED
        BY <3>1, <4>1, <4>2, <4>3
    <3>2. CASE ~(StartWorker \/ NotifyEnd \/ JoinWorker)
      <4>1. worker' = worker
        <5>1. CASE Starts
          BY <3>2, <5>1 DEF BeginPlugin, NextStart, StartService, Activate, workerVars
        <5>2. CASE Stops
          BY <3>2, <5>2 DEF BeginStop, NextStop, StopService, JoinIo, LowerFlags, CloseWriter, workerVars
        <5>3. QED
          BY <2>1, <5>1, <5>2
      <4>2. QED
        BY <4>1 DEF Holding
    <3>3. QED
      BY <3>1, <3>2
  <2>4. ~writing => recorded' = recorded
    <3> SUFFICES ASSUME ~writing
                 PROVE  recorded' = recorded
      OBVIOUS
    <3>1. activeRecord = {} /\ (call.op \in {"record", "stopRecord"} => call.pc = "inFinalize")
      BY DEF RecordingWrites
    <3>2. CASE NextStart
      <4>1. call.pc = "next"
        BY <3>2 DEF NextStart, At
      <4>2. call.op = "record"
        BY <4>1 DEF Typed, Control, CallType, Starting, Stopping, Ending
      <4>3. QED
        BY <3>1, <4>1, <4>2
    <3>3. CASE JoinWorker
      <4>1. call.op # "startPlugin" => call.pc = "join"
        <5>1. call.pc \in {"join", "undoJoin"}
          BY <3>3 DEF JoinWorker, At
        <5>2. call.pc = "undoJoin" => call.op \in {"record", "startPlugin"}
          BY <1>0 DEF Typed, Control, CallType, Stopping, Ending
        <5>3. QED
          BY <3>1, <5>1, <5>2
      <4>2. QED
        BY <3>3, <4>1 DEF JoinWorker, At
    <3>4. CASE BeginStop
      BY <3>1, <3>4 DEF BeginStop
    <3>5. CASE Starts /\ ~NextStart
      BY <3>5 DEF BeginPlugin, StartWorker, StartService, Activate
    <3>6. CASE Stops /\ ~JoinWorker /\ ~BeginStop
      BY <3>6 DEF NextStop, StopService, JoinIo, LowerFlags, NotifyEnd, CloseWriter
    <3>7. QED
      BY <2>1, <3>2, <3>3, <3>4, <3>5, <3>6
  <2>5. \A n : GivenOn(p, n) => GivenOn(p, n)'
    BY <2>2 DEF GivenOn, Pushing
  <2>6. QED
    BY <1>0, <2>2, <2>3, <2>4, <2>5, Waits
<1>4. QED
  BY <1>1, <1>2, <1>3

\* Every step keeps what is known of the packets, and the order of writing and recording.
LEMMA DeliveredStep ==
  Typed /\ InOrder /\ RecordingWrites /\ Delivered /\ [Next]_vars => RecordingWrites' /\ Delivered'
<1> SUFFICES ASSUME Typed, InOrder, RecordingWrites, Delivered, [Next]_vars
             PROVE  RecordingWrites' /\ Delivered'
  OBVIOUS
<1>1. CASE UNCHANGED vars
  <2>1. RecordingWrites'
    BY <1>1 DEF vars, workerVars, storageVars, apiVars, RecordingWrites, Ends
  <2>2. ASSUME NEW p \in Protocols
        PROVE  Delivery(p)'
    <3>1. UNCHANGED <<io, received, ring, accepted, worker, hand, writing, file, recorded>> /\ Delivery(p)
      BY <1>1 DEF vars, ioVars, workerVars, storageVars, apiVars, Delivered
    <3>2. (Holding(p)' <=> Holding(p)) /\ \A n : GivenOn(p, n) => GivenOn(p, n)'
      BY <3>1 DEF Holding, GivenOn, Pushing
    <3>3. QED
      BY <3>1, <3>2, Waits
  <2>3. QED
    BY <2>1, <2>2 DEF Delivered
<1>2. CASE Next
  BY <1>2, IoDelivers, WorkerDelivers, ApiDelivers, ThreadsKeepWrites, StartKeepsWrites, StopKeepsWrites
     DEF Next, Continue
<1>3. QED
  BY <1>1, <1>2

\* Where no I/O thread is shared, the file of a recording that is over has every packet that
\* was accepted from the protocols it stopped, but for the filtered ones, once and in order.
THEOREM NothingCapturedIsLost ==
  ASSUME SharedIo = {}
  PROVE  Spec => []CapturedIsWritten
<1>1. Typed /\ RecordingWrites /\ Delivered => CapturedIsWritten
  <2> SUFFICES ASSUME Typed, RecordingWrites, Delivered, NoRecording, NEW p \in recorded
               PROVE  /\ \A n \in ToSet(accepted[p]) \ Filtered : <<p, n>> \in ToSet(file)
                      /\ InOrderOnce(p)
                      /\ \A e \in ToSet(file) :
                           e[1] = p =>
                             /\ e[2] \notin Filtered
                             /\ e[2] \in ToSet(accepted[p]) \/ \A n \in ToSet(accepted[p]) : e[2] < n
    BY DEF CapturedIsWritten
  <2>1. Delivery(p)
    BY DEF Typed, TypeOK, Delivered
  <2>2. ~writing
    BY DEF NoRecording, At, RecordingWrites, Ends, Stopping, Typed, Control
  <2>3. QED
    BY <2>1, <2>2 DEF Delivery, OnTheirWay, AcceptedLast, NothingLost, Found, Early
<1>2. Typed /\ InOrder /\ [Next]_vars => InOrder'
  BY InOrderStep
<1>3. QED
  BY <1>1, <1>2, TypedInit, TypedStep, InOrderInit, DeliveredInit, DeliveredStep, PTL DEF Spec
=============================================================================
