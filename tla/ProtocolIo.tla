------------------------------ MODULE ProtocolIo ------------------------------
(***************************************************************************)
(* The UDP and TCP protocol services (protocol_udp, protocol_tcp): a       *)
(* capture and a replay that share one io_context and one I/O thread.  The *)
(* last of the two to stop joins the thread; a capture that stops while a  *)
(* replay goes on leaves it running, with handlers of the old capture.     *)
(*                                                                         *)
(* Calls come one after another from one thread.  A step of a call or of a *)
(* handler is a section under mutex_, or what lies between two of them.    *)
(* A handle is a socket or acceptor of a capture.  The data of a packet,   *)
(* its timestamp and the parsing of a configuration, which either succeeds *)
(* or makes the call return before it does anything, are left out.         *)
(***************************************************************************)
EXTENDS Naturals, FiniteSets, SequencesExt

CONSTANTS
  Modes,        \* what a capture is: "udp", or of TCP "server" or "client"
  MaxCaptures,  \* how many captures are begun
  MaxEvents     \* datagrams, connections, data, disconnections from peers and I/O errors

ASSUME ProtocolIoAssumption ==
  Modes \subseteq {"udp", "server", "client"} /\ MaxCaptures \in Nat /\ MaxEvents \in Nat

VARIABLES
  service,    \* "udp" or "tcp"
  context,    \* io_context_ with its thread: "none", "running" or "stopped"
  capturing,  \* capturing_
  callback,   \* capture_callback_: the number of the capture it belongs to, 0 if empty
  listener,   \* capture_socket_ or acceptor_: a handle, 0 if null
  sockets,    \* capture_sockets_
  replay,     \* replay_sockets_ is not empty
  replaying,  \* replaying_
  handles,    \* sequence of handles since the context was made
  queue,      \* completed operations whose handlers have not run
  io,         \* the handler that runs
  call,       \* the call in progress
  captures,   \* history: captures begun
  events,     \* history: events so far
  delivered,  \* history: <<capture of the socket, capture of the callback>> of the thread's packets
  lingering,  \* history: a capture was closed and the I/O thread went on
  started,    \* history: StartCapture answered true, and the capture was not stopped since
  lost        \* history: what has ended the last capture, but for StopCapture: see Ends

runtime == <<context, handles, queue>>
captureVars == <<capturing, callback, listener, sockets>>
replayVars == <<replay, replaying>>
outcome == <<started, lost>>
history == <<captures, events, delivered, lingering, outcome>>
vars == <<service, runtime, captureVars, replayVars, io, call, history>>

IoIdle == [pc |-> "idle", h |-> 0, ok |-> FALSE, cb |-> 0]
NoCall == [op |-> "none", pc |-> "idle", mode |-> "none", failed |-> FALSE, stolen |-> {}]
At(pc) == call.pc = pc
Goto(pc) == call' = [call EXCEPT !.pc = pc]
Services == {IF m = "udp" THEN "udp" ELSE "tcp" : m \in Modes}

Init ==
  /\ service \in Services
  /\ context = "none" /\ handles = <<>> /\ queue = <<>>
  /\ capturing = FALSE /\ callback = 0 /\ listener = 0 /\ sockets = {}
  /\ replay = FALSE /\ replaying = FALSE
  /\ io = IoIdle /\ call = NoCall
  /\ captures = 0 /\ events = 0 /\ delivered = {} /\ lingering = FALSE
  /\ started = FALSE /\ lost = {}

\* A capture ends by an error of its own I/O: the receive of a UDP socket fails, the last
\* socket of a TCP client cannot connect or is left by the peer.  Or it is ended by the
\* handler of a socket of an older capture.
Ends == {"error", "older"}

-----------------------------------------------------------------------------
(***************************************************************************)
(* Handles and the operations pending on them.                             *)
(***************************************************************************)

Handle(kind, capture, pending) == [kind |-> kind, capture |-> capture, open |-> TRUE, pending |-> pending]
Done(h, ok) == [h |-> h, ok |-> ok]

\* An operation begun on a closed handle completes with an error at once.
Begin(hs, h) == IF hs[h].open THEN [hs EXCEPT ![h].pending = @ + 1] ELSE hs
BeginQueue(hs, h) == IF hs[h].open THEN queue ELSE Append(queue, Done(h, FALSE))

\* close: what is pending completes with an error, in any order.
Close(hs, closed) == [h \in DOMAIN hs |-> IF h \in closed THEN [hs[h] EXCEPT !.open = FALSE, !.pending = 0] ELSE hs[h]]
Pending(hs, closed) == UNION {{h} \X (1..hs[h].pending) : h \in closed}
Failures(order) == [i \in DOMAIN order |-> Done(order[i][1], FALSE)]
CloseAll(closed) ==
  /\ handles' = Close(handles, closed)
  /\ \E order \in SetToSeqs(Pending(handles, closed)) : queue' = queue \o Failures(order)

-----------------------------------------------------------------------------
(***************************************************************************)
(* Calls.                                                                  *)
(***************************************************************************)

Call(op) ==
  /\ At("idle")
  /\ \E mode \in IF op = "StartCapture" THEN {m \in Modes : (m = "udp") = (service = "udp")} ELSE {"none"} :
       call' = [NoCall EXCEPT !.op = op, !.mode = mode,
                  !.pc = IF op \in {"StartCapture", "StopCapture"} THEN "close" ELSE "closeReplay"]
  /\ op = "StartCapture" => captures < MaxCaptures
  /\ UNCHANGED <<service, runtime, captureVars, replayVars, io, history>>

\* StopCapture, the section under the mutex; StartCapture begins with it, and ends
\* with it when it fails.  TCP takes the sockets away and closes them afterwards.
CloseCapture ==
  /\ At("close")
  /\ capturing' = FALSE /\ callback' = 0 /\ listener' = 0 /\ sockets' = {}
  /\ CloseAll({listener} \ {0})
  /\ call' = [call EXCEPT !.pc = IF service = "tcp" THEN "closeTaken" ELSE "reset", !.stolen = sockets]
  /\ started' = FALSE
  /\ UNCHANGED <<service, context, replayVars, io, captures, events, delivered, lingering, lost>>

CloseTaken ==
  /\ At("closeTaken")
  /\ CloseAll(call.stolen)
  /\ call' = [call EXCEPT !.pc = "reset", !.stolen = {}]
  /\ UNCHANGED <<service, context, captureVars, replayVars, io, history>>

\* StopReplay, and StartReplay before it does anything else.
CloseReplay ==
  /\ At("closeReplay")
  /\ replay' = FALSE /\ Goto("reset")
  /\ UNCHANGED <<service, runtime, captureVars, replaying, io, history>>

\* Where a call goes on when ResetIoRuntimeIfUnused returns.
AfterReset ==
  IF call.failed \/ call.op = "StopCapture" THEN "return"
  ELSE IF call.op = "StartCapture" THEN "open" ELSE "endReplay"

InUse == listener # 0 \/ sockets # {} \/ replay

\* A plausible bug, for a mutant run: the thread is never stopped.
ResetIoNever ==
  /\ At("reset") /\ Goto(AfterReset)
  /\ UNCHANGED <<service, runtime, captureVars, replayVars, io, history>>

\* ResetIoRuntimeIfUnused: nothing while something is open, else stop and join.
ResetIo ==
  /\ At("reset")
  /\ IF InUse
       THEN /\ Goto(AfterReset) /\ UNCHANGED context
            /\ lingering' = (lingering \/ (handles # <<>> /\ call.op \in {"StartCapture", "StopCapture"}))
       ELSE /\ context' = IF context = "none" THEN "none" ELSE "stopped"
            /\ Goto("join") /\ UNCHANGED lingering
  /\ UNCHANGED <<service, handles, queue, captureVars, replayVars, io, captures, events, delivered, outcome>>

\* A plausible bug, for a mutant run: the thread is detached.
JoinIoNot ==
  /\ At("join")
  /\ context' = "none" /\ handles' = <<>> /\ queue' = <<>> /\ lingering' = FALSE /\ delivered' = {}
  /\ Goto(AfterReset)
  /\ UNCHANGED <<service, captureVars, replayVars, io, captures, events, outcome>>

\* The thread ends once its handler returns; handlers that have not run never will.
JoinIo ==
  /\ At("join") /\ io.pc = "idle"
  /\ context' = "none" /\ handles' = <<>> /\ queue' = <<>> /\ lingering' = FALSE /\ delivered' = {}
  /\ Goto(AfterReset)
  /\ UNCHANGED <<service, captureVars, replayVars, io, captures, events, outcome>>

\* A new context comes with its thread; one that is there is taken as it is.
ContextInUse == IF context = "none" THEN "running" ELSE context

\* StartCapture of UDP: open and bind the socket, or fail and clean up.
OpenUdp ==
  /\ At("open") /\ service = "udp"
  /\ \/ /\ captures' = captures + 1
        /\ handles' = Append(handles, Handle("udp", captures + 1, 0))
        /\ capturing' = TRUE /\ callback' = captures + 1 /\ listener' = Len(handles) + 1
        /\ context' = ContextInUse /\ lost' = {}
        /\ Goto("arm")
        /\ UNCHANGED sockets
     \/ /\ call' = [call EXCEPT !.pc = "close", !.failed = TRUE]
        /\ UNCHANGED <<context, handles, captureVars, captures, lost>>
  /\ UNCHANGED <<service, queue, replayVars, io, events, delivered, lingering, started>>

\* StartReceiveLoop.
ArmUdp ==
  /\ At("arm")
  /\ handles' = Begin(handles, listener)
  /\ Goto("return")
  /\ UNCHANGED <<service, context, queue, captureVars, replayVars, io, history>>

\* StartCapture of TCP says that it captures before it has anything to capture from.
OpenTcp ==
  /\ At("open") /\ service = "tcp"
  /\ captures' = captures + 1
  /\ capturing' = TRUE /\ callback' = captures + 1
  /\ context' = ContextInUse /\ lost' = {}
  /\ Goto("attach")
  /\ UNCHANGED <<service, handles, queue, listener, sockets, replayVars, io, events, delivered, lingering,
                 started>>

\* The acceptor, which may fail to bind, with its accept loop; or a socket that connects,
\* unless the address is none, which shows when the socket is in the list.
AttachTcp ==
  /\ At("attach")
  /\ LET h == Len(handles) + 1
     IN \/ /\ call.mode = "server" /\ listener' = h /\ UNCHANGED sockets
           /\ handles' = Append(handles, Handle("acceptor", captures, 1))
           /\ Goto("return")
        \/ /\ call.mode = "client" /\ sockets' = sockets \cup {h} /\ UNCHANGED listener
           /\ handles' = Append(handles, Handle("connecting", captures, 1))
           /\ Goto("return")
        \/ /\ call.mode = "server" /\ call' = [call EXCEPT !.pc = "close", !.failed = TRUE]
           /\ UNCHANGED <<handles, listener, sockets>>
        \/ /\ call.mode = "client" /\ call' = [call EXCEPT !.pc = "close", !.failed = TRUE]
           /\ sockets' = sockets \cup {h} /\ UNCHANGED listener
           /\ handles' = Append(handles, Handle("connecting", captures, 0))
  /\ UNCHANGED <<service, context, queue, capturing, callback, replayVars, io, history>>

\* The end of StopReplay.
EndReplay ==
  /\ At("endReplay")
  /\ replaying' = FALSE
  /\ Goto(IF call.op = "StartReplay" THEN "context" ELSE "return")
  /\ UNCHANGED <<service, runtime, captureVars, replay, io, history>>

\* StartReplay: the context, then the sockets outside the mutex, then both flags.
MakeContext ==
  /\ At("context")
  /\ context' = ContextInUse
  /\ Goto("connect")
  /\ UNCHANGED <<service, handles, queue, captureVars, replayVars, io, history>>

ConnectReplay ==
  /\ At("connect")
  /\ replay' = TRUE /\ replaying' = TRUE /\ Goto("return")
  /\ UNCHANGED <<service, runtime, captureVars, io, history>>

\* A socket cannot be opened or bound, a peer cannot be reached.
FailReplay ==
  /\ At("connect")
  /\ replay' = FALSE /\ replaying' = FALSE /\ call' = [call EXCEPT !.pc = "reset", !.failed = TRUE]
  /\ UNCHANGED <<service, runtime, captureVars, io, history>>

Return ==
  /\ At("return")
  /\ call' = NoCall
  /\ started' = (started \/ (call.op = "StartCapture" /\ ~call.failed))
  /\ UNCHANGED <<service, runtime, captureVars, replayVars, io, captures, events, delivered, lingering, lost>>

ApiStep ==
  \/ CloseCapture \/ CloseTaken \/ CloseReplay \/ ResetIo \/ JoinIo \/ OpenUdp \/ ArmUdp
  \/ OpenTcp \/ AttachTcp \/ EndReplay \/ MakeContext \/ ConnectReplay \/ FailReplay \/ Return

-----------------------------------------------------------------------------
(***************************************************************************)
(* Peers and the I/O thread.                                               *)
(***************************************************************************)

\* A datagram, data, a connection; a peer that leaves or cannot be reached, a receive
\* or an accept that fails.
Event(h) ==
  /\ events < MaxEvents
  /\ handles[h].pending > 0
  /\ \E ok \in BOOLEAN : queue' = Append(queue, Done(h, ok))
  /\ handles' = [handles EXCEPT ![h].pending = @ - 1]
  /\ events' = events + 1
  /\ UNCHANGED <<service, context, captureVars, replayVars, io, call, captures, delivered, lingering,
                 outcome>>

TakeHandler ==
  /\ io.pc = "idle" /\ context = "running" /\ queue # <<>>
  /\ io' = [IoIdle EXCEPT !.pc = handles[Head(queue).h].kind, !.h = Head(queue).h, !.ok = Head(queue).ok]
  /\ queue' = Tail(queue)
  /\ UNCHANGED <<service, context, handles, captureVars, replayVars, call, history>>

\* The receive loop of a UDP capture ends with an error, and the capture goes on without.
EndsUdp == lost' = IF io.pc = "udp" /\ ~io.ok /\ io.h = listener THEN lost \cup {"error"} ELSE lost

\* A plausible bug, for a mutant run: the thread is joined with the mutex held.
HandleReadLocked ==
  /\ io.pc \in {"udp", "stream"} /\ ~At("join")
  /\ io' = IF io.ok /\ capturing /\ callback # 0 THEN [io EXCEPT !.pc = "callback", !.cb = callback]
           ELSE IF io.pc = "stream" /\ ~io.ok THEN [io EXCEPT !.pc = "remove"]
           ELSE IoIdle
  /\ EndsUdp
  /\ UNCHANGED <<service, runtime, captureVars, replayVars, call, captures, events, delivered, lingering,
                 started>>

\* The section in which the handler of a receive or read decides.
HandleRead ==
  /\ io.pc \in {"udp", "stream"}
  /\ io' = IF io.ok /\ capturing /\ callback # 0 THEN [io EXCEPT !.pc = "callback", !.cb = callback]
           ELSE IF io.pc = "stream" /\ ~io.ok THEN [io EXCEPT !.pc = "remove"]
           ELSE IoIdle
  /\ EndsUdp
  /\ UNCHANGED <<service, runtime, captureVars, replayVars, call, captures, events, delivered, lingering,
                 started>>

CallCallback ==
  /\ io.pc = "callback"
  /\ delivered' = delivered \cup {<<handles[io.h].capture, io.cb>>}
  /\ io' = [io EXCEPT !.pc = "again"]
  /\ UNCHANGED <<service, runtime, captureVars, replayVars, call, captures, events, lingering, outcome>>

\* The next receive or accept is begun on the socket or acceptor of the moment, the
\* next read on the same stream.
Again ==
  /\ io.pc = "again"
  /\ LET h == IF handles[io.h].kind = "stream" THEN io.h ELSE listener
     IN IF h = 0 THEN UNCHANGED <<handles, queue>>
        ELSE handles' = Begin(handles, h) /\ queue' = BeginQueue(handles, h)
  /\ io' = IoIdle
  /\ UNCHANGED <<service, context, captureVars, replayVars, call, history>>

\* An accepted connection gets a read loop of its own.
HandleAccept ==
  /\ io.pc = "acceptor"
  /\ IF io.ok
       THEN IF capturing
              THEN /\ handles' = Append(handles, Handle("stream", handles[io.h].capture, 1))
                   /\ sockets' = sockets \cup {Len(handles) + 1}
                   /\ io' = [io EXCEPT !.pc = "again"]
              ELSE io' = IoIdle /\ UNCHANGED <<handles, sockets>>
       ELSE /\ io' = IF capturing /\ listener # 0 THEN [io EXCEPT !.pc = "again"] ELSE IoIdle
            /\ UNCHANGED <<handles, sockets>>
  /\ UNCHANGED <<service, context, queue, capturing, callback, listener, replayVars, call, history>>

HandleConnect ==
  /\ io.pc = "connecting"
  /\ IF io.ok
       THEN /\ handles' = Begin([handles EXCEPT ![io.h].kind = "stream"], io.h)
            /\ queue' = BeginQueue(handles, io.h)
            /\ io' = IoIdle
       ELSE io' = [io EXCEPT !.pc = "remove"] /\ UNCHANGED <<handles, queue>>
  /\ UNCHANGED <<service, context, captureVars, replayVars, call, history>>

\* A plausible bug, for a mutant run: the last socket that goes leaves the capture on.
RemoveCaptureSocketOnly ==
  /\ io.pc = "remove"
  /\ CloseAll({io.h})
  /\ sockets' = sockets \ {io.h}
  /\ io' = IoIdle
  /\ UNCHANGED <<service, context, capturing, callback, listener, replayVars, call, history>>

\* RemoveCaptureSocket: the last socket that goes ends the capture of a client.
RemoveCaptureSocket ==
  /\ io.pc = "remove"
  /\ CloseAll({io.h})
  /\ sockets' = sockets \ {io.h}
  /\ LET ends == sockets' = {} /\ listener = 0
     IN /\ capturing' = (capturing /\ ~ends) /\ callback' = IF ends THEN 0 ELSE callback
        /\ lost' = IF capturing /\ ends THEN lost \cup {IF io.h \in sockets THEN "error" ELSE "older"} ELSE lost
  /\ io' = IoIdle
  /\ UNCHANGED <<service, context, listener, replayVars, call, captures, events, delivered, lingering, started>>

IoStep ==
  \/ TakeHandler \/ HandleRead \/ CallCallback \/ Again \/ HandleAccept \/ HandleConnect \/ RemoveCaptureSocket

Next ==
  \/ \E op \in {"StartCapture", "StopCapture", "StartReplay", "StopReplay"} : Call(op)
  \/ \E h \in DOMAIN handles : Event(h)
  \/ ApiStep
  \/ IoStep

\* A call and a handler, once begun, go on; the I/O thread takes what is completed.
Spec == Init /\ [][Next]_vars /\ WF_vars(ApiStep) /\ WF_vars(IoStep)

-----------------------------------------------------------------------------
TypeOK ==
  /\ context \in {"none", "running", "stopped"}
  /\ callback \in 0..MaxCaptures /\ (capturing => callback # 0)
  /\ listener \in 0..Len(handles) /\ sockets \subseteq DOMAIN handles
  /\ {capturing, replay, replaying, lingering} \subseteq BOOLEAN
  /\ \A i \in DOMAIN queue : queue[i].h \in DOMAIN handles
  /\ io.h \in 0..Len(handles)
  /\ call.stolen \subseteq DOMAIN handles
  /\ started \in BOOLEAN /\ lost \subseteq Ends

Idle == At("idle")

\* Whatever is open is served: a capture or a replay that was started has a context
\* whose thread runs, in whatever order the two came and went.
OpenIsServed == Idle /\ InUse => context = "running"

\* The receive, accept and read loops never stop while the capture goes on: each has
\* an operation pending, completed, or in the handler that will begin the next one.  An
\* accept that fails does not end its loop; a receive of UDP that fails does.
InHand(h) == io.pc # "idle" /\ io.h = h
LoopsGoOn ==
  Idle /\ capturing =>
    \A h \in ({listener} \cup sockets) \ {0} :
      \/ handles[h].pending > 0 \/ InHand(h) \/ \E i \in DOMAIN queue : queue[i].h = h
      \/ service = "udp" /\ "error" \in lost

\* While no handler of an older capture is left, a socket has one loop, not two that
\* share its buffer, and a packet goes to the callback of the capture that received it.
OneLoopEach ==
  ~lingering => /\ \A h \in DOMAIN handles : handles[h].pending <= 1
                /\ \A d \in delivered : d[1] = d[2]

\* A capture that says it is capturing has something to capture from, once
\* StartCapture has returned.
CapturingHasSource == Idle /\ capturing => listener # 0 \/ sockets # {}

\* A capture that was started and not stopped captures, unless its own I/O failed or the
\* handler of an older capture ended it.
StartedCaptures == Idle /\ started => capturing \/ lost # {}

\* What was started and not stopped is served: a capture, until an error or an older one
\* ends it, captures from a source whose loop goes on, and by a thread that runs.
StartedIsServed == TypeOK /\ OpenIsServed /\ LoopsGoOn /\ CapturingHasSource /\ StartedCaptures

\* StopCapture or StopReplay, whichever comes last, leaves no thread behind and no
\* handler running.
QuietWhenReset == context = "none" => io = IoIdle /\ queue = <<>>

\* What a peer sent is looked at, and calls return: the join of the I/O thread and the
\* handlers' mutex do not wait for each other.
CompletedIsHandled == queue # <<>> ~> queue = <<>>
CallsReturn == ~Idle ~> Idle
NothingHangs == CompletedIsHandled /\ CallsReturn
=============================================================================
