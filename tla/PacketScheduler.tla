--------------------------- MODULE PacketScheduler ---------------------------
(***************************************************************************)
(* PacketScheduler (recplay_core/src/PacketScheduler.cpp): a thread that   *)
(* hands queued packets to a callback at their dispatch times, with the    *)
(* mutex, the condition variable and the running_ flag that it shares with *)
(* the API thread.  running_ is written and notified without the mutex.    *)
(*                                                                         *)
(* The callback is SessionController's: it sends the packet and enqueues   *)
(* up to Prefetch more.  The API thread fills and clears the queue only    *)
(* while no scheduler thread runs, as SeekTo, Stop and a first open do.    *)
(* The timeline runs from clock 0 at the speed Speed / NormalSpeed, below  *)
(* or above 1.0; pauses and changes of speed are not modelled here.        *)
(***************************************************************************)
EXTENDS Naturals, FiniteSets, Sequences

CONSTANTS
  NumPackets,   \* packets the reader holds
  CaptureTime,  \* t_capture of each packet, in file order
  Prefetch,     \* kPlaybackPrefetchPackets
  Speed,        \* of the timeline, in parts of NormalSpeed
  NormalSpeed,  \* 1.0
  MaxClock,     \* the clock goes on beyond it only while the thread waits for a time
  MaxStops      \* how often the API thread stops or restarts the scheduler

Packets == 1 .. NumPackets

ASSUME SchedulerAssumption ==
  /\ NumPackets \in Nat /\ CaptureTime \in [Packets -> Nat]
  /\ Prefetch \in Nat \ {0}
  /\ Speed \in Nat \ {0} /\ NormalSpeed \in Nat \ {0}
  /\ MaxClock \in Nat /\ MaxStops \in Nat

VARIABLES
  running,   \* running_
  queue,     \* queue_: a set of [pkt, due], served by least due
  thread,    \* where the scheduler thread is in SchedulerLoop
  until,     \* the time the thread waits for in wait_until
  inflight,  \* the packet the thread has popped, 0 if none
  api,       \* where the API thread is
  computing, \* inside Enqueue: the timeline position it has read
  left,      \* packets the fill under way may still enqueue
  next,      \* the packet ReadNext returns next
  clock,     \* the steady clock
  sent,      \* history: <<packet, clock>> pairs handed to the callback, in order
  lost,      \* history: packets popped and never handed over
  stops      \* history: times running_ was lowered

None == "none"
\* ComputeNowLocked: the scaled time is truncated.
Position(c) == (c * Speed) \div NormalSpeed
NotComputing == [on |-> FALSE, position |-> 0]

threadVars == <<thread, until, inflight>>
readerVars == <<left, next>>
history == <<sent, lost, stops>>
vars == <<running, queue, threadVars, api, computing, readerVars, clock, history>>

\* The mutex is held by the thread inside its loop, or by an Enqueue.
MutexFree == thread \notin {"inner", "toIdle", "toTimed", "popped"} /\ ~computing.on

\* notify_all: a thread that is blocked wakes, any other hears nothing.
Notified(t) == IF t = "idle" THEN "idleWoken" ELSE IF t = "timed" THEN "timedWoken" ELSE t

-----------------------------------------------------------------------------
(***************************************************************************)
(* SchedulerLoop.                                                          *)
(***************************************************************************)

CheckOuter ==
  /\ thread = "outer"
  /\ MutexFree
  /\ thread' = IF running THEN "inner" ELSE "exited"
  /\ UNCHANGED <<running, queue, until, inflight, api, computing, readerVars, clock, history>>

LeaveInner ==
  /\ thread = "inner"
  /\ ~running
  /\ thread' = "exited"
  /\ UNCHANGED <<running, queue, until, inflight, api, computing, readerVars, clock, history>>

First(e) == e \in queue /\ \A f \in queue : e.due <= f.due

\* A plausible bug, for a mutant run: top() without pop().
PopKeeps ==
  /\ thread = "inner"
  /\ running
  /\ \E e \in queue : First(e) /\ e.due <= clock /\ inflight' = e.pkt
  /\ thread' = "popped"
  /\ UNCHANGED <<running, queue, until, api, computing, readerVars, clock, history>>

\* One of the packets that are due first is due now.
Pop ==
  /\ thread = "inner"
  /\ running
  /\ \E e \in queue :
       /\ First(e)
       /\ e.due <= clock
       /\ queue' = queue \ {e}
       /\ inflight' = e.pkt
  /\ thread' = "popped"
  /\ UNCHANGED <<running, until, api, computing, readerVars, clock, history>>

\* cv_.wait: the predicate is false ...
DecideIdle ==
  /\ thread = "inner"
  /\ running
  /\ queue = {}
  /\ thread' = "toIdle"
  /\ UNCHANGED <<running, queue, until, inflight, api, computing, readerVars, clock, history>>

\* A plausible bug, for a mutant run: cv_.wait in both cases.
DecideTimedAsIdle ==
  /\ thread = "inner"
  /\ running
  /\ \E e \in queue : First(e) /\ e.due > clock
  /\ thread' = "toIdle"
  /\ UNCHANGED <<running, queue, until, inflight, api, computing, readerVars, clock, history>>

\* cv_.wait_until the first dispatch time: the predicate is false ...
DecideTimed ==
  /\ thread = "inner"
  /\ running
  /\ \E e \in queue : First(e) /\ e.due > clock /\ until' = e.due
  /\ thread' = "toTimed"
  /\ UNCHANGED <<running, queue, inflight, api, computing, readerVars, clock, history>>

\* ... and the thread blocks and releases the mutex.
Block ==
  /\ thread \in {"toIdle", "toTimed"}
  /\ thread' = IF thread = "toIdle" THEN "idle" ELSE "timed"
  /\ UNCHANGED <<running, queue, until, inflight, api, computing, readerVars, clock, history>>

\* Woken from cv_.wait, the thread takes the mutex and tests the predicate.
WakeIdle ==
  /\ thread = "idleWoken"
  /\ MutexFree
  /\ thread' = IF ~running \/ queue # {} THEN "inner" ELSE "toIdle"
  /\ UNCHANGED <<running, queue, until, inflight, api, computing, readerVars, clock, history>>

\* wait_until's predicate is running_ alone: new packets do not end the wait.
WakeTimed ==
  /\ thread = "timedWoken"
  /\ MutexFree
  /\ thread' = IF ~running \/ clock >= until THEN "inner" ELSE "toTimed"
  /\ UNCHANGED <<running, queue, until, inflight, api, computing, readerVars, clock, history>>

TimeOut ==
  /\ thread = "timed"
  /\ clock >= until
  /\ MutexFree
  /\ thread' = "inner"
  /\ UNCHANGED <<running, queue, until, inflight, api, computing, readerVars, clock, history>>

\* The standard lets either wait wake for no reason.
SpuriousWake ==
  /\ thread \in {"idle", "timed"}
  /\ thread' = Notified(thread)
  /\ UNCHANGED <<running, queue, until, inflight, api, computing, readerVars, clock, history>>

\* A plausible bug, for a mutant run: a packet is skipped when the next is due too.
RecheckRunningSkipsLate ==
  /\ thread = "popped"
  /\ IF running /\ ~\E e \in queue : e.due <= clock
       THEN thread' = "dispatch" /\ UNCHANGED <<inflight, lost>>
       ELSE /\ thread' = IF running THEN "outer" ELSE "exited"
            /\ inflight' = 0
            /\ lost' = lost \cup {inflight}
  /\ UNCHANGED <<running, queue, until, api, computing, readerVars, clock, sent, stops>>

\* The mutex is released; a packet popped before running_ went down is dropped.
RecheckRunning ==
  /\ thread = "popped"
  /\ IF running
       THEN thread' = "dispatch" /\ UNCHANGED <<inflight, lost>>
       ELSE thread' = "exited" /\ inflight' = 0 /\ lost' = lost \cup {inflight}
  /\ UNCHANGED <<running, queue, until, api, computing, readerVars, clock, sent, stops>>

\* dispatch_fn_ sends the packet and begins FillPlaybackQueue.
Dispatch ==
  /\ thread = "dispatch"
  /\ sent' = Append(sent, <<inflight, clock>>)
  /\ inflight' = 0
  /\ left' = Prefetch
  /\ thread' = "filling"
  /\ UNCHANGED <<running, queue, until, api, computing, next, clock, lost, stops>>

-----------------------------------------------------------------------------
(***************************************************************************)
(* Enqueue, for either thread: ComputeDispatchTime reads the timeline and  *)
(* then the clock, both inside the mutex.                                  *)
(***************************************************************************)

Filling == thread = "filling" \/ api = "filling"

ReadTimeline ==
  /\ Filling /\ left > 0 /\ next <= NumPackets
  /\ MutexFree
  /\ computing' = [on |-> TRUE, position |-> Position(clock)]
  /\ UNCHANGED <<running, queue, threadVars, api, readerVars, clock, history>>

\* A plausible bug, for a mutant run: the distance from the position is not added.
DispatchTimeNow(capture, position) == clock

\* The distance is not divided by the speed.
DispatchTime(capture, position) ==
  IF capture <= position THEN clock ELSE clock + (capture - position)

Push ==
  /\ computing.on
  /\ queue' = queue \cup {[pkt |-> next, due |-> DispatchTime(CaptureTime[next], computing.position)]}
  /\ next' = next + 1
  /\ left' = left - 1
  /\ computing' = NotComputing
  /\ thread' = Notified(thread)
  /\ UNCHANGED <<running, until, inflight, api, clock, history>>

\* FillPlaybackQueue is done: enough packets, or no more in the file.
FillDone ==
  /\ Filling /\ ~computing.on
  /\ left = 0 \/ next > NumPackets
  /\ IF thread = "filling" THEN thread' = "outer" /\ UNCHANGED api
                           ELSE api' = "idle" /\ UNCHANGED thread
  /\ left' = 0
  /\ UNCHANGED <<running, queue, until, inflight, computing, next, clock, history>>

-----------------------------------------------------------------------------
(***************************************************************************)
(* The API thread.                                                         *)
(***************************************************************************)

\* A plausible bug, for a mutant run: the fill does not wait for the thread to end.
CallFillAnytime ==
  /\ api = "idle"
  /\ api' = "filling"
  /\ left' = Prefetch
  /\ UNCHANGED <<running, queue, threadVars, computing, next, clock, history>>

CallFill ==
  /\ api = "idle" /\ thread = None
  /\ api' = "filling"
  /\ left' = Prefetch
  /\ UNCHANGED <<running, queue, threadVars, computing, next, clock, history>>

\* Clear notifies, but no thread runs to hear it.
Clear ==
  /\ api = "idle" /\ thread = None
  /\ queue' = {}
  /\ UNCHANGED <<running, threadVars, api, computing, readerVars, clock, history>>

\* Stop, and Start which begins with it: lower running_ ...
CallStop ==
  /\ api = "idle"
  /\ stops < MaxStops
  /\ running' = FALSE
  /\ stops' = stops + 1
  /\ api' \in {"notifyStop", "notifyStart"}
  /\ UNCHANGED <<queue, threadVars, computing, readerVars, clock, sent, lost>>

\* ... notify ...
NotifyStop ==
  /\ api \in {"notifyStop", "notifyStart"}
  /\ thread' = Notified(thread)
  /\ api' = IF api = "notifyStop" THEN "joinStop" ELSE "joinStart"
  /\ UNCHANGED <<running, queue, until, inflight, computing, readerVars, clock, history>>

\* A plausible bug, for a mutant run: the thread is not joined.
JoinNotAtAll ==
  /\ api \in {"joinStop", "joinStart"}
  /\ api' = IF api = "joinStop" THEN "idle" ELSE "spawn"
  /\ UNCHANGED <<running, queue, threadVars, computing, readerVars, clock, history>>

\* ... and wait for the thread to end.
Join ==
  /\ api \in {"joinStop", "joinStart"}
  /\ thread \in {None, "exited"}
  /\ thread' = None
  /\ api' = IF api = "joinStop" THEN "idle" ELSE "spawn"
  /\ UNCHANGED <<running, queue, until, inflight, computing, readerVars, clock, history>>

Spawn ==
  /\ api = "spawn"
  /\ running' = TRUE
  /\ thread' = "outer"
  /\ api' = "idle"
  /\ UNCHANGED <<queue, until, inflight, computing, readerVars, clock, history>>

-----------------------------------------------------------------------------
Tick ==
  /\ clock < MaxClock \/ (thread \in {"toTimed", "timed", "timedWoken"} /\ clock < until)
  /\ clock' = clock + 1
  /\ UNCHANGED <<running, queue, threadVars, api, computing, readerVars, history>>

Init ==
  /\ running = FALSE
  /\ queue = {}
  /\ thread = None /\ until = 0 /\ inflight = 0
  /\ api = "idle"
  /\ computing = NotComputing
  /\ left = 0 /\ next = 1
  /\ clock = 0
  /\ sent = <<>> /\ lost = {} /\ stops = 0

Loop ==
  \/ CheckOuter \/ LeaveInner \/ Pop \/ DecideIdle \/ DecideTimed \/ Block
  \/ WakeIdle \/ WakeTimed \/ TimeOut \/ RecheckRunning \/ Dispatch

Enqueue == ReadTimeline \/ Push \/ FillDone

\* The rest of a call that has begun.
Finish == NotifyStop \/ Join \/ Spawn

Next == Loop \/ SpuriousWake \/ Enqueue \/ CallFill \/ Clear \/ CallStop \/ Finish \/ Tick

Spec == Init /\ [][Next]_vars

\* Threads run and time passes; nothing makes the API thread call.
FairSpec ==
  Spec /\ WF_vars(Loop) /\ WF_vars(Enqueue) /\ WF_vars(Finish) /\ WF_vars(Tick)

-----------------------------------------------------------------------------
(***************************************************************************)
(* Properties.                                                             *)
(***************************************************************************)

SentPackets == {sent[i][1] : i \in 1 .. Len(sent)}

\* Every variable has its type; at most one of the two threads fills the queue.
TypeOK ==
  /\ running \in BOOLEAN
  /\ queue \subseteq [pkt: Packets, due: Nat]
  /\ thread \in {None, "outer", "inner", "toIdle", "toTimed", "idle", "timed",
                 "idleWoken", "timedWoken", "popped", "dispatch", "filling", "exited"}
  /\ until \in Nat /\ inflight \in Packets \cup {0}
  /\ api \in {"idle", "filling", "notifyStop", "notifyStart", "joinStop", "joinStart", "spawn"}
  /\ ~(thread = "filling" /\ api = "filling")
  /\ computing \in [on: BOOLEAN, position: Nat]
  /\ left \in 0 .. Prefetch /\ next \in 1 .. NumPackets + 1
  /\ clock \in Nat
  /\ sent \in Seq(Packets \X Nat) /\ lost \subseteq Packets /\ stops \in 0 .. MaxStops

\* When Stop has returned no thread is left and none holds a packet, so nothing
\* is sent until the next Start.
QuietAfterStop == api = "idle" /\ ~running => thread = None /\ inflight = 0

\* A Stop loses at most the one packet that the thread has popped and not yet
\* handed over; every other packet it interrupts stays queued for the next Start.
LossBoundedByStops == Cardinality(lost) <= stops

\* No packet is handed over twice, or after it was given up.
HandedOverOnce ==
  /\ \A i, j \in 1 .. Len(sent) : i # j => sent[i][1] # sent[j][1]
  /\ SentPackets \cap lost = {}
  /\ \A e \in queue : e.pkt \notin SentPackets \cup lost

\* No packet is sent before the timeline reaches its capture time, or would
\* reach it at normal speed when the speed is below normal, whatever happens
\* between the two clock readings of ComputeDispatchTime and however long the
\* thread sleeps.
NeverEarly ==
  \A i \in 1 .. Len(sent) :
    LET capture == CaptureTime[sent[i][1]] at == sent[i][2]
    IN Position(at) >= capture \/ at >= capture

\* No packet is sent before the timeline reaches its capture time: what a replay
\* rate below 1.0 asks for, and what dispatch times that ignore it do not give.
FollowsTimeline ==
  \A i \in 1 .. Len(sent) : Position(sent[i][2]) >= CaptureTime[sent[i][1]]

\* A queued packet leaves the queue unless the scheduler is stopped: the thread
\* never sleeps through the work it was notified of.
QueuedIsServed ==
  \A p \in Packets :
    (\E e \in queue : e.pkt = p) /\ running
      ~> ~running \/ \A e \in queue : e.pkt # p

\* A Stop that has begun returns.
StopReturns == api # "idle" ~> api = "idle"
=============================================================================
