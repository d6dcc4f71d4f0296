------------------------------ MODULE WebEvents ------------------------------
(***************************************************************************)
(* How the pages of the web UI learn what happens: the session tells its   *)
(* subscribers of each transition and the statistics of each interval,     *)
(* outside every lock (SessionStateMachine, SessionController,             *)
(* StatsCollector); the web server subscribes to both, anew whenever a     *)
(* service comes or goes, keeps the last messages and hands each one to    *)
(* the connected pages (WebSocketServer, RecPlayWebSocketController).      *)
(*                                                                         *)
(* A message is its kind and a number: of the transition, of the interval, *)
(* or of the change of the replay targets it tells of.  What a call does   *)
(* to the session besides is in module Session; here it ends in a list of  *)
(* transitions to try.  Services come once, and go when the bundles are    *)
(* stopped.                                                                *)
(***************************************************************************)
EXTENDS Naturals, SequencesExt, SessionStates

CONSTANTS
  MaxTransitions,  \* transitions of the session
  MaxChanges,      \* changes of the replay targets
  MaxTicks,        \* intervals of the statistics
  MaxHistory,      \* kMaxBroadcastHistory
  MaxCallbacks     \* kMaxCallbacks of StatsCollector

ASSUME WebEventsAssumption ==
  /\ MaxTransitions \in Nat /\ MaxChanges \in Nat /\ MaxTicks \in Nat
  /\ MaxHistory \in Nat \ {0} /\ MaxCallbacks \in Nat \ {0}

VARIABLES
  state,      \* state_ of the session's state machine
  targets,    \* changes of replay_targets_ so far
  callbacks,  \* state_callbacks_ of the session, callbacks_ of the statistics: generations
  running,    \* running of the web socket server
  held,       \* the services its SharedState points to
  generation, \* session_subscription_generation, stats_subscription_generation
  messages,   \* broadcast_messages
  work,       \* what the threads of the HTTP server and the statistics are at
  binding,    \* how far the main thread is in BindSubscriptions
  client,     \* a page that connects
  inbox,      \* which of the messages kept were sent to it, in whatever order
  version,    \* history: transitions so far
  ticks,      \* history: intervals so far
  stopping,   \* the framework has begun to stop the bundles
  told,       \* history: the messages of each kind broadcast; of the targets, the last
  since       \* history: transitions and target changes before the subscription

session == <<state, targets, version>>
server == <<running, held, generation, callbacks, stopping, since, binding>>
hub == <<messages, told>>
page == <<client, inbox>>
vars == <<session, server, hub, page, work, ticks>>

Services == {"session", "stats"}
Threads == {"http", "stats"}
Never == [state |-> MaxTransitions, targets |-> MaxChanges]

Free == [pc |-> "idle", todo |-> <<>>, left |-> <<>>, tell |-> FALSE, msg |-> <<"none", 0>>]
Kinds == {"state", "targets", "stats"}

Init ==
  /\ state = "Idle" /\ targets = 0
  /\ callbacks = [s \in Services |-> <<>>]
  /\ running = FALSE /\ held = {} /\ generation = [s \in Services |-> 0]
  /\ messages = <<>> /\ told = [k \in Kinds |-> <<>>]
  /\ binding = "idle" /\ work = [t \in Threads |-> Free]
  /\ client = "away" /\ inbox = {}
  /\ version = 0 /\ ticks = 0 /\ stopping = FALSE /\ since = Never

At(t, pc) == work[t].pc = pc
Goto(t, pc) == work' = [work EXCEPT ![t].pc = pc]

-----------------------------------------------------------------------------
(***************************************************************************)
(* Requests of the pages: the transitions the call tries, whether it       *)
(* changes the replay targets, and whether the handler broadcasts them at  *)
(* the end.  A call that returns early tries none.                         *)
(***************************************************************************)

Effect(todo, changes, tell) == [todo |-> todo, changes |-> changes, tell |-> tell]
OrNothing(todo) == {Effect(todo, FALSE, FALSE), Effect(<<>>, FALSE, FALSE)}

HandleRecordStart == OrNothing(<<"Recording">>)
HandleRecordPause == IF state = "Recording" THEN OrNothing(<<"RecordingPaused">>) ELSE {}
HandleRecordResume == IF state = "RecordingPaused" THEN OrNothing(<<"Recording">>) ELSE {}
HandleRecordStop == {Effect(<<"Stopped">>, FALSE, FALSE)}
HandlePlaybackOpen == {Effect(<<"Stopped">>, TRUE, TRUE), Effect(<<>>, TRUE, TRUE), Effect(<<>>, FALSE, TRUE)}
HandlePlaybackPlay == OrNothing(<<"Playing">>)
HandlePlaybackPause == IF state = "Playing" THEN OrNothing(<<"PlaybackPaused">>) ELSE {}
HandlePlaybackSeek ==
  OrNothing(<<"Seeking", IF state = "PlaybackPaused" THEN "PlaybackPaused" ELSE "Playing">>)
HandlePlaybackSpeed == OrNothing(<<>>)
HandlePlaybackLoop == OrNothing(<<>>)
HandlePlaybackStop == {Effect(<<"Stopped">>, TRUE, TRUE), Effect(<<>>, FALSE, TRUE)}
HandleSetReplayTargets == {Effect(<<>>, TRUE, TRUE)}

Requests ==
  HandleRecordStart \cup HandleRecordPause \cup HandleRecordResume \cup HandleRecordStop
    \cup HandlePlaybackOpen \cup HandlePlaybackPlay \cup HandlePlaybackPause
    \cup HandlePlaybackSeek \cup HandlePlaybackSpeed
    \cup HandlePlaybackLoop \cup HandlePlaybackStop \cup HandleSetReplayTargets

Call ==
  /\ At("http", "idle") /\ "session" \in held /\ running
  /\ \E e \in Requests :
       /\ e.changes => targets < MaxChanges
       /\ version + Len(e.todo) <= MaxTransitions
       /\ targets' = targets + (IF e.changes THEN 1 ELSE 0)
       /\ work' = [work EXCEPT !["http"].pc = "run", !["http"].todo = e.todo, !["http"].tell = e.tell]
  /\ UNCHANGED <<state, version, server, hub, page, ticks>>

\* A plausible bug, for a mutant run: the answer is given before the transition is told.
RunAnswersFirst(t) ==
  /\ At(t, "run") /\ work[t].todo # <<>>
  /\ IsValidTransition(state, Head(work[t].todo))
  /\ state' = Head(work[t].todo) /\ version' = version + 1
  /\ work' = [work EXCEPT ![t] = Free]
  /\ UNCHANGED <<targets, server, hub, page, ticks>>

\* SessionStateMachine::Transition under its mutex, for each of the call in turn; a
\* refused one is the last.  Then the handler may broadcast, and answers.
Run(t) ==
  /\ At(t, "run")
  /\ IF work[t].todo = <<>>
       THEN /\ work' = [work EXCEPT ![t] = IF @.tell THEN [Free EXCEPT !.pc = "readTargets"] ELSE Free]
            /\ UNCHANGED <<state, version>>
       ELSE LET target == Head(work[t].todo)
            IN IF IsValidTransition(state, target)
                 THEN /\ state' = target /\ version' = version + 1
                      /\ work' = [work EXCEPT ![t].pc = "publish", ![t].todo = Tail(@)]
                 ELSE /\ work' = [work EXCEPT ![t].todo = <<>>]
                      /\ UNCHANGED <<state, version>>
  /\ UNCHANGED <<targets, server, hub, page, ticks>>

\* PublishState copies the subscribers when the transition is already made.
Publish(t) ==
  /\ At(t, "publish")
  /\ work' = [work EXCEPT ![t].pc = "callback", ![t].left = callbacks.session]
  /\ UNCHANGED <<session, server, hub, page, ticks>>

\* The thread of StatsCollector: a snapshot and a copy of the subscribers under the
\* mutex; it goes on to the next interval when all of them have returned.
RunAggregator ==
  /\ At("stats", "idle") /\ ticks < MaxTicks
  /\ ticks' = ticks + 1
  /\ work' = [work EXCEPT !["stats"].pc = "callback", !["stats"].left = callbacks.stats]
  /\ UNCHANGED <<session, server, hub, page>>

-----------------------------------------------------------------------------
(***************************************************************************)
(* The subscriber of the web server.                                       *)
(***************************************************************************)

Source(t) == IF t = "stats" THEN "stats" ELSE "session"
News(t) == IF t = "stats" THEN <<"stats", ticks>> ELSE <<"state", version>>

\* A plausible bug, for a mutant run: no subscription is ever outdated.
CallbackAlways(t) ==
  /\ At(t, "callback")
  /\ work' = [work EXCEPT ![t].pc = IF work[t].left = <<>> THEN "run" ELSE "push",
                          ![t].left = IF @ = <<>> THEN @ ELSE Tail(@),
                          ![t].msg = News(t)]
  /\ UNCHANGED <<session, server, hub, page, ticks>>

\* A callback of an older generation returns at once.
Callback(t) ==
  /\ At(t, "callback")
  /\ LET left == work[t].left
     IN work' = [work EXCEPT
          ![t].pc = IF left = <<>> THEN "run"
                    ELSE IF Head(left) = generation[Source(t)] THEN "push" ELSE "callback",
          ![t].left = IF left = <<>> THEN left ELSE Tail(left),
          ![t].msg = IF left = <<>> THEN Free.msg ELSE News(t)]
  /\ UNCHANGED <<session, server, hub, page, ticks>>

Kept(s) == IF Len(s) > MaxHistory THEN Tail(s) ELSE s
Keep(msg) ==
  /\ messages' = Kept(Append(messages, msg))
  /\ told' = [told EXCEPT ![msg[1]] = IF msg[1] = "targets" THEN <<msg[2]>> ELSE Append(@, msg[2])]
  /\ inbox' = inbox \cap ToSet(messages')

\* What follows a message: that of a transition is followed by one of the targets.
After(msg) == IF msg[1] = "state" THEN "readTargets" ELSE "callback"

\* BroadcastToSharedState under the mutex, then the transport outside it.
Push(t) ==
  /\ At(t, "push")
  /\ IF running THEN Keep(work[t].msg) /\ Goto(t, "transport")
     ELSE Goto(t, After(work[t].msg)) /\ UNCHANGED <<hub, inbox>>
  /\ UNCHANGED <<session, server, client, ticks>>

\* BroadcastMessage sends to the connections there are.
Transport(t) ==
  /\ At(t, "transport")
  /\ inbox' = IF client = "away" THEN inbox ELSE inbox \cup (ToSet(messages) \cap {work[t].msg})
  /\ Goto(t, After(work[t].msg))
  /\ UNCHANGED <<session, server, hub, client, ticks>>

\* BuildReplayTargetsMessage; without a session there is nothing to tell.
ReadTargets(t) ==
  /\ At(t, "readTargets")
  /\ work' = [work EXCEPT ![t].pc = IF "session" \in held THEN "push" ELSE "callback",
                          ![t].msg = <<"targets", targets>>]
  /\ UNCHANGED <<session, server, hub, page, ticks>>

-----------------------------------------------------------------------------
(***************************************************************************)
(* The web server's bundle, on the main thread.                            *)
(***************************************************************************)

Rebinds == binding' = "bindStats"

\* SetSessionService and SetStatsService, from the trackers.
SetService(s) ==
  /\ binding = "idle" /\ (stopping => s \in held)
  /\ held' = IF s \in held THEN held \ {s} ELSE held \cup {s}
  /\ stopping' = (s \in held)
  /\ IF running THEN Rebinds /\ UNCHANGED generation
     ELSE generation' = [generation EXCEPT ![s] = @ + 1] /\ UNCHANGED binding
  /\ since' = Never
  /\ UNCHANGED <<session, running, callbacks, hub, page, work, ticks>>

Start ==
  /\ binding = "idle" /\ ~running /\ ~stopping
  /\ running' = TRUE /\ Rebinds
  /\ UNCHANGED <<session, held, generation, callbacks, stopping, since, hub, page, work, ticks>>

Stop ==
  /\ binding = "idle" /\ running /\ stopping /\ held = {}
  /\ running' = FALSE
  /\ generation' = [s \in Services |-> generation[s] + 1]
  /\ since' = Never
  /\ UNCHANGED <<session, held, callbacks, stopping, binding, hub, page, work, ticks>>

\* BindSubscriptions raises the generation, and then subscribes.
Bind(s, pc, next) ==
  /\ binding = pc
  /\ IF s \in held
       THEN generation' = [generation EXCEPT ![s] = @ + 1] /\ binding' = next
       ELSE /\ binding' = IF s = "stats" THEN "bindSession" ELSE "idle"
            /\ UNCHANGED generation
  /\ UNCHANGED <<session, running, held, callbacks, stopping, since, hub, page, work, ticks>>

\* A plausible bug, for a mutant run: the list of callbacks has no limit.
OnUpdateAll ==
  /\ binding = "onUpdate"
  /\ callbacks' = [callbacks EXCEPT !.stats = Append(@, generation.stats)]
  /\ binding' = "bindSession"
  /\ UNCHANGED <<session, running, held, generation, stopping, since, hub, page, work, ticks>>

\* StatsCollector::OnUpdate forgets the oldest callback when there are too many.
OnUpdate ==
  /\ binding = "onUpdate"
  /\ callbacks' = [callbacks EXCEPT
       !.stats = Append(IF Len(@) >= MaxCallbacks THEN Tail(@) ELSE @, generation.stats)]
  /\ binding' = "bindSession"
  /\ UNCHANGED <<session, running, held, generation, stopping, since, hub, page, work, ticks>>

OnStateChanged ==
  /\ binding = "onStateChanged"
  /\ callbacks' = [callbacks EXCEPT !.session = Append(@, generation.session)]
  /\ since' = [state |-> version, targets |-> targets]
  /\ binding' = "idle"
  /\ UNCHANGED <<session, running, held, generation, stopping, hub, page, work, ticks>>

-----------------------------------------------------------------------------
(***************************************************************************)
(* A page connects: it is entered among the connections, then gets the     *)
(* messages kept, while new ones may reach it.                             *)
(***************************************************************************)

\* A plausible bug, for a mutant run: a page that enters is not sent what is kept.
GetBacklogNot ==
  /\ client = "joined"
  /\ client' = "here"
  /\ UNCHANGED <<session, server, hub, inbox, work, ticks>>

Connect ==
  /\ client = "away" /\ running
  /\ client' = "joined"
  /\ UNCHANGED <<session, server, hub, inbox, work, ticks>>

GetBacklog ==
  /\ client = "joined"
  /\ client' = "here"
  /\ inbox' = ToSet(messages)
  /\ UNCHANGED <<session, server, hub, work, ticks>>

-----------------------------------------------------------------------------
ThreadStep(t) ==
  \/ Run(t) \/ Publish(t) \/ Callback(t) \/ Push(t) \/ Transport(t) \/ ReadTargets(t)

BindStep ==
  \/ Bind("stats", "bindStats", "onUpdate") \/ OnUpdate
  \/ Bind("session", "bindSession", "onStateChanged") \/ OnStateChanged

Next ==
  \/ Call
  \/ RunAggregator
  \/ \E t \in Threads : ThreadStep(t)
  \/ \E s \in Services : SetService(s)
  \/ Start \/ Stop \/ BindStep
  \/ Connect \/ GetBacklog

Spec == Init /\ [][Next]_vars

-----------------------------------------------------------------------------
TypeOK ==
  /\ state \in SessionState /\ targets \in 0..MaxChanges /\ held \subseteq Services
  /\ Len(messages) <= MaxHistory /\ Len(callbacks.stats) <= MaxCallbacks
  /\ \A s \in Services : \A i \in DOMAIN callbacks[s] : callbacks[s][i] \in 1..generation[s]
  /\ client \in {"away", "joined", "here"}

Resting == \A t \in Threads : At(t, "idle")

\* However often the server subscribes anew, a transition or an interval is told at
\* most once, and the intervals in their order.
ToldOnce ==
  /\ \A i, j \in DOMAIN told.state : i # j => told.state[i] # told.state[j]
  /\ \A i, j \in DOMAIN told.stats : i < j => told.stats[i] < told.stats[j]

\* Since the server subscribed, a request is answered when the pages have been told of
\* every transition it made.
ToldBeforeAnswer ==
  \A n \in since.state + 1 .. version : At("http", "idle") => n \in ToSet(told.state)

LastTold(kind) == IF told[kind] = <<>> THEN 0 ELSE Last(told[kind])

\* At rest the pages show the session as it is: the last transition told is the last
\* one made, and the last targets told are the targets.
LastToldIsCurrent ==
  Resting =>
    /\ version > since.state => LastTold("state") = version
    /\ targets > since.targets => LastTold("targets") = targets

\* A page that is connected shows what the session answers.
PagesAreCurrent == ToldBeforeAnswer /\ LastToldIsCurrent

\* A page that has connected has been sent everything from the first message it was
\* given on: nothing falls between the messages kept and the new ones.
NothingMissed ==
  client = "here" =>
    \A msg \in ToSet(messages) :
      msg \in inbox \/ \E t \in Threads : At(t, "transport") /\ work[t].msg = msg
=============================================================================
