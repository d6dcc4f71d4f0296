--------------------------- MODULE WebEvents_proofs ---------------------------
(***************************************************************************)
(* Proofs about the events of the web UI: a transition or an interval is   *)
(* told at most once, no answer comes before what it did is told, and no   *)
(* message is lost between those kept and the new ones.                    *)
(***************************************************************************)
EXTENDS WebEvents, TLAPS

-----------------------------------------------------------------------------
(***************************************************************************)
(* The inductive invariant.                                                *)
(***************************************************************************)
WorkType ==
  [pc : {"idle", "run", "publish", "callback", "push", "transport", "readTargets"},
   todo : Seq(SessionState), left : Seq(Nat), tell : BOOLEAN, msg : (Kinds \cup {"none"}) \X Nat]

Bindings == {"idle", "bindStats", "onUpdate", "bindSession", "onStateChanged"}

Types ==
  /\ state \in SessionState /\ targets \in 0..MaxChanges /\ version \in Nat /\ ticks \in Nat
  /\ running \in BOOLEAN /\ held \in SUBSET Services
  /\ generation \in [Services -> Nat] /\ callbacks \in [Services -> Seq(Nat)]
  /\ messages \in Seq(Kinds \X Nat) /\ told \in [Kinds -> Seq(Nat)]
  /\ work \in [Threads -> WorkType] /\ binding \in Bindings
  /\ client \in {"away", "joined", "here"} /\ since \in [state : Nat, targets : Nat]

http == work["http"]
stats == work["stats"]

\* What each thread can be at, and what it has in hand there.
Control ==
  /\ stats.pc \notin {"publish", "readTargets"} /\ stats.todo = <<>> /\ ~stats.tell
  /\ stats.pc = "push" => stats.msg = <<"stats", ticks>>
  /\ stats.pc = "transport" => stats.msg[1] = "stats"
  /\ http.pc = "push" => http.msg = <<"state", version>> \/ http.msg = <<"targets", targets>>
  /\ http.pc = "transport" => http.msg[1] \in {"state", "targets"}
  /\ \A t \in Threads : work[t].pc \in {"push", "transport", "readTargets"} => work[t].left = <<>>
  /\ version + Len(http.todo) <= MaxTransitions

Growing(s) == \A i, j \in 1..Len(s) : i < j => s[i] < s[j]

\* The server subscribes with a generation that is newer than any before; what is
\* copied of the subscriptions is no newer than the server's own.
Subscriptions ==
  /\ Len(messages) <= MaxHistory /\ Len(callbacks["stats"]) <= MaxCallbacks
  /\ \A s \in Services :
       /\ Growing(callbacks[s])
       /\ \A i \in 1..Len(callbacks[s]) : callbacks[s][i] \in 1..generation[s]
  /\ binding = "onUpdate" =>
       generation["stats"] # 0 /\ \A i \in 1..Len(callbacks["stats"]) : callbacks["stats"][i] < generation["stats"]
  /\ binding = "onStateChanged" =>
       generation["session"] # 0 /\ \A i \in 1..Len(callbacks["session"]) : callbacks["session"][i] < generation["session"]
  /\ \A t \in Threads :
       Growing(work[t].left) /\ \A i \in 1..Len(work[t].left) : work[t].left[i] <= generation[Source(t)]

Subscribed ==
  /\ running /\ binding = "idle" /\ "session" \in held
  /\ callbacks["session"] # <<>> /\ Last(callbacks["session"]) = generation["session"]
Bound ==
  /\ since = Never \/ Subscribed
  /\ binding # "idle" => running
  /\ binding = "onStateChanged" => "session" \in held

\* A thread that has still to tell what is new has not told it yet.
Number(t) == IF t = "stats" THEN ticks ELSE version
Kind(t) == IF t = "stats" THEN "stats" ELSE "state"
Untold(t) ==
  \/ work[t].pc = "publish"
  \/ work[t].pc = "callback" /\ work[t].left # <<>>
  \/ work[t].pc = "push" /\ work[t].msg[1] = Kind(t)
Numbered ==
  \A t \in Threads :
    /\ Growing(told[Kind(t)])
    /\ \A i \in 1..Len(told[Kind(t)]) :
         told[Kind(t)][i] <= Number(t) /\ (Untold(t) => told[Kind(t)][i] < Number(t))

\* What was done since the subscription is told, or a thread is on its way to tell it.
WillTell ==
  \/ http.pc = "publish"
  \/ http.pc = "callback" /\ http.left # <<>> /\ Last(http.left) = generation["session"]
  \/ http.pc = "push" /\ http.msg[1] = "state"
Reported ==
  \A n \in since.state + 1 .. version :
    (\E i \in 1..Len(told["state"]) : told["state"][i] = n) \/ (n = version /\ WillTell)

WillTellTargets ==
  \/ http.pc # "idle" /\ http.tell
  \/ http.pc = "readTargets"
  \/ http.pc = "push" /\ http.msg[1] = "targets"
TargetsReported ==
  targets > since.targets => told["targets"] = <<targets>> \/ WillTellTargets

IInv ==
  /\ Types /\ Control /\ Subscriptions /\ Bound /\ Numbered
  /\ Reported /\ TargetsReported /\ NothingMissed
-----------------------------------------------------------------------------
(***************************************************************************)
(* Lemmas about the operators and the work of the threads.                 *)
(***************************************************************************)

\* The end of a sequence that is not empty.
LEMMA Shortened ==
  ASSUME NEW S, NEW s \in Seq(S), s # <<>>
  PROVE  /\ Tail(s) \in Seq(S) /\ Len(Tail(s)) = Len(s) - 1 /\ Head(s) = s[1] /\ Head(s) \in S
         /\ \A i \in 1..Len(Tail(s)) : Tail(s)[i] = s[i + 1]
         /\ Len(s) \in Nat \ {0}
         /\ Tail(s) # <<>> => Last(Tail(s)) = Last(s)
         /\ Tail(s) = <<>> => Last(s) = Head(s)
  BY DEF Last

\* The end of what grows grows; nothing follows the greatest.
LEMMA GrowingEnd ==
  ASSUME NEW s \in Seq(Nat), s # <<>>, Growing(s)
  PROVE  /\ Growing(Tail(s))
         /\ \A g \in Nat : (\A i \in 1..Len(s) : s[i] <= g) /\ Head(s) = g => Tail(s) = <<>>
<1>1. /\ Tail(s) \in Seq(Nat) /\ Len(Tail(s)) = Len(s) - 1 /\ Len(s) \in Nat \ {0}
      /\ Head(s) = s[1] /\ \A i \in 1..Len(Tail(s)) : Tail(s)[i] = s[i + 1]
  BY Shortened
<1>2. Growing(Tail(s))
  BY <1>1 DEF Growing
<1>3. ASSUME NEW g \in Nat, \A i \in 1..Len(s) : s[i] <= g, Head(s) = g, Len(s) # 1
      PROVE  FALSE
  <2>1. 1 \in 1..Len(s) /\ 2 \in 1..Len(s)
    BY <1>1, <1>3
  <2>2. s[1] = g /\ s[2] \in Nat /\ s[1] < s[2] /\ s[2] <= g
    BY <1>1, <1>3, <2>1 DEF Growing
  <2>3. QED
    BY <2>2
<1>4. Len(s) = 1 => Tail(s) = <<>>
  <2>1. PICK b : b = Tail(s)
    OBVIOUS
  <2>2. b \in Seq(Nat) /\ (Len(s) = 1 => Len(b) = 0)
    BY <1>1, <2>1
  <2>3. Len(b) = 0 => b = <<>>
    BY <2>2
  <2>4. QED
    BY <2>1, <2>2, <2>3
<1>5. QED
  BY <1>2, <1>3, <1>4

\* What is greater than all is appended.
LEMMA GrowingMore ==
  ASSUME NEW s \in Seq(Nat), NEW n \in Nat, Growing(s), \A i \in 1..Len(s) : s[i] < n
  PROVE  /\ Append(s, n) \in Seq(Nat) /\ Growing(Append(s, n))
         /\ Append(s, n) # <<>> /\ Last(Append(s, n)) = n /\ Len(Append(s, n)) = Len(s) + 1
         /\ \A i \in 1..Len(Append(s, n)) : Append(s, n)[i] <= n
         /\ \A i \in 1..Len(s) : Append(s, n)[i] = s[i]
         /\ Append(s, n)[Len(s) + 1] = n
<1>1. /\ Append(s, n) \in Seq(Nat) /\ Len(Append(s, n)) = Len(s) + 1 /\ Len(s) \in Nat
      /\ \A i \in 1..Len(s) : Append(s, n)[i] = s[i] /\ s[i] \in Nat
      /\ Append(s, n)[Len(s) + 1] = n
  OBVIOUS
<1>2. \A i \in 1..Len(s) + 1 : i \in 1..Len(s) \/ i = Len(s) + 1
  BY <1>1
<1>3. Growing(Append(s, n)) /\ \A i \in 1..Len(Append(s, n)) : Append(s, n)[i] <= n
  BY <1>1, <1>2 DEF Growing
<1>4. Append(s, n) # <<>> /\ Last(Append(s, n)) = n
  BY <1>1 DEF Last
<1>5. QED
  BY <1>1, <1>3, <1>4

\* The messages kept after a new one.
LEMMA KeptMessages ==
  ASSUME NEW S, NEW s \in Seq(S), NEW m \in S, Len(s) <= MaxHistory
  PROVE  /\ Kept(Append(s, m)) \in Seq(S) /\ Len(Kept(Append(s, m))) <= MaxHistory
         /\ ToSet(Kept(Append(s, m))) \subseteq ToSet(s) \cup {m}
<1>1. PICK a : a = Append(s, m)
  OBVIOUS
<1>2. /\ a \in Seq(S) /\ Len(a) = Len(s) + 1 /\ a # <<>> /\ Len(s) \in Nat
      /\ \A i \in 1..Len(a) : a[i] \in ToSet(s) \cup {m}
  BY <1>1 DEF ToSet
<1>3. CASE Len(a) > MaxHistory
  <2>1. PICK b : b = Tail(a)
    OBVIOUS
  <2>2. b \in Seq(S) /\ Len(b) = Len(a) - 1 /\ \A i \in 1..Len(b) : b[i] = a[i + 1] /\ i + 1 \in 1..Len(a)
    BY <1>2, <2>1
  <2>3. ToSet(b) \subseteq ToSet(s) \cup {m}
    BY SMTT(30), <1>2, <2>2 DEF ToSet
  <2>4. QED
    BY <1>1, <1>2, <1>3, <2>1, <2>2, <2>3, WebEventsAssumption DEF Kept
<1>4. CASE ~(Len(a) > MaxHistory)
  <2>1. ToSet(a) \subseteq ToSet(s) \cup {m}
    BY <1>2 DEF ToSet
  <2>2. QED
    BY <1>1, <1>2, <1>4, <2>1, WebEventsAssumption DEF Kept
<1>5. QED
  BY <1>3, <1>4

\* A request that changes the targets broadcasts them.
LEMMA RequestEffects ==
  ASSUME NEW e \in Requests
  PROVE  /\ e.todo \in Seq(SessionState) /\ e.changes \in BOOLEAN /\ e.tell \in BOOLEAN
         /\ e.changes => e.tell
<1>1. ASSUME NEW todo \in Seq(SessionState), NEW changes \in BOOLEAN, NEW tell \in BOOLEAN, changes => tell,
             e = Effect(todo, changes, tell)
      PROVE  /\ e.todo \in Seq(SessionState) /\ e.changes \in BOOLEAN /\ e.tell \in BOOLEAN
             /\ e.changes => e.tell
  BY <1>1 DEF Effect
<1>2. /\ <<>> \in Seq(SessionState)
      /\ \A s \in SessionState : <<s>> \in Seq(SessionState) /\ \A u \in SessionState : <<s, u>> \in Seq(SessionState)
  OBVIOUS
<1>3. {"Recording", "RecordingPaused", "Stopped", "Playing", "PlaybackPaused", "Seeking"} \subseteq SessionState
  BY DEF SessionState
<1>4. \E todo \in Seq(SessionState), changes \in BOOLEAN, tell \in BOOLEAN :
        (changes => tell) /\ e = Effect(todo, changes, tell)
  <2>1. CASE e \in HandleRecordStart \cup HandleRecordPause \cup HandleRecordResume \cup HandleRecordStop
    BY <1>2, <1>3, <2>1 DEF HandleRecordStart, HandleRecordPause, HandleRecordResume, HandleRecordStop, OrNothing
  <2>2. CASE e \in HandlePlaybackOpen \cup HandlePlaybackStop \cup HandleSetReplayTargets
    BY <1>2, <1>3, <2>2 DEF HandlePlaybackOpen, HandlePlaybackStop, HandleSetReplayTargets
  <2>3. CASE e \in HandlePlaybackPlay \cup HandlePlaybackPause \cup HandlePlaybackSpeed \cup HandlePlaybackLoop
    BY <1>2, <1>3, <2>3 DEF HandlePlaybackPlay, HandlePlaybackPause, HandlePlaybackSpeed, HandlePlaybackLoop, OrNothing
  <2>4. CASE e \in HandlePlaybackSeek
    BY <1>2, <1>3, <2>4 DEF HandlePlaybackSeek, OrNothing
  <2>5. QED
    BY <2>1, <2>2, <2>3, <2>4 DEF Requests
<1>5. QED
  BY <1>1, <1>4

\* Nothing grows.
LEMMA EmptyGrows == Growing(<<>>) /\ Len(<<>>) = 0
  BY DEF Growing

\* What the types say of the work.
LEMMA Working ==
  ASSUME Types
  PROVE  /\ work \in [Threads -> WorkType]
         /\ \A t \in Threads : /\ work[t].todo \in Seq(SessionState) /\ work[t].left \in Seq(Nat)
                               /\ work[t].tell \in BOOLEAN /\ work[t].msg \in (Kinds \cup {"none"}) \X Nat
                               /\ work[t].pc \in {"idle", "run", "publish", "callback", "push", "transport", "readTargets"}
                               /\ Len(work[t].todo) \in Nat
  BY DEF Types, WorkType

\* What a thread is at rest, as fields.
LEMMA FreeFields ==
  /\ Free \in WorkType /\ Free.pc = "idle" /\ Free.left = <<>> /\ Free.todo = <<>> /\ Free.tell = FALSE
  /\ Free.msg = <<"none", 0>>
<1>1. <<>> \in Seq(SessionState) /\ <<>> \in Seq(Nat) /\ <<"none", 0>> \in (Kinds \cup {"none"}) \X Nat
  OBVIOUS
<1>2. QED
  BY <1>1 DEF Free, WorkType

\* The work of one thread is replaced.
LEMMA Change ==
  ASSUME work \in [Threads -> WorkType], NEW t \in Threads, NEW w \in WorkType,
         work' = [work EXCEPT ![t] = w]
  PROVE  /\ work' \in [Threads -> WorkType] /\ work'[t] = w
         /\ \A u \in Threads : u # t => work'[u] = work[u]
  OBVIOUS

\* A thread goes to another step.
LEMMA Goes ==
  ASSUME work \in [Threads -> WorkType], NEW t \in Threads, NEW pc, Goto(t, pc),
         pc \in {"idle", "run", "publish", "callback", "push", "transport", "readTargets"}
  PROVE  /\ work' \in [Threads -> WorkType]
         /\ \A u \in Threads : u # t => work'[u] = work[u]
         /\ work'[t].pc = pc /\ work'[t].todo = work[t].todo /\ work'[t].left = work[t].left
         /\ work'[t].tell = work[t].tell /\ work'[t].msg = work[t].msg
<1>1. work[t] \in WorkType
  OBVIOUS
<1>2. PICK w : w = [work[t] EXCEPT !.pc = pc]
  OBVIOUS
<1>3. /\ w \in WorkType /\ w.pc = pc /\ w.todo = work[t].todo /\ w.left = work[t].left
      /\ w.tell = work[t].tell /\ w.msg = work[t].msg
  BY <1>1, <1>2 DEF WorkType
<1>4. work' = [work EXCEPT ![t] = w]
  <2>1. work' = [work EXCEPT ![t].pc = pc]
    BY DEF Goto
  <2>2. QED
    BY <1>2, <2>1
<1>5. QED
  BY <1>3, <1>4, Change

\* Nothing is due before a subscription.
LEMMA Due ==
  ASSUME Types, Control
  PROVE  /\ version <= Never.state /\ targets <= Never.targets /\ Never \in [state : Nat, targets : Nat]
         /\ since = Never => since.state + 1 .. version = {} /\ ~(targets > since.targets)
<1>1. http.todo \in Seq(SessionState) /\ Len(http.todo) \in Nat
  BY Working DEF http, Threads
<1>2. version \in Nat /\ targets \in 0..MaxChanges /\ since \in [state : Nat, targets : Nat]
  BY DEF Types
<1>3. version + Len(http.todo) <= MaxTransitions
  BY DEF Control
<1>4. Never.state = MaxTransitions /\ Never.targets = MaxChanges /\ Never \in [state : Nat, targets : Nat]
  BY WebEventsAssumption DEF Never
<1>5. version <= Never.state /\ targets <= Never.targets
  BY <1>1, <1>2, <1>3, <1>4, WebEventsAssumption
<1>6. QED
  BY <1>2, <1>4, <1>5

\* A generation is raised.
LEMMA Raised ==
  ASSUME Types, Subscriptions, UNCHANGED <<callbacks, work, messages>>, generation' \in [Services -> Nat],
         \A s \in Services : generation'[s] >= generation[s],
         binding' = "onUpdate" => generation'["stats"] > generation["stats"],
         binding' = "onStateChanged" => generation'["session"] > generation["session"]
  PROVE  Subscriptions'
<1> USE DEF Services, Threads
<1>1. callbacks \in [Services -> Seq(Nat)] /\ generation \in [Services -> Nat]
  BY DEF Types
<1>2. ASSUME NEW s \in Services, NEW i \in 1..Len(callbacks[s])
      PROVE  callbacks[s][i] \in 1..generation'[s]
  BY <1>1, <1>2 DEF Subscriptions
<1>3. ASSUME NEW t \in Threads, NEW i \in 1..Len(work[t].left)
      PROVE  work[t].left[i] <= generation'[Source(t)]
  <2>1. Source(t) \in Services /\ work[t].left[i] \in Nat
    BY SMTT(30), <1>3, Working DEF Source
  <2>2. work[t].left[i] <= generation[Source(t)]
    BY <1>3 DEF Subscriptions
  <2>3. QED
    BY <1>1, <2>1, <2>2
<1>4. ASSUME NEW s \in Services, generation'[s] > generation[s]
      PROVE  generation'[s] # 0 /\ \A i \in 1..Len(callbacks[s]) : callbacks[s][i] < generation'[s]
  BY <1>1, <1>4 DEF Subscriptions
<1>5. QED
  BY <1>2, <1>3, <1>4 DEF Subscriptions, Source

\* Nothing happens.
LEMMA Stutters ==
  ASSUME IInv, UNCHANGED vars
  PROVE  IInv'
<1> USE DEF vars, session, server, hub, page, IInv, http, stats
<1>1. Types' /\ Control'
  BY DEF Types, Control
<1>2. Subscriptions' /\ Bound'
  BY DEF Subscriptions, Source, Bound, Subscribed
<1>3. Numbered' /\ Reported' /\ TargetsReported' /\ NothingMissed'
  BY DEF Numbered, Number, Kind, Untold, Reported, WillTell, TargetsReported, WillTellTargets, NothingMissed, At
<1>4. QED
  BY <1>1, <1>2, <1>3

-----------------------------------------------------------------------------
(***************************************************************************)
(* Every step keeps the invariant.                                         *)
(***************************************************************************)

\* A request begins.
LEMMA CallKeeps ==
  ASSUME IInv, Call
  PROVE  IInv'
<1> USE DEF IInv, http, stats, Threads, At
<1>1. http.pc = "idle" /\ "session" \in held /\ running
  BY DEF Call
<1>2. PICK e \in Requests :
        /\ e.changes => targets < MaxChanges
        /\ version + Len(e.todo) <= MaxTransitions
        /\ targets' = targets + (IF e.changes THEN 1 ELSE 0)
        /\ work' = [work EXCEPT !["http"].pc = "run", !["http"].todo = e.todo, !["http"].tell = e.tell]
  BY DEF Call
<1>3. e.todo \in Seq(SessionState) /\ e.changes \in BOOLEAN /\ e.tell \in BOOLEAN /\ (e.changes => e.tell)
  BY RequestEffects
<1>4. /\ work' \in [Threads -> WorkType] /\ stats' = stats
      /\ http'.pc = "run" /\ http'.todo = e.todo /\ http'.tell = e.tell /\ http'.left = http.left /\ http'.msg = http.msg
  <2>1. PICK w : w = [http EXCEPT !.pc = "run", !.todo = e.todo, !.tell = e.tell]
    OBVIOUS
  <2>2. http \in WorkType
    BY Working
  <2>3. /\ w \in WorkType /\ w.pc = "run" /\ w.todo = e.todo /\ w.tell = e.tell /\ w.left = http.left
        /\ w.msg = http.msg
    BY <1>3, <2>1, <2>2 DEF WorkType
  <2>4. work' = [work EXCEPT !["http"] = w]
    BY <1>2, <2>1
  <2>5. QED
    BY <2>3, <2>4, Change, Working
<1>5. UNCHANGED <<state, version, running, held, generation, callbacks, stopping, since, binding, messages, told,
                  client, inbox, ticks>>
  BY DEF Call, server, hub, page
<1>6. (targets' = targets /\ ~e.changes) \/ (targets' = targets + 1 /\ targets < MaxChanges /\ e.changes)
  BY <1>2, <1>3 DEF Types
<1>7. Types'
  BY <1>4, <1>5, <1>6, WebEventsAssumption DEF Types
<1>8. Control'
  BY <1>1, <1>2, <1>3, <1>4, <1>5, <1>6, Working DEF Control
<1>9. Subscriptions'
  BY <1>1, <1>2, <1>3, <1>4, <1>5, <1>6, Working DEF Subscriptions, Source
<1>10. Bound'
  BY <1>1, <1>2, <1>3, <1>4, <1>5, <1>6, Working DEF Bound, Subscribed
<1>11. Numbered'
  BY <1>1, <1>2, <1>3, <1>4, <1>5, <1>6, Working DEF Numbered, Number, Kind, Untold
<1>12. Reported'
  BY <1>1, <1>2, <1>3, <1>4, <1>5, <1>6, Working DEF Reported, WillTell
<1>13. TargetsReported'
  BY <1>1, <1>2, <1>3, <1>4, <1>5, <1>6, Working DEF TargetsReported, WillTellTargets
<1>14. NothingMissed'
  BY <1>1, <1>4, <1>5 DEF NothingMissed
<1>15. QED
  BY <1>7, <1>8, <1>9, <1>10, <1>11, <1>12, <1>13, <1>14

\* A page is entered.
LEMMA ConnectKeeps ==
  ASSUME IInv, Connect
  PROVE  IInv'
<1> USE DEF IInv, http, stats, Threads, At
<1>1. work' = work /\ client' = "joined"
  BY DEF Connect
<1>2. UNCHANGED <<state, targets, version, running, held, generation, callbacks, stopping, since, binding, messages, told,
                  inbox, ticks>>
  BY DEF Connect, session, server, hub
<1>3. Types'
  BY <1>1, <1>2, Working DEF Types
<1>4. Control'
  BY <1>1, <1>2, Working DEF Control
<1>5. Subscriptions'
  BY <1>1, <1>2, Working DEF Subscriptions, Source
<1>6. Bound'
  BY <1>1, <1>2, Working DEF Bound, Subscribed
<1>7. Numbered'
  BY <1>1, <1>2, Working DEF Numbered, Number, Kind, Untold
<1>8. Reported'
  BY <1>1, <1>2, Working DEF Reported, WillTell
<1>9. TargetsReported'
  BY <1>1, <1>2, Working DEF TargetsReported, WillTellTargets
<1>10. NothingMissed'
  BY <1>1, <1>2, Working DEF NothingMissed
<1>11. QED
  BY <1>3, <1>4, <1>5, <1>6, <1>7, <1>8, <1>9, <1>10

\* A page gets the messages kept.
LEMMA BacklogKeeps ==
  ASSUME IInv, GetBacklog
  PROVE  IInv'
<1> USE DEF IInv, http, stats, Threads, At
<1>1. work' = work /\ client' = "here" /\ inbox' = ToSet(messages)
  BY DEF GetBacklog
<1>2. UNCHANGED <<state, targets, version, running, held, generation, callbacks, stopping, since, binding, messages, told,
                  ticks>>
  BY DEF GetBacklog, session, server, hub
<1>3. Types'
  BY <1>1, <1>2, Working DEF Types
<1>4. Control'
  BY <1>1, <1>2, Working DEF Control
<1>5. Subscriptions'
  BY <1>1, <1>2, Working DEF Subscriptions, Source
<1>6. Bound'
  BY <1>1, <1>2, Working DEF Bound, Subscribed
<1>7. Numbered'
  BY <1>1, <1>2, Working DEF Numbered, Number, Kind, Untold
<1>8. Reported'
  BY <1>1, <1>2, Working DEF Reported, WillTell
<1>9. TargetsReported'
  BY <1>1, <1>2, Working DEF TargetsReported, WillTellTargets
<1>10. NothingMissed'
  <2>1. messages' = messages /\ inbox' = ToSet(messages)
    BY <1>1, <1>2
  <2>2. \A msg \in ToSet(messages') : msg \in inbox'
    BY <2>1
  <2>3. QED
    BY <2>2 DEF NothingMissed
<1>11. QED
  BY <1>3, <1>4, <1>5, <1>6, <1>7, <1>8, <1>9, <1>10

\* The server starts and subscribes.
LEMMA StartKeeps ==
  ASSUME IInv, Start
  PROVE  IInv'
<1> USE DEF IInv, http, stats, Threads, At
<1>1. work' = work /\ running' = TRUE /\ binding' = "bindStats" /\ ~running
  BY DEF Start, Rebinds
<1>2. UNCHANGED <<state, targets, version, held, generation, callbacks, since, messages, told,
                  client, inbox, ticks>>
  BY DEF Start, session, hub, page
<1>3. Types'
  BY <1>1, <1>2, Working DEF Types, Bindings
<1>4. Control'
  BY <1>1, <1>2, Working DEF Control
<1>5. Subscriptions'
  BY <1>1, <1>2, Working DEF Subscriptions, Source
<1>6. Bound'
  BY <1>1, <1>2, Working DEF Bound, Subscribed
<1>7. Numbered'
  BY <1>1, <1>2, Working DEF Numbered, Number, Kind, Untold
<1>8. Reported'
  BY <1>1, <1>2, Working DEF Reported, WillTell
<1>9. TargetsReported'
  BY <1>1, <1>2, Working DEF TargetsReported, WillTellTargets
<1>10. NothingMissed'
  BY <1>1, <1>2, Working DEF NothingMissed
<1>11. QED
  BY <1>3, <1>4, <1>5, <1>6, <1>7, <1>8, <1>9, <1>10

\* The server stops.
LEMMA StopKeeps ==
  ASSUME IInv, Stop
  PROVE  IInv'
<1> USE DEF IInv, http, stats, Threads, At
<1>1. work' = work /\ running' = FALSE /\ binding = "idle" /\ since' = Never
      /\ generation' = [s \in Services |-> generation[s] + 1]
  BY DEF Stop
<1>2. /\ generation' \in [Services -> Nat] /\ generation \in [Services -> Nat]
      /\ \A s \in Services : generation'[s] = generation[s] + 1
  BY <1>1 DEF Types
<1>3. UNCHANGED <<state, targets, version, held, callbacks, binding, messages, told, client, inbox, ticks>>
  BY DEF Stop, session, hub, page
<1>4. /\ Never \in [state : Nat, targets : Nat] /\ since'.state + 1 .. version' = {}
      /\ ~(targets' > since'.targets)
  <2>1. version \in Nat /\ targets \in Nat
    BY DEF Types
  <2>2. QED
    BY <1>1, <1>3, <2>1, Due
<1>5. Types'
  BY <1>1, <1>2, <1>3, <1>4, Working DEF Types
<1>6. Control'
  BY <1>1, <1>2, <1>3, <1>4, Working DEF Control
<1>7. Subscriptions'
  BY <1>1, <1>2, <1>3, Raised DEF Subscriptions, Source
<1>8. Bound'
  BY <1>1, <1>2, <1>3, <1>4, Working DEF Bound, Subscribed
<1>9. Numbered'
  BY <1>1, <1>2, <1>3, <1>4, Working DEF Numbered, Number, Kind, Untold
<1>10. Reported'
  BY <1>1, <1>2, <1>3, <1>4, Working DEF Reported, WillTell
<1>11. TargetsReported'
  BY <1>1, <1>2, <1>3, <1>4, Working DEF TargetsReported, WillTellTargets
<1>12. NothingMissed'
  BY <1>1, <1>2, <1>3, <1>4, Working DEF NothingMissed
<1>13. QED
  BY <1>5, <1>6, <1>7, <1>8, <1>9, <1>10, <1>11, <1>12

\* A service comes or goes.
LEMMA ServiceKeeps ==
  ASSUME IInv, NEW s \in Services, SetService(s)
  PROVE  IInv'
<1> USE DEF IInv, http, stats, Threads, At
<1>1. /\ work' = work /\ binding = "idle" /\ since' = Never
      /\ held' \in SUBSET Services /\ (s \notin held => held \subseteq held')
  BY DEF SetService, Types
<1>2. \/ running /\ binding' = "bindStats" /\ generation' = generation
      \/ ~running /\ binding' = "idle" /\ generation' = [generation EXCEPT ![s] = @ + 1]
  BY <1>1 DEF SetService, Rebinds
<1>3. UNCHANGED <<state, targets, version, running, callbacks, messages, told, client, inbox, ticks>>
  BY DEF SetService, session, hub, page
<1>4. /\ generation' \in [Services -> Nat] /\ generation \in [Services -> Nat]
      /\ \A u \in Services : generation'[u] >= generation[u]
  <2>1. generation \in [Services -> Nat]
    BY DEF Types
  <2>2. QED
    BY <1>2, <2>1
<1>5. /\ Never \in [state : Nat, targets : Nat] /\ since'.state + 1 .. version' = {}
      /\ ~(targets' > since'.targets)
  <2>1. version \in Nat /\ targets \in Nat
    BY DEF Types
  <2>2. QED
    BY <1>1, <1>3, <2>1, Due
<1>6. Types'
  BY <1>1, <1>2, <1>3, <1>4, <1>5, Working DEF Types, Bindings
<1>7. Control'
  BY <1>1, <1>2, <1>3, <1>4, <1>5, Working DEF Control
<1>8. Subscriptions'
  BY <1>1, <1>2, <1>3, <1>4, Raised DEF Subscriptions, Source
<1>9. Bound'
  BY <1>1, <1>2, <1>3 DEF Bound, Subscribed
<1>10. Numbered'
  BY <1>1, <1>2, <1>3, <1>4, <1>5, Working DEF Numbered, Number, Kind, Untold
<1>11. Reported'
  BY <1>1, <1>2, <1>3, <1>4, <1>5, Working DEF Reported, WillTell
<1>12. TargetsReported'
  BY <1>1, <1>2, <1>3, <1>4, <1>5, Working DEF TargetsReported, WillTellTargets
<1>13. NothingMissed'
  BY <1>1, <1>2, <1>3, <1>4, <1>5, Working DEF NothingMissed
<1>14. QED
  BY <1>6, <1>7, <1>8, <1>9, <1>10, <1>11, <1>12, <1>13

\* The server raises a generation before it subscribes.
LEMMA BindKeeps ==
  ASSUME IInv, NEW s \in Services, NEW pc \in Bindings, NEW next \in Bindings, Bind(s, pc, next),
         <<s, pc, next>> \in {<<"stats", "bindStats", "onUpdate">>, <<"session", "bindSession", "onStateChanged">>}
  PROVE  IInv'
<1> USE DEF IInv, http, stats, Threads, At
<1>1. /\ work' = work /\ binding = pc /\ binding # "idle" /\ binding # "onStateChanged" /\ running
      /\ \/ s \in held /\ generation' = [generation EXCEPT ![s] = @ + 1] /\ binding' = next
         \/ binding' = "bindSession" /\ generation' = generation
         \/ binding' = "idle" /\ generation' = generation
  BY DEF Bind, Bound
<1>2. UNCHANGED <<state, targets, version, running, held, callbacks, since, messages, told, client, inbox, ticks>>
  BY DEF Bind, session, hub, page
<1>3. /\ generation' \in [Services -> Nat] /\ generation \in [Services -> Nat]
      /\ \A u \in Services : generation'[u] >= generation[u]
      /\ binding' \in {"onUpdate", "onStateChanged"} => generation'[s] > generation[s]
  <2>1. generation \in [Services -> Nat]
    BY DEF Types
  <2>2. binding' \in {"onUpdate", "onStateChanged"} => generation' = [generation EXCEPT ![s] = @ + 1]
    BY <1>1
  <2>3. QED
    BY <1>1, <2>1, <2>2
<1>4. binding' = "onUpdate" => s = "stats"
  BY <1>1
<1>5. binding' = "onStateChanged" => s = "session" /\ "session" \in held
  BY <1>1
<1>6. since = Never /\ since.state + 1 .. version = {} /\ ~(targets > since.targets)
  BY <1>1, Due DEF Bound, Subscribed
<1>7. Types'
  BY <1>1, <1>2, <1>3, <1>4, <1>5, <1>6, Working DEF Types, Bindings
<1>8. Control'
  BY <1>1, <1>2, <1>3, <1>4, <1>5, <1>6, Working DEF Control
<1>9. Subscriptions'
  BY <1>1, <1>2, <1>3, <1>4, <1>5, Raised DEF Subscriptions, Source
<1>10. Bound'
  BY <1>1, <1>2, <1>5, <1>6 DEF Bound, Subscribed
<1>11. Numbered'
  BY <1>1, <1>2, <1>3, <1>4, <1>5, <1>6, Working DEF Numbered, Number, Kind, Untold
<1>12. Reported'
  BY <1>2, <1>6 DEF Reported, WillTell
<1>13. TargetsReported'
  BY <1>2, <1>6 DEF TargetsReported, WillTellTargets
<1>14. NothingMissed'
  BY <1>1, <1>2, <1>3, <1>4, <1>5, <1>6, Working DEF NothingMissed
<1>15. QED
  BY <1>7, <1>8, <1>9, <1>10, <1>11, <1>12, <1>13, <1>14

\* The server subscribes to the statistics.
LEMMA UpdateKeeps ==
  ASSUME IInv, OnUpdate
  PROVE  IInv'
<1> USE DEF IInv, http, stats, Threads, At
<1>1. /\ work' = work /\ binding = "onUpdate" /\ binding' = "bindSession"
      /\ callbacks' = [callbacks EXCEPT !.stats = Append(IF Len(@) >= MaxCallbacks THEN Tail(@) ELSE @, generation.stats)]
  BY DEF OnUpdate
<1>2. UNCHANGED <<state, targets, version, running, held, generation, since, messages, told, client, inbox, ticks>>
  BY DEF OnUpdate, session, hub, page
<1>3. PICK old : old = callbacks["stats"]
  OBVIOUS
<1>4. PICK g : g = generation["stats"]
  OBVIOUS
<1>5. /\ old \in Seq(Nat) /\ g \in Nat \ {0} /\ Growing(old) /\ Len(old) <= MaxCallbacks
      /\ \A i \in 1..Len(old) : old[i] < g /\ old[i] \in Nat \ {0}
  BY SMTT(30), <1>1, <1>3, <1>4 DEF Types, Subscriptions, Services
<1>6. PICK base : base = IF Len(old) >= MaxCallbacks THEN Tail(old) ELSE old
  OBVIOUS
<1>7. /\ base \in Seq(Nat) /\ Growing(base) /\ Len(base) < MaxCallbacks
      /\ \A i \in 1..Len(base) : base[i] < g /\ base[i] \in Nat \ {0}
  <2>1. CASE Len(old) >= MaxCallbacks
    <3>1. old # <<>> /\ base = Tail(old)
      BY <1>5, <1>6, <2>1, WebEventsAssumption
    <3>2. /\ base \in Seq(Nat) /\ Len(base) = Len(old) - 1 /\ \A i \in 1..Len(base) : base[i] = old[i + 1]
          /\ Len(old) \in Nat \ {0}
      BY <1>5, <3>1, Shortened
    <3>3. Growing(base)
      BY <1>5, <3>1, GrowingEnd
    <3>4. \A i \in 1..Len(base) : i + 1 \in 1..Len(old)
      BY <3>2
    <3>5. MaxCallbacks \in Nat /\ Len(base) < MaxCallbacks
      BY <1>5, <3>2, WebEventsAssumption
    <3>6. \A i \in 1..Len(base) : base[i] < g /\ base[i] \in Nat \ {0}
      BY <1>5, <3>2, <3>4
    <3>7. QED
      BY <3>2, <3>3, <3>5, <3>6
  <2>2. CASE ~(Len(old) >= MaxCallbacks)
    BY <1>5, <1>6, <2>2, WebEventsAssumption
  <2>3. QED
    BY <2>1, <2>2
<1>8. PICK new : new = Append(base, g)
  OBVIOUS
<1>9. /\ new \in Seq(Nat) /\ Growing(new) /\ Len(new) <= MaxCallbacks
      /\ \A i \in 1..Len(new) : new[i] \in 1..g
  <2>1. /\ new \in Seq(Nat) /\ Growing(new) /\ Len(new) = Len(base) + 1
        /\ \A i \in 1..Len(base) : new[i] = base[i]
        /\ new[Len(base) + 1] = g
    BY <1>5, <1>7, <1>8, GrowingMore
  <2>2. \A i \in 1..Len(new) : i \in 1..Len(base) \/ i = Len(base) + 1
    BY <1>7, <2>1
  <2>3. \A i \in 1..Len(new) : new[i] \in 1..g
    <3>1. ASSUME NEW i \in 1..Len(new)
          PROVE  new[i] \in Nat \ {0} /\ new[i] <= g
      <4>1. CASE i \in 1..Len(base)
        <5>1. new[i] = base[i]
          BY ONLY <2>1, <4>1
        <5>2. base[i] < g /\ base[i] \in Nat \ {0} /\ g \in Nat
          BY ONLY <1>5, <1>7, <4>1
        <5>3. QED
          BY ONLY <5>1, <5>2
      <4>2. CASE i = Len(base) + 1
        BY <1>5, <2>1, <4>2
      <4>3. QED
        BY <2>2, <4>1, <4>2
    <3>2. QED
      BY <1>5, <3>1
  <2>4. Len(base) \in Nat /\ MaxCallbacks \in Nat
    BY <1>7, WebEventsAssumption
  <2>5. QED
    BY <1>7, <2>1, <2>3, <2>4
<1>10. /\ callbacks \in [Services -> Seq(Nat)] /\ callbacks' \in [Services -> Seq(Nat)]
       /\ callbacks'["stats"] = new /\ callbacks'["session"] = callbacks["session"]
  <2>1. callbacks \in [Services -> Seq(Nat)] /\ "stats" \in Services
    BY DEF Types, Services
  <2>2. callbacks' = [callbacks EXCEPT !["stats"] = new]
    BY <1>1, <1>3, <1>4, <1>6, <1>8
  <2>3. QED
    BY <1>9, <2>1, <2>2
<1>11. since = Never /\ since.state + 1 .. version = {} /\ ~(targets > since.targets)
  BY <1>1, Due DEF Bound, Subscribed
<1>12. Types'
  BY <1>1, <1>2, <1>10 DEF Types, Bindings
<1>13. Control'
  BY <1>1, <1>2 DEF Control
<1>14. Subscriptions'
  BY <1>1, <1>2, <1>4, <1>9, <1>10 DEF Subscriptions, Source, Services
<1>15. Bound'
  BY <1>1, <1>2, <1>11 DEF Bound, Subscribed
<1>16. Numbered'
  BY <1>1, <1>2 DEF Numbered, Number, Kind, Untold
<1>17. Reported'
  BY <1>2, <1>11 DEF Reported, WillTell
<1>18. TargetsReported'
  BY <1>2, <1>11 DEF TargetsReported, WillTellTargets
<1>19. NothingMissed'
  BY <1>1, <1>2 DEF NothingMissed
<1>20. QED
  BY <1>12, <1>13, <1>14, <1>15, <1>16, <1>17, <1>18, <1>19

\* The server subscribes to the session.
LEMMA StateChangedKeeps ==
  ASSUME IInv, OnStateChanged
  PROVE  IInv'
<1> USE DEF IInv, http, stats, Threads, At
<1>1. /\ work' = work /\ binding = "onStateChanged" /\ binding' = "idle"
      /\ callbacks' = [callbacks EXCEPT !.session = Append(@, generation.session)]
      /\ since' = [state |-> version, targets |-> targets]
  BY DEF OnStateChanged
<1>2. UNCHANGED <<state, targets, version, running, held, generation, messages, told, client, inbox, ticks>>
  BY DEF OnStateChanged, session, hub, page
<1>3. PICK old : old = callbacks["session"]
  OBVIOUS
<1>4. PICK g : g = generation["session"]
  OBVIOUS
<1>5. /\ old \in Seq(Nat) /\ g \in Nat \ {0} /\ Growing(old)
      /\ \A i \in 1..Len(old) : old[i] < g /\ old[i] \in Nat \ {0}
  BY SMTT(30), <1>1, <1>3, <1>4 DEF Types, Subscriptions, Services
<1>6. PICK new : new = Append(old, g)
  OBVIOUS
<1>7. /\ new \in Seq(Nat) /\ Growing(new) /\ new # <<>> /\ Last(new) = g
      /\ \A i \in 1..Len(new) : new[i] \in 1..g
  <2>1. /\ new \in Seq(Nat) /\ Growing(new) /\ Len(new) = Len(old) + 1 /\ new # <<>> /\ Last(new) = g
        /\ \A i \in 1..Len(old) : new[i] = old[i]
        /\ new[Len(old) + 1] = g
    BY SMTT(30), <1>5, <1>6, GrowingMore
  <2>2. \A i \in 1..Len(new) : i \in 1..Len(old) \/ i = Len(old) + 1
    BY <1>5, <2>1
  <2>3. QED
    BY SMTT(30), <1>5, <2>1, <2>2
<1>8. /\ callbacks \in [Services -> Seq(Nat)] /\ callbacks' \in [Services -> Seq(Nat)]
      /\ callbacks'["session"] = new /\ callbacks'["stats"] = callbacks["stats"]
  <2>1. callbacks \in [Services -> Seq(Nat)] /\ "session" \in Services
    BY DEF Types, Services
  <2>2. callbacks' = [callbacks EXCEPT !["session"] = new]
    BY <1>1, <1>3, <1>4, <1>6
  <2>3. QED
    BY <1>7, <2>1, <2>2
<1>9. /\ since' \in [state : Nat, targets : Nat] /\ since'.state + 1 .. version' = {} /\ ~(targets' > since'.targets)
  BY <1>1, <1>2 DEF Types
<1>10. Types'
  BY <1>1, <1>2, <1>8, <1>9 DEF Types, Bindings
<1>11. Control'
  BY <1>1, <1>2 DEF Control
<1>12. Subscriptions'
  BY <1>1, <1>2, <1>4, <1>7, <1>8 DEF Subscriptions, Source, Services
<1>13. Bound'
  BY <1>1, <1>2, <1>4, <1>7, <1>8 DEF Bound, Subscribed
<1>14. Numbered'
  BY <1>1, <1>2 DEF Numbered, Number, Kind, Untold
<1>15. Reported'
  BY <1>2, <1>9 DEF Reported, WillTell
<1>16. TargetsReported'
  BY <1>2, <1>9 DEF TargetsReported, WillTellTargets
<1>17. NothingMissed'
  BY <1>1, <1>2 DEF NothingMissed
<1>18. QED
  BY <1>10, <1>11, <1>12, <1>13, <1>14, <1>15, <1>16, <1>17

\* The next transition of the call, or its end.
LEMMA RunKeeps ==
  ASSUME IInv, NEW t \in Threads, Run(t)
  PROVE  IInv'
<1> USE DEF IInv, http, stats, Threads, At
<1>1. work[t].pc = "run" /\ work \in [Threads -> WorkType] /\ work[t] \in WorkType
  BY Working DEF Run
<1>2. t = "stats" => work[t].todo = <<>> /\ ~work[t].tell
  BY DEF Control
<1>3. PICK w \in WorkType :
        /\ work' = [work EXCEPT ![t] = w]
        /\ \/ /\ t = "http" /\ http.todo # <<>> /\ w.pc = "publish" /\ w.todo = Tail(http.todo)
              /\ w.left = http.left /\ w.tell = http.tell /\ version' = version + 1 /\ state' = Head(http.todo)
           \/ /\ version' = version /\ state' = state /\ w.todo = <<>>
              /\ \/ ~work[t].tell /\ w.pc = "idle" /\ w.left = <<>> /\ ~w.tell
                 \/ t = "http" /\ w.pc = "readTargets" /\ w.left = <<>>
                 \/ t = "http" /\ w.pc = "run" /\ w.left = http.left /\ w.tell = http.tell
  <2>1. CASE work[t].todo = <<>> /\ work[t].tell
    <3>1. PICK w : w = [Free EXCEPT !.pc = "readTargets"]
      OBVIOUS
    <3>2. w \in WorkType /\ w.pc = "readTargets" /\ w.todo = <<>> /\ w.left = <<>>
      BY <3>1, FreeFields DEF WorkType
    <3>3. work' = [work EXCEPT ![t] = w] /\ version' = version /\ state' = state
      BY <2>1, <3>1 DEF Run
    <3>4. QED
      BY <1>2, <2>1, <3>2, <3>3
  <2>2. CASE work[t].todo = <<>> /\ ~work[t].tell
    <3>1. work' = [work EXCEPT ![t] = Free] /\ version' = version /\ state' = state
      BY <2>2 DEF Run
    <3>2. QED
      BY <2>2, <3>1, FreeFields
  <2>3. CASE work[t].todo # <<>> /\ IsValidTransition(state, Head(work[t].todo))
    <3>1. PICK w : w = [work[t] EXCEPT !.pc = "publish", !.todo = Tail(@)]
      OBVIOUS
    <3>2. Tail(work[t].todo) \in Seq(SessionState)
      BY <2>3, Working
    <3>3. /\ w \in WorkType /\ w.pc = "publish" /\ w.todo = Tail(work[t].todo) /\ w.left = work[t].left
          /\ w.tell = work[t].tell
      BY <1>1, <3>1, <3>2 DEF WorkType
    <3>4. work' = [work EXCEPT ![t] = w] /\ version' = version + 1 /\ state' = Head(work[t].todo)
      <4>1. /\ work' = [work EXCEPT ![t].pc = "publish", ![t].todo = Tail(@)]
            /\ version' = version + 1 /\ state' = Head(work[t].todo)
        BY <2>3 DEF Run
      <4>2. QED
        BY <3>1, <4>1
    <3>5. t = "http"
      BY <1>2, <2>3
    <3>6. QED
      BY <2>3, <3>3, <3>4, <3>5
  <2>4. CASE work[t].todo # <<>> /\ ~IsValidTransition(state, Head(work[t].todo))
    <3>1. PICK w : w = [work[t] EXCEPT !.todo = <<>>]
      OBVIOUS
    <3>2. <<>> \in Seq(SessionState)
      OBVIOUS
    <3>3. w \in WorkType /\ w.pc = "run" /\ w.todo = <<>> /\ w.left = work[t].left /\ w.tell = work[t].tell
      BY <1>1, <3>1, <3>2 DEF WorkType
    <3>4. work' = [work EXCEPT ![t] = w] /\ version' = version /\ state' = state
      <4>1. work' = [work EXCEPT ![t].todo = <<>>] /\ version' = version /\ state' = state
        BY <2>4 DEF Run
      <4>2. QED
        BY <3>1, <4>1
    <3>5. t = "http"
      BY <1>2, <2>4
    <3>6. QED
      BY <3>3, <3>4, <3>5
  <2>5. QED
    BY <2>1, <2>2, <2>3, <2>4
<1>4. UNCHANGED <<targets, running, held, generation, callbacks, since, binding, messages, told, client, inbox, ticks>>
  BY DEF Run, server, hub, page
<1>5. work' \in [Threads -> WorkType] /\ work'[t] = w /\ \A u \in Threads : u # t => work'[u] = work[u]
  BY <1>1, <1>3, Change
<1>6. version \in Nat /\ http.todo \in Seq(SessionState) /\ Len(http.todo) \in Nat
  BY Working DEF Types
<1>7. /\ version' \in Nat /\ version' >= version
      /\ version' + Len(http'.todo) <= MaxTransitions
  <2>1. version + Len(http.todo) <= MaxTransitions /\ MaxTransitions \in Nat
    BY WebEventsAssumption DEF Control
  <2>2. CASE http.todo # <<>> /\ version' = version + 1 /\ http'.todo = Tail(http.todo)
    <3>1. PICK n : n = Len(http.todo)
      OBVIOUS
    <3>2. n \in Nat /\ Len(http'.todo) = n - 1
      BY <1>6, <2>2, <3>1, Shortened
    <3>3. version + n <= MaxTransitions
      BY <2>1, <3>1
    <3>4. version' \in Nat /\ version' >= version /\ version' = version + 1
      BY <1>6, <2>2
    <3>5. version' + Len(http'.todo) <= MaxTransitions
      <4>1. PICK m : m = Len(http'.todo)
        OBVIOUS
      <4>2. m = n - 1
        BY <3>2, <4>1
      <4>3. version' + m <= MaxTransitions
        BY <1>6, <2>1, <3>2, <3>3, <3>4, <4>2
      <4>4. QED
        BY <4>1, <4>3
    <3>6. QED
      BY <3>4, <3>5
  <2>3. CASE version' = version /\ (http'.todo = http.todo \/ http'.todo = <<>>)
    BY <1>6, <2>1, <2>3, EmptyGrows
  <2>4. t # "http" => http' = http /\ version' = version
    BY <1>3, <1>5
  <2>5. t = "http" => http' = w
    BY <1>5
  <2>6. QED
    BY <1>3, <2>2, <2>3, <2>4, <2>5
<1>8. state' \in SessionState
  <2>1. http.todo # <<>> => Head(http.todo) \in SessionState
    BY <1>6, Shortened
  <2>2. QED
    BY <1>3, <2>1 DEF Types
<1>9. Types'
  BY <1>4, <1>5, <1>7, <1>8 DEF Types
<1>10. Control'
  BY <1>1, <1>2, <1>3, <1>4, <1>5, <1>7 DEF Control
<1>11. Subscriptions'
  BY <1>1, <1>3, <1>4, <1>5, EmptyGrows DEF Subscriptions, Source
<1>12. Bound'
  BY <1>4 DEF Bound, Subscribed
<1>13. Numbered'
  <2>1. \A u \in Threads : told[Kind(u)] \in Seq(Nat) /\ Number(u) \in Nat /\ Number(u)' >= Number(u)
    BY <1>4, <1>6, <1>7 DEF Types, Kinds, Kind, Number
  <2>2. \A u \in Threads : Untold(u)' => Untold(u) \/ (u = "http" /\ Number(u)' > Number(u))
    BY <1>1, <1>3, <1>5, <1>6 DEF Untold, Number
  <2>3. \A u \in Threads, i \in Nat : i \in 1..Len(told[Kind(u)]) => told[Kind(u)][i] \in Nat
    BY <2>1
  <2>4. \A u \in Threads : Number(u)' \in Nat
    BY <1>4, <1>7, <2>1 DEF Number, Types
  <2>5. ASSUME NEW u \in Threads, NEW i \in 1..Len(told[Kind(u)])
        PROVE  told[Kind(u)][i] <= Number(u)' /\ (Untold(u)' => told[Kind(u)][i] < Number(u)')
    <3>1. told[Kind(u)][i] <= Number(u) /\ (Untold(u) => told[Kind(u)][i] < Number(u))
      BY <2>5 DEF Numbered
    <3>2. QED
      BY SMTT(30), <2>1, <2>2, <2>3, <2>4, <3>1
  <2>6. UNCHANGED told
    BY <1>4
  <2>7. QED
    BY <2>5, <2>6 DEF Numbered, Kind
<1>14. Reported'
  <2>1. CASE t = "http"
    <3>1. \A n \in since.state + 1 .. version : \E i \in 1..Len(told["state"]) : told["state"][i] = n
      BY <1>1, <2>1 DEF Reported, WillTell
    <3>2. QED
      BY <1>3, <1>4, <1>5, <1>6, <2>1, <3>1 DEF Reported, WillTell
  <2>2. CASE t = "stats"
    <3>1. http' = http /\ version' = version
      BY <1>3, <1>5, <2>2
    <3>2. QED
      BY <1>4, <3>1 DEF Reported, WillTell
  <2>3. QED
    BY <2>1, <2>2
<1>15. TargetsReported'
  BY <1>1, <1>3, <1>4, <1>5 DEF TargetsReported, WillTellTargets
<1>16. NothingMissed'
  BY <1>1, <1>3, <1>4, <1>5 DEF NothingMissed
<1>17. QED
  BY <1>9, <1>10, <1>11, <1>12, <1>13, <1>14, <1>15, <1>16

\* The subscribers are copied.
LEMMA PublishKeeps ==
  ASSUME IInv, NEW t \in Threads, Publish(t)
  PROVE  IInv'
<1> USE DEF IInv, http, stats, Threads, At
<1>1. t = "http" /\ http.pc = "publish" /\ work \in [Threads -> WorkType] /\ http \in WorkType
  BY Working DEF Publish, Control
<1>2. callbacks["session"] \in Seq(Nat)
  BY DEF Types, Services
<1>3. /\ work' \in [Threads -> WorkType] /\ stats' = stats
      /\ http'.pc = "callback" /\ http'.left = callbacks["session"] /\ http'.todo = http.todo /\ http'.tell = http.tell
  <2>1. PICK w : w = [http EXCEPT !.pc = "callback", !.left = callbacks.session]
    OBVIOUS
  <2>2. /\ w \in WorkType /\ w.pc = "callback" /\ w.left = callbacks["session"] /\ w.todo = http.todo
        /\ w.tell = http.tell
    BY <1>1, <1>2, <2>1 DEF WorkType
  <2>3. work' = [work EXCEPT !["http"] = w]
    BY <1>1, <2>1 DEF Publish
  <2>4. QED
    BY <1>1, <2>2, <2>3, Change
<1>4. UNCHANGED <<state, targets, version, running, held, generation, callbacks, since, binding, messages, told,
                  client, inbox, ticks>>
  BY DEF Publish, session, server, hub, page
<1>5. since = Never \/ (callbacks["session"] # <<>> /\ Last(callbacks["session"]) = generation["session"])
  BY DEF Bound, Subscribed
<1>6. Types'
  BY <1>3, <1>4 DEF Types
<1>7. Control'
  BY <1>1, <1>3, <1>4 DEF Control
<1>8. Subscriptions'
  <2>1. callbacks \in [Services -> Seq(Nat)] /\ generation \in [Services -> Nat]
    BY DEF Types
  <2>2. Growing(callbacks["session"]) /\ \A i \in 1..Len(callbacks["session"]) : callbacks["session"][i] <= generation["session"]
    BY <2>1 DEF Subscriptions, Services
  <2>3. QED
    BY <1>3, <1>4, <2>2 DEF Subscriptions, Source
<1>9. Bound'
  BY <1>4 DEF Bound, Subscribed
<1>10. Numbered'
  BY <1>1, <1>3, <1>4 DEF Numbered, Number, Kind, Untold
<1>11. Reported'
  BY <1>1, <1>3, <1>4, <1>5, Due DEF Reported, WillTell
<1>12. TargetsReported'
  BY <1>1, <1>3, <1>4 DEF TargetsReported, WillTellTargets
<1>13. NothingMissed'
  BY <1>1, <1>3, <1>4 DEF NothingMissed
<1>14. QED
  BY <1>6, <1>7, <1>8, <1>9, <1>10, <1>11, <1>12, <1>13

\* The statistics begin to tell an interval.
LEMMA AggregatorKeeps ==
  ASSUME IInv, RunAggregator
  PROVE  IInv'
<1> USE DEF IInv, http, stats, Threads, At
<1>1. stats.pc = "idle" /\ work \in [Threads -> WorkType] /\ stats \in WorkType /\ ticks' = ticks + 1 /\ ticks \in Nat
  BY Working DEF RunAggregator, Types
<1>2. callbacks["stats"] \in Seq(Nat)
  BY DEF Types, Services
<1>3. /\ work' \in [Threads -> WorkType] /\ http' = http
      /\ stats'.pc = "callback" /\ stats'.left = callbacks["stats"] /\ stats'.todo = stats.todo /\ stats'.tell = stats.tell
  <2>1. PICK w : w = [stats EXCEPT !.pc = "callback", !.left = callbacks.stats]
    OBVIOUS
  <2>2. /\ w \in WorkType /\ w.pc = "callback" /\ w.left = callbacks["stats"] /\ w.todo = stats.todo
        /\ w.tell = stats.tell
    BY <1>1, <1>2, <2>1 DEF WorkType
  <2>3. work' = [work EXCEPT !["stats"] = w]
    BY <1>1, <2>1 DEF RunAggregator
  <2>4. QED
    BY <1>1, <2>2, <2>3, Change
<1>4. UNCHANGED <<state, targets, version, running, held, generation, callbacks, since, binding, messages, told,
                  client, inbox>>
  BY DEF RunAggregator, session, server, hub, page
<1>5. Types'
  BY <1>1, <1>3, <1>4 DEF Types
<1>6. Control'
  BY <1>1, <1>3, <1>4 DEF Control
<1>7. Subscriptions'
  <2>1. callbacks \in [Services -> Seq(Nat)] /\ generation \in [Services -> Nat]
    BY DEF Types
  <2>2. Growing(callbacks["stats"]) /\ \A i \in 1..Len(callbacks["stats"]) : callbacks["stats"][i] <= generation["stats"]
    BY <2>1 DEF Subscriptions, Services
  <2>3. QED
    BY <1>3, <1>4, <2>2 DEF Subscriptions, Source
<1>8. Bound'
  BY <1>4 DEF Bound, Subscribed
<1>9. Numbered'
  <2>1. told["stats"] \in Seq(Nat)
    BY DEF Types, Kinds
  <2>2. \A i \in 1..Len(told["stats"]) : told["stats"][i] \in Nat /\ told["stats"][i] <= ticks
    BY <2>1 DEF Numbered, Kind, Number
  <2>3. \A i \in 1..Len(told["stats"]) : told["stats"][i] < ticks'
    BY <1>1, <2>2
  <2>4. Growing(told["stats"]) /\ \A i \in 1..Len(told["stats"]) : told["stats"][i] <= ticks'
    BY <1>1, <2>2 DEF Numbered, Kind
  <2>5. QED
    BY <1>3, <1>4, <2>3, <2>4 DEF Numbered, Kind, Number, Untold
<1>10. Reported'
  BY <1>3, <1>4 DEF Reported, WillTell
<1>11. TargetsReported'
  BY <1>3, <1>4 DEF TargetsReported, WillTellTargets
<1>12. NothingMissed'
  BY <1>1, <1>3, <1>4 DEF NothingMissed
<1>13. QED
  BY <1>5, <1>6, <1>7, <1>8, <1>9, <1>10, <1>11, <1>12

\* A callback runs, or none is left.
LEMMA CallbackKeeps ==
  ASSUME IInv, NEW t \in Threads, Callback(t)
  PROVE  IInv'
<1> USE DEF IInv, http, stats, Threads, At
<1>1. work[t].pc = "callback" /\ work \in [Threads -> WorkType] /\ work[t] \in WorkType /\ Source(t) \in Services
  BY Working DEF Callback, Source, Services
<1>2. PICK left, g : left = work[t].left /\ g = generation[Source(t)]
  OBVIOUS
<1>3. left \in Seq(Nat) /\ g \in Nat /\ Growing(left) /\ \A i \in 1..Len(left) : left[i] <= g
  BY <1>1, <1>2, Working DEF Subscriptions, Types
<1>4. News(t) \in Kinds \X Nat /\ News(t) = <<Kind(t), Number(t)>> /\ Free.msg \in (Kinds \cup {"none"}) \X Nat
  BY FreeFields DEF News, Kind, Number, Types, Kinds, WorkType
<1>5. PICK w \in WorkType :
        /\ work' = [work EXCEPT ![t] = w]
        /\ w.todo = work[t].todo /\ w.tell = work[t].tell
        /\ \/ left = <<>> /\ w.pc = "run" /\ w.left = <<>>
           \/ left # <<>> /\ w.pc = "push" /\ w.left = <<>> /\ w.msg = News(t)
           \/ left # <<>> /\ Head(left) # g /\ w.pc = "callback" /\ w.left = Tail(left)
  <2>1. PICK w : w = [work[t] EXCEPT
                        !.pc = IF left = <<>> THEN "run" ELSE IF Head(left) = g THEN "push" ELSE "callback",
                        !.left = IF left = <<>> THEN left ELSE Tail(left),
                        !.msg = IF left = <<>> THEN Free.msg ELSE News(t)]
    OBVIOUS
  <2>2. work' = [work EXCEPT ![t] = w]
    BY <1>2, <2>1 DEF Callback
  <2>3. left # <<>> => Tail(left) \in Seq(Nat) /\ (Head(left) = g => Tail(left) = <<>>)
    BY <1>3, Shortened, GrowingEnd
  <2>4. /\ w.todo = work[t].todo /\ w.tell = work[t].tell
        /\ w.pc = IF left = <<>> THEN "run" ELSE IF Head(left) = g THEN "push" ELSE "callback"
        /\ w.left = IF left = <<>> THEN left ELSE Tail(left)
        /\ w.msg = IF left = <<>> THEN Free.msg ELSE News(t)
    BY <1>1, <2>1 DEF WorkType
  <2>5. w \in WorkType
    <3>1. w = [pc |-> w.pc, todo |-> work[t].todo, left |-> w.left, tell |-> work[t].tell, msg |-> w.msg]
      BY <1>1, <2>1 DEF WorkType
    <3>2. w.pc \in {"run", "push", "callback"} /\ w.left \in Seq(Nat) /\ w.msg \in (Kinds \cup {"none"}) \X Nat
      BY <1>3, <1>4, <2>3, <2>4
    <3>3. QED
      BY <1>1, <3>1, <3>2 DEF WorkType
  <2>6. QED
    BY <2>2, <2>3, <2>4, <2>5
<1>6. work' \in [Threads -> WorkType] /\ work'[t] = w /\ \A u \in Threads : u # t => work'[u] = work[u]
  BY <1>1, <1>5, Change
<1>7. UNCHANGED <<state, targets, version, running, held, generation, callbacks, since, binding, messages, told,
                  client, inbox, ticks>>
  BY DEF Callback, session, server, hub, page
<1>8. w.pc = "push" => w.msg[1] = Kind(t) /\ w.msg = News(t)
  BY <1>4, <1>5
<1>9. Types'
  BY <1>6, <1>7 DEF Types
<1>10. Control'
  BY <1>5, <1>6, <1>7, <1>8 DEF Control, News
<1>11. Subscriptions'
  <2>1. left # <<>> => Growing(Tail(left)) /\ \A i \in 1..Len(Tail(left)) : Tail(left)[i] <= g
    <3>1. ASSUME left # <<>>
          PROVE  Growing(Tail(left)) /\ \A i \in 1..Len(Tail(left)) : Tail(left)[i] <= g
      <4>1. Growing(Tail(left)) /\ Len(Tail(left)) = Len(left) - 1 /\ Len(left) \in Nat
        BY <1>3, <3>1, GrowingEnd, Shortened
      <4>2. \A i \in 1..Len(Tail(left)) : Tail(left)[i] = left[i + 1] /\ i + 1 \in 1..Len(left)
        BY <1>3, <3>1, <4>1, Shortened
      <4>3. QED
        BY <1>3, <4>1, <4>2
    <3>2. QED
      BY <3>1
  <2>2. Growing(w.left) /\ \A i \in 1..Len(w.left) : w.left[i] <= g
    <3>1. CASE w.left = <<>>
      BY <3>1, EmptyGrows
    <3>2. CASE left # <<>> /\ w.left = Tail(left)
      BY <2>1, <3>2
    <3>3. QED
      BY <1>5, <3>1, <3>2
  <2>3. QED
    BY <1>2, <1>6, <1>7, <2>2 DEF Subscriptions, Source
<1>12. Bound'
  BY <1>7 DEF Bound, Subscribed
<1>13. Numbered'
  BY <1>1, <1>2, <1>5, <1>6, <1>7 DEF Numbered, Number, Kind, Untold
<1>14. Reported'
  <2>1. CASE t = "stats"
    <3>1. http' = http
      BY <1>6, <2>1
    <3>2. QED
      BY <1>7, <3>1 DEF Reported, WillTell
  <2>2. CASE t = "http" /\ left # <<>> /\ Last(left) = generation["session"]
    <3>1. WillTell'
      <4>1. CASE w.pc = "push"
        BY <1>6, <1>8, <2>2, <4>1 DEF WillTell, Kind
      <4>2. CASE w.pc = "callback"
        <5>1. Head(left) # Last(left) /\ w.left = Tail(left)
          BY <1>2, <1>5, <2>2, <4>2 DEF Source
        <5>2. Tail(left) # <<>> /\ Last(Tail(left)) = Last(left)
          BY <1>3, <2>2, <5>1, Shortened
        <5>3. QED
          BY <1>6, <1>7, <2>2, <4>2, <5>1, <5>2 DEF WillTell
      <4>3. QED
        BY <1>5, <2>2, <4>1, <4>2
    <3>2. QED
      BY <1>7, <3>1 DEF Reported
  <2>3. CASE t = "http" /\ ~(left # <<>> /\ Last(left) = generation["session"])
    <3>1. ~WillTell
      BY <1>1, <1>2, <2>3 DEF WillTell
    <3>2. QED
      BY <1>7, <3>1 DEF Reported
  <2>4. QED
    BY <2>1, <2>2, <2>3
<1>15. TargetsReported'
  BY <1>1, <1>5, <1>6, <1>7 DEF TargetsReported, WillTellTargets
<1>16. NothingMissed'
  BY <1>1, <1>5, <1>6, <1>7 DEF NothingMissed
<1>17. QED
  BY <1>9, <1>10, <1>11, <1>12, <1>13, <1>14, <1>15, <1>16

\* A message is kept and handed to the transport, unless the server has stopped.
LEMMA PushKeeps ==
  ASSUME IInv, NEW t \in Threads, Push(t)
  PROVE  IInv'
<1> USE DEF IInv, http, stats, Threads, At
<1>1. work[t].pc = "push" /\ work \in [Threads -> WorkType] /\ work[t].left = <<>>
  BY Working DEF Push, Control
<1>2. PICK kind, number : work[t].msg = <<kind, number>> /\ kind \in Kinds /\ number \in Nat
        /\ \/ kind = Kind(t) /\ number = Number(t)
           \/ t = "http" /\ kind = "targets" /\ number = targets
  BY <1>1 DEF Control, Kind, Number, Kinds, Types
<1>3. /\ work' \in [Threads -> WorkType] /\ \A u \in Threads : u # t => work'[u] = work[u]
      /\ work'[t].todo = work[t].todo /\ work'[t].left = <<>> /\ work'[t].tell = work[t].tell
      /\ work'[t].msg = work[t].msg
      /\ \/ running /\ work'[t].pc = "transport"
         \/ ~running /\ work'[t].pc = "callback" /\ kind # "state"
         \/ ~running /\ work'[t].pc = "readTargets" /\ kind = "state" /\ t = "http"
  <2>1. CASE running
    BY <1>1, <2>1, Goes DEF Push
  <2>2. CASE ~running
    <3>1. After(work[t].msg) = IF kind = "state" THEN "readTargets" ELSE "callback"
      BY <1>2 DEF After
    <3>2. kind = "state" => t = "http"
      BY <1>2 DEF Kind
    <3>3. Goto(t, After(work[t].msg))
      BY <2>2 DEF Push
    <3>4. QED
      BY <1>1, <2>2, <3>1, <3>2, <3>3, Goes
  <2>3. QED
    BY <2>1, <2>2
<1>4. UNCHANGED <<state, targets, version, running, held, generation, callbacks, since, binding, client, ticks>>
  BY DEF Push, session, server
<1>5. /\ messages' \in Seq(Kinds \X Nat) /\ Len(messages') <= MaxHistory
      /\ \A m \in ToSet(messages') :
           (m \in ToSet(messages) /\ (m \in inbox => m \in inbox')) \/ (running /\ m = work[t].msg)
  <2>1. CASE running
    <3>1. messages' = Kept(Append(messages, work[t].msg)) /\ inbox' = inbox \cap ToSet(messages')
      BY <2>1 DEF Push, Keep
    <3>2. work[t].msg \in Kinds \X Nat /\ messages \in Seq(Kinds \X Nat) /\ Len(messages) <= MaxHistory
      BY <1>2 DEF Types, Subscriptions
    <3>3. PICK msg : msg = work[t].msg
      OBVIOUS
    <3>4. /\ messages' \in Seq(Kinds \X Nat) /\ Len(messages') <= MaxHistory
          /\ ToSet(messages') \subseteq ToSet(messages) \cup {msg}
      BY <3>1, <3>2, <3>3, KeptMessages
    <3>5. QED
      BY <2>1, <3>1, <3>3, <3>4
  <2>2. CASE ~running
    BY <2>2 DEF Push, hub, Types, Subscriptions
  <2>3. QED
    BY <2>1, <2>2
<1>6. told' = IF running THEN [told EXCEPT ![kind] = IF kind = "targets" THEN <<number>> ELSE Append(@, number)] ELSE told
  BY <1>2 DEF Push, Keep, hub
<1>7. ~running => /\ since = Never /\ since.state + 1 .. version = {} /\ ~(targets > since.targets)
  BY Due DEF Bound, Subscribed
<1>8. /\ told \in [Kinds -> Seq(Nat)] /\ told' \in [Kinds -> Seq(Nat)]
      /\ \A k \in Kinds : told'[k] = IF running /\ k = kind THEN IF kind = "targets" THEN <<number>> ELSE Append(told[k], number)
                                   ELSE told[k]
  <2>1. told \in [Kinds -> Seq(Nat)]
    BY DEF Types
  <2>2. PICK s : s = IF kind = "targets" THEN <<number>> ELSE Append(told[kind], number)
    OBVIOUS
  <2>3. s \in Seq(Nat)
    BY <1>2, <2>1, <2>2
  <2>4. told' = IF running THEN [told EXCEPT ![kind] = s] ELSE told
    BY <1>6, <2>2
  <2>5. QED
    BY <1>2, <2>1, <2>2, <2>3, <2>4
<1>9. /\ Kind(t) # "targets" /\ Kind(t) \in Kinds /\ Number(t) \in Nat
      /\ \A u \in Threads : u # t => Kind(u) # Kind(t)
  BY DEF Kind, Kinds, Number, Types
<1>10. /\ told[Kind(t)] \in Seq(Nat) /\ Growing(told[Kind(t)])
       /\ kind = Kind(t) => \A i \in 1..Len(told[Kind(t)]) : told[Kind(t)][i] < Number(t)
  BY <1>1, <1>2, <1>8, <1>9 DEF Numbered, Untold
<1>11. kind = Kind(t) =>
         /\ number = Number(t)
         /\ Growing(Append(told[kind], number)) /\ Len(Append(told[kind], number)) = Len(told[kind]) + 1
         /\ \A i \in 1..Len(Append(told[kind], number)) : Append(told[kind], number)[i] <= number
         /\ \A i \in 1..Len(told[kind]) : Append(told[kind], number)[i] = told[kind][i]
         /\ Append(told[kind], number)[Len(told[kind]) + 1] = number
         /\ Len(told[kind]) \in Nat
  BY <1>2, <1>9, <1>10, GrowingMore
<1>12. Types'
  BY <1>3, <1>4, <1>5, <1>8 DEF Types
<1>13. Control'
  <2>1. work'[t].msg[1] = kind /\ (t = "stats" => kind = "stats") /\ (t = "http" => kind \in {"state", "targets"})
    BY <1>2, <1>3 DEF Kind
  <2>2. QED
    BY <1>3, <1>4, <2>1 DEF Control
<1>14. Subscriptions'
  <2>1. \A u \in Threads : work'[u].left = work[u].left
    BY <1>1, <1>3
  <2>2. QED
    BY <1>4, <1>5, <2>1 DEF Subscriptions, Source
<1>15. Bound'
  BY <1>4 DEF Bound, Subscribed
<1>16. Numbered'
  <2>1. ASSUME NEW u \in Threads, u # t
        PROVE  told'[Kind(u)] = told[Kind(u)] /\ work'[u] = work[u]
    BY <1>2, <1>3, <1>8, <1>9, <2>1 DEF Kind, Kinds
  <2>2. \A u \in Threads : Kind(u)' = Kind(u) /\ Number(u)' = Number(u)
    BY <1>4 DEF Kind, Number
  <2>3. ASSUME NEW u \in Threads
        PROVE  /\ Growing(told'[Kind(u)])
               /\ \A i \in 1..Len(told'[Kind(u)]) :
                    told'[Kind(u)][i] <= Number(u) /\ (u # t /\ Untold(u) => told'[Kind(u)][i] < Number(u))
    <3>1. CASE u # t
      BY <2>1, <3>1 DEF Numbered
    <3>2. CASE u = t /\ told'[Kind(t)] = told[Kind(t)]
      BY <3>2 DEF Numbered
    <3>3. CASE u = t /\ told'[Kind(t)] = Append(told[kind], number) /\ kind = Kind(t)
      BY <1>11, <3>3
    <3>4. QED
      BY <1>2, <1>8, <1>9, <3>1, <3>2, <3>3
  <2>4. ASSUME NEW u \in Threads, Untold(u)'
        PROVE  u # t /\ Untold(u)
    BY <1>1, <1>3, <2>1, <2>4 DEF Untold
  <2>5. QED
    BY <2>2, <2>3, <2>4 DEF Numbered
<1>17. Reported'
  <2>1. CASE t = "http" /\ kind = "state" /\ running
    <3>1. told'["state"] = Append(told[kind], number) /\ number = version /\ kind = Kind(t)
      BY <1>2, <1>8, <2>1 DEF Kinds, Kind, Number
    <3>2. \A i \in 1..Len(told["state"]) : i \in 1..Len(told'["state"]) /\ told'["state"][i] = told["state"][i]
      BY <1>11, <2>1, <3>1
    <3>3. \E i \in 1..Len(told'["state"]) : told'["state"][i] = version
      <4>1. Len(told["state"]) + 1 \in 1..Len(told'["state"]) /\ told'["state"][Len(told["state"]) + 1] = version
        BY <1>11, <2>1, <3>1
      <4>2. QED
        BY <4>1
    <3>4. QED
      BY <1>4, <3>2, <3>3 DEF Reported
  <2>2. CASE ~running
    BY <1>4, <1>7, <2>2 DEF Reported
  <2>3. CASE t = "stats" \/ kind = "targets"
    <3>1. kind # "state"
      BY <1>2, <2>3 DEF Kind
    <3>2. told'["state"] = told["state"]
      BY <1>8, <3>1 DEF Kinds
    <3>3. WillTell => WillTell'
      BY <1>1, <1>2, <1>3, <1>4, <3>1 DEF WillTell
    <3>4. QED
      BY <1>4, <3>2, <3>3 DEF Reported
  <2>4. QED
    BY <1>2, <2>1, <2>2, <2>3 DEF Kind
<1>18. TargetsReported'
  <2>1. CASE running /\ kind = "targets"
    <3>1. told'["targets"] = <<targets>>
      BY <1>2, <1>8, <1>9, <2>1 DEF Kinds
    <3>2. QED
      BY <1>4, <3>1 DEF TargetsReported
  <2>2. CASE ~running
    BY <1>4, <1>7, <2>2 DEF TargetsReported
  <2>3. CASE kind # "targets"
    <3>1. told'["targets"] = told["targets"]
      BY <1>8, <2>3 DEF Kinds
    <3>2. WillTellTargets => WillTellTargets'
      BY <1>1, <1>2, <1>3, <2>3 DEF WillTellTargets
    <3>3. QED
      BY <1>4, <3>1, <3>2 DEF TargetsReported
  <2>4. QED
    BY <2>1, <2>2, <2>3
<1>19. NothingMissed'
  <2>1. \A u \in Threads : work[u].pc = "transport" => work'[u] = work[u]
    BY <1>1, <1>3
  <2>2. running => work'[t].pc = "transport" /\ work'[t].msg = work[t].msg
    BY <1>3
  <2>3. ASSUME client = "here", NEW m \in ToSet(messages')
        PROVE  m \in inbox' \/ \E u \in Threads : work'[u].pc = "transport" /\ work'[u].msg = m
    <3>1. CASE m \in ToSet(messages) /\ (m \in inbox => m \in inbox')
      BY <2>1, <2>3, <3>1 DEF NothingMissed
    <3>2. CASE running /\ m = work[t].msg
      BY <2>2, <3>2
    <3>3. QED
      BY <1>5, <2>3, <3>1, <3>2
  <2>4. QED
    BY <1>4, <2>3 DEF NothingMissed
<1>20. QED
  BY <1>12, <1>13, <1>14, <1>15, <1>16, <1>17, <1>18, <1>19

\* A message is sent to the pages connected.
LEMMA TransportKeeps ==
  ASSUME IInv, NEW t \in Threads, Transport(t)
  PROVE  IInv'
<1> USE DEF IInv, http, stats, Threads, At
<1>1. /\ work[t].pc = "transport" /\ work \in [Threads -> WorkType] /\ work[t].left = <<>>
      /\ (t = "stats" => work[t].msg[1] = "stats") /\ (t = "http" => work[t].msg[1] \in {"state", "targets"})
  BY Working DEF Transport, Control
<1>2. After(work[t].msg) \in {"readTargets", "callback"} /\ (t = "stats" => After(work[t].msg) = "callback")
  BY <1>1 DEF After
<1>3. /\ work' \in [Threads -> WorkType] /\ \A u \in Threads : u # t => work'[u] = work[u]
      /\ work'[t].todo = work[t].todo /\ work'[t].left = <<>> /\ work'[t].tell = work[t].tell
      /\ work'[t].msg = work[t].msg /\ work'[t].pc \in {"readTargets", "callback"}
      /\ (t = "stats" => work'[t].pc = "callback")
  BY <1>1, <1>2, Goes DEF Transport
<1>4. UNCHANGED <<state, targets, version, running, held, generation, callbacks, since, binding, messages, told, client, ticks>>
  BY DEF Transport, session, server, hub
<1>5. inbox' = IF client = "away" THEN inbox ELSE inbox \cup (ToSet(messages) \cap {work[t].msg})
  BY DEF Transport
<1>6. Types'
  BY <1>3, <1>4 DEF Types
<1>7. Control'
  BY <1>1, <1>3, <1>4 DEF Control
<1>8. Subscriptions'
  BY <1>1, <1>3, <1>4 DEF Subscriptions, Source
<1>9. Bound'
  BY <1>4 DEF Bound, Subscribed
<1>10. Numbered'
  BY <1>1, <1>3, <1>4 DEF Numbered, Number, Kind, Untold
<1>11. Reported'
  BY <1>1, <1>3, <1>4 DEF Reported, WillTell
<1>12. TargetsReported'
  BY <1>1, <1>3, <1>4 DEF TargetsReported, WillTellTargets
<1>13. NothingMissed'
  <2>1. messages' = messages /\ client' = client
    BY <1>4
  <2>2. \A u \in Threads : u # t => work'[u] = work[u]
    BY <1>3
  <2>3. ASSUME client = "here", NEW m \in ToSet(messages)
        PROVE  m \in inbox' \/ \E u \in Threads : work'[u].pc = "transport" /\ work'[u].msg = m
    <3>1. m \in inbox \/ \E u \in Threads : work[u].pc = "transport" /\ work[u].msg = m
      BY <2>3 DEF NothingMissed
    <3>2. inbox \subseteq inbox' /\ (m = work[t].msg => m \in inbox')
      BY <1>5, <2>3
    <3>3. QED
      BY <2>2, <3>1, <3>2
  <2>4. QED
    BY <2>1, <2>3 DEF NothingMissed
<1>14. QED
  BY <1>6, <1>7, <1>8, <1>9, <1>10, <1>11, <1>12, <1>13

\* The targets are read to be told.
LEMMA ReadTargetsKeeps ==
  ASSUME IInv, NEW t \in Threads, ReadTargets(t)
  PROVE  IInv'
<1> USE DEF IInv, http, stats, Threads, At
<1>1. t = "http" /\ http.pc = "readTargets" /\ work \in [Threads -> WorkType] /\ http \in WorkType /\ http.left = <<>>
  BY Working DEF ReadTargets, Control
<1>2. /\ work' \in [Threads -> WorkType] /\ stats' = stats
      /\ http'.pc = IF "session" \in held THEN "push" ELSE "callback"
      /\ http'.msg = <<"targets", targets>> /\ http'.todo = http.todo /\ http'.tell = http.tell /\ http'.left = <<>>
  <2>1. PICK w : w = [http EXCEPT !.pc = IF "session" \in held THEN "push" ELSE "callback", !.msg = <<"targets", targets>>]
    OBVIOUS
  <2>2. <<"targets", targets>> \in (Kinds \cup {"none"}) \X Nat
    BY DEF Types, Kinds
  <2>3. /\ w \in WorkType /\ w.pc = (IF "session" \in held THEN "push" ELSE "callback")
        /\ w.msg = <<"targets", targets>> /\ w.todo = http.todo /\ w.tell = http.tell /\ w.left = http.left
    BY <1>1, <2>1, <2>2 DEF WorkType
  <2>4. work' = [work EXCEPT !["http"] = w]
    BY <1>1, <2>1 DEF ReadTargets
  <2>5. QED
    BY <1>1, <2>3, <2>4, Change
<1>3. UNCHANGED <<state, targets, version, running, held, generation, callbacks, since, binding, messages, told,
                  client, inbox, ticks>>
  BY DEF ReadTargets, session, server, hub, page
<1>4. "session" \notin held => since.state + 1 .. version = {} /\ ~(targets > since.targets)
  BY Due DEF Bound, Subscribed
<1>5. Types'
  BY <1>2, <1>3 DEF Types
<1>6. Control'
  BY <1>1, <1>2, <1>3 DEF Control
<1>7. Subscriptions'
  BY <1>1, <1>2, <1>3 DEF Subscriptions, Source
<1>8. Bound'
  BY <1>3 DEF Bound, Subscribed
<1>9. Numbered'
  BY <1>1, <1>2, <1>3 DEF Numbered, Number, Kind, Untold
<1>10. Reported'
  BY <1>1, <1>2, <1>3 DEF Reported, WillTell
<1>11. TargetsReported'
  BY <1>2, <1>3, <1>4 DEF TargetsReported, WillTellTargets
<1>12. NothingMissed'
  BY <1>1, <1>2, <1>3 DEF NothingMissed
<1>13. QED
  BY <1>5, <1>6, <1>7, <1>8, <1>9, <1>10, <1>11, <1>12

\* Any step.
LEMMA NextKeeps ==
  ASSUME IInv, [Next]_vars
  PROVE  IInv'
<1>1. CASE Call \/ RunAggregator
  BY <1>1, CallKeeps, AggregatorKeeps
<1>2. ASSUME NEW t \in Threads, ThreadStep(t)
      PROVE  IInv'
  BY <1>2, RunKeeps, PublishKeeps, CallbackKeeps, PushKeeps, TransportKeeps, ReadTargetsKeeps DEF ThreadStep
<1>3. ASSUME NEW s \in Services, SetService(s)
      PROVE  IInv'
  BY <1>3, ServiceKeeps
<1>4. CASE Start \/ Stop \/ Connect \/ GetBacklog
  BY <1>4, StartKeeps, StopKeeps, ConnectKeeps, BacklogKeeps
<1>5. CASE BindStep
  <2>1. CASE Bind("stats", "bindStats", "onUpdate")
    BY <2>1, BindKeeps DEF Services, Bindings
  <2>2. CASE Bind("session", "bindSession", "onStateChanged")
    BY <2>2, BindKeeps DEF Services, Bindings
  <2>3. CASE OnUpdate \/ OnStateChanged
    BY <2>3, UpdateKeeps, StateChangedKeeps
  <2>4. QED
    BY <1>5, <2>1, <2>2, <2>3 DEF BindStep
<1>6. CASE UNCHANGED vars
  BY <1>6, Stutters
<1>7. QED
  BY <1>1, <1>2, <1>3, <1>4, <1>5, <1>6 DEF Next

\* No server runs, nothing is subscribed.
LEMMA InitKeeps ==
  ASSUME Init
  PROVE  IInv
<1> USE DEF Init, Threads, http, stats, At
<1>1. http = Free /\ stats = Free
  OBVIOUS
<1>2. \A s \in Services : callbacks[s] = <<>> /\ generation[s] = 0
  OBVIOUS
<1>3. \A k \in Kinds : told[k] = <<>>
  OBVIOUS
<1>4. Types
  <2>1. work \in [Threads -> WorkType]
    BY FreeFields
  <2>2. /\ generation \in [Services -> Nat] /\ callbacks \in [Services -> Seq(Nat)]
        /\ messages \in Seq(Kinds \X Nat) /\ told \in [Kinds -> Seq(Nat)]
    OBVIOUS
  <2>3. targets \in 0..MaxChanges /\ since \in [state : Nat, targets : Nat]
    BY WebEventsAssumption DEF Never
  <2>4. QED
    BY <2>1, <2>2, <2>3 DEF Types, SessionState, Bindings
<1>5. Control
  BY <1>1, FreeFields, EmptyGrows, WebEventsAssumption DEF Control
<1>6. Subscriptions
  BY <1>1, <1>2, FreeFields, EmptyGrows, WebEventsAssumption DEF Subscriptions, Services
<1>7. Bound
  BY DEF Bound
<1>8. Numbered
  BY <1>1, <1>3, FreeFields, EmptyGrows DEF Numbered, Kind, Kinds, Untold
<1>9. Reported /\ TargetsReported
  BY <1>4, <1>5, Due DEF Reported, TargetsReported
<1>10. NothingMissed
  BY DEF NothingMissed
<1>11. QED
  BY <1>4, <1>5, <1>6, <1>7, <1>8, <1>9, <1>10 DEF IInv

\* The invariant holds throughout.
LEMMA Invariance == Spec => []IInv
<1>1. Init => IInv
  BY InitKeeps
<1>2. IInv /\ [Next]_vars => IInv'
  BY NextKeeps
<1>3. QED
  BY <1>1, <1>2, PTL DEF Spec

-----------------------------------------------------------------------------
(***************************************************************************)
(* What follows.                                                           *)
(***************************************************************************)

\* The history and the list of callbacks stay within their limits, however large, and no
\* subscription is of a generation that is still to come.
THEOREM TypeCorrect == Spec => []TypeOK
<1>1. IInv => TypeOK
  <2> SUFFICES ASSUME IInv
               PROVE  TypeOK
    OBVIOUS
  <2>1. \A s \in Services : callbacks[s] \in Seq(Nat)
    BY DEF IInv, Types
  <2>2. \A s \in Services : DOMAIN callbacks[s] = 1..Len(callbacks[s])
    BY <2>1
  <2>3. \A s \in Services : \A i \in DOMAIN callbacks[s] : callbacks[s][i] \in 1..generation[s]
    BY <2>2 DEF IInv, Subscriptions
  <2>4. Len(messages) <= MaxHistory /\ Len(callbacks.stats) <= MaxCallbacks
    BY DEF IInv, Subscriptions
  <2>5. QED
    BY <2>3, <2>4 DEF IInv, Types, TypeOK
<1>2. QED
  BY <1>1, Invariance, PTL

\* However often the server subscribes anew, nothing is told twice, and intervals are told in
\* their order.
THEOREM TellsOnce == Spec => []ToldOnce
<1>1. IInv => ToldOnce
  <2> SUFFICES ASSUME IInv
               PROVE  ToldOnce
    OBVIOUS
  <2>1. ASSUME NEW k \in {"state", "stats"}
        PROVE  /\ told[k] \in Seq(Nat) /\ DOMAIN told[k] = 1..Len(told[k]) /\ Len(told[k]) \in Nat
               /\ \A i, j \in 1..Len(told[k]) : i < j => told[k][i] < told[k][j]
    <3>1. told[k] \in Seq(Nat)
      BY DEF IInv, Types, Kinds
    <3>2. Growing(told[k])
      BY DEF IInv, Numbered, Kind, Threads
    <3>3. QED
      BY <3>1, <3>2 DEF Growing
  <2>2. \A i, j \in DOMAIN told["stats"] : i < j => told["stats"][i] < told["stats"][j]
    BY <2>1
  <2>3. ASSUME NEW i \in DOMAIN told["state"], NEW j \in DOMAIN told["state"], i # j
        PROVE  told["state"][i] # told["state"][j]
    <3>1. i \in 1..Len(told["state"]) /\ j \in 1..Len(told["state"])
      BY <2>1
    <3>2. told["state"][i] \in Nat /\ told["state"][j] \in Nat
      BY <2>1, <3>1
    <3>3. i < j \/ j < i
      BY <2>1, <2>3, <3>1
    <3>4. QED
      BY <2>1, <3>1, <3>2, <3>3
  <2>4. QED
    BY <2>2, <2>3 DEF ToldOnce
<1>2. QED
  BY <1>1, Invariance, PTL

\* A request is answered when what it did has been told, and at rest the pages show the session
\* and its targets as they are.
THEOREM Current == Spec => []PagesAreCurrent
<1>1. IInv => PagesAreCurrent
  <2> SUFFICES ASSUME IInv
               PROVE  PagesAreCurrent
    OBVIOUS
  <2>1. /\ told["state"] \in Seq(Nat) /\ told["targets"] \in Seq(Nat) /\ version \in Nat
        /\ since \in [state : Nat, targets : Nat] /\ targets \in Nat
    BY DEF IInv, Types, Kinds
  <2>2. DOMAIN told["state"] = 1..Len(told["state"]) /\ Len(told["state"]) \in Nat
    BY <2>1
  <2>3. ASSUME At("http", "idle"), NEW n \in since.state + 1 .. version
        PROVE  \E i \in 1..Len(told["state"]) : told["state"][i] = n
    BY <2>3 DEF IInv, Reported, WillTell, At, http
  <2>4. ToldBeforeAnswer
    BY <2>2, <2>3 DEF ToldBeforeAnswer, ToSet
  <2>5. ASSUME Resting, version > since.state
        PROVE  LastTold("state") = version
    <3>1. PICK i \in 1..Len(told["state"]) : told["state"][i] = version
      <4>1. version \in since.state + 1 .. version
        BY <2>1, <2>5
      <4>2. QED
        BY <2>3, <2>5, <4>1 DEF Resting, Threads
    <3>2. PICK last : last = Len(told["state"])
      OBVIOUS
    <3>3. last \in 1..Len(told["state"]) /\ told["state"][last] \in Nat /\ told["state"] # <<>>
      BY <2>1, <2>2, <3>1, <3>2
    <3>4. told["state"][last] <= version /\ (i < last => told["state"][i] < told["state"][last])
      BY <3>3 DEF IInv, Numbered, Growing, Kind, Number, Threads
    <3>5. told["state"][last] = version
      BY <2>1, <2>2, <3>1, <3>2, <3>3, <3>4
    <3>6. QED
      BY <3>2, <3>3, <3>5 DEF LastTold, Last
  <2>6. ASSUME Resting, targets > since.targets
        PROVE  LastTold("targets") = targets
    <3>1. told["targets"] = <<targets>>
      BY <2>6 DEF IInv, TargetsReported, WillTellTargets, Resting, At, Threads, http
    <3>2. QED
      BY <3>1 DEF LastTold, Last
  <2>7. QED
    BY <2>4, <2>5, <2>6 DEF PagesAreCurrent, LastToldIsCurrent
<1>2. QED
  BY <1>1, Invariance, PTL

\* For a page that has connected nothing falls between the messages kept and the new ones.
THEOREM NoneMissed == Spec => []NothingMissed
<1>1. IInv => NothingMissed
  BY DEF IInv
<1>2. QED
  BY <1>1, Invariance, PTL
=============================================================================
