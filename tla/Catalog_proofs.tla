----------------------------- MODULE Catalog_proofs -----------------------------
(***************************************************************************)
(* Proofs about the bundles and their pointers: nobody keeps what is gone, *)
(* the engine knows its captures and replaces none of them, the session    *)
(* leaves no recording open.                                               *)
(***************************************************************************)
EXTENDS Catalog, FiniteSetTheorems, WellFoundedInduction, TLAPS

-----------------------------------------------------------------------------
(***************************************************************************)
(* The inductive invariant.                                                *)
(***************************************************************************)
Starts == {"start", "activate", "next", "refused"}
Stops == {"stop", "clear"}

WorkType ==
  [op : {"none", "StartPlugin", "StopPlugin", "StartRecording", "StopRecording", "OpenForPlayback",
         "StartBundle", "StopBundle"},
   pc : {"idle", "added", "open", "finalize", "erase", "removed"} \cup Starts \cup Stops,
   todo : SUBSET Protocols, begun : SUBSET (Protocols \cup {"core", "web"}),
   now : Protocols \cup {"none"}, bundle : Bundles \cup {"none"}]

Types ==
  /\ TypeOK
  /\ work \in [Threads -> WorkType] /\ entries \in [DOMAIN entries -> Configs]
  /\ mappings \in Mappings \cup {<<>>} /\ faults \in Nat
  /\ stopping \in BOOLEAN /\ storage \in BOOLEAN /\ core \in BOOLEAN /\ http \in BOOLEAN
  /\ overlapped \in BOOLEAN /\ openedOver \in BOOLEAN

main == work["main"]
request == work["http"]

\* What a request does, and which steps it takes.
HttpControl ==
  /\ request.pc = "idle" <=> request = Idle
  /\ request.op = "none" <=> request.pc = "idle"
  /\ request.op \notin {"StartBundle", "StopBundle"} /\ request.bundle = "none" /\ request.begun \subseteq Protocols
  /\ request.op = "StartPlugin" => request.pc \in Starts
  /\ request.op = "StopPlugin" => request.pc \in Stops
  /\ request.op = "StartRecording" => request.pc \in Starts \cup Stops \cup {"finalize"}
  /\ request.op = "StopRecording" => request.pc \in Stops \cup {"finalize"}
  /\ request.op = "OpenForPlayback" => request.pc = "open"
  /\ request.pc \in {"activate", "clear"} => request.now \in Protocols
  /\ request.pc # "idle" => "web" \in started /\ main.bundle # "web"
  /\ request.op = "StartPlugin" => \A p \in request.todo : p \in DOMAIN entries /\ entries[p] # Invalid

\* What main does while bundles start, and once the framework stops.
MainControl ==
  /\ main.pc = "idle" <=> main = Idle
  /\ main.pc = "idle" <=> main.op = "none"
  /\ main.op \in {"none", "StartBundle", "StopBundle", "StopRecording"}
  /\ main.op = "StartBundle" => main.pc = "added" /\ main.begun # {}
  /\ main.begun \subseteq started
  /\ main.op = "StopBundle" => main.pc \in Stops \cup {"erase", "removed"}
  /\ main.op = "StopRecording" => main.pc \in Stops \cup {"finalize"} /\ main.bundle = "session"
  /\ main.op = "StopBundle" /\ main.pc # "removed" => main.bundle \in Protocols \cup {"core"}
  /\ main.pc \in {"clear", "erase"} => main.now \in Protocols
  /\ main.op = "StopBundle" /\ main.bundle \in Protocols =>
       main.todo \subseteq {main.bundle} /\ (main.pc \in {"clear", "erase"} => main.now = main.bundle)
  /\ main.pc # "idle" => main.bundle \in started /\ (stopping <=> main.op # "StartBundle")
  /\ main.bundle = "core" /\ main.op # "StartBundle" => "core" \notin main.begun

\* The engine is yet to be told that the storage is there, or that it goes.
StorageDue == main.bundle \in {"core", "storage"} /\ (main.op = "StartBundle" => "core" \in main.begun)

\* The catalog is yet to be told that the core is there.
CoreDue == main.op = "StartBundle" /\ main.bundle \in {"core", "web"} /\ "web" \in main.begun

\* Who is pointed to is started, and so is who points.
Pointers ==
  /\ attached \subseteq started /\ (attached # {} => "core" \in started)
  /\ DOMAIN entries \subseteq started /\ (DOMAIN entries # {} => "web" \in started)
  /\ storage => StoragePointer(started)
  /\ core => CorePointer(started)
  /\ http => SessionPointer(started)
  /\ StoragePointer(started) => storage \/ StorageDue
  /\ ~stopping /\ CorePointer(started) => core \/ CoreDue

\* What is left of a bundle that stops, as its trackers are told one after the other.
Released ==
  main.op \notin {"none", "StartBundle"} =>
    LET b == main.bundle
    IN /\ b \in attached => \/ main.pc = "removed" /\ "core" \in main.begun
                            \/ main.pc = "stop" /\ b \in main.todo
                            \/ main.pc \in {"clear", "erase"} /\ main.now = b
       /\ b = "core" => \A p \in attached : \/ p \in main.todo /\ main.pc # "removed"
                                            \/ main.pc \in {"clear", "erase"} /\ main.now = p
       /\ b = "core" /\ main.pc = "removed" => ~storage
       /\ b = "storage" /\ "core" \notin main.begun => ~storage
       /\ (main.pc = "removed" \/ b \in Protocols) /\ "web" \notin main.begun =>
            b \notin DOMAIN entries /\ (b = "core" => ~core) /\ (b = "session" => ~http)

\* No bundle stops under a request, unless the two have overlapped.
OneAtATime == ~overlapped => main.op \in {"none", "StartBundle"} \/ request = Idle

\* Captures: what is offered is active, but for the step between.
Captures ==
  ~overlapped =>
    /\ \A p \in Protocols : p \notin active /\ offered[p] # Silent => request.pc = "activate" /\ request.now = p
    /\ \A t \in Threads : work[t].pc \in {"clear", "erase"} => offered[work[t].now] = Silent
    /\ request.pc = "activate" => request.now \in attached
    /\ faults = 0 =>
         /\ \A p \in Protocols : p \in active /\ offered[p] = Silent =>
              \E t \in Threads : work[t].pc = "clear" /\ work[t].now = p
         /\ request.pc = "activate" => offered[request.now] # Silent

\* Files: an open one is being recorded, until core or storage are gone or another is opened over it.
Recordable ==
  ~overlapped /\ StoragePointer(started) /\ (main.op = "StartBundle" \/ main.bundle \notin {"core", "storage"})
Files ==
  /\ ~stopping /\ ~storage => file # "open"
  /\ Recordable /\ file = "open" => state \in RecordingStates \/ request.op = "StartRecording" \/ openedOver
  /\ Recordable /\ stopping /\ "session" \notin started => file # "open" \/ openedOver
  /\ Recordable /\ main.bundle = "session" /\ main.pc = "removed" => file # "open" \/ openedOver

IInv ==
  /\ Types /\ HttpControl /\ MainControl /\ Pointers /\ Released /\ OneAtATime
  /\ RulesAreListed /\ Captures /\ Files
-----------------------------------------------------------------------------
(***************************************************************************)
(* Lemmas about the operators and the work of the threads.                 *)
(***************************************************************************)

\* What is assumed of the constants.
LEMMA Constants ==
  /\ \A p \in Protocols : Default[p] \in Configs \ {Invalid}
  /\ Silent \notin Configs
  /\ Bundles = Protocols \cup {"core", "session", "storage", "web"}
  /\ \A p \in Protocols : p \notin {"core", "session", "storage", "web", "none"}
  BY CatalogAssumption

\* The work of one thread is replaced.
LEMMA Change ==
  ASSUME work \in [Threads -> WorkType], NEW t \in Threads, NEW w \in WorkType,
         work' = [work EXCEPT ![t] = w]
  PROVE  /\ work' \in [Threads -> WorkType] /\ work'[t] = w
         /\ \A u \in Threads : u # t => work'[u] = work[u]
  OBVIOUS

\* A thread goes to another step.
LEMMA Goes ==
  ASSUME work \in [Threads -> WorkType], NEW t \in Threads, NEW pc, Goto(t, pc),
         pc \in {"idle", "added", "open", "finalize", "erase", "removed"} \cup Starts \cup Stops
  PROVE  /\ work' \in [Threads -> WorkType]
         /\ \A u \in Threads : u # t => work'[u] = work[u]
         /\ work'[t].pc = pc /\ work'[t].op = work[t].op /\ work'[t].todo = work[t].todo
         /\ work'[t].begun = work[t].begun /\ work'[t].now = work[t].now /\ work'[t].bundle = work[t].bundle
<1>1. work[t] \in WorkType
  OBVIOUS
<1>2. PICK w : w = [work[t] EXCEPT !.pc = pc]
  OBVIOUS
<1>3. w \in WorkType
  BY <1>1, <1>2 DEF WorkType
<1>4. work' = [work EXCEPT ![t] = w]
  <2>1. work' = [work EXCEPT ![t].pc = pc]
    BY DEF Goto
  <2>2. work' = [work EXCEPT ![t] = [work[t] EXCEPT !.pc = pc]]
    BY <2>1, Zenon
  <2>3. QED
    BY <1>2, <2>2
<1>5. /\ w.pc = pc /\ w.op = work[t].op /\ w.todo = work[t].todo
      /\ w.begun = work[t].begun /\ w.now = work[t].now /\ w.bundle = work[t].bundle
  BY <1>1, <1>2 DEF WorkType
<1>6. QED
  BY <1>3, <1>4, <1>5, Change

\* A thread is done.
LEMMA IsDone ==
  ASSUME work \in [Threads -> WorkType], NEW t \in Threads, Ends(t)
  PROVE  /\ work' \in [Threads -> WorkType] /\ work'[t] = Idle
         /\ \A u \in Threads : u # t => work'[u] = work[u]
<1>1. Idle \in WorkType
  BY DEF Idle, WorkType
<1>2. QED
  BY <1>1, Change DEF Ends

\* A request begins.
LEMMA HasBegun ==
  ASSUME work \in [Threads -> WorkType], NEW t \in Threads, NEW op, NEW pc, NEW todo, Begins(t, op, pc, todo),
         op \in {"StartPlugin", "StopPlugin", "StartRecording", "StopRecording", "OpenForPlayback", "StopBundle"},
         pc \in {"open"} \cup Starts \cup Stops, todo \subseteq Protocols
  PROVE  /\ work' \in [Threads -> WorkType]
         /\ \A u \in Threads : u # t => work'[u] = work[u]
         /\ work'[t].op = op /\ work'[t].pc = pc /\ work'[t].todo = todo
         /\ work'[t].begun = {} /\ work'[t].now = "none" /\ work'[t].bundle = "none"
<1>1. PICK w : w = [Idle EXCEPT !.op = op, !.pc = pc, !.todo = todo]
  OBVIOUS
<1>2. w = [op |-> op, pc |-> pc, todo |-> todo, begun |-> {}, now |-> "none", bundle |-> "none"]
  BY <1>1 DEF Idle
<1>3. w \in WorkType
  BY <1>2 DEF WorkType
<1>4. work' = [work EXCEPT ![t] = w]
  BY <1>1 DEF Begins
<1>5. QED
  BY <1>2, <1>3, <1>4, Change

\* What is idle, as fields.
LEMMA IdleFields ==
  /\ Idle.op = "none" /\ Idle.pc = "idle" /\ Idle.todo = {} /\ Idle.begun = {}
  /\ Idle.now = "none" /\ Idle.bundle = "none"
  BY DEF Idle

\* What the types say of the work.
LEMMA Working ==
  ASSUME Types
  PROVE  /\ work \in [Threads -> WorkType]
         /\ \A t \in Threads : /\ work[t].todo \subseteq Protocols
                               /\ work[t].begun \subseteq Protocols \cup {"core", "web"}
                               /\ work[t].now \in Protocols \cup {"none"}
                               /\ work[t].bundle \in Bundles \cup {"none"}
                               /\ work[t].op \in {"none", "StartPlugin", "StopPlugin", "StartRecording",
                                                  "StopRecording", "OpenForPlayback", "StartBundle",
                                                  "StopBundle"}
                               /\ work[t].pc \in {"idle", "added", "open", "finalize", "erase", "removed"} \cup Starts \cup Stops
  BY DEF Types, WorkType

\* Nothing happens.
LEMMA Stutters ==
  ASSUME IInv, UNCHANGED vars
  PROVE  IInv'
<1> USE DEF vars, bundleVars, engineVars, catalogVars, sessionVars, history, IInv, main, request
<1>1. Types' /\ HttpControl' /\ MainControl'
  BY DEF Types, TypeOK, HttpControl, MainControl
<1>2. Pointers' /\ Released' /\ OneAtATime'
  BY DEF Pointers, StorageDue, CoreDue, Released, OneAtATime
<1>3. RulesAreListed' /\ Captures' /\ Files'
  BY DEF RulesAreListed, Captures, Files, Recordable
<1>4. QED
  BY <1>1, <1>2, <1>3

\* A protocol of the call is taken.
LEMMA Taking ==
  ASSUME work \in [Threads -> WorkType], NEW t \in Threads, NEW p \in Protocols, NEW pc \in {"activate", "next"},
         Takes(t, p, pc)
  PROVE  /\ work' \in [Threads -> WorkType]
         /\ \A u \in Threads : u # t => work'[u] = work[u]
         /\ work'[t].pc = pc /\ work'[t].op = work[t].op /\ work'[t].todo = work[t].todo \ {p}
         /\ work'[t].begun = work[t].begun \cup {p} /\ work'[t].now = p
         /\ work'[t].bundle = work[t].bundle
<1>1. work[t] \in WorkType
  OBVIOUS
<1>2. PICK w : w = [work[t] EXCEPT !.pc = pc, !.begun = @ \cup {p}, !.todo = @ \ {p}, !.now = p]
  OBVIOUS
<1>3. /\ w \in WorkType /\ w.pc = pc /\ w.op = work[t].op /\ w.todo = work[t].todo \ {p}
      /\ w.begun = work[t].begun \cup {p} /\ w.now = p /\ w.bundle = work[t].bundle
  BY <1>1, <1>2 DEF WorkType, Starts
<1>4. work' = [work EXCEPT ![t] = w]
  <2>1. work' = [work EXCEPT ![t] = [work[t] EXCEPT !.pc = pc, !.begun = @ \cup {p}, !.todo = @ \ {p}, !.now = p]]
    BY DEF Takes
  <2>2. QED
    BY <1>2, <2>1
<1>5. QED
  BY <1>3, <1>4, Change

\* A protocol of the call is refused.
LEMMA Refusing ==
  ASSUME work \in [Threads -> WorkType], NEW t \in Threads, NEW p \in Protocols, Refuses(t, p)
  PROVE  /\ work' \in [Threads -> WorkType]
         /\ \A u \in Threads : u # t => work'[u] = work[u]
         /\ work'[t].pc = "refused" /\ work'[t].op = work[t].op /\ work'[t].todo = {p}
         /\ work'[t].begun = work[t].begun /\ work'[t].now = work[t].now
         /\ work'[t].bundle = work[t].bundle
<1>1. work[t] \in WorkType
  OBVIOUS
<1>2. PICK w : w = [work[t] EXCEPT !.pc = "refused", !.todo = {p}]
  OBVIOUS
<1>3. /\ w \in WorkType /\ w.pc = "refused" /\ w.op = work[t].op /\ w.todo = {p}
      /\ w.begun = work[t].begun /\ w.now = work[t].now /\ w.bundle = work[t].bundle
  BY <1>1, <1>2 DEF WorkType, Starts
<1>4. work' = [work EXCEPT ![t] = w]
  <2>1. work' = [work EXCEPT ![t] = [work[t] EXCEPT !.pc = "refused", !.todo = {p}]]
    BY DEF Refuses
  <2>2. QED
    BY <1>2, <2>1
<1>5. QED
  BY <1>3, <1>4, Change

\* The trackers of a bundle are to be told.
LEMMA Unregistering ==
  ASSUME work \in [Threads -> WorkType], NEW trackers \in SUBSET {"core", "web"}, Unregisters(trackers)
  PROVE  /\ work' \in [Threads -> WorkType] /\ request' = request
         /\ main'.op = "StopBundle" /\ main'.pc = "removed" /\ main'.begun = trackers \cap started
         /\ main'.todo = main.todo /\ main'.now = main.now /\ main'.bundle = main.bundle
<1> USE DEF main, request, Threads
<1>1. main \in WorkType
  OBVIOUS
<1>2. PICK w : w = [main EXCEPT !.op = "StopBundle", !.pc = "removed", !.begun = trackers \cap started]
  OBVIOUS
<1>3. /\ w \in WorkType /\ w.pc = "removed" /\ w.op = "StopBundle" /\ w.todo = main.todo
      /\ w.begun = trackers \cap started /\ w.now = main.now /\ w.bundle = main.bundle
  BY <1>1, <1>2 DEF WorkType
<1>4. work' = [work EXCEPT !["main"] = w]
  BY <1>2 DEF Unregisters
<1>5. QED
  BY <1>3, <1>4, Change

\* A finite set of positions has a greatest one.
LEMMA Greatest ==
  ASSUME NEW n \in Nat, NEW S \in SUBSET (1 .. n), S # {}
  PROVE  Max(S) \in S
<1> DEFINE Above(i) == (i + 1) .. n
           T == {Above(i) : i \in S}
<1>1. T \subseteq SUBSET (1 .. n) /\ T # {}
  <2>1. ASSUME NEW i \in S
        PROVE  Above(i) \subseteq 1 .. n
    OBVIOUS
  <2> HIDE DEF Above
  <2>2. QED
    BY <2>1
<1>2. PICK x \in T : \A y \in T : ~(<<y, x>> \in StrictSubsetOrdering(1 .. n))
  <2>1. IsFiniteSet(1 .. n)
    BY FS_Interval
  <2>2. IsWellFoundedOn(StrictSubsetOrdering(1 .. n), SUBSET (1 .. n))
    BY <2>1, FS_StrictSubsetOrderingWellFounded, FS_FiniteSubsetsOfFinite
  <2> HIDE DEF T
  <2>3. QED
    BY <1>1, <2>2, WFMin
<1>3. PICK i \in S : x = Above(i)
  OBVIOUS
<1>4. ASSUME NEW j \in S
      PROVE  i >= j
  <2>1. SUFFICES ASSUME i < j
                 PROVE  FALSE
    OBVIOUS
  <2>2. Above(j) \subseteq Above(i) /\ j \in Above(i) /\ j \notin Above(j)
    BY <2>1
  <2>3. Above(j) \in T /\ Above(j) \in SUBSET (1 .. n) /\ Above(i) \in SUBSET (1 .. n)
    BY <1>1
  <2>4. <<Above(j), x>> \in StrictSubsetOrdering(1 .. n)
    <3> HIDE DEF Above
    <3>1. QED
      BY <1>3, <2>2, <2>3 DEF StrictSubsetOrdering
  <2>5. QED
    BY <1>2, <2>3, <2>4
<1>5. QED
  BY <1>4 DEF Max

\* The rules that the catalog makes of a list of mappings stem from it.
LEMMA NewRules ==
  ASSUME NEW listed, NEW list, list \in Seq(ToSet(list)), NEW c \in DOMAIN SetMappings(listed, list)
  PROVE  \E m \in ToSet(list) : m.target = SetMappings(listed, list)[c].topic
<1> DEFINE Source(i) == FirstChannel(listed, list[i].source)
           From == {i \in Compiled(listed, list) : Source(i) = c}
           last == Max(From)
<1>1. From # {} /\ SetMappings(listed, list)[c].topic = list[last].target
  BY DEF SetMappings
<1>2. From \subseteq 1 .. Len(list) /\ Len(list) \in Nat
  BY DEF Compiled
<1>3. last \in DOMAIN list
  <2>1. last \in From
    <3> HIDE DEF From
    <3>1. QED
      BY <1>1, <1>2, Greatest
  <2>2. QED
    BY <2>1 DEF Compiled
<1>4. list[last] \in ToSet(list)
  BY <1>3 DEF ToSet
<1>5. QED
  BY <1>1, <1>4
-----------------------------------------------------------------------------
(***************************************************************************)
(* Every step keeps the invariant.                                         *)
(***************************************************************************)

\* A configuration is saved.
LEMMA ConfigKeeps ==
  ASSUME IInv, NEW p \in Protocols, NEW config \in Configs, HandlePluginConfig(p, config)
  PROVE  IInv'
<1> USE DEF IInv, main, request, Threads, At, bundleVars, engineVars, catalogVars, sessionVars, history
<1>1. work' = work /\ request = Idle /\ entries' = [entries EXCEPT ![p] = config] /\ DOMAIN entries' = DOMAIN entries
  BY DEF HandlePluginConfig, ForPlugin, Request, SavePluginConfig, HttpControl
<1>2. entries' \in [DOMAIN entries' -> Configs]
  BY <1>1 DEF Types
<1>3. overlapped' = (overlapped \/ main.op \notin {"none", "StartBundle"})
  BY DEF HandlePluginConfig, ForPlugin, Request
<1>4. Types'
  BY <1>1, <1>2, <1>3, IdleFields DEF HandlePluginConfig, Types, TypeOK
<1>5. HttpControl'
  BY <1>1, <1>2, <1>3, IdleFields DEF HandlePluginConfig, HttpControl, Starts, Stops
<1>6. MainControl'
  BY <1>1, <1>2, <1>3, IdleFields DEF HandlePluginConfig, MainControl, Starts, Stops
<1>7. Pointers'
  BY <1>1, <1>2, <1>3, IdleFields DEF HandlePluginConfig, Pointers, StorageDue, CoreDue, StoragePointer, CorePointer, SessionPointer
<1>8. Released'
  BY <1>1, <1>2, <1>3, IdleFields DEF HandlePluginConfig, Released
<1>9. OneAtATime'
  BY <1>1, <1>2, <1>3, IdleFields DEF HandlePluginConfig, OneAtATime
<1>10. RulesAreListed'
  BY <1>1, <1>2, <1>3, IdleFields DEF HandlePluginConfig, RulesAreListed
<1>11. Captures'
  BY <1>1, <1>2, <1>3, IdleFields DEF HandlePluginConfig, Captures, OneAtATime, HttpControl, MainControl
<1>12. Files'
  BY <1>1, <1>2, <1>3, IdleFields DEF HandlePluginConfig, Files, Recordable, Pointers, StoragePointer, SessionPointer, OneAtATime, HttpControl, MainControl
<1>13. QED
  BY <1>4, <1>5, <1>6, <1>7, <1>8, <1>9, <1>10, <1>11, <1>12 DEF IInv

\* The mappings are replaced.
LEMMA MappingsKeep ==
  ASSUME IInv, NEW list \in Mappings, HandleSetMappings(list)
  PROVE  IInv'
<1> USE DEF IInv, main, request, Threads, At, bundleVars, engineVars, catalogVars, sessionVars, history
<1>1. work' = work /\ request = Idle
  BY DEF HandleSetMappings, Request, HttpControl
<1>2. overlapped' = (overlapped \/ main.op \notin {"none", "StartBundle"})
  BY DEF HandleSetMappings, Request
<1>3. Types'
  BY <1>1, <1>2, IdleFields DEF HandleSetMappings, Types, TypeOK
<1>4. HttpControl'
  BY <1>1, <1>2, IdleFields DEF HandleSetMappings, HttpControl, Starts, Stops
<1>5. MainControl'
  BY <1>1, <1>2, IdleFields DEF HandleSetMappings, MainControl, Starts, Stops
<1>6. Pointers'
  BY <1>1, <1>2, IdleFields DEF HandleSetMappings, Pointers, StorageDue, CoreDue, StoragePointer, CorePointer, SessionPointer
<1>7. Released'
  BY <1>1, <1>2, IdleFields DEF HandleSetMappings, Released
<1>8. OneAtATime'
  BY <1>1, <1>2, IdleFields DEF HandleSetMappings, OneAtATime
<1>9. RulesAreListed'
  <2>1. mappings' = list /\ core' = core
    BY DEF HandleSetMappings
  <2>2. list \in Seq(ToSet(list))
    BY CatalogAssumption
  <2>3. CASE core
    <3>1. PICK made : made = SetMappings(DOMAIN entries, list)
      OBVIOUS
    <3>2. rules' = made
      BY <2>3, <3>1 DEF HandleSetMappings
    <3>3. \A c \in DOMAIN made : \E m \in ToSet(list) : m.target = made[c].topic
      BY <2>2, <3>1, NewRules
    <3>4. QED
      BY <2>1, <3>2, <3>3 DEF RulesAreListed
  <2>4. CASE ~core
    BY <2>1, <2>4 DEF RulesAreListed
  <2>5. QED
    BY <2>3, <2>4
<1>10. Captures'
  BY <1>1, <1>2, IdleFields DEF HandleSetMappings, Captures, OneAtATime, HttpControl, MainControl
<1>11. Files'
  BY <1>1, <1>2, IdleFields DEF HandleSetMappings, Files, Recordable, Pointers, StoragePointer, SessionPointer, OneAtATime, HttpControl, MainControl
<1>12. QED
  BY <1>3, <1>4, <1>5, <1>6, <1>7, <1>8, <1>9, <1>10, <1>11 DEF IInv

\* A plugin is to be started.
LEMMA PluginStartKeeps ==
  ASSUME IInv, NEW p \in Protocols, HandlePluginStart(p)
  PROVE  IInv'
<1> USE DEF IInv, main, request, Threads, At, bundleVars, engineVars, catalogVars, sessionVars, history
<1>1. request = Idle /\ overlapped' = (overlapped \/ main.op \notin {"none", "StartBundle"})
  BY DEF HandlePluginStart, ForPlugin, Request, HttpControl
<1>2. \/ work' = work
      \/ /\ work' \in [Threads -> WorkType] /\ main' = main
         /\ request'.op = "StartPlugin" /\ request'.pc = "start" /\ request'.todo = {p}
         /\ request'.begun = {} /\ request'.now = "none" /\ request'.bundle = "none"
  BY Working, HasBegun DEF HandlePluginStart, Types, TypeOK, Starts, Stops, ForPlugin, Request
<1>3. Types'
  BY <1>1, <1>2, Working, IdleFields DEF HandlePluginStart, ForPlugin, Request, Types, TypeOK
<1>4. HttpControl'
  BY <1>1, <1>2, Working, IdleFields DEF HandlePluginStart, ForPlugin, Request, HttpControl, Starts, Stops
<1>5. MainControl'
  BY <1>1, <1>2, Working, IdleFields DEF HandlePluginStart, ForPlugin, Request, MainControl, Starts, Stops
<1>6. Pointers'
  BY <1>1, <1>2, Working, IdleFields DEF HandlePluginStart, ForPlugin, Request, Pointers, StorageDue, CoreDue, StoragePointer, CorePointer, SessionPointer
<1>7. Released'
  BY <1>1, <1>2, Working, IdleFields DEF HandlePluginStart, ForPlugin, Request, Released
<1>8. OneAtATime'
  BY <1>1, <1>2, Working, IdleFields DEF HandlePluginStart, ForPlugin, Request, OneAtATime
<1>9. RulesAreListed'
  BY <1>1, <1>2, Working, IdleFields DEF HandlePluginStart, ForPlugin, Request, RulesAreListed
<1>10. Captures'
  BY <1>1, <1>2, Working, IdleFields DEF HandlePluginStart, ForPlugin, Request, Captures, OneAtATime, HttpControl, MainControl
<1>11. Files'
  BY <1>1, <1>2, Working, IdleFields DEF HandlePluginStart, ForPlugin, Request, Files, Recordable, Pointers, StoragePointer, SessionPointer, OneAtATime, HttpControl, MainControl
<1>12. QED
  BY <1>3, <1>4, <1>5, <1>6, <1>7, <1>8, <1>9, <1>10, <1>11 DEF IInv

\* A plugin is to be stopped.
LEMMA PluginStopKeeps ==
  ASSUME IInv, NEW p \in Protocols, HandlePluginStop(p)
  PROVE  IInv'
<1> USE DEF IInv, main, request, Threads, At, bundleVars, engineVars, catalogVars, sessionVars, history
<1>1. request = Idle /\ overlapped' = (overlapped \/ main.op \notin {"none", "StartBundle"})
  BY DEF HandlePluginStop, ForPlugin, Request, HttpControl
<1>2. /\ work' \in [Threads -> WorkType] /\ main' = main
      /\ request'.op = "StopPlugin" /\ request'.pc = "stop" /\ request'.todo = {p}
      /\ request'.begun = {} /\ request'.now = "none" /\ request'.bundle = "none"
  BY Working, HasBegun DEF HandlePluginStop, Types, TypeOK, Starts, Stops, ForPlugin, Request
<1>3. Types'
  BY <1>1, <1>2, Working, IdleFields DEF HandlePluginStop, ForPlugin, Request, Types, TypeOK
<1>4. HttpControl'
  BY <1>1, <1>2, Working, IdleFields DEF HandlePluginStop, ForPlugin, Request, HttpControl, Starts, Stops
<1>5. MainControl'
  BY <1>1, <1>2, Working, IdleFields DEF HandlePluginStop, ForPlugin, Request, MainControl, Starts, Stops
<1>6. Pointers'
  BY <1>1, <1>2, Working, IdleFields DEF HandlePluginStop, ForPlugin, Request, Pointers, StorageDue, CoreDue, StoragePointer, CorePointer, SessionPointer
<1>7. Released'
  BY <1>1, <1>2, Working, IdleFields DEF HandlePluginStop, ForPlugin, Request, Released
<1>8. OneAtATime'
  BY <1>1, <1>2, Working, IdleFields DEF HandlePluginStop, ForPlugin, Request, OneAtATime
<1>9. RulesAreListed'
  BY <1>1, <1>2, Working, IdleFields DEF HandlePluginStop, ForPlugin, Request, RulesAreListed
<1>10. Captures'
  BY <1>1, <1>2, Working, IdleFields DEF HandlePluginStop, ForPlugin, Request, Captures, OneAtATime, HttpControl, MainControl
<1>11. Files'
  BY <1>1, <1>2, Working, IdleFields DEF HandlePluginStop, ForPlugin, Request, Files, Recordable, Pointers, StoragePointer, SessionPointer, OneAtATime, HttpControl, MainControl
<1>12. QED
  BY <1>3, <1>4, <1>5, <1>6, <1>7, <1>8, <1>9, <1>10, <1>11 DEF IInv

\* A recording is to begin.
LEMMA RecordStartKeeps ==
  ASSUME IInv, NEW names \in SUBSET Protocols, HandleRecordStart(names)
  PROVE  IInv'
<1> USE DEF IInv, main, request, Threads, At, bundleVars, engineVars, catalogVars, sessionVars, history
<1>1. request = Idle /\ overlapped' = (overlapped \/ main.op \notin {"none", "StartBundle"})
  BY DEF HandleRecordStart, Request, HttpControl
<1>2. /\ work' \in [Threads -> WorkType] /\ main' = main
      /\ \/ /\ file' = "open" /\ openedOver' = FALSE
            /\ request'.op = "StartRecording" /\ request'.pc = "start" /\ request'.todo = names
            /\ request'.begun = {} /\ request'.now = "none" /\ request'.bundle = "none"
         \/ file' # "open" /\ openedOver' = openedOver /\ request' = request
  BY Working, HasBegun DEF HandleRecordStart, Types, TypeOK, Starts, Stops, Request
<1>3. Types'
  BY <1>1, <1>2, Working, IdleFields DEF HandleRecordStart, Request, Types, TypeOK
<1>4. HttpControl'
  BY <1>1, <1>2, Working, IdleFields DEF HandleRecordStart, Request, HttpControl, Starts, Stops
<1>5. MainControl'
  BY <1>1, <1>2, Working, IdleFields DEF HandleRecordStart, Request, MainControl, Starts, Stops
<1>6. Pointers'
  BY <1>1, <1>2, Working, IdleFields DEF HandleRecordStart, Request, Pointers, StorageDue, CoreDue, StoragePointer, CorePointer, SessionPointer
<1>7. Released'
  BY <1>1, <1>2, Working, IdleFields DEF HandleRecordStart, Request, Released
<1>8. OneAtATime'
  BY <1>1, <1>2, Working, IdleFields DEF HandleRecordStart, Request, OneAtATime
<1>9. RulesAreListed'
  BY <1>1, <1>2, Working, IdleFields DEF HandleRecordStart, Request, RulesAreListed
<1>10. Captures'
  BY <1>1, <1>2, Working, IdleFields DEF HandleRecordStart, Request, Captures, OneAtATime, HttpControl, MainControl
<1>11. Files'
  <2>1. UNCHANGED <<started, stopping, storage, state>> /\ storage /\ http
    BY DEF HandleRecordStart
  <2>2. "session" \in started /\ main' = main
    BY <1>2, <2>1 DEF Pointers, SessionPointer
  <2>3. Recordable' => Recordable /\ main.op \in {"none", "StartBundle"}
    BY <1>1, <2>1, <2>2 DEF Recordable, StoragePointer
  <2>4. main.pc = "removed" => main.op \notin {"none", "StartBundle"}
    BY DEF MainControl
  <2>5. CASE file' = "open" /\ request'.op = "StartRecording"
    BY <2>1, <2>2, <2>3, <2>4, <2>5 DEF Files
  <2>6. CASE file' # "open"
    BY <2>1, <2>2, <2>6 DEF Files
  <2>7. QED
    BY <1>2, <2>5, <2>6
<1>12. QED
  BY <1>3, <1>4, <1>5, <1>6, <1>7, <1>8, <1>9, <1>10, <1>11 DEF IInv

\* A recording is to end.
LEMMA RecordStopKeeps ==
  ASSUME IInv, HandleRecordStop
  PROVE  IInv'
<1> USE DEF IInv, main, request, Threads, At, bundleVars, engineVars, catalogVars, sessionVars, history
<1>1. request = Idle /\ overlapped' = (overlapped \/ main.op \notin {"none", "StartBundle"})
  BY DEF HandleRecordStop, StopRecording, Request, HttpControl
<1>2. /\ work' \in [Threads -> WorkType] /\ main' = main
      /\ request'.op = "StopRecording" /\ request'.pc = "stop" /\ request'.todo = recorded
      /\ request'.begun = {} /\ request'.now = "none" /\ request'.bundle = "none"
  BY Working, HasBegun DEF HandleRecordStop, Types, TypeOK, Starts, Stops, StopRecording, Request
<1>3. Types'
  BY <1>1, <1>2, Working, IdleFields DEF HandleRecordStop, StopRecording, Request, Types, TypeOK
<1>4. HttpControl'
  BY <1>1, <1>2, Working, IdleFields DEF HandleRecordStop, StopRecording, Request, HttpControl, Starts, Stops
<1>5. MainControl'
  BY <1>1, <1>2, Working, IdleFields DEF HandleRecordStop, StopRecording, Request, MainControl, Starts, Stops
<1>6. Pointers'
  BY <1>1, <1>2, Working, IdleFields DEF HandleRecordStop, StopRecording, Request, Pointers, StorageDue, CoreDue, StoragePointer, CorePointer, SessionPointer
<1>7. Released'
  BY <1>1, <1>2, Working, IdleFields DEF HandleRecordStop, StopRecording, Request, Released
<1>8. OneAtATime'
  BY <1>1, <1>2, Working, IdleFields DEF HandleRecordStop, StopRecording, Request, OneAtATime
<1>9. RulesAreListed'
  BY <1>1, <1>2, Working, IdleFields DEF HandleRecordStop, StopRecording, Request, RulesAreListed
<1>10. Captures'
  BY <1>1, <1>2, Working, IdleFields DEF HandleRecordStop, StopRecording, Request, Captures, OneAtATime, HttpControl, MainControl
<1>11. Files'
  <2>1. UNCHANGED <<started, stopping, storage, file, state, openedOver>>
    BY DEF HandleRecordStop, Request
  <2>2. Recordable' => Recordable
    BY <1>1, <1>2, <2>1 DEF Recordable, StoragePointer
  <2>3. Recordable /\ file = "open" => state \in RecordingStates \/ openedOver
    BY <1>1, IdleFields DEF Files
  <2>4. main' = main
    BY <1>2
  <2>5. QED
    BY <2>1, <2>2, <2>3, <2>4 DEF Files, StoragePointer
<1>12. QED
  BY <1>3, <1>4, <1>5, <1>6, <1>7, <1>8, <1>9, <1>10, <1>11 DEF IInv

\* A recording pauses, or goes on.
LEMMA RecordPauseKeeps ==
  ASSUME IInv, HandleRecordPause \/ HandleRecordResume
  PROVE  IInv'
<1> USE DEF IInv, main, request, Threads, At, bundleVars, engineVars, catalogVars, sessionVars, history
<1>1. request = Idle /\ work' = work /\ overlapped' = (overlapped \/ main.op \notin {"none", "StartBundle"})
  BY DEF HandleRecordPause, HandleRecordResume, Request, HttpControl
<1>2. /\ UNCHANGED <<started, stopping, storage, attached, active, rules, offered, core, entries, mappings, engine,
                     http, recorded, file, faults, openedOver>>
      /\ state' \in SessionState /\ (state' \in RecordingStates <=> state \in RecordingStates)
  BY DEF HandleRecordPause, HandleRecordResume, RecordingStates, SessionState, Types, TypeOK
<1>3. Types'
  BY <1>1, <1>2, Working, IdleFields DEF Types, TypeOK
<1>4. HttpControl'
  BY <1>1, <1>2, Working, IdleFields DEF HttpControl, Starts, Stops
<1>5. MainControl'
  BY <1>1, <1>2, Working, IdleFields DEF MainControl, Starts, Stops
<1>6. Pointers'
  BY <1>1, <1>2, Working, IdleFields DEF Pointers, StorageDue, CoreDue, StoragePointer, CorePointer, SessionPointer
<1>7. Released'
  BY <1>1, <1>2, Working, IdleFields DEF Released
<1>8. OneAtATime'
  BY <1>1, <1>2, Working, IdleFields DEF OneAtATime
<1>9. RulesAreListed'
  BY <1>1, <1>2, Working, IdleFields DEF RulesAreListed
<1>10. Captures'
  BY <1>1, <1>2, Working, IdleFields DEF Captures, OneAtATime, HttpControl, MainControl
<1>11. Files'
  BY <1>1, <1>2, Working, IdleFields DEF Files, Recordable, Pointers, StoragePointer, SessionPointer, OneAtATime, HttpControl, MainControl
<1>12. QED
  BY <1>3, <1>4, <1>5, <1>6, <1>7, <1>8, <1>9, <1>10, <1>11 DEF IInv

\* A file is to be opened.
LEMMA PlaybackOpenKeeps ==
  ASSUME IInv, HandlePlaybackOpen
  PROVE  IInv'
<1> USE DEF IInv, main, request, Threads, At, bundleVars, engineVars, catalogVars, sessionVars, history
<1>1. request = Idle /\ overlapped' = (overlapped \/ main.op \notin {"none", "StartBundle"})
  BY DEF HandlePlaybackOpen, Request, HttpControl
<1>2. /\ work' \in [Threads -> WorkType] /\ main' = main
      /\ request'.op = "OpenForPlayback" /\ request'.pc = "open" /\ request'.todo = {}
      /\ request'.begun = {} /\ request'.now = "none" /\ request'.bundle = "none"
  BY Working, HasBegun DEF HandlePlaybackOpen
<1>3. /\ UNCHANGED <<started, stopping, storage, attached, active, rules, offered, core, entries, mappings, engine,
                     http, state, recorded, file, faults, openedOver>>
      /\ "web" \in started /\ main.bundle # "web"
  BY DEF HandlePlaybackOpen, Request
<1>4. Types'
  BY <1>1, <1>2, <1>3, Working, IdleFields DEF Types, TypeOK
<1>5. HttpControl'
  BY <1>1, <1>2, <1>3, Working, IdleFields DEF HttpControl, Starts, Stops
<1>6. MainControl'
  BY <1>1, <1>2, <1>3, Working, IdleFields DEF MainControl, Starts, Stops
<1>7. Pointers'
  BY <1>1, <1>2, <1>3, Working, IdleFields DEF Pointers, StorageDue, CoreDue, StoragePointer, CorePointer, SessionPointer
<1>8. Released'
  BY <1>1, <1>2, <1>3, Working, IdleFields DEF Released
<1>9. OneAtATime'
  BY <1>1, <1>2, <1>3, Working, IdleFields DEF OneAtATime
<1>10. RulesAreListed'
  BY <1>1, <1>2, <1>3, Working, IdleFields DEF RulesAreListed
<1>11. Captures'
  BY <1>1, <1>2, <1>3, Working, IdleFields DEF Captures, OneAtATime, HttpControl, MainControl
<1>12. Files'
  BY <1>1, <1>2, <1>3, Working, IdleFields DEF Files, Recordable, Pointers, StoragePointer, SessionPointer, OneAtATime, HttpControl, MainControl
<1>13. QED
  BY <1>4, <1>5, <1>6, <1>7, <1>8, <1>9, <1>10, <1>11, <1>12 DEF IInv

\* A file is opened, perhaps over a recording.
LEMMA OpenKeeps ==
  ASSUME IInv, OpenForPlayback
  PROVE  IInv'
<1> USE DEF IInv, main, request, Threads, At, bundleVars, engineVars, catalogVars, sessionVars, history
<1>1. request.pc = "open" /\ request.op = "OpenForPlayback" /\ request # Idle
  BY Working, IdleFields DEF OpenForPlayback, HttpControl, Starts, Stops
<1>2. work' \in [Threads -> WorkType] /\ main' = main /\ request' = Idle
  BY Working, IsDone DEF OpenForPlayback
<1>3. /\ UNCHANGED <<started, stopping, storage, attached, active, rules, offered, core, entries, mappings, engine,
                     http, recorded, file, faults, overlapped>>
      /\ state' \in SessionState /\ openedOver' \in BOOLEAN
      /\ openedOver \/ (state \in RecordingStates /\ state' \notin RecordingStates) => openedOver'
  BY DEF OpenForPlayback, RecordingStates, SessionState, Types, TypeOK
<1>4. Types'
  BY <1>1, <1>2, <1>3, Working, IdleFields DEF Types, TypeOK
<1>5. HttpControl'
  BY <1>1, <1>2, <1>3, Working, IdleFields DEF HttpControl, Starts, Stops
<1>6. MainControl'
  BY <1>1, <1>2, <1>3, Working, IdleFields DEF MainControl, Starts, Stops
<1>7. Pointers'
  BY <1>1, <1>2, <1>3, Working, IdleFields DEF Pointers, StorageDue, CoreDue, StoragePointer, CorePointer, SessionPointer
<1>8. Released'
  BY <1>1, <1>2, <1>3, Working, IdleFields DEF Released
<1>9. OneAtATime'
  BY <1>1, <1>2, <1>3, Working, IdleFields DEF OneAtATime
<1>10. RulesAreListed'
  BY <1>1, <1>2, <1>3, Working, IdleFields DEF RulesAreListed
<1>11. Captures'
  BY <1>1, <1>2, <1>3, Working, IdleFields DEF Captures, OneAtATime, HttpControl, MainControl
<1>12. Files'
  BY <1>1, <1>2, <1>3, Working, IdleFields DEF Files, Recordable, Pointers, StoragePointer, SessionPointer, OneAtATime, HttpControl, MainControl
<1>13. QED
  BY <1>4, <1>5, <1>6, <1>7, <1>8, <1>9, <1>10, <1>11, <1>12 DEF IInv

\* A capture starts, counts as started, or is refused.
LEMMA CaptureStartKeeps ==
  ASSUME IInv, NEW t \in Threads, StartProtocolCapture(t)
  PROVE  IInv'
<1> USE DEF IInv, main, request, Threads, At, bundleVars, engineVars, catalogVars, sessionVars, history
<1>1. /\ t = "http" /\ request.pc = "start" /\ request.op \in {"StartPlugin", "StartRecording"} /\ request # Idle
  BY Working, IdleFields DEF StartProtocolCapture, HttpControl, MainControl, Starts, Stops, Idle
<1>2. PICK p \in request.todo :
        \/ p \notin attached /\ Refuses("http", p) /\ offered' = offered /\ faults' = faults
        \/ p \in active /\ p \in attached /\ Takes("http", p, "next") /\ offered' = offered /\ faults' = faults
        \/ /\ p \in attached \ active /\ Takes("http", p, "activate") /\ faults' = faults
           /\ offered' = [offered EXCEPT ![p] = ConfigFor(request.op, p)]
        \/ /\ p \in attached \ active /\ Refuses("http", p) /\ faults' = faults + 1
           /\ offered' = [offered EXCEPT ![p] = Silent]
  BY <1>1 DEF StartProtocolCapture
<1>3. p \in Protocols
  BY Working
<1>4. ConfigFor(request.op, p) \in Configs \ {Invalid} /\ ConfigFor(request.op, p) # Silent
  BY <1>1, <1>3, Constants DEF ConfigFor, HttpControl, Types, TypeOK
<1>5. /\ work' \in [Threads -> WorkType] /\ main' = main
      /\ request'.op = request.op /\ request'.bundle = request.bundle
      /\ \/ /\ Takes("http", p, request'.pc) /\ request'.pc \in {"activate", "next"} /\ request'.now = p
            /\ request'.todo = request.todo \ {p} /\ request'.begun = request.begun \cup {p}
         \/ /\ request'.pc = "refused" /\ request'.todo = {p} /\ request'.begun = request.begun
            /\ request'.now = request.now
  BY <1>2, <1>3, Working, Taking, Refusing
<1>6. UNCHANGED <<started, stopping, storage, attached, active, rules, core, entries, mappings, engine, http, state,
                  recorded, file, requests, overlapped, openedOver>>
  BY DEF StartProtocolCapture
<1>7. Types'
  BY <1>1, <1>2, <1>3, <1>4, <1>5, <1>6, Working, IdleFields DEF Types, TypeOK
<1>8. HttpControl'
  BY <1>1, <1>2, <1>3, <1>4, <1>5, <1>6, Working, IdleFields DEF HttpControl, Starts, Stops
<1>9. MainControl'
  BY <1>1, <1>2, <1>3, <1>4, <1>5, <1>6, Working, IdleFields DEF MainControl, Starts, Stops
<1>10. Pointers'
  BY <1>1, <1>2, <1>3, <1>4, <1>5, <1>6, Working, IdleFields DEF Pointers, StorageDue, CoreDue, StoragePointer, CorePointer, SessionPointer
<1>11. Released'
  BY <1>1, <1>2, <1>3, <1>4, <1>5, <1>6, Working, IdleFields DEF Released
<1>12. OneAtATime'
  BY <1>1, <1>2, <1>3, <1>4, <1>5, <1>6, Working, IdleFields DEF OneAtATime
<1>13. RulesAreListed'
  BY <1>1, <1>2, <1>3, <1>4, <1>5, <1>6, Working, IdleFields DEF RulesAreListed
<1>14. Captures'
  <2> SUFFICES ASSUME ~overlapped
               PROVE  Captures'
    BY <1>6 DEF Captures
  <2>1. main.pc \notin {"clear", "erase"} /\ main' = main /\ offered \in [Protocols -> (Configs \ {Invalid}) \cup {Silent}]
    BY <1>1, <1>5, IdleFields DEF OneAtATime, MainControl, Types, TypeOK
  <2>2. \A q \in Protocols : q \notin active => offered[q] = Silent
    BY <1>1 DEF Captures
  <2>3. faults = 0 => \A q \in Protocols : q \in active => offered[q] # Silent
    BY <1>1, <2>1, IdleFields DEF Captures
  <2>4. CASE request'.pc \in {"next", "refused"}
    <3>1. offered' = offered
      BY <1>2, <1>3, <1>5, <2>1, <2>2, <2>4, Taking, Working
    <3>2. faults' = 0 => faults = 0
      BY <1>2 DEF Types
    <3>3. QED
      BY <1>6, <2>1, <2>2, <2>3, <2>4, <3>1, <3>2 DEF Captures
  <2>5. CASE request'.pc = "activate"
    <3>1. /\ p \in attached \ active /\ faults' = faults /\ request'.now = p
          /\ offered' = [offered EXCEPT ![p] = ConfigFor(request.op, p)]
      BY <1>2, <1>3, <1>5, <2>5, Taking, Refusing, Working
    <3>2. offered'[p] # Silent /\ \A q \in Protocols : q # p => offered'[q] = offered[q]
      BY <1>4, <2>1, <3>1, <1>3
    <3>3. QED
      BY <1>3, <1>6, <2>1, <2>2, <2>3, <2>5, <3>1, <3>2 DEF Captures
  <2>6. QED
    BY <1>5, <2>4, <2>5
<1>15. Files'
  BY <1>1, <1>2, <1>3, <1>4, <1>5, <1>6, Working, IdleFields DEF Files, Recordable, Pointers, StoragePointer, SessionPointer, OneAtATime, HttpControl, MainControl
<1>16. QED
  BY <1>7, <1>8, <1>9, <1>10, <1>11, <1>12, <1>13, <1>14, <1>15 DEF IInv

\* capture_active is set.
LEMMA ActivateKeeps ==
  ASSUME IInv, NEW t \in Threads, Activate(t)
  PROVE  IInv'
<1> USE DEF IInv, main, request, Threads, At, bundleVars, engineVars, catalogVars, sessionVars, history
<1>1. t = "http" /\ request.pc = "activate" /\ request # Idle
  BY Working, IdleFields DEF Activate, HttpControl, MainControl, Starts, Stops
<1>2. /\ work' \in [Threads -> WorkType] /\ main' = main
      /\ request'.pc = "next" /\ request'.op = request.op /\ request'.todo = request.todo
      /\ request'.begun = request.begun /\ request'.now = request.now /\ request'.bundle = request.bundle
  BY <1>1, Working, Goes DEF Activate, Starts
<1>3. active' = active \cup ({request.now} \cap attached)
  BY <1>1 DEF Activate
<1>4. UNCHANGED <<started, stopping, storage, attached, rules, offered, core, entries, mappings, engine, http, state,
                  recorded, file, faults, requests, overlapped, openedOver>>
  BY DEF Activate
<1>5. Types'
  BY <1>1, <1>2, <1>3, <1>4, Working, IdleFields DEF Types, TypeOK
<1>6. HttpControl'
  BY <1>1, <1>2, <1>3, <1>4, Working, IdleFields DEF HttpControl, Starts, Stops
<1>7. MainControl'
  BY <1>1, <1>2, <1>3, <1>4, Working, IdleFields DEF MainControl, Starts, Stops
<1>8. Pointers'
  BY <1>1, <1>2, <1>3, <1>4, Working, IdleFields DEF Pointers, StorageDue, CoreDue, StoragePointer, CorePointer, SessionPointer
<1>9. Released'
  BY <1>1, <1>2, <1>3, <1>4, Working, IdleFields DEF Released
<1>10. OneAtATime'
  BY <1>1, <1>2, <1>3, <1>4, Working, IdleFields DEF OneAtATime
<1>11. RulesAreListed'
  BY <1>1, <1>2, <1>3, <1>4, Working, IdleFields DEF RulesAreListed
<1>12. Captures'
  BY <1>1, <1>2, <1>3, <1>4, Working, IdleFields DEF Captures, OneAtATime, HttpControl, MainControl
<1>13. Files'
  BY <1>1, <1>2, <1>3, <1>4, Working, IdleFields DEF Files, Recordable, Pointers, StoragePointer, SessionPointer, OneAtATime, HttpControl, MainControl
<1>14. QED
  BY <1>5, <1>6, <1>7, <1>8, <1>9, <1>10, <1>11, <1>12, <1>13 DEF IInv

\* The next capture, or the end of the call.
LEMMA StartNextKeeps ==
  ASSUME IInv, NEW t \in Threads, StartNext(t)
  PROVE  IInv'
<1> USE DEF IInv, main, request, Threads, At, bundleVars, engineVars, catalogVars, sessionVars, history
<1>1. t = "http" /\ request.pc = "next" /\ request # Idle
  BY Working, IdleFields DEF StartNext, HttpControl, MainControl, Starts, Stops
<1>2. /\ work' \in [Threads -> WorkType] /\ main' = main
      /\ \/ request' = Idle
         \/ /\ request'.pc \in {"start", "refused"} /\ request'.op = request.op /\ request'.todo = request.todo
            /\ request'.begun = request.begun /\ request'.now = request.now /\ request'.bundle = request.bundle
  BY <1>1, Working, Goes, IsDone DEF StartNext, Starts
<1>3. /\ \/ state' = state /\ recorded' = recorded
         \/ request' = Idle /\ state' = "Recording" /\ recorded' = request.begun
      /\ request' = Idle => request.op = "StartPlugin" \/ state' = "Recording"
  BY <1>1, <1>2, Working, Goes, IsDone, IdleFields DEF StartNext, Starts
<1>4. UNCHANGED <<started, stopping, storage, attached, active, rules, offered, core, entries, mappings, engine, http,
                  file, faults, requests, overlapped, openedOver>>
  BY DEF StartNext
<1>5. request.begun \subseteq Protocols /\ "Recording" \in SessionState /\ "Recording" \in RecordingStates
  BY DEF HttpControl, SessionState, RecordingStates
<1>6. Types'
  BY <1>1, <1>2, <1>3, <1>4, <1>5, Working, IdleFields DEF Types, TypeOK
<1>7. HttpControl'
  BY <1>1, <1>2, <1>3, <1>4, <1>5, Working, IdleFields DEF HttpControl, Starts, Stops
<1>8. MainControl'
  BY <1>1, <1>2, <1>3, <1>4, <1>5, Working, IdleFields DEF MainControl, Starts, Stops
<1>9. Pointers'
  BY <1>1, <1>2, <1>3, <1>4, <1>5, Working, IdleFields DEF Pointers, StorageDue, CoreDue, StoragePointer, CorePointer, SessionPointer
<1>10. Released'
  BY <1>1, <1>2, <1>3, <1>4, <1>5, Working, IdleFields DEF Released
<1>11. OneAtATime'
  BY <1>1, <1>2, <1>3, <1>4, <1>5, Working, IdleFields DEF OneAtATime
<1>12. RulesAreListed'
  BY <1>1, <1>2, <1>3, <1>4, <1>5, Working, IdleFields DEF RulesAreListed
<1>13. Captures'
  BY <1>1, <1>2, <1>3, <1>4, <1>5, Working, IdleFields DEF Captures, OneAtATime, HttpControl, MainControl
<1>14. Files'
  BY <1>1, <1>2, <1>3, <1>4, <1>5, Working, IdleFields DEF Files, Recordable, Pointers, StoragePointer, SessionPointer, OneAtATime, HttpControl, MainControl
<1>15. QED
  BY <1>6, <1>7, <1>8, <1>9, <1>10, <1>11, <1>12, <1>13, <1>14 DEF IInv

\* A refused start ends the call, or the recording.
LEMMA RefusedKeeps ==
  ASSUME IInv, NEW t \in Threads, Refused(t)
  PROVE  IInv'
<1> USE DEF IInv, main, request, Threads, At, bundleVars, engineVars, catalogVars, sessionVars, history
<1>1. t = "http" /\ request.pc = "refused" /\ request # Idle /\ request.begun \subseteq Protocols
  BY Working, IdleFields DEF Refused, HttpControl, MainControl, Starts, Stops
<1>2. /\ work' \in [Threads -> WorkType] /\ main' = main
      /\ \/ request.op = "StartPlugin" /\ request' = Idle
         \/ /\ request.op = "StartRecording" /\ request'.pc = "stop" /\ request'.op = request.op
            /\ request'.todo = request.begun /\ request'.begun = {}
            /\ request'.now = request.now /\ request'.bundle = request.bundle
  <2>1. CASE request.op = "StartPlugin"
    BY <1>1, <2>1, Working, IsDone DEF Refused
  <2>2. CASE request.op # "StartPlugin"
    <3>1. request.op = "StartRecording"
      BY <1>1, <2>2, Working DEF HttpControl, Starts, Stops
    <3>2. work' = [work EXCEPT !["http"].pc = "stop", !["http"].todo = request.begun, !["http"].begun = {}]
      BY <1>1, <2>2 DEF Refused
    <3>3. PICK w : w = [request EXCEPT !.pc = "stop", !.todo = request.begun, !.begun = {}]
      OBVIOUS
    <3>4. request \in WorkType /\ request.begun \subseteq Protocols
      BY Working DEF HttpControl
    <3>5. /\ w \in WorkType /\ w.pc = "stop" /\ w.op = request.op /\ w.todo = request.begun /\ w.begun = {}
          /\ w.now = request.now /\ w.bundle = request.bundle
      BY <3>3, <3>4 DEF WorkType, Stops
    <3>6. work' = [work EXCEPT !["http"] = w]
      BY <3>2, <3>3, Working
    <3>7. QED
      BY <3>1, <3>5, <3>6, Change, Working
  <2>3. QED
    BY <2>1, <2>2
<1>3. UNCHANGED <<started, stopping, storage, attached, active, rules, offered, core, entries, mappings, engine, http,
                  state, recorded, file, faults, requests, overlapped, openedOver>>
  BY DEF Refused
<1>4. Types'
  BY <1>1, <1>2, <1>3, Working, IdleFields DEF Types, TypeOK
<1>5. HttpControl'
  BY <1>1, <1>2, <1>3, Working, IdleFields DEF HttpControl, Starts, Stops
<1>6. MainControl'
  BY <1>1, <1>2, <1>3, Working, IdleFields DEF MainControl, Starts, Stops
<1>7. Pointers'
  BY <1>1, <1>2, <1>3, Working, IdleFields DEF Pointers, StorageDue, CoreDue, StoragePointer, CorePointer, SessionPointer
<1>8. Released'
  BY <1>1, <1>2, <1>3, Working, IdleFields DEF Released
<1>9. OneAtATime'
  BY <1>1, <1>2, <1>3, Working, IdleFields DEF OneAtATime
<1>10. RulesAreListed'
  BY <1>1, <1>2, <1>3, Working, IdleFields DEF RulesAreListed
<1>11. Captures'
  BY <1>1, <1>2, <1>3, Working, IdleFields DEF Captures, OneAtATime, HttpControl, MainControl
<1>12. Files'
  BY <1>1, <1>2, <1>3, Working, IdleFields DEF Files, Recordable, Pointers, StoragePointer, SessionPointer, OneAtATime, HttpControl, MainControl
<1>13. QED
  BY <1>4, <1>5, <1>6, <1>7, <1>8, <1>9, <1>10, <1>11, <1>12 DEF IInv

\* A peer leaves.
LEMMA PeerLeavesKeeps ==
  ASSUME IInv, NEW p \in Protocols, PeerLeaves(p)
  PROVE  IInv'
<1> USE DEF IInv, main, request, Threads, At, bundleVars, engineVars, catalogVars, sessionVars, history
<1>1. work' = work /\ offered' = [offered EXCEPT ![p] = Silent] /\ faults' = faults + 1
  BY DEF PeerLeaves
<1>2. UNCHANGED <<started, stopping, storage, attached, active, rules, core, entries, mappings, engine, http,
                  state, recorded, file, requests, overlapped, openedOver>>
  BY DEF PeerLeaves
<1>3. Types'
  <2>1. offered' \in [Protocols -> (Configs \ {Invalid}) \cup {Silent}]
    BY <1>1 DEF Types, TypeOK
  <2>2. faults' \in Nat
    BY <1>1 DEF Types
  <2>3. QED
    BY <1>1, <1>2, <2>1, <2>2 DEF Types, TypeOK
<1>4. HttpControl'
  BY <1>1, <1>2, Working, IdleFields DEF HttpControl, Starts, Stops
<1>5. MainControl'
  BY <1>1, <1>2, Working, IdleFields DEF MainControl, Starts, Stops
<1>6. Pointers'
  BY <1>1, <1>2, Working, IdleFields DEF Pointers, StorageDue, CoreDue, StoragePointer, CorePointer, SessionPointer
<1>7. Released'
  BY <1>1, <1>2, Working, IdleFields DEF Released
<1>8. OneAtATime'
  BY <1>1, <1>2, Working, IdleFields DEF OneAtATime
<1>9. RulesAreListed'
  BY <1>1, <1>2, Working, IdleFields DEF RulesAreListed
<1>10. Captures'
  <2>1. faults' # 0
    BY <1>1 DEF Types
  <2>2. offered'[p] = Silent /\ \A q \in Protocols : q # p => offered'[q] = offered[q]
    BY <1>1 DEF Types, TypeOK
  <2>3. \A t \in Threads : work[t].pc \in {"clear", "erase"} => work[t].now \in Protocols
    BY Working DEF HttpControl, MainControl, Starts, Stops
  <2>4. QED
    BY <1>1, <1>2, <2>1, <2>2, <2>3 DEF Captures
<1>11. Files'
  BY <1>1, <1>2, Working, IdleFields DEF Files, Recordable, Pointers, StoragePointer, SessionPointer, OneAtATime, HttpControl, MainControl
<1>12. QED
  BY <1>3, <1>4, <1>5, <1>6, <1>7, <1>8, <1>9, <1>10, <1>11 DEF IInv

\* The framework stops.
LEMMA StopFrameworkKeeps ==
  ASSUME IInv, StopFramework
  PROVE  IInv'
<1> USE DEF IInv, main, request, Threads, At, bundleVars, engineVars, catalogVars, sessionVars, history
<1>1. work' = work /\ stopping' = TRUE /\ ~stopping /\ "session" \in started /\ main = Idle
  BY Constants DEF StopFramework, MainControl
<1>2. UNCHANGED <<started, storage, attached, active, rules, offered, core, entries, mappings, engine, http,
                  state, recorded, file, faults, requests, overlapped, openedOver>>
  BY DEF StopFramework
<1>3. Types'
  BY <1>1, <1>2, Working, IdleFields DEF Types, TypeOK
<1>4. HttpControl'
  BY <1>1, <1>2, Working, IdleFields DEF HttpControl, Starts, Stops
<1>5. MainControl'
  BY <1>1, <1>2, Working, IdleFields DEF MainControl, Starts, Stops
<1>6. Pointers'
  BY <1>1, <1>2, Working, IdleFields DEF Pointers, StorageDue, CoreDue, StoragePointer, CorePointer, SessionPointer
<1>7. Released'
  BY <1>1, <1>2, Working, IdleFields DEF Released
<1>8. OneAtATime'
  BY <1>1, <1>2, Working, IdleFields DEF OneAtATime
<1>9. RulesAreListed'
  BY <1>1, <1>2, Working, IdleFields DEF RulesAreListed
<1>10. Captures'
  BY <1>1, <1>2 DEF Captures
<1>11. Files'
  BY <1>1, <1>2, Working, IdleFields DEF Files, Recordable, Pointers, StoragePointer, SessionPointer, OneAtATime, HttpControl, MainControl
<1>12. QED
  BY <1>3, <1>4, <1>5, <1>6, <1>7, <1>8, <1>9, <1>10, <1>11 DEF IInv

\* A capture is stopped.
LEMMA CaptureStopKeeps ==
  ASSUME IInv, NEW t \in Threads, StopProtocolCapture(t)
  PROVE  IInv'
<1> USE DEF IInv, main, request, Threads, At, bundleVars, engineVars, catalogVars, sessionVars, history
<1>1. work[t].pc = "stop" /\ work[t] # Idle
  BY IdleFields DEF StopProtocolCapture
<1>2. PICK p \in work[t].todo :
        /\ work' = [work EXCEPT ![t].todo = @ \ {p}, ![t].now = p, ![t].pc = IF p \in attached THEN "clear" ELSE "stop"]
        /\ offered' = [offered EXCEPT ![p] = IF p \in attached THEN Silent ELSE @]
  BY DEF StopProtocolCapture
<1>3. p \in Protocols /\ offered \in [Protocols -> (Configs \ {Invalid}) \cup {Silent}]
  BY Working DEF Types, TypeOK
<1>4. /\ work' \in [Threads -> WorkType]
      /\ \A u \in Threads : u # t => work'[u] = work[u]
      /\ p \in attached => work'[t].pc = "clear"
      /\ p \notin attached => work'[t].pc = "stop"
      /\ work'[t].op = work[t].op /\ work'[t].todo = work[t].todo \ {p}
      /\ work'[t].begun = work[t].begun /\ work'[t].now = p /\ work'[t].bundle = work[t].bundle
  <2>1. PICK pc \in Stops : pc = IF p \in attached THEN "clear" ELSE "stop"
    BY DEF Stops
  <2>2. PICK w : w = [work[t] EXCEPT !.todo = @ \ {p}, !.now = p, !.pc = pc]
    OBVIOUS
  <2>3. work \in [Threads -> WorkType] /\ work[t] \in WorkType
    BY Working
  <2>4. /\ w \in WorkType /\ w.pc = pc /\ w.op = work[t].op /\ w.todo = work[t].todo \ {p}
        /\ w.begun = work[t].begun /\ w.now = p /\ w.bundle = work[t].bundle
    BY <1>3, <2>1, <2>2, <2>3 DEF WorkType
  <2>5. work' = [work EXCEPT ![t] = w]
    BY <1>2, <2>1, <2>2
  <2>6. QED
    BY <2>1, <2>3, <2>4, <2>5, Change
<1>5. /\ \A q \in Protocols : q # p => offered'[q] = offered[q]
      /\ p \in attached => offered'[p] = Silent
      /\ p \notin attached => offered'[p] = offered[p]
      /\ offered' \in [Protocols -> (Configs \ {Invalid}) \cup {Silent}]
  BY <1>2, <1>3
<1>6. UNCHANGED <<started, stopping, storage, attached, active, rules, core, entries, mappings, engine, http,
                  state, recorded, file, faults, requests, overlapped, openedOver>>
  BY DEF StopProtocolCapture
<1>7. Types'
  BY <1>1, <1>3, <1>4, <1>5, <1>6, Working, IdleFields DEF Types, TypeOK
<1>8. HttpControl'
  BY <1>1, <1>3, <1>4, <1>5, <1>6, Working, IdleFields DEF HttpControl, Starts, Stops
<1>9. MainControl'
  BY <1>1, <1>3, <1>4, <1>5, <1>6, Working, IdleFields DEF MainControl, Starts, Stops
<1>10. Pointers'
  BY <1>1, <1>3, <1>4, <1>5, <1>6, Working, IdleFields DEF Pointers, StorageDue, CoreDue, StoragePointer, CorePointer, SessionPointer
<1>11. Released'
  BY <1>1, <1>3, <1>4, <1>5, <1>6, Working, IdleFields, Constants DEF Released, MainControl, Starts, Stops, Types, TypeOK
<1>12. OneAtATime'
  BY <1>1, <1>3, <1>4, <1>5, <1>6, Working, IdleFields DEF OneAtATime
<1>13. RulesAreListed'
  BY <1>1, <1>3, <1>4, <1>5, <1>6, Working, IdleFields DEF RulesAreListed
<1>14. Captures'
  BY <1>1, <1>3, <1>4, <1>5, <1>6, Working, IdleFields DEF Captures, OneAtATime, HttpControl, MainControl, Types, TypeOK
<1>15. Files'
  BY <1>1, <1>3, <1>4, <1>5, <1>6, Working, IdleFields DEF Files, Recordable, Pointers, StoragePointer, SessionPointer, OneAtATime, HttpControl, MainControl
<1>16. QED
  BY <1>7, <1>8, <1>9, <1>10, <1>11, <1>12, <1>13, <1>14, <1>15 DEF IInv

\* capture_active is cleared.
LEMMA ClearKeeps ==
  ASSUME IInv, NEW t \in Threads, Clear(t)
  PROVE  IInv'
<1> USE DEF IInv, main, request, Threads, At, bundleVars, engineVars, catalogVars, sessionVars, history
<1>1. work[t].pc = "clear" /\ work[t] # Idle
  BY IdleFields DEF Clear
<1>2. /\ work' \in [Threads -> WorkType]
      /\ \A u \in Threads : u # t => work'[u] = work[u]
      /\ work'[t].pc = IF work[t].op = "StopBundle" THEN "erase" ELSE "stop"
      /\ work'[t].op = work[t].op /\ work'[t].todo = work[t].todo
      /\ work'[t].begun = work[t].begun /\ work'[t].now = work[t].now /\ work'[t].bundle = work[t].bundle
  <2>1. PICK pc : pc = IF work[t].op = "StopBundle" THEN "erase" ELSE "stop"
    OBVIOUS
  <2>2. Goto(t, pc)
    BY <2>1 DEF Clear
  <2>3. QED
    BY <2>1, <2>2, Goes, Working DEF Stops
<1>3. active' = active \ {work[t].now}
  BY DEF Clear
<1>4. UNCHANGED <<started, stopping, storage, attached, rules, offered, core, entries, mappings, engine, http,
                  state, recorded, file, faults, requests, overlapped, openedOver>>
  BY DEF Clear
<1>5. Types'
  BY <1>1, <1>2, <1>3, <1>4, Working, IdleFields DEF Types, TypeOK
<1>6. HttpControl'
  BY <1>1, <1>2, <1>3, <1>4, Working, IdleFields DEF HttpControl, Starts, Stops
<1>7. MainControl'
  BY <1>1, <1>2, <1>3, <1>4, Working, IdleFields DEF MainControl, Starts, Stops
<1>8. Pointers'
  BY <1>1, <1>2, <1>3, <1>4, Working, IdleFields DEF Pointers, StorageDue, CoreDue, StoragePointer, CorePointer, SessionPointer
<1>9. Released'
  BY <1>1, <1>2, <1>3, <1>4, Working, IdleFields, Constants DEF Released, Types, TypeOK, MainControl
<1>10. OneAtATime'
  BY <1>1, <1>2, <1>3, <1>4, Working, IdleFields DEF OneAtATime
<1>11. RulesAreListed'
  BY <1>1, <1>2, <1>3, <1>4, Working, IdleFields DEF RulesAreListed
<1>12. Captures'
  BY <1>1, <1>2, <1>3, <1>4, Working, IdleFields DEF Captures, OneAtATime, HttpControl, MainControl
<1>13. Files'
  BY <1>1, <1>2, <1>3, <1>4, Working, IdleFields DEF Files, Recordable, Pointers, StoragePointer, SessionPointer, OneAtATime, HttpControl, MainControl
<1>14. QED
  BY <1>5, <1>6, <1>7, <1>8, <1>9, <1>10, <1>11, <1>12, <1>13 DEF IInv

\* A protocol is detached.
LEMMA EraseKeeps ==
  ASSUME IInv, Erase
  PROVE  IInv'
<1> USE DEF IInv, main, request, Threads, At, bundleVars, engineVars, catalogVars, sessionVars, history
<1>1. main.pc = "erase" /\ main # Idle /\ main.op = "StopBundle"
  BY Working, IdleFields DEF Erase, MainControl, Stops
<1>2. /\ work' \in [Threads -> WorkType] /\ request' = request
      /\ main'.pc = "stop" /\ main'.op = main.op /\ main'.todo = main.todo
      /\ main'.begun = main.begun /\ main'.now = main.now /\ main'.bundle = main.bundle
  BY Goes, Working DEF Erase, Stops
<1>3. attached' = attached \ {main.now} /\ active' = active \ {main.now}
  BY DEF Erase
<1>4. UNCHANGED <<started, stopping, storage, rules, offered, core, entries, mappings, engine, http,
                  state, recorded, file, faults, requests, overlapped, openedOver>>
  BY DEF Erase
<1>5. Types'
  BY <1>1, <1>2, <1>3, <1>4, Working, IdleFields DEF Types, TypeOK
<1>6. HttpControl'
  BY <1>1, <1>2, <1>3, <1>4, Working, IdleFields DEF HttpControl, Starts, Stops
<1>7. MainControl'
  BY <1>1, <1>2, <1>3, <1>4, Working, IdleFields DEF MainControl, Starts, Stops
<1>8. Pointers'
  BY <1>1, <1>2, <1>3, <1>4, Working, IdleFields DEF Pointers, StorageDue, CoreDue, StoragePointer, CorePointer, SessionPointer
<1>9. Released'
  BY <1>1, <1>2, <1>3, <1>4, Working, IdleFields DEF Released
<1>10. OneAtATime'
  BY <1>1, <1>2, <1>3, <1>4, Working, IdleFields DEF OneAtATime
<1>11. RulesAreListed'
  BY <1>1, <1>2, <1>3, <1>4, Working, IdleFields DEF RulesAreListed
<1>12. Captures'
  BY <1>1, <1>2, <1>3, <1>4, Working, IdleFields DEF Captures, OneAtATime, HttpControl, MainControl
<1>13. Files'
  BY <1>1, <1>2, <1>3, <1>4, Working, IdleFields DEF Files, Recordable, Pointers, StoragePointer, SessionPointer, OneAtATime, HttpControl, MainControl
<1>14. QED
  BY <1>5, <1>6, <1>7, <1>8, <1>9, <1>10, <1>11, <1>12, <1>13 DEF IInv

\* All captures of the call are stopped.
LEMMA StopNextKeeps ==
  ASSUME IInv, NEW t \in Threads, StopNext(t)
  PROVE  IInv'
<1> USE DEF IInv, main, request, Threads, At, bundleVars, engineVars, catalogVars, sessionVars, history
<1>1. work[t].pc = "stop" /\ work[t].todo = {} /\ work[t] # Idle
  BY IdleFields DEF StopNext
<1>2. \/ /\ t = "http" /\ work' \in [Threads -> WorkType] /\ main' = main /\ storage' = storage
         /\ \/ request' = Idle /\ request.op = "StopPlugin"
            \/ /\ request.op \in {"StartRecording", "StopRecording"} /\ request'.pc = "finalize"
               /\ request'.op = request.op /\ request'.todo = request.todo /\ request'.begun = request.begun
               /\ request'.now = request.now /\ request'.bundle = request.bundle
      \/ /\ t = "main" /\ work' \in [Threads -> WorkType] /\ request' = request
         /\ main'.todo = main.todo /\ main'.now = main.now /\ main'.bundle = main.bundle
         /\ \/ /\ main.op = "StopRecording" /\ main'.op = main.op /\ main'.pc = "finalize"
               /\ main'.begun = main.begun /\ storage' = storage
            \/ /\ main.bundle = "core" /\ main'.op = "StopBundle" /\ main'.pc = "removed"
               /\ main.op = "StopBundle" /\ main'.begun = {"web"} \cap started /\ storage' = FALSE
            \/ /\ main.bundle \in Protocols /\ main.op = "StopBundle" /\ main'.op = main.op
               /\ main'.pc = "removed" /\ main'.begun = main.begun /\ storage' = storage
  <2>1. CASE t = "http"
    <3>1. request.bundle = "none" /\ "none" \notin Protocols
      BY Constants DEF HttpControl
    <3>2. QED
      BY <1>1, <2>1, <3>1, Working, Goes, IsDone DEF StopNext
  <2>2. CASE t = "main"
    <3>1. main.pc = "stop" /\ main.op \in {"StopBundle", "StopRecording"}
      BY <1>1, <2>2 DEF MainControl
    <3>2. main.op = "StopRecording" => main.bundle = "session"
      BY DEF MainControl
    <3>3. main.bundle \in Protocols => main.bundle \notin {"core", "session"}
      BY Constants
    <3>4. CASE main.op = "StopRecording"
      BY <1>1, <2>2, <3>2, <3>3, <3>4, Working, Goes DEF StopNext
    <3>5. CASE main.op = "StopBundle" /\ main.bundle = "core"
      BY <1>1, <2>2, <3>3, <3>5, Working, Unregistering DEF StopNext
    <3>6. CASE main.op = "StopBundle" /\ main.bundle # "core"
      BY <1>1, <2>2, <3>6, Working, Goes DEF StopNext
    <3>7. QED
      BY <3>1, <3>4, <3>5, <3>6
  <2>3. QED
    BY <2>1, <2>2
<1>3. UNCHANGED <<started, stopping, attached, active, rules, offered, core, entries, mappings, engine, http,
                  state, recorded, file, faults, requests, overlapped, openedOver>>
  BY DEF StopNext
<1>4. Types'
  <2>1. work' \in [Threads -> WorkType] /\ storage' \in BOOLEAN
    BY ONLY <1>2, Types DEF Types
  <2>2. \A u \in Threads : work'[u].todo \subseteq Protocols
    BY ONLY <2>1, Constants DEF WorkType
  <2>3. QED
    BY <1>3, <2>1, <2>2 DEF Types, TypeOK
<1>5. HttpControl'
  BY <1>1, <1>2, <1>3, Working, IdleFields DEF HttpControl, Starts, Stops
<1>6. MainControl'
  BY <1>1, <1>2, <1>3, Working, IdleFields, Constants DEF MainControl, Starts, Stops
<1>7. Pointers'
  BY <1>1, <1>2, <1>3, Working, IdleFields DEF Pointers, StorageDue, CoreDue, StoragePointer, CorePointer, SessionPointer
<1>8. Released'
  BY <1>1, <1>2, <1>3, Working, IdleFields, Constants DEF Released, Pointers, CorePointer, SessionPointer, MainControl, Stops
<1>9. OneAtATime'
  BY <1>1, <1>2, <1>3, Working, IdleFields DEF OneAtATime
<1>10. RulesAreListed'
  BY <1>1, <1>2, <1>3, Working, IdleFields DEF RulesAreListed
<1>11. Captures'
  BY <1>1, <1>2, <1>3, Working, IdleFields DEF Captures, OneAtATime, HttpControl, MainControl
<1>12. Files'
  BY <1>1, <1>2, <1>3, Working, IdleFields, Constants DEF Files, Recordable, Pointers, StoragePointer, SessionPointer, OneAtATime, HttpControl, MainControl
<1>13. QED
  BY <1>4, <1>5, <1>6, <1>7, <1>8, <1>9, <1>10, <1>11, <1>12 DEF IInv

\* The file is finalized.
LEMMA FinalizeKeeps ==
  ASSUME IInv, NEW t \in Threads, Finalize(t)
  PROVE  IInv'
<1> USE DEF IInv, main, request, Threads, At, bundleVars, engineVars, catalogVars, sessionVars, history
<1>1. work[t].pc = "finalize" /\ work[t] # Idle
  BY IdleFields DEF Finalize
<1>2. \/ /\ t = "http" /\ work' \in [Threads -> WorkType] /\ main' = main /\ request' = Idle
         /\ request.op \in {"StartRecording", "StopRecording"}
      \/ /\ t = "main" /\ work' \in [Threads -> WorkType] /\ request' = request
         /\ main'.todo = main.todo /\ main'.now = main.now /\ main'.bundle = main.bundle
         /\ main.op = "StopRecording" /\ main.bundle = "session" /\ main'.op = "StopBundle"
         /\ main'.pc = "removed" /\ main'.begun = {"web"} \cap started
  <2>1. CASE t = "http"
    BY <1>1, <2>1, Working, IsDone DEF Finalize, HttpControl, Starts, Stops
  <2>2. CASE t = "main"
    BY <1>1, <2>2, Working, Unregistering DEF Finalize, MainControl, Stops
  <2>3. QED
    BY <2>1, <2>2
<1>3. UNCHANGED <<started, stopping, storage, attached, active, rules, offered, core, entries, mappings, engine, http,
                  recorded, faults, requests, overlapped, openedOver>>
  BY DEF Finalize
<1>4. /\ state' \in {state, "Stopped"} /\ "Stopped" \in SessionState
      /\ state' # state => work[t].op = "StopRecording"
      /\ file' \in {file, "final"}
      /\ work[t].op = "StopRecording" /\ storage => file' # "open"
      /\ work[t].op = "StartRecording" /\ "storage" \in started => file' # "open"
  BY DEF Finalize, SessionState
<1>5. Types'
  BY <1>1, <1>2, <1>3, <1>4, Working, IdleFields DEF Types, TypeOK
<1>6. HttpControl'
  BY <1>1, <1>2, <1>3, <1>4, Working, IdleFields DEF HttpControl, Starts, Stops
<1>7. MainControl'
  BY <1>1, <1>2, <1>3, <1>4, Working, IdleFields, Constants DEF MainControl, Starts, Stops
<1>8. Pointers'
  BY <1>1, <1>2, <1>3, <1>4, Working, IdleFields DEF Pointers, StorageDue, CoreDue, StoragePointer, CorePointer, SessionPointer
<1>9. Released'
  BY <1>1, <1>2, <1>3, <1>4, Working, IdleFields, Constants DEF Released, Pointers, CorePointer, SessionPointer, MainControl, Stops
<1>10. OneAtATime'
  BY <1>1, <1>2, <1>3, <1>4, Working, IdleFields DEF OneAtATime
<1>11. RulesAreListed'
  BY <1>1, <1>2, <1>3, <1>4, Working, IdleFields DEF RulesAreListed
<1>12. Captures'
  BY <1>1, <1>2, <1>3, <1>4, Working, IdleFields DEF Captures, OneAtATime, HttpControl, MainControl
<1>13. Files'
  <2>1. /\ file' = "open" => file = "open"
        /\ StoragePointer(started) => "storage" \in started
        /\ UNCHANGED <<started, stopping, storage, overlapped, openedOver>>
    BY <1>3, <1>4 DEF StoragePointer
  <2>2. CASE t = "http"
    <3>1. main' = main /\ request' = Idle /\ request.op \in {"StartRecording", "StopRecording"}
      BY <1>2, <2>2
    <3>2. Recordable' <=> Recordable
      BY <2>1, <3>1 DEF Recordable, StoragePointer
    <3>3. Recordable /\ ~storage => file # "open"
      BY DEF Recordable, Pointers, StorageDue, Files, MainControl
    <3>4. Recordable => file' # "open"
      BY <1>4, <2>1, <2>2, <3>1, <3>3 DEF Recordable
    <3>5. QED
      BY <2>1, <3>1, <3>2, <3>4 DEF Files
  <2>3. CASE t = "main"
    <3>1. /\ main.op = "StopRecording" /\ main.bundle = "session" /\ main'.bundle = "session" /\ stopping
          /\ main'.op = "StopBundle" /\ request' = request
      BY <1>1, <1>2, <2>3 DEF MainControl
    <3>2. Recordable' => storage
      BY <2>1, <3>1 DEF Recordable, StoragePointer, Pointers, StorageDue
    <3>3. Recordable' => file' # "open"
      BY <1>4, <2>3, <3>1, <3>2
    <3>4. QED
      BY <2>1, <3>1, <3>3 DEF Files
  <2>4. QED
    BY <2>2, <2>3
<1>14. QED
  BY <1>5, <1>6, <1>7, <1>8, <1>9, <1>10, <1>11, <1>12, <1>13 DEF IInv

\* A bundle starts.
LEMMA StartBundleKeeps ==
  ASSUME IInv, NEW b \in Bundles, StartBundle(b)
  PROVE  IInv'
<1> USE DEF IInv, main, request, Threads, At, bundleVars, engineVars, catalogVars, sessionVars, history
<1>1. main = Idle /\ ~stopping /\ b \notin started /\ started' = started \cup {b}
  BY DEF StartBundle, MainControl
<1>2. PICK trackers : /\ trackers = IF b = "web" THEN {"web"} ELSE {"core", "web"} \cap (started \cup {b})
                      /\ work' = [work EXCEPT !["main"] = IF trackers = {} THEN Idle
                                   ELSE [Idle EXCEPT !.op = "StartBundle", !.pc = "added", !.bundle = b, !.begun = trackers]]
  BY DEF StartBundle
<1>3. /\ work' \in [Threads -> WorkType] /\ request' = request
      /\ \/ main' = Idle /\ trackers = {}
         \/ /\ trackers # {} /\ main'.op = "StartBundle" /\ main'.pc = "added" /\ main'.bundle = b
            /\ main'.begun = trackers /\ main'.todo = {} /\ main'.now = "none"
  <2>1. PICK w : w = IF trackers = {} THEN Idle
                     ELSE [Idle EXCEPT !.op = "StartBundle", !.pc = "added", !.bundle = b, !.begun = trackers]
    OBVIOUS
  <2>2. trackers # {} => w = [op |-> "StartBundle", pc |-> "added", todo |-> {}, begun |-> trackers, now |-> "none",
                              bundle |-> b]
    BY <2>1 DEF Idle
  <2>3. w \in WorkType
    <3>1. Idle \in WorkType
      BY DEF Idle, WorkType
    <3>2. trackers \subseteq {"core", "web"}
      BY <1>2
    <3>3. QED
      BY <2>1, <2>2, <3>1, <3>2 DEF WorkType
  <2>4. work' = [work EXCEPT !["main"] = w]
    BY <1>2, <2>1
  <2>5. work' \in [Threads -> WorkType] /\ request' = request /\ main' = w
    BY <2>3, <2>4, Change, Working
  <2>6. CASE trackers = {}
    BY <2>1, <2>5, <2>6
  <2>7. CASE trackers # {}
    BY <2>2, <2>5, <2>7
  <2>8. QED
    BY <2>6, <2>7
<1>4. UNCHANGED <<stopping, storage, attached, active, rules, offered, core, entries, mappings, http, state, recorded,
                  file, faults, requests, overlapped, openedOver>>
  BY DEF StartBundle
<1>5. b = "web" => request = Idle
  BY <1>1 DEF HttpControl
<1>6. /\ StoragePointer(started') => StoragePointer(started) \/ (b \in {"core", "storage"} /\ "core" \in trackers)
      /\ StoragePointer(started) => StoragePointer(started')
      /\ b \in {"core", "storage"} => ~StoragePointer(started)
      /\ CorePointer(started') => CorePointer(started) \/ (b \in {"core", "web"} /\ "web" \in trackers)
      /\ b \in {"core", "web"} => ~CorePointer(started)
      /\ trackers \subseteq started'
  BY <1>1, <1>2 DEF StoragePointer, CorePointer
<1>7. Types'
  BY <1>1, <1>2, <1>3, <1>4, <1>5, <1>6, Working, IdleFields DEF Types, TypeOK
<1>8. HttpControl'
  BY <1>1, <1>2, <1>3, <1>4, <1>5, <1>6, Working, IdleFields DEF HttpControl, Starts, Stops
<1>9. MainControl'
  <2>1. CASE main' = Idle
    BY <1>1, <2>1, IdleFields DEF MainControl
  <2>2. CASE main'.op = "StartBundle" /\ main'.pc = "added" /\ main'.bundle = b /\ main'.begun = trackers /\ trackers # {}
    BY <1>1, <1>4, <1>6, <2>2, IdleFields DEF MainControl, Stops
  <2>3. QED
    BY <1>3, <2>1, <2>2
<1>10. Pointers'
  BY <1>1, <1>3, <1>4, <1>6, IdleFields DEF Pointers, StorageDue, CoreDue, StoragePointer, CorePointer, SessionPointer
<1>11. Released'
  BY <1>1, <1>2, <1>3, <1>4, <1>5, <1>6, Working, IdleFields DEF Released
<1>12. OneAtATime'
  BY <1>1, <1>2, <1>3, <1>4, <1>5, <1>6, Working, IdleFields DEF OneAtATime
<1>13. RulesAreListed'
  BY <1>1, <1>2, <1>3, <1>4, <1>5, <1>6, Working, IdleFields DEF RulesAreListed
<1>14. Captures'
  BY <1>1, <1>3, <1>4, IdleFields DEF Captures
<1>15. Files'
  <2>1. Recordable' => Recordable \/ ~storage
    BY <1>1, <1>3, <1>4, <1>6, IdleFields DEF Recordable, Pointers
  <2>2. ~storage => file # "open"
    BY <1>1 DEF Files
  <2>3. main'.pc # "removed"
    BY <1>3, IdleFields
  <2>4. QED
    BY <1>1, <1>3, <1>4, <2>1, <2>2, <2>3 DEF Files
<1>16. QED
  BY <1>7, <1>8, <1>9, <1>10, <1>11, <1>12, <1>13, <1>14, <1>15 DEF IInv

\* One tracker is told of a new bundle.
LEMMA Telling ==
  ASSUME IInv, NEW tracker \in {"core", "web"}, main.pc = "added", tracker \in main.begun, ToldOf(tracker)
  PROVE  /\ work' \in [Threads -> WorkType] /\ request' = request
         /\ \/ main' = Idle /\ main.begun = {tracker}
            \/ /\ main'.begun = main.begun \ {tracker} /\ main'.begun # {}
               /\ main'.op = main.op /\ main'.pc = main.pc /\ main'.bundle = main.bundle
               /\ main'.todo = main.todo /\ main'.now = main.now
<1> USE DEF main, request, Threads
<1>1. PICK left : left = main.begun \ {tracker}
  OBVIOUS
<1>2. PICK w : w = IF left = {} THEN Idle ELSE [main EXCEPT !.begun = left]
  OBVIOUS
<1>3. main \in WorkType /\ Idle \in WorkType /\ work \in [Threads -> WorkType]
  BY Working DEF IInv, Idle, WorkType
<1>4. /\ w \in WorkType
      /\ \/ w = Idle /\ main.begun = {tracker}
         \/ /\ w.begun = left /\ left # {} /\ w.op = main.op /\ w.pc = main.pc /\ w.bundle = main.bundle
            /\ w.todo = main.todo /\ w.now = main.now
  BY <1>1, <1>2, <1>3 DEF WorkType
<1>5. work' = [work EXCEPT !["main"] = w]
  BY <1>1, <1>2 DEF ToldOf
<1>6. QED
  BY <1>1, <1>3, <1>4, <1>5, Change

\* The core's trackers learn of a bundle.
LEMMA AddedToCoreKeeps ==
  ASSUME IInv, AddedToCore
  PROVE  IInv'
<1> USE DEF IInv, main, request, Threads, At, bundleVars, engineVars, catalogVars, sessionVars, history
<1>1. main.pc = "added" /\ main.op = "StartBundle" /\ main # Idle /\ ~stopping /\ "core" \in main.begun
  BY Working, IdleFields DEF AddedToCore, MainControl, Starts, Stops
<1>2. /\ work' \in [Threads -> WorkType] /\ request' = request
      /\ \/ main' = Idle /\ main.begun = {"core"}
         \/ /\ main'.begun = main.begun \ {"core"} /\ main'.begun # {}
            /\ main'.op = main.op /\ main'.pc = main.pc /\ main'.bundle = main.bundle
            /\ main'.todo = main.todo /\ main'.now = main.now
  BY <1>1, Telling DEF AddedToCore
<1>3. /\ storage' = StoragePointer(started) /\ attached' = Attached(started)
      /\ UNCHANGED <<started, stopping, active, rules, offered, core, entries, mappings, engine, http, state, recorded,
                     file, faults, requests, overlapped, openedOver>>
  BY DEF AddedToCore
<1>4. /\ attached \subseteq attached' /\ attached' \subseteq Protocols /\ attached' \subseteq started
      /\ attached' # {} => "core" \in started
      /\ storage => storage'
  BY <1>3 DEF Attached, Pointers, Types, TypeOK
<1>5. Types'
  <2>1. TypeOK'
    BY <1>2, <1>3, <1>4, Working, IdleFields DEF Types, TypeOK, WorkType
  <2>2. storage' \in BOOLEAN
    BY <1>3 DEF StoragePointer
  <2>3. QED
    BY <1>2, <1>3, <2>1, <2>2 DEF Types
<1>6. HttpControl'
  BY <1>1, <1>2, <1>3, <1>4, Working, IdleFields DEF HttpControl, Starts, Stops
<1>7. MainControl'
  BY <1>1, <1>2, <1>3, <1>4, Working, IdleFields DEF MainControl, Starts, Stops
<1>8. Pointers'
  BY <1>1, <1>2, <1>3, <1>4, Working, IdleFields DEF Pointers, StorageDue, CoreDue, StoragePointer, CorePointer, SessionPointer
<1>9. Released'
  BY <1>1, <1>2, <1>3, <1>4, Working, IdleFields DEF Released
<1>10. OneAtATime'
  BY <1>1, <1>2, <1>3, <1>4, Working, IdleFields DEF OneAtATime
<1>11. RulesAreListed'
  BY <1>1, <1>2, <1>3, <1>4, Working, IdleFields DEF RulesAreListed
<1>12. Captures'
  BY <1>1, <1>2, <1>3, <1>4, IdleFields DEF Captures
<1>13. Files'
  BY <1>1, <1>2, <1>3, <1>4, Working, IdleFields DEF Files, Recordable, Pointers, StoragePointer, SessionPointer, OneAtATime, HttpControl, MainControl
<1>14. QED
  BY <1>5, <1>6, <1>7, <1>8, <1>9, <1>10, <1>11, <1>12, <1>13 DEF IInv

\* The trackers of the web server learn of a bundle.
LEMMA AddedToWebKeeps ==
  ASSUME IInv, AddedToWeb
  PROVE  IInv'
<1> USE DEF IInv, main, request, Threads, At, bundleVars, engineVars, catalogVars, sessionVars, history
<1>1. main.pc = "added" /\ main.op = "StartBundle" /\ main # Idle /\ ~stopping /\ "web" \in main.begun
  BY Working, IdleFields DEF AddedToWeb, MainControl, Starts, Stops
<1>2. /\ work' \in [Threads -> WorkType] /\ request' = request
      /\ \/ main' = Idle /\ main.begun = {"web"}
         \/ /\ main'.begun = main.begun \ {"web"} /\ main'.begun # {}
            /\ main'.op = main.op /\ main'.pc = main.pc /\ main'.bundle = main.bundle
            /\ main'.todo = main.todo /\ main'.now = main.now
  BY <1>1, Telling DEF AddedToWeb
<1>3. "web" \in started
  BY <1>1 DEF MainControl
<1>4. /\ http' = SessionPointer(started) /\ core' = CorePointer(started) /\ entries' = Listed(started)
      /\ rules' = IF main.bundle \in {"core", "web"} /\ core' THEN SetMappings(DOMAIN entries, mappings) ELSE rules
  BY DEF AddedToWeb
<1>5. /\ DOMAIN entries' = IF "web" \in started THEN started \cap Protocols ELSE {}
      /\ \A p \in DOMAIN entries' : entries'[p] = IF p \in DOMAIN entries THEN entries[p] ELSE Default[p]
      /\ DOMAIN entries \subseteq DOMAIN entries'
  BY <1>4 DEF Listed, Pointers, Types, TypeOK
<1>6. entries' \in [DOMAIN entries' -> Configs]
  <2>1. ASSUME NEW p \in DOMAIN entries'
        PROVE  entries'[p] \in Configs
    BY <1>5, Constants DEF Types
  <2>2. PICK D : D = DOMAIN entries'
    OBVIOUS
  <2>3. entries' = [p \in D |-> entries'[p]]
    BY <1>4, <2>2 DEF Listed
  <2>4. QED
    BY <2>1, <2>2, <2>3
<1>7. UNCHANGED <<started, stopping, storage, attached, active, offered, mappings, engine, state, recorded, file,
                  faults, requests, overlapped, openedOver>>
  BY DEF AddedToWeb
<1>8. Types'
  <2>1. core' \in BOOLEAN /\ http' \in BOOLEAN
    BY <1>4 DEF CorePointer, SessionPointer
  <2>2. TypeOK'
    BY <1>2, <1>5, <1>7, Working, IdleFields DEF Types, TypeOK, WorkType
  <2>3. QED
    BY <1>2, <1>6, <1>7, <2>1, <2>2 DEF Types
<1>9. HttpControl'
  BY <1>1, <1>2, <1>3, <1>4, <1>5, <1>6, <1>7, Working, IdleFields DEF HttpControl, Starts, Stops
<1>10. MainControl'
  BY <1>1, <1>2, <1>3, <1>4, <1>5, <1>6, <1>7, Working, IdleFields DEF MainControl, Starts, Stops
<1>11. Pointers'
  BY <1>1, <1>2, <1>3, <1>4, <1>5, <1>6, <1>7, Working, IdleFields DEF Pointers, StorageDue, CoreDue, StoragePointer, CorePointer, SessionPointer
<1>12. Released'
  BY <1>1, <1>2, <1>3, <1>4, <1>5, <1>6, <1>7, Working, IdleFields DEF Released
<1>13. OneAtATime'
  BY <1>1, <1>2, <1>3, <1>4, <1>5, <1>6, <1>7, Working, IdleFields DEF OneAtATime
<1>14. RulesAreListed'
  <2>1. CASE main.bundle \in {"core", "web"} /\ core'
    <3>1. mappings \in Seq(ToSet(mappings))
      <4>1. <<>> \in Seq(ToSet(<<>>))
        OBVIOUS
      <4>2. QED
        BY <4>1, CatalogAssumption DEF Types
    <3>2. rules' = SetMappings(DOMAIN entries, mappings)
      BY <1>4, <2>1
    <3>3. \A c \in DOMAIN rules' : \E m \in ToSet(mappings) : m.target = rules'[c].topic
      BY <3>1, <3>2, NewRules
    <3>4. QED
      BY <1>7, <3>3 DEF RulesAreListed
  <2>2. CASE main.bundle \notin {"core", "web"} /\ core'
    <3>1. core /\ rules' = rules
      BY <1>1, <1>4, <2>2 DEF CoreDue, Pointers, CorePointer
    <3>2. QED
      BY <1>7, <3>1 DEF RulesAreListed
  <2>3. CASE ~core'
    BY <2>3 DEF RulesAreListed
  <2>4. QED
    BY <2>1, <2>2, <2>3
<1>15. Captures'
  BY <1>1, <1>2, <1>7, IdleFields DEF Captures
<1>16. Files'
  BY <1>1, <1>2, <1>3, <1>4, <1>5, <1>6, <1>7, Working, IdleFields DEF Files, Recordable, Pointers, StoragePointer, SessionPointer, OneAtATime, HttpControl, MainControl
<1>17. QED
  BY <1>8, <1>9, <1>10, <1>11, <1>12, <1>13, <1>14, <1>15, <1>16 DEF IInv

\* A bundle is to stop.
LEMMA StopBundleKeeps ==
  ASSUME IInv, NEW b \in Bundles, StopBundle(b)
  PROVE  IInv'
<1> USE DEF IInv, main, request, Threads, At, bundleVars, engineVars, catalogVars, sessionVars, history
<1>1. main = Idle /\ stopping /\ b \in started /\ (b = "web" => request = Idle)
  BY DEF StopBundle, MainControl, HttpControl
<1>2. PICK op, pc, todo, trackers :
        /\ work' = [work EXCEPT !["main"] = [Idle EXCEPT !.op = op, !.pc = pc, !.todo = todo, !.bundle = b,
                                                         !.begun = trackers \cap started]]
        /\ \/ b = "core" /\ op = "StopBundle" /\ pc = "stop" /\ todo = attached /\ trackers = {}
           \/ /\ b = "session" /\ state \in RecordingStates
              /\ op = "StopRecording" /\ pc = "stop" /\ todo = recorded /\ trackers = {}
           \/ /\ b # "core" /\ ~(b = "session" /\ state \in RecordingStates)
              /\ op = "StopBundle" /\ pc = "removed" /\ todo = {} /\ trackers = IF b = "web" THEN {} ELSE {"core", "web"}
  BY DEF StopBundle, EndsRecording
<1>3. /\ work' \in [Threads -> WorkType] /\ request' = request
      /\ main'.op = op /\ main'.pc = pc /\ main'.todo = todo /\ main'.now = "none"
      /\ main'.bundle = b /\ main'.begun = trackers \cap started
  <2>1. PICK w : w = [Idle EXCEPT !.op = op, !.pc = pc, !.todo = todo, !.bundle = b, !.begun = trackers \cap started]
    OBVIOUS
  <2>2. w = [op |-> op, pc |-> pc, todo |-> todo, begun |-> trackers \cap started, now |-> "none", bundle |-> b]
    BY <2>1 DEF Idle
  <2>3. todo \subseteq Protocols /\ trackers \subseteq {"core", "web"}
    BY <1>2 DEF Types, TypeOK
  <2>4. w \in WorkType
    BY <1>2, <2>2, <2>3 DEF WorkType, Stops
  <2>5. work' = [work EXCEPT !["main"] = w]
    BY <1>2, <2>1
  <2>6. QED
    BY <2>2, <2>4, <2>5, Change, Working
<1>4. overlapped' = (overlapped \/ request # Idle)
  BY DEF StopBundle
<1>5. /\ recorded' = recorded \/ recorded' = {}
      /\ UNCHANGED <<started, stopping, storage, attached, active, rules, offered, core, entries, mappings, engine,
                     http, state, file, faults, requests, openedOver>>
  BY DEF StopBundle
<1>6. Types'
  BY <1>1, <1>2, <1>3, <1>4, <1>5, Working, IdleFields DEF Types, TypeOK
<1>7. HttpControl'
  BY <1>1, <1>2, <1>3, <1>4, <1>5, Working, IdleFields DEF HttpControl, Starts, Stops
<1>8. MainControl'
  <2>1. b \in Protocols => b \notin {"core", "session"}
    BY Constants
  <2>2. /\ pc \in {"stop", "removed"} /\ op \in {"StopBundle", "StopRecording"}
        /\ op = "StopRecording" => pc = "stop" /\ b = "session"
        /\ op = "StopBundle" /\ pc # "removed" => b = "core"
        /\ b \in Protocols => todo = {}
        /\ b = "core" => trackers = {}
    BY <1>2, <2>1
  <2>3. main'.pc # "idle" /\ main' # Idle /\ main'.op # "none"
    BY <1>3, <2>2, IdleFields
  <2>4. QED
    BY <1>1, <1>3, <1>5, <2>1, <2>2, <2>3 DEF MainControl, Starts, Stops
<1>9. Pointers'
  BY <1>1, <1>2, <1>3, <1>4, <1>5, Working, IdleFields DEF Pointers, StorageDue, CoreDue, StoragePointer, CorePointer, SessionPointer
<1>10. Released'
  BY <1>1, <1>2, <1>3, <1>4, <1>5, Working, IdleFields, Constants DEF Released, Pointers, StoragePointer, CorePointer, SessionPointer, Types, TypeOK
<1>11. OneAtATime'
  BY <1>1, <1>2, <1>3, <1>4, <1>5, Working, IdleFields DEF OneAtATime
<1>12. RulesAreListed'
  BY <1>1, <1>2, <1>3, <1>4, <1>5, Working, IdleFields DEF RulesAreListed
<1>13. Captures'
  BY <1>1, <1>2, <1>3, <1>4, <1>5, Working, IdleFields DEF Captures, OneAtATime, HttpControl, MainControl
<1>14. Files'
  BY <1>1, <1>2, <1>3, <1>4, <1>5, Working, IdleFields DEF Files, Recordable, Pointers, StoragePointer, SessionPointer, OneAtATime, HttpControl, MainControl
<1>15. QED
  BY <1>6, <1>7, <1>8, <1>9, <1>10, <1>11, <1>12, <1>13, <1>14 DEF IInv

\* The trackers of the core are told.
LEMMA FromCoreKeeps ==
  ASSUME IInv, RemovedFromCore
  PROVE  IInv'
<1> USE DEF IInv, main, request, Threads, At, bundleVars, engineVars, catalogVars, sessionVars, history
<1>1. main.pc = "removed" /\ "core" \in main.begun /\ main # Idle /\ main.op = "StopBundle"
  BY IdleFields, Working DEF RemovedFromCore, MainControl, Stops
<1>2. /\ work' \in [Threads -> WorkType] /\ request' = request
      /\ main'.pc = IF main.bundle \in Protocols THEN "stop" ELSE "removed"
      /\ main'.op = main.op /\ main'.todo = Protocols \cap {main.bundle}
      /\ main'.begun = main.begun \ {"core"} /\ main'.now = main.now /\ main'.bundle = main.bundle
  <2>1. PICK w : w = [main EXCEPT !.begun = @ \ {"core"}, !.pc = IF main.bundle \in Protocols THEN "stop" ELSE "removed",
                                 !.todo = Protocols \cap {main.bundle}]
    OBVIOUS
  <2>2. main \in WorkType
    BY Working
  <2>3. /\ w \in WorkType /\ w.pc = IF main.bundle \in Protocols THEN "stop" ELSE "removed"
        /\ w.op = main.op /\ w.todo = Protocols \cap {main.bundle}
        /\ w.begun = main.begun \ {"core"} /\ w.now = main.now /\ w.bundle = main.bundle
    BY <2>1, <2>2 DEF WorkType, Stops
  <2>4. work' = [work EXCEPT !["main"] = w]
    BY <2>1 DEF RemovedFromCore
  <2>5. QED
    BY <2>3, <2>4, Change, Working
<1>3. storage' = (storage /\ main.bundle # "storage")
  BY DEF RemovedFromCore
<1>4. UNCHANGED <<started, stopping, attached, active, rules, offered, core, entries, mappings, engine, http, state,
                  recorded, file, faults, requests, overlapped, openedOver>>
  BY DEF RemovedFromCore
<1>5. Types'
  BY <1>1, <1>2, <1>3, <1>4, Working, IdleFields DEF Types, TypeOK
<1>6. HttpControl'
  BY <1>1, <1>2, <1>3, <1>4, Working, IdleFields DEF HttpControl, Starts, Stops
<1>7. MainControl'
  BY <1>1, <1>2, <1>3, <1>4, Working, IdleFields DEF MainControl, Starts, Stops
<1>8. Pointers'
  BY <1>1, <1>2, <1>3, <1>4, Working, IdleFields DEF Pointers, StorageDue, CoreDue, StoragePointer, CorePointer, SessionPointer
<1>9. Released'
  <2>1. main.bundle # "core" /\ main'.bundle = main.bundle /\ main'.pc \in {"stop", "removed"}
    BY <1>1, <1>2 DEF MainControl
  <2>2. main.bundle \in attached => main'.pc = "stop" /\ main.bundle \in main'.todo
    BY <1>2 DEF Types, TypeOK
  <2>3. "web" \in main'.begun <=> "web" \in main.begun
    BY <1>2
  <2>4. main.bundle = "storage" => ~storage'
    BY <1>3
  <2>5. QED
    BY <1>1, <1>2, <1>4, <2>1, <2>2, <2>3, <2>4, IdleFields DEF Released
<1>10. OneAtATime'
  BY <1>1, <1>2, <1>3, <1>4, Working, IdleFields DEF OneAtATime
<1>11. RulesAreListed'
  BY <1>1, <1>2, <1>3, <1>4, Working, IdleFields DEF RulesAreListed
<1>12. Captures'
  BY <1>1, <1>2, <1>3, <1>4, Working, IdleFields DEF Captures, OneAtATime, HttpControl, MainControl
<1>13. Files'
  BY <1>1, <1>2, <1>3, <1>4, Working, IdleFields DEF Files, Recordable, Pointers, StoragePointer, SessionPointer, OneAtATime, HttpControl, MainControl
<1>14. QED
  BY <1>5, <1>6, <1>7, <1>8, <1>9, <1>10, <1>11, <1>12, <1>13 DEF IInv

\* The trackers of the web server are told.
LEMMA FromWebKeeps ==
  ASSUME IInv, RemovedFromWeb
  PROVE  IInv'
<1> USE DEF IInv, main, request, Threads, At, bundleVars, engineVars, catalogVars, sessionVars, history
<1>1. main.pc = "removed" /\ "web" \in main.begun /\ main # Idle /\ main.op = "StopBundle" /\ ~Locked
  BY IdleFields, Working DEF RemovedFromWeb, MainControl, Stops
<1>2. /\ work' \in [Threads -> WorkType] /\ request' = request
      /\ main'.pc = main.pc /\ main'.op = main.op /\ main'.todo = main.todo
      /\ main'.begun = main.begun \ {"web"} /\ main'.now = main.now /\ main'.bundle = main.bundle
  <2>1. PICK w : w = [main EXCEPT !.begun = @ \ {"web"}]
    OBVIOUS
  <2>2. main \in WorkType
    BY Working
  <2>3. /\ w \in WorkType /\ w.pc = main.pc /\ w.op = main.op /\ w.todo = main.todo
        /\ w.begun = main.begun \ {"web"} /\ w.now = main.now /\ w.bundle = main.bundle
    BY <2>1, <2>2 DEF WorkType
  <2>4. work' = [work EXCEPT !["main"] = w]
    <3>1. work' = [work EXCEPT !["main"].begun = @ \ {"web"}]
      BY DEF RemovedFromWeb, Told
    <3>2. QED
      BY <2>1, <3>1
  <2>5. QED
    BY <2>3, <2>4, Change, Working
<1>3. /\ core' = (core /\ main.bundle # "core") /\ http' = (http /\ main.bundle # "session")
      /\ entries' = [p \in DOMAIN entries \ {main.bundle} |-> entries[p]]
      /\ DOMAIN entries' = DOMAIN entries \ {main.bundle}
      /\ \A p \in DOMAIN entries' : entries'[p] = entries[p]
  BY DEF RemovedFromWeb
<1>4. UNCHANGED <<started, stopping, storage, attached, active, rules, offered, mappings, engine, state,
                  recorded, file, faults, requests, overlapped, openedOver>>
  BY DEF RemovedFromWeb
<1>5. Types'
  BY <1>1, <1>2, <1>3, <1>4, Working, IdleFields DEF Types, TypeOK
<1>6. HttpControl'
  BY <1>1, <1>2, <1>3, <1>4, Working, IdleFields DEF HttpControl, Starts, Stops, Locked
<1>7. MainControl'
  BY <1>1, <1>2, <1>3, <1>4, Working, IdleFields DEF MainControl, Starts, Stops
<1>8. Pointers'
  BY <1>1, <1>2, <1>3, <1>4, Working, IdleFields DEF Pointers, StorageDue, CoreDue, StoragePointer, CorePointer, SessionPointer, MainControl
<1>9. Released'
  BY <1>1, <1>2, <1>3, <1>4, Working, IdleFields DEF Released
<1>10. OneAtATime'
  BY <1>1, <1>2, <1>3, <1>4, Working, IdleFields DEF OneAtATime
<1>11. RulesAreListed'
  BY <1>3, <1>4 DEF RulesAreListed
<1>12. Captures'
  BY <1>1, <1>2, <1>3, <1>4, Working, IdleFields DEF Captures, OneAtATime, HttpControl, MainControl
<1>13. Files'
  BY <1>1, <1>2, <1>3, <1>4, Working, IdleFields DEF Files, Recordable, Pointers, StoragePointer, SessionPointer, OneAtATime, HttpControl, MainControl
<1>14. QED
  BY <1>5, <1>6, <1>7, <1>8, <1>9, <1>10, <1>11, <1>12, <1>13 DEF IInv

\* A bundle is gone.
LEMMA GoneKeeps ==
  ASSUME IInv, BundleGone
  PROVE  IInv'
<1> USE DEF IInv, main, request, Threads, At, bundleVars, engineVars, catalogVars, sessionVars, history
<1>1. main.pc = "removed" /\ main.begun = {} /\ main # Idle /\ main.op = "StopBundle" /\ stopping
  BY IdleFields, Working DEF BundleGone, MainControl, Stops
<1>2. work' \in [Threads -> WorkType] /\ request' = request /\ main' = Idle
  BY IsDone, Working DEF BundleGone
<1>3. PICK b : b = main.bundle
  OBVIOUS
<1>4. /\ started' = started \ {b} /\ file' = IF b = "storage" /\ file = "open" THEN "unfinished" ELSE file
      /\ core' = (core /\ b # "web") /\ http' = (http /\ b # "web")
      /\ entries' = IF b = "web" THEN [p \in {} |-> Default[p]] ELSE entries
      /\ offered' = IF b \in Protocols THEN [offered EXCEPT ![b] = Silent] ELSE offered
  BY <1>3 DEF BundleGone
<1>5. UNCHANGED <<stopping, storage, attached, active, rules, mappings, engine, state, recorded, faults, requests,
                  overlapped, openedOver>>
  BY DEF BundleGone
<1>6. /\ b \notin attached /\ (b = "core" => attached = {} /\ ~storage) /\ (b = "storage" => ~storage)
      /\ b \notin DOMAIN entries /\ (b = "core" => ~core) /\ (b = "session" => ~http)
  BY <1>1, <1>3, IdleFields DEF Released
<1>7. b = "web" => request = Idle
  BY <1>3 DEF HttpControl
<1>8. DOMAIN entries' \subseteq DOMAIN entries /\ \A p \in DOMAIN entries' : entries'[p] = entries[p]
  BY <1>4
<1>9. Types'
  BY <1>1, <1>2, <1>3, <1>4, <1>5, <1>6, <1>7, <1>8, Working, IdleFields DEF Types, TypeOK
<1>10. HttpControl'
  BY <1>1, <1>2, <1>3, <1>4, <1>5, <1>6, <1>7, <1>8, Working, IdleFields DEF HttpControl, Starts, Stops
<1>11. MainControl'
  BY <1>1, <1>2, <1>3, <1>4, <1>5, <1>6, <1>7, <1>8, Working, IdleFields DEF MainControl, Starts, Stops
<1>12. Pointers'
  BY <1>1, <1>2, <1>3, <1>4, <1>5, <1>6, <1>7, <1>8, Working, IdleFields DEF Pointers, StorageDue, CoreDue, StoragePointer, CorePointer, SessionPointer
<1>13. Released'
  BY <1>1, <1>2, <1>3, <1>4, <1>5, <1>6, <1>7, <1>8, Working, IdleFields DEF Released
<1>14. OneAtATime'
  BY <1>1, <1>2, <1>3, <1>4, <1>5, <1>6, <1>7, <1>8, Working, IdleFields DEF OneAtATime
<1>15. RulesAreListed'
  BY <1>1, <1>2, <1>3, <1>4, <1>5, <1>6, <1>7, <1>8, Working, IdleFields DEF RulesAreListed
<1>16. Captures'
  <2>1. b \in Protocols => b \notin active
    BY <1>6 DEF Types, TypeOK
  <2>2. \A p \in Protocols : offered'[p] = offered[p] \/ (offered'[p] = Silent /\ p \notin active)
    BY <1>4, <2>1 DEF Types, TypeOK
  <2>3. request.pc \in {"clear", "erase", "activate"} => request.now \in Protocols
    BY Working DEF HttpControl, Starts, Stops
  <2>4. main'.pc = "idle" /\ main.pc # "clear"
    BY <1>1, <1>2, IdleFields
  <2>5. ~overlapped => request = Idle
    BY <1>1 DEF OneAtATime
  <2>6. QED
    BY <1>2, <1>5, <2>2, <2>3, <2>4, <2>5, IdleFields DEF Captures
<1>17. Files'
  BY <1>1, <1>2, <1>3, <1>4, <1>5, <1>6, <1>7, <1>8, Working, IdleFields DEF Files, Recordable, Pointers, StoragePointer, SessionPointer, OneAtATime, HttpControl, MainControl
<1>18. QED
  BY <1>9, <1>10, <1>11, <1>12, <1>13, <1>14, <1>15, <1>16, <1>17 DEF IInv

\* A step of a thread within a call.
LEMMA CaptureStepKeeps ==
  ASSUME IInv, NEW t \in Threads, CaptureStep(t)
  PROVE  IInv'
<1>1. CASE StartProtocolCapture(t)
  BY <1>1, CaptureStartKeeps
<1>2. CASE Activate(t)
  BY <1>2, ActivateKeeps
<1>3. CASE StartNext(t)
  BY <1>3, StartNextKeeps
<1>4. CASE Refused(t)
  BY <1>4, RefusedKeeps
<1>5. CASE StopProtocolCapture(t)
  BY <1>5, CaptureStopKeeps
<1>6. CASE Clear(t)
  BY <1>6, ClearKeeps
<1>7. CASE StopNext(t)
  BY <1>7, StopNextKeeps
<1>8. CASE Finalize(t)
  BY <1>8, FinalizeKeeps
<1>9. QED
  BY <1>1, <1>2, <1>3, <1>4, <1>5, <1>6, <1>7, <1>8 DEF CaptureStep

\* Any step.
LEMMA NextKeeps ==
  ASSUME IInv, [Next]_vars
  PROVE  IInv'
<1>1. ASSUME NEW p \in Protocols, HandlePluginStart(p) \/ HandlePluginStop(p) \/ PeerLeaves(p)
      PROVE  IInv'
  BY <1>1, PluginStartKeeps, PluginStopKeeps, PeerLeavesKeeps
<1>2. ASSUME NEW p \in Protocols, NEW config \in Configs, HandlePluginConfig(p, config)
      PROVE  IInv'
  BY <1>2, ConfigKeeps
<1>3. ASSUME NEW list \in Mappings, HandleSetMappings(list)
      PROVE  IInv'
  BY <1>3, MappingsKeep
<1>4. CASE \/ \E names \in SUBSET Protocols : HandleRecordStart(names)
           \/ HandleRecordPause \/ HandleRecordResume \/ HandleRecordStop \/ HandlePlaybackOpen \/ OpenForPlayback
  BY <1>4, RecordStartKeeps, RecordPauseKeeps, RecordStopKeeps, PlaybackOpenKeeps, OpenKeeps
<1>5. ASSUME NEW t \in Threads, CaptureStep(t)
      PROVE  IInv'
  BY <1>5, CaptureStepKeeps
<1>6. ASSUME NEW b \in Bundles, StartBundle(b) \/ StopBundle(b)
      PROVE  IInv'
  BY <1>6, StartBundleKeeps, StopBundleKeeps
<1>7. CASE StopFramework \/ BundleStep
  BY <1>7, StopFrameworkKeeps, AddedToCoreKeeps, AddedToWebKeeps, EraseKeeps, FromCoreKeeps, FromWebKeeps, GoneKeeps DEF BundleStep
<1>8. CASE UNCHANGED vars
  BY <1>8, Stutters
<1>9. QED
  BY <1>1, <1>2, <1>3, <1>4, <1>5, <1>6, <1>7, <1>8 DEF Next

\* The framework is there, no bundle is started.
LEMMA InitKeeps ==
  ASSUME Init
  PROVE  IInv
<1> USE DEF Init, Threads, main, request
<1>1. main = Idle /\ request = Idle /\ Idle \in WorkType
  BY DEF Idle, WorkType
<1>2. TypeOK
  <2>1. offered \in [Protocols -> (Configs \ {Invalid}) \cup {Silent}] /\ DOMAIN entries = {}
    OBVIOUS
  <2>2. \A t \in Threads : work[t].todo \subseteq Protocols
    BY IdleFields
  <2>3. QED
    BY <2>1, <2>2 DEF TypeOK, SessionState
<1>3. Types
  <2>1. work \in [Threads -> WorkType]
    BY <1>1
  <2>2. entries \in [DOMAIN entries -> Configs]
    OBVIOUS
  <2>3. QED
    BY <1>2, <2>1, <2>2 DEF Types
<1>4. HttpControl
  BY <1>1, IdleFields DEF HttpControl
<1>5. MainControl
  BY <1>1, IdleFields, Constants DEF MainControl
<1>6. Pointers
  BY DEF Pointers, StorageDue, CoreDue, StoragePointer, CorePointer, SessionPointer
<1>7. Released /\ OneAtATime /\ RulesAreListed
  BY <1>1, IdleFields DEF Released, OneAtATime, RulesAreListed
<1>8. Captures
  BY <1>1, IdleFields DEF Captures
<1>9. Files
  BY <1>1, IdleFields DEF Files, Recordable
<1>10. QED
  BY <1>3, <1>4, <1>5, <1>6, <1>7, <1>8, <1>9 DEF IInv

\* The invariant holds throughout.
LEMMA Invariance == Spec => []IInv
<1>1. Init => IInv
  BY InitKeeps
<1>2. IInv /\ [Next]_vars => IInv'
  BY NextKeeps
<1>3. QED
  BY <1>1, <1>2, PTL DEF Spec

-----------------------------------------------------------------------------
(***************************************************************************)
(* What follows.                                                           *)
(***************************************************************************)

\* However bundles start and stop, and whatever the page asks meanwhile: what the engine, the
\* catalog and the HTTP server point to is registered, and rules stem from mappings listed.
THEOREM Current == Spec => []NothingStale
<1>1. IInv => NothingStale
  <2> SUFFICES ASSUME IInv
               PROVE  NothingStale
    OBVIOUS
  <2>1. TypeOK /\ RulesAreListed
    BY DEF IInv, Types
  <2>2. HeldIsRegistered
    BY DEF IInv, Pointers, HeldIsRegistered, StoragePointer, CorePointer, SessionPointer
  <2>3. QED
    BY <2>1, <2>2 DEF NothingStale
<1>2. QED
  BY <1>1, Invariance, PTL

\* As long as the two threads take turns and no capture fails by itself, capture_active is set of
\* exactly the protocols that capture, whenever both rest.
THEOREM Known == Spec => []EngineKnowsCaptures
<1>1. IInv => EngineKnowsCaptures
  <2> SUFFICES ASSUME IInv, \A t \in Threads : At(t, "idle"), ~overlapped, faults = 0
               PROVE  active = {p \in Protocols : offered[p] # Silent}
    BY DEF EngineKnowsCaptures
  <2>1. active \subseteq Protocols
    BY DEF IInv, Types, TypeOK
  <2>2. \A p \in Protocols : p \in active <=> offered[p] # Silent
    BY DEF IInv, Captures, At, Threads, request
  <2>3. QED
    BY <2>1, <2>2
<1>2. QED
  BY <1>1, Invariance, PTL

\* When the session's bundle is gone and no request was cut across, no recording is left open
\* that the storage could still have finalized, but for one over which a file was opened.
THEOREM Closed == Spec => []ShutdownClosesFile
<1>1. IInv => ShutdownClosesFile
  <2> SUFFICES ASSUME IInv, At("main", "idle"), stopping, ~overlapped, "session" \notin started,
                      {"core", "storage"} \subseteq started
               PROVE  file # "open" \/ openedOver
    BY DEF ShutdownClosesFile
  <2>1. main.bundle = "none"
    BY IdleFields DEF IInv, MainControl, At, main
  <2>2. Recordable
    BY <2>1 DEF Recordable, StoragePointer
  <2>3. QED
    BY <2>2 DEF IInv, Files
<1>2. QED
  BY <1>1, Invariance, PTL

\* A step within a call replaces no capture by another one.
LEMMA CaptureStepReplacesNone ==
  ASSUME IInv, ~overlapped, NEW t \in Threads, CaptureStep(t), NEW p \in Protocols, offered[p] # Silent
  PROVE  offered'[p] \in {offered[p], Silent}
<1>1. offered \in [Protocols -> (Configs \ {Invalid}) \cup {Silent}]
  BY DEF IInv, Types, TypeOK
<1>2. CASE StartProtocolCapture(t)
  <2>1. t = "http" /\ request.pc = "start"
    BY <1>2, Working DEF IInv, StartProtocolCapture, At, MainControl, HttpControl, Starts, Stops, main, request, Threads
  <2>2. p \in active
    BY <2>1 DEF IInv, Captures
  <2>3. PICK q \in work[t].todo :
          \/ offered' = offered
          \/ q \in attached \ active /\ offered' = [offered EXCEPT ![q] = ConfigFor(work[t].op, q)]
          \/ q \in attached \ active /\ offered' = [offered EXCEPT ![q] = Silent]
    BY <1>2 DEF StartProtocolCapture
  <2>4. QED
    BY <1>1, <2>2, <2>3
<1>3. CASE StopProtocolCapture(t)
  BY <1>1, <1>3 DEF StopProtocolCapture
<1>4. CASE Activate(t) \/ StartNext(t) \/ Refused(t) \/ Clear(t) \/ StopNext(t) \/ Finalize(t)
  BY <1>4 DEF Activate, StartNext, Refused, Clear, StopNext, Finalize, engineVars
<1>5. QED
  BY <1>2, <1>3, <1>4 DEF CaptureStep

\* Nor does any other.
LEMMA ReplacesNone ==
  ASSUME IInv, ~overlapped, Next, NEW p \in Protocols, offered[p] # Silent
  PROVE  offered'[p] \in {offered[p], Silent}
<1>1. offered \in [Protocols -> (Configs \ {Invalid}) \cup {Silent}]
  BY DEF IInv, Types, TypeOK
<1>2. ASSUME NEW q \in Protocols, PeerLeaves(q)
      PROVE  offered'[p] \in {offered[p], Silent}
  BY <1>1, <1>2 DEF PeerLeaves
<1>3. ASSUME NEW q \in Protocols, HandlePluginStart(q) \/ HandlePluginStop(q)
      PROVE  offered'[p] \in {offered[p], Silent}
  BY <1>3 DEF HandlePluginStart, HandlePluginStop, engineVars
<1>4. ASSUME NEW q \in Protocols, NEW config \in Configs, HandlePluginConfig(q, config)
      PROVE  offered'[p] \in {offered[p], Silent}
  BY <1>4 DEF HandlePluginConfig, engineVars
<1>5. ASSUME NEW list \in Mappings, HandleSetMappings(list)
      PROVE  offered'[p] \in {offered[p], Silent}
  BY <1>5 DEF HandleSetMappings
<1>6. CASE \/ \E names \in SUBSET Protocols : HandleRecordStart(names)
           \/ HandleRecordPause \/ HandleRecordResume \/ HandleRecordStop \/ HandlePlaybackOpen \/ OpenForPlayback
  BY <1>6 DEF HandleRecordStart, HandleRecordPause, HandleRecordResume, HandleRecordStop, HandlePlaybackOpen,
              OpenForPlayback, engineVars
<1>7. ASSUME NEW t \in Threads, CaptureStep(t)
      PROVE  offered'[p] \in {offered[p], Silent}
  BY <1>7, CaptureStepReplacesNone
<1>8. ASSUME NEW b \in Bundles, StartBundle(b) \/ StopBundle(b)
      PROVE  offered'[p] \in {offered[p], Silent}
  BY <1>8 DEF StartBundle, StopBundle, engineVars
<1>9. CASE StopFramework \/ AddedToCore \/ AddedToWeb \/ Erase \/ RemovedFromCore \/ RemovedFromWeb
  BY <1>9 DEF StopFramework, AddedToCore, AddedToWeb, Erase, RemovedFromCore, RemovedFromWeb, engineVars
<1>10. CASE BundleGone
  BY <1>1, <1>10 DEF BundleGone
<1>11. QED
  BY <1>2, <1>3, <1>4, <1>5, <1>6, <1>7, <1>8, <1>9, <1>10 DEF Next, BundleStep

\* A capture that goes on is never replaced by another one, while the two threads take turns.
THEOREM Once == Spec => StartedOnce
<1>1. IInv /\ [Next]_vars =>
        [~overlapped => \A p \in Protocols : offered[p] # Silent => offered'[p] \in {offered[p], Silent}]_vars
  BY ReplacesNone
<1>2. QED
  BY <1>1, Invariance, PTL DEF Spec, StartedOnce
=============================================================================
