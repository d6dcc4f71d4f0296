------------------------------- MODULE Catalog -------------------------------
(***************************************************************************)
(* The bundles of the program as the framework starts and stops them, the  *)
(* pointers that their trackers pass on (CoreEngine, RuntimeCatalog,       *)
(* HttpServer), and the requests that work on these pointers meanwhile:    *)
(* plugins are configured, started and stopped, topics are mapped, a       *)
(* recording begins, pauses and ends, a file is opened for playback.       *)
(*                                                                         *)
(* Two threads: main, which starts every bundle once and then stops them,  *)
(* and http.  A bundle is its name; that of a protocol is the protocol.    *)
(* What a capture does is in CapturePipeline and ProtocolIo: here it is    *)
(* the channel it offers.  The workers and replays are left out.           *)
(***************************************************************************)
EXTENDS Naturals, SequencesExt, FiniteSetsExt, SessionStates

CONSTANTS
  AutoStart,  \* the names of the bundles in the order in which they are started
  Protocols,  \* those of the protocols
  Configs,    \* what a page may enter for one: [topic, channel], or Invalid
  Invalid,
  Default,    \* the configuration in the schema of each
  Mappings,   \* the lists of mappings a page may send: sequences of [source, target]
  MaxFaults,  \* captures that fail to start and peers that leave
  MaxRequests

VARIABLES
  started,   \* bundles that are started: their services are registered
  stopping,  \* framework.Stop was called
  storage,   \* storage_ of the engine is set
  attached,  \* names in protocols_ of the engine
  active,    \* those whose capture_active is set
  rules,     \* mappings_ of FilterMappingEngine: a function of source channels
  offered,   \* channels_ of each protocol service that captures, else Silent
  core,      \* core_ of the catalog is set
  entries,   \* protocols_ of the catalog: the configuration of each that is listed
  mappings,  \* mappings_ of the catalog
  engine,    \* engine_ of the session is set
  http,      \* session_ of the HTTP server is set
  state,     \* of the session
  recorded,  \* active_record_protocols_
  file,      \* the recording: none, open, final, or left unfinished
  work,      \* what each thread is at
  faults,    \* history: captures that failed or ended by themselves
  requests,  \* history: how many the page has sent
  overlapped, \* history: main stopped a bundle while a request was handled
  openedOver \* history: a file was opened for playback over the recording

bundleVars == <<started, stopping>>
engineVars == <<storage, attached, active, rules, offered>>
catalogVars == <<core, entries, mappings>>
sessionVars == <<engine, http, state, recorded, file>>
history == <<faults, requests, overlapped, openedOver>>
vars == <<bundleVars, engineVars, catalogVars, sessionVars, work, history>>

Bundles == ToSet(AutoStart)
Threads == {"main", "http"}
Silent == [topic |-> "none", channel |-> 0]

ASSUME CatalogAssumption ==
  /\ Default \in [Protocols -> Configs \ {Invalid}] /\ Silent \notin Configs
  /\ Bundles = Protocols \cup {"core", "session", "storage", "web"}
  /\ Protocols \cap {"core", "session", "storage", "web", "none"} = {}
  /\ \A list \in Mappings : list \in Seq(ToSet(list))

NoRules == [c \in {} |-> Silent]
Idle == [op |-> "none", pc |-> "idle", todo |-> {}, begun |-> {}, now |-> "none", bundle |-> "none"]

At(t, pc) == work[t].pc = pc
Goto(t, pc) == work' = [work EXCEPT ![t].pc = pc]
Ends(t) == work' = [work EXCEPT ![t] = Idle]
Begins(t, op, pc, todo) == work' = [work EXCEPT ![t] = [Idle EXCEPT !.op = op, !.pc = pc, !.todo = todo]]

\* The mutex of the catalog: a plugin is started or stopped with it held.
Locked == work["http"].op \in {"StartPlugin", "StopPlugin"}

Init ==
  /\ started = {} /\ stopping = FALSE
  /\ storage = FALSE /\ attached = {} /\ active = {} /\ rules = NoRules
  /\ offered = [p \in Protocols |-> Silent]
  /\ core = FALSE /\ entries = [p \in {} |-> Default[p]] /\ mappings = <<>>
  /\ engine = FALSE /\ http = FALSE /\ state = "Idle" /\ recorded = {} /\ file = "none"
  /\ work = [t \in Threads |-> Idle] /\ faults = 0 /\ requests = 0
  /\ overlapped = FALSE /\ openedOver = FALSE

-----------------------------------------------------------------------------
(***************************************************************************)
(* Topics: the catalog compiles the mappings to rules between channels,    *)
(* from what the protocols offer at the moment.                            *)
(***************************************************************************)

\* Of two protocols with one topic the first in the order of names is found.
ChannelsOf(listed, topic) == {p \in listed : offered[p] # Silent /\ offered[p].topic = topic}
FirstChannel(listed, topic) == offered[CHOOSE p \in ChannelsOf(listed, topic) : TRUE].channel

\* The mappings that the catalog compiles: one with a topic that nobody offers is passed over.
Compiled(listed, list) ==
  {i \in DOMAIN list : ChannelsOf(listed, list[i].source) # {} /\ ChannelsOf(listed, list[i].target) # {}}

\* The engine's rules are replaced by those compiled, of which a later one replaces an
\* earlier one of the same channel.
SetMappings(listed, list) ==
  LET Source(i) == FirstChannel(listed, list[i].source)
      Rule(i) == [topic |-> list[i].target, channel |-> FirstChannel(listed, list[i].target)]
      compiled == Compiled(listed, list)
  IN [c \in {Source(i) : i \in compiled} |-> Rule(Max({i \in compiled : Source(i) = c}))]

-----------------------------------------------------------------------------
(***************************************************************************)
(* Requests.                                                               *)
(***************************************************************************)

\* HandleRequest reaches a handler while the server is the active one; that the server
\* is not stopped in the middle of a request is a simplification.
Request ==
  /\ At("http", "idle") /\ "web" \in started /\ work["main"].bundle # "web"
  /\ requests < MaxRequests /\ requests' = requests + 1
  /\ overlapped' = (overlapped \/ work["main"].op \notin {"none", "StartBundle"})
ForPlugin(p) == Request /\ p \in DOMAIN entries

\* What is saved is what was typed.
SavePluginConfig(p, config) == entries' = [entries EXCEPT ![p] = config]

HandlePluginConfig(p, config) ==
  /\ ForPlugin(p)
  /\ SavePluginConfig(p, config)
  /\ UNCHANGED <<bundleVars, engineVars, core, mappings, sessionVars, work, faults, openedOver>>

\* StartPlugin: a value that its type does not allow is refused.
HandlePluginStart(p) ==
  /\ ForPlugin(p) /\ core
  /\ IF entries[p] = Invalid THEN UNCHANGED work ELSE Begins("http", "StartPlugin", "start", {p})
  /\ UNCHANGED <<bundleVars, engineVars, catalogVars, sessionVars, faults, openedOver>>

HandlePluginStop(p) ==
  /\ ForPlugin(p) /\ core
  /\ Begins("http", "StopPlugin", "stop", {p})
  /\ UNCHANGED <<bundleVars, engineVars, catalogVars, sessionVars, faults, openedOver>>

\* SetTopicMappings; without a core they are only kept.
HandleSetMappings(list) ==
  /\ Request
  /\ mappings' = list
  /\ rules' = IF core THEN SetMappings(DOMAIN entries, list) ELSE rules
  /\ UNCHANGED <<bundleVars, storage, attached, active, offered, core, entries, sessionVars, work, faults,
                 openedOver>>

\* StartRecording up to CreateFile, on the protocols named, or on those attached.  A new file
\* takes the writer over from an old one; when it cannot be created, the old one is dropped.
HandleRecordStart(names) ==
  /\ Request /\ http /\ engine /\ storage /\ names # {}
  /\ \/ /\ file' = "open" /\ openedOver' = FALSE
        /\ Begins("http", "StartRecording", "start", names)
     \/ /\ file' = IF file = "open" THEN "unfinished" ELSE file
        /\ UNCHANGED <<work, openedOver>>
  /\ UNCHANGED <<bundleVars, engineVars, catalogVars, engine, http, state, recorded, faults>>

\* PauseRecording and ResumeRecording.
HandleRecordPause ==
  /\ Request /\ http
  /\ state' = IF state = "Recording" THEN "RecordingPaused" ELSE state
  /\ UNCHANGED <<bundleVars, engineVars, catalogVars, engine, http, recorded, file, work, faults, openedOver>>

HandleRecordResume ==
  /\ Request /\ http
  /\ state' = IF state = "RecordingPaused" THEN "Recording" ELSE state
  /\ UNCHANGED <<bundleVars, engineVars, catalogVars, engine, http, recorded, file, work, faults, openedOver>>

\* StopRecordingProtocols takes the names first.
StopRecording(t) ==
  /\ recorded' = {}
  /\ Begins(t, "StopRecording", "stop", recorded)

HandleRecordStop ==
  /\ Request /\ http
  /\ StopRecording("http")
  /\ UNCHANGED <<bundleVars, engineVars, catalogVars, engine, http, state, file, faults, openedOver>>

HandlePlaybackOpen ==
  /\ Request /\ http /\ engine /\ storage
  /\ Begins("http", "OpenForPlayback", "open", {})
  /\ UNCHANGED <<bundleVars, engineVars, catalogVars, sessionVars, faults, openedOver>>

\* The file cannot be opened or replayed, or the session transitions, from a recording too.
OpenForPlayback ==
  /\ At("http", "open")
  /\ \/ UNCHANGED state
     \/ IsValidTransition(state, "Stopped") /\ state' = "Stopped"
  /\ openedOver' = (openedOver \/ (state \in RecordingStates /\ state' = "Stopped"))
  /\ Ends("http")
  /\ UNCHANGED <<bundleVars, engineVars, catalogVars, engine, http, recorded, file, faults, requests, overlapped>>

-----------------------------------------------------------------------------
(***************************************************************************)
(* Captures: StartProtocolCapture and StopProtocolCapture, by whichever    *)
(* thread, for each protocol of the call.                                  *)
(***************************************************************************)

ConfigFor(op, p) == IF op = "StartPlugin" THEN entries[p] ELSE Default[p]

Takes(t, p, pc) == work' = [work EXCEPT ![t].pc = pc, ![t].begun = @ \cup {p}, ![t].todo = @ \ {p}, ![t].now = p]
Refuses(t, p) == work' = [work EXCEPT ![t].pc = "refused", ![t].todo = {p}]

\* A plausible bug, for a mutant run: a capture that is active is started again.
StartProtocolCaptureAgain(t) ==
  /\ At(t, "start")
  /\ \E p \in work[t].todo \cap attached :
       offered' = [offered EXCEPT ![p] = ConfigFor(work[t].op, p)] /\ Takes(t, p, "activate")
  /\ UNCHANGED <<bundleVars, storage, attached, active, rules, catalogVars, sessionVars, history>>

\* One that is active already counts as started.
StartProtocolCapture(t) ==
  /\ At(t, "start")
  /\ \E p \in work[t].todo :
       \/ /\ p \notin attached /\ Refuses(t, p)
          /\ UNCHANGED <<offered, faults>>
       \/ /\ p \in attached \cap active /\ Takes(t, p, "next")
          /\ UNCHANGED <<offered, faults>>
       \/ /\ p \in attached \ active /\ Takes(t, p, "activate")
          /\ offered' = [offered EXCEPT ![p] = ConfigFor(work[t].op, p)]
          /\ UNCHANGED faults
       \/ /\ p \in attached \ active /\ Refuses(t, p)
          /\ faults < MaxFaults /\ faults' = faults + 1
          /\ offered' = [offered EXCEPT ![p] = Silent]
  /\ UNCHANGED <<bundleVars, storage, attached, active, rules, catalogVars, sessionVars, requests, overlapped,
                 openedOver>>

\* capture_active is that of the runtime found before: a protocol detached since is not affected.
Activate(t) ==
  /\ At(t, "activate")
  /\ active' = active \cup ({work[t].now} \cap attached)
  /\ Goto(t, "next")
  /\ UNCHANGED <<bundleVars, storage, attached, rules, offered, catalogVars, sessionVars, history>>

\* What is left to start; then the session transitions.
StartNext(t) ==
  /\ At(t, "next")
  /\ \/ /\ work[t].todo # {} /\ Goto(t, "start")
        /\ UNCHANGED <<state, recorded>>
     \/ /\ work[t].todo = {} /\ work[t].op = "StartPlugin"
        /\ Ends(t) /\ UNCHANGED <<state, recorded>>
     \/ /\ work[t].todo = {} /\ work[t].op = "StartRecording"
        /\ IF IsValidTransition(state, "Recording")
             THEN state' = "Recording" /\ recorded' = work[t].begun /\ Ends(t)
             ELSE Goto(t, "refused") /\ UNCHANGED <<state, recorded>>
  /\ UNCHANGED <<bundleVars, engineVars, catalogVars, engine, http, file, history>>

\* A refused start: a recording stops what it has started.
Refused(t) ==
  /\ At(t, "refused")
  /\ IF work[t].op = "StartPlugin" THEN Ends(t)
     ELSE work' = [work EXCEPT ![t].pc = "stop", ![t].todo = work[t].begun, ![t].begun = {}]
  /\ UNCHANGED <<bundleVars, engineVars, catalogVars, sessionVars, history>>

StopProtocolCapture(t) ==
  /\ At(t, "stop")
  /\ \E p \in work[t].todo :
       /\ work' = [work EXCEPT ![t].todo = @ \ {p}, ![t].now = p, ![t].pc = IF p \in attached THEN "clear" ELSE "stop"]
       /\ offered' = [offered EXCEPT ![p] = IF p \in attached THEN Silent ELSE @]
  /\ UNCHANGED <<bundleVars, storage, attached, active, rules, catalogVars, sessionVars, history>>

\* A plausible bug, for a mutant run: capture_active stays.
ClearNot(t) ==
  /\ At(t, "clear")
  /\ Goto(t, IF work[t].op = "StopBundle" THEN "erase" ELSE "stop")
  /\ UNCHANGED <<bundleVars, engineVars, catalogVars, sessionVars, history>>

Clear(t) ==
  /\ At(t, "clear")
  /\ active' = active \ {work[t].now}
  /\ Goto(t, IF work[t].op = "StopBundle" THEN "erase" ELSE "stop")
  /\ UNCHANGED <<bundleVars, storage, attached, rules, offered, catalogVars, sessionVars, history>>

\* The end of DetachProtocol.
Erase ==
  /\ At("main", "erase")
  /\ attached' = attached \ {work["main"].now} /\ active' = active \ {work["main"].now}
  /\ Goto("main", "stop")
  /\ UNCHANGED <<bundleVars, storage, rules, offered, catalogVars, sessionVars, history>>

\* The service of the bundle is unregistered: its trackers are to be told.
Unregisters(trackers) ==
  work' = [work EXCEPT !["main"].op = "StopBundle", !["main"].pc = "removed", !["main"].begun = trackers \cap started]

\* All are stopped: a recording has its file to finalize, a bundle goes on stopping.
StopNext(t) ==
  /\ At(t, "stop") /\ work[t].todo = {}
  /\ \/ work[t].op = "StopPlugin" /\ Ends(t) /\ UNCHANGED storage
     \/ work[t].op \in {"StartRecording", "StopRecording"} /\ Goto(t, "finalize") /\ UNCHANGED storage
     \/ work[t].bundle = "core" /\ storage' = FALSE /\ Unregisters({"web"})
     \/ work[t].bundle \in Protocols /\ Goto(t, "removed") /\ UNCHANGED storage
  /\ UNCHANGED <<bundleVars, attached, active, rules, offered, catalogVars, sessionVars, history>>

\* StartRecording still has its pointer to the storage, StopRecording asks the engine.
Finalize(t) ==
  /\ At(t, "finalize")
  /\ file' = IF file = "open" /\ IF work[t].op = "StartRecording" THEN "storage" \in started ELSE storage
               THEN "final" ELSE file
  /\ state' = IF work[t].op = "StopRecording" /\ IsValidTransition(state, "Stopped") THEN "Stopped" ELSE state
  /\ IF t = "main" THEN Unregisters({"web"}) ELSE Ends(t)
  /\ UNCHANGED <<bundleVars, engineVars, catalogVars, engine, http, recorded, history>>

-----------------------------------------------------------------------------
(***************************************************************************)
(* Bundles.                                                                *)
(***************************************************************************)

\* What the trackers pass on of the bundles that are started: to the engine
StoragePointer(up) == {"storage", "core"} \subseteq up
Attached(up) == IF "core" \in up THEN up \cap Protocols ELSE {}
\* and to the web server, whose catalog lists a new protocol with the defaults of its schema.
SessionPointer(up) == {"session", "web"} \subseteq up
CorePointer(up) == {"core", "web"} \subseteq up
Listed(up) ==
  [p \in IF "web" \in up THEN up \cap Protocols ELSE {} |-> IF p \in DOMAIN entries THEN entries[p] ELSE Default[p]]

\* The session looks for the engine when it starts, and never again.
EnginePointer(b, up) == engine \/ (b = "session" /\ "core" \in up)

\* A bundle starts and registers its service, of which the trackers are to be told.  Those
\* of the core open after the registration; the web server registers nothing.
StartBundle(b) ==
  /\ At("main", "idle") /\ ~stopping /\ Cardinality(started) < Len(AutoStart)
  /\ b = AutoStart[Cardinality(started) + 1] /\ b \notin started
  /\ LET up == started \cup {b}
         trackers == IF b = "web" THEN {"web"} ELSE {"core", "web"} \cap up
     IN /\ started' = up /\ engine' = EnginePointer(b, up)
        /\ work' = [work EXCEPT !["main"] = IF trackers = {} THEN Idle
                      ELSE [Idle EXCEPT !.op = "StartBundle", !.pc = "added", !.bundle = b, !.begun = trackers]]
  /\ UNCHANGED <<stopping, engineVars, catalogVars, http, state, recorded, file, history>>

\* One tracker is told; after the last one the next bundle starts.
ToldOf(tracker) ==
  LET left == work["main"].begun \ {tracker}
  IN work' = [work EXCEPT !["main"] = IF left = {} THEN Idle ELSE [@ EXCEPT !.begun = left]]

\* AddingService of the core's trackers.
AddedToCore ==
  /\ At("main", "added") /\ "core" \in work["main"].begun
  /\ work["main"].bundle = "core" => "web" \notin work["main"].begun
  /\ storage' = StoragePointer(started) /\ attached' = Attached(started)
  /\ ToldOf("core")
  /\ UNCHANGED <<bundleVars, active, rules, offered, catalogVars, sessionVars, history>>

\* AddingService of the web server's.
AddedToWeb ==
  /\ At("main", "added") /\ "web" \in work["main"].begun
  /\ work["main"].bundle \in {"core", "web"} \cup Protocols => ~Locked
  /\ http' = SessionPointer(started) /\ core' = CorePointer(started) /\ entries' = Listed(started)
  /\ rules' = IF work["main"].bundle \in {"core", "web"} /\ core' THEN SetMappings(DOMAIN entries, mappings) ELSE rules
  /\ ToldOf("web")
  /\ UNCHANGED <<bundleVars, storage, attached, active, offered, mappings, engine, state, recorded, file, history>>

\* The main loop has seen the signal.
StopFramework ==
  /\ At("main", "idle") /\ ~stopping /\ started = Bundles /\ stopping' = TRUE
  /\ UNCHANGED <<started, engineVars, catalogVars, sessionVars, work, history>>

\* A plausible bug, for a mutant run: a paused recording is not ended.
EndsRecordingUnpaused(b) == b = "session" /\ state = "Recording"

EndsRecording(b) == b = "session" /\ state \in RecordingStates

\* The activator's Stop, in whatever order the bundles were found: the core lets go of
\* its protocols, the session ends its recording.
StopBundle(b) ==
  /\ At("main", "idle") /\ stopping /\ b \in started
  /\ b = "web" => At("http", "idle")
  /\ LET stops(op, pc, todo, trackers) ==
           work' = [work EXCEPT !["main"] = [Idle EXCEPT !.op = op, !.pc = pc, !.todo = todo, !.bundle = b,
                                              !.begun = trackers \cap started]]
     IN /\ overlapped' = (overlapped \/ work["http"] # Idle)
        /\ recorded' = IF EndsRecording(b) THEN {} ELSE recorded
        /\ IF b = "core" THEN stops("StopBundle", "stop", attached, {})
           ELSE IF EndsRecording(b) THEN stops("StopRecording", "stop", recorded, {})
           ELSE stops("StopBundle", "removed", {}, IF b = "web" THEN {} ELSE {"core", "web"})
  /\ UNCHANGED <<bundleVars, engineVars, catalogVars, engine, http, state, file, faults, requests,
                 openedOver>>

Told(tracker) == work' = [work EXCEPT !["main"].begun = @ \ {tracker}]

\* A plausible bug, for a mutant run: the engine keeps its pointer.
RemovedFromCoreKeeps ==
  /\ At("main", "removed") /\ "core" \in work["main"].begun
  /\ LET b == work["main"].bundle
     IN work' = [work EXCEPT !["main"].begun = @ \ {"core"},
                             !["main"].pc = IF b \in Protocols THEN "stop" ELSE "removed",
                             !["main"].todo = Protocols \cap {b}]
  /\ UNCHANGED <<bundleVars, engineVars, catalogVars, sessionVars, history>>

\* RemovedService of the core's trackers.
RemovedFromCore ==
  /\ At("main", "removed") /\ "core" \in work["main"].begun
  /\ LET b == work["main"].bundle
     IN /\ storage' = (storage /\ b # "storage")
        /\ work' = [work EXCEPT !["main"].begun = @ \ {"core"},
                                !["main"].pc = IF b \in Protocols THEN "stop" ELSE "removed",
                                !["main"].todo = Protocols \cap {b}]
  /\ UNCHANGED <<bundleVars, attached, active, rules, offered, catalogVars, sessionVars, history>>

\* RemovedService of the web server's.
RemovedFromWeb ==
  /\ At("main", "removed") /\ "web" \in work["main"].begun /\ ~Locked
  /\ LET b == work["main"].bundle
     IN /\ core' = (core /\ b # "core") /\ http' = (http /\ b # "session")
        /\ entries' = [p \in DOMAIN entries \ {b} |-> entries[p]]
  /\ Told("web")
  /\ UNCHANGED <<bundleVars, engineVars, mappings, engine, state, recorded, file, history>>

\* The bundle's objects are gone; a writer that was open leaves its file unfinished.
BundleGone ==
  /\ At("main", "removed") /\ work["main"].begun = {}
  /\ LET b == work["main"].bundle
     IN /\ started' = started \ {b}
        /\ file' = IF b = "storage" /\ file = "open" THEN "unfinished" ELSE file
        /\ core' = (core /\ b # "web") /\ http' = (http /\ b # "web")
        /\ entries' = IF b = "web" THEN [p \in {} |-> Default[p]] ELSE entries
        /\ offered' = IF b \in Protocols THEN [offered EXCEPT ![b] = Silent] ELSE offered
  /\ Ends("main")
  /\ UNCHANGED <<stopping, storage, attached, active, rules, mappings, engine, state, recorded, history>>

\* The only peer of a TCP capture leaves, and with it the channels.
PeerLeaves(p) ==
  /\ offered[p] # Silent /\ faults < MaxFaults
  /\ offered' = [offered EXCEPT ![p] = Silent] /\ faults' = faults + 1
  /\ UNCHANGED <<bundleVars, storage, attached, active, rules, catalogVars, sessionVars, work, requests, overlapped,
                 openedOver>>

-----------------------------------------------------------------------------
CaptureStep(t) ==
  \/ StartProtocolCapture(t) \/ Activate(t) \/ StartNext(t) \/ Refused(t)
  \/ StopProtocolCapture(t) \/ Clear(t) \/ StopNext(t) \/ Finalize(t)

BundleStep == AddedToCore \/ AddedToWeb \/ Erase \/ RemovedFromCore \/ RemovedFromWeb \/ BundleGone

Next ==
  \/ \E p \in Protocols : HandlePluginStart(p) \/ HandlePluginStop(p) \/ PeerLeaves(p)
  \/ \E p \in Protocols, config \in Configs : HandlePluginConfig(p, config)
  \/ \E list \in Mappings : HandleSetMappings(list)
  \/ \E names \in SUBSET Protocols : HandleRecordStart(names)
  \/ HandleRecordPause \/ HandleRecordResume \/ HandleRecordStop \/ HandlePlaybackOpen \/ OpenForPlayback
  \/ \E t \in Threads : CaptureStep(t)
  \/ \E b \in Bundles : StartBundle(b) \/ StopBundle(b)
  \/ StopFramework \/ BundleStep
Spec == Init /\ [][Next]_vars

-----------------------------------------------------------------------------
TypeOK ==
  /\ started \subseteq Bundles /\ attached \subseteq Protocols /\ active \subseteq attached
  /\ DOMAIN entries \subseteq Protocols
  /\ offered \in [Protocols -> (Configs \ {Invalid}) \cup {Silent}]
  /\ state \in SessionState /\ recorded \subseteq Protocols
  /\ \A t \in Threads : work[t].todo \subseteq Protocols

\* Whatever the engine, the catalog and the HTTP server point to is registered.
HeldIsRegistered ==
  At("main", "idle") =>
    /\ attached \subseteq started /\ DOMAIN entries \subseteq started
    /\ storage => "storage" \in started
    /\ core => "core" \in started
    /\ http => "session" \in started

\* A rule of the engine stems from a mapping that the catalog lists.
RulesAreListed ==
  core => \A c \in DOMAIN rules : \E m \in ToSet(mappings) : m.target = rules[c].topic

\* What one bundle keeps of another is current: pointers, entries and rules.
NothingStale == TypeOK /\ HeldIsRegistered /\ RulesAreListed

\* What the engine takes for a capture is one, and every capture is known to it.
EngineKnowsCaptures ==
  (\A t \in Threads : At(t, "idle")) /\ ~overlapped /\ faults = 0 =>
    active = {p \in Protocols : offered[p] # Silent}

\* The session's bundle leaves no recording open when the storage and the core are there yet,
\* but for one over which a file was opened: the session was Stopped then, and its Stop does nothing.
ShutdownClosesFile ==
  At("main", "idle") /\ stopping /\ ~overlapped /\ "session" \notin started /\ {"core", "storage"} \subseteq started =>
    file # "open" \/ openedOver

\* A capture that goes on is not replaced by another one.
StartedOnce ==
  [][~overlapped => \A p \in Protocols : offered[p] # Silent => offered'[p] \in {offered[p], Silent}]_vars
=============================================================================
