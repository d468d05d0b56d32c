----------------------------- MODULE ModelRouter -----------------------------
(***************************************************************************)
(* The model table: scheduler/single_model_router.cpp (load, unload,       *)
(* default), scheduler/model_registry.cpp (the thread that follows a       *)
(* registry file), scheduler/model_selection.cpp (how a request picks a    *)
(* backend) and the admin handlers of server/http/http_server.cpp.  An ID  *)
(* is <<base, suffix>>: EnsureUniqueIdLocked appends "-suffix" to a base   *)
(* that is taken.  A shared_ptr lease on a backend is a client in state    *)
(* "leased".                                                               *)
(***************************************************************************)
EXTENDS Integers, FiniteSets, Functions

CONSTANTS
  ActorSets,  \* which of "load", "default", "delete", "client" act beside the registry thread
  Specs,      \* load specifications: [path, id, make_default]; no id is NoModel
  AdminSpecs, \* the specifications operators post
  FirstText,  \* the registry file at startup
  Snapshots,  \* contents of the registry file: sets of Specs, Malformed or Missing
  Capable,    \* paths whose model has the feature that picky requests need
  RouterClients,
  Options,    \* what routes and policy ask of a selection: [fallback, ready, same_path]
  MaxEdits,   \* edits of the registry file
  MaxSuffix,  \* longest suffix of an ID
  MaxLoads,   \* models loaded in a behaviour
  NoModel, Malformed, Missing

VARIABLES
  acting,     \* a member of ActorSets
  models,     \* models_: ID -> [path, by], by = the thread that loaded it
  default_id, \* default_model_id_
  retired,    \* retired_ids_
  load_lock,  \* the holder of load_mutex_
  loader,     \* loader thread -> its LoadModel call
  file,       \* [text, mtime] of the registry file
  watcher,    \* the registry thread
  managed,    \* path_to_id_ with specifications_: path -> [id, spec]
  client,     \* request handlers selecting a model
  deletion    \* a DELETE /v1/admin/models handler

routerVars == <<acting, models, default_id, retired, load_lock, loader, file, watcher, managed,
       client, deletion>>

Threads == {"admin", "registry"}
Loaded == DOMAIN models
Paths == {s.path : s \in Specs}
ModelIds == {<<b, n>> : b \in Paths \cup ({s.id : s \in Specs} \ {NoModel}), n \in 0..MaxSuffix}

ASSUME SnapshotsAssumption == \A s \in Snapshots \ {Malformed, Missing} : s \subseteq Specs
ASSUME RouterBoundsAssumption == MaxEdits \in Nat /\ MaxSuffix \in Nat \ {0} /\ MaxLoads \in Nat
ASSUME RouterInputsAssumption == FirstText \in Snapshots /\ AdminSpecs \subseteq Specs
ASSUME RouterClientsAssumption == IsFiniteSet(RouterClients)
ASSUME OptionsAssumption == Options \subseteq [fallback : BOOLEAN, ready : BOOLEAN, same_path : BOOLEAN]
ASSUME NoModelAssumption == NoModel \notin Threads

NotLoading == [pc |-> "idle", spec |-> NoModel, result |-> NoModel]
NoEntry == [id |-> NoModel, path |-> NoModel]
NoClient == [pc |-> "idle", asked |-> NoModel, picky |-> FALSE, options |-> NoModel, primary |-> NoEntry,
             id |-> NoModel, list |-> << >>, garbled |-> FALSE]
NoDeletion == [pc |-> "idle", id |-> NoModel, references |-> 0, reply |-> "none"]

RouterInit ==
  /\ acting \in ActorSets
  /\ models = << >> /\ default_id = NoModel /\ retired = {} /\ load_lock = NoModel
  /\ loader = [t \in Threads |-> NotLoading]
  /\ file = [text |-> FirstText, mtime |-> 1]
  /\ watcher = [pc |-> "read", last |-> 0, seen |-> Missing, unread |-> FALSE, remove |-> {}, load |-> {}]
  /\ managed = << >>
  /\ client = [c \in RouterClients |-> NoClient]
  /\ deletion = NoDeletion

\* table[k] = e of a map.
Stored(table, k, e) == [x \in DOMAIN table \cup {k} |-> IF x = k THEN e ELSE table[x]]

\* use_count of a loaded backend: the table's own reference and the leases.
References(id) == 1 + Cardinality({c \in RouterClients : client[c].pc = "leased" /\ client[c].id = id})

\* EnsureUniqueIdLocked.
FreshId(base) ==
  LET free == {n \in 0..MaxSuffix : <<base, n>> \notin Loaded \cup retired}
  IN  <<base, CHOOSE n \in free : \A m \in free : n =< m>>
HasFreshId(base) == \E n \in 0..MaxSuffix : <<base, n>> \notin Loaded \cup retired

\* Mutant of LoadBegin: two loads run at the same time.
LoadBeginUnlocked(t) ==
  /\ loader[t].pc = "called"
  /\ loader' = [loader EXCEPT ![t].pc = "admit"]
  /\ UNCHANGED <<acting, models, default_id, retired, load_lock, file, watcher, managed,
         client, deletion>>

\* LoadModel takes load_mutex_ for the whole call.
LoadBegin(t) ==
  /\ loader[t].pc = "called" /\ load_lock = NoModel
  /\ load_lock' = t
  /\ loader' = [loader EXCEPT ![t].pc = "admit"]
  /\ UNCHANGED <<acting, models, default_id, retired, file, watcher, managed, client, deletion>>

Conflicts(spec) ==
  \/ <<spec.id, 0>> \in retired
  \/ \E id \in Loaded : (spec.id # NoModel /\ id = <<spec.id, 0>>) \/ models[id].path = spec.path

LoadReturns(t, id) ==
  /\ loader' = [loader EXCEPT ![t].pc = "returned", ![t].result = id]
  /\ load_lock' = IF load_lock = t THEN NoModel ELSE load_lock

\* Under mutex_: a retired or loaded ID and a loaded artifact are refused.
LoadAdmit(t) ==
  /\ loader[t].pc = "admit"
  /\ IF Conflicts(loader[t].spec) THEN LoadReturns(t, NoModel)
     ELSE loader' = [loader EXCEPT ![t].pc = "backend"] /\ UNCHANGED load_lock
  /\ UNCHANGED <<acting, models, default_id, retired, file, watcher, managed, client, deletion>>

\* No candidate backend loads the file.
LoadFails(t) ==
  /\ loader[t].pc = "backend"
  /\ LoadReturns(t, NoModel)
  /\ UNCHANGED <<acting, models, default_id, retired, file, watcher, managed, client, deletion>>

\* A candidate loads it and the entry is stored under mutex_.
LoadCommits(t) ==
  LET spec == loader[t].spec
      base == IF spec.id # NoModel THEN spec.id ELSE spec.path
      id == FreshId(base) IN
  /\ loader[t].pc = "backend" /\ HasFreshId(base) /\ Cardinality(Loaded \cup retired) < MaxLoads
  /\ models' = Stored(models, id, [path |-> spec.path, by |-> t])
  /\ default_id' = IF default_id = NoModel \/ spec.make_default THEN id ELSE default_id
  /\ LoadReturns(t, id)
  /\ UNCHANGED <<acting, retired, file, watcher, managed, client, deletion>>

CanUnload(id) == id \in Loaded /\ References(id) <= 1

\* UnloadModel; the next default is whichever entry the hash map lists first.
Unloaded(id) ==
  /\ retired' = retired \cup {id}
  /\ models' = Restrict(models, Loaded \ {id})
  /\ default_id' \in IF default_id # id THEN {default_id}
                     ELSE IF Loaded = {id} THEN {NoModel} ELSE Loaded \ {id}

\* POST /v1/admin/models.
AdminLoad ==
  /\ "load" \in acting
  /\ loader["admin"].pc = "idle"
  /\ \E s \in AdminSpecs : loader' = [loader EXCEPT !["admin"] = [NotLoading EXCEPT !.pc = "called", !.spec = s]]
  /\ UNCHANGED <<acting, models, default_id, retired, load_lock, file, watcher, managed,
         client, deletion>>

\* make_default: SetDefaultModel(id) once more, which other defaults and an unload may
\* have passed.
AdminLoaded ==
  LET id == loader["admin"].result IN
  /\ loader["admin"].pc = "returned"
  /\ loader' = [loader EXCEPT !["admin"] = NotLoading]
  /\ default_id' = IF loader["admin"].spec.make_default /\ id \in Loaded THEN id ELSE default_id
  /\ UNCHANGED <<acting, models, retired, load_lock, file, watcher, managed, client, deletion>>

\* PUT /v1/admin/models/default.
SetDefaultModel ==
  /\ "default" \in acting
  /\ \E id \in Loaded : default_id' = id
  /\ UNCHANGED <<acting, models, retired, load_lock, loader, file, watcher, managed, client,
         deletion>>

\* DELETE /v1/admin/models reads the reference count, then asks for the unload.
DeleteCounts ==
  /\ "delete" \in acting
  /\ deletion.pc = "idle"
  /\ \E id \in Loaded \cup retired :
       deletion' = [pc |-> "unload", id |-> id, reply |-> "none",
                    references |-> IF id \in Loaded THEN References(id) ELSE 0]
  /\ UNCHANGED <<acting, models, default_id, retired, load_lock, loader, file, watcher,
         managed, client>>

DeleteUnloads ==
  LET id == deletion.id IN
  /\ deletion.pc = "unload"
  /\ \/ CanUnload(id) /\ Unloaded(id) /\ deletion' = NoDeletion
     \/ /\ ~CanUnload(id) /\ UNCHANGED <<acting, models, default_id, retired>>
        /\ deletion' = [deletion EXCEPT !.pc = "refused",
             !.reply = IF deletion.references > 1 THEN "409" ELSE "404"]
  /\ UNCHANGED <<acting, load_lock, loader, file, watcher, managed, client>>

DeleteAnswered ==
  /\ deletion.pc = "refused" /\ deletion' = NoDeletion
  /\ UNCHANGED <<acting, models, default_id, retired, load_lock, loader, file, watcher,
         managed, client>>

\* An operator edits the registry file.
EditFile ==
  /\ file.mtime <= MaxEdits
  /\ \E t \in Snapshots : file' = [text |-> t, mtime |-> file.mtime + 1]
  /\ UNCHANGED <<acting, models, default_id, retired, load_lock, loader, watcher, managed,
         client, deletion>>

\* WatchLoop: the time of the file is recorded before the file is read.
WatchStat ==
  /\ watcher.pc = "stat" /\ file.text # Missing /\ file.mtime # watcher.last
  /\ watcher' = [watcher EXCEPT !.pc = "read", !.last = file.mtime]
  /\ UNCHANGED <<acting, models, default_id, retired, load_lock, loader, file, managed, client,
         deletion>>

\* Mutant of WatchEnds: the time is taken when the reload has ended.
WatchEndsLate(w) == [w EXCEPT !.pc = "stat", !.remove = {}, !.load = {}, !.last = file.mtime]

WatchEnds(w) == [w EXCEPT !.pc = "stat", !.remove = {}, !.load = {}]

Duplicates(entries) ==
  \E s, t \in entries : s # t /\ (s.path = t.path \/ (s.id # NoModel /\ s.id = t.id))
Changed(entries) == \E s \in entries : s.path \in DOMAIN managed /\ managed[s.path].spec # s

\* Reload and the first part of ApplyEntries: a file that is missing, malformed, holds a
\* duplicate or changes a managed specification is rejected as a whole; of a file that
\* cannot be opened nothing is read, and its time stays recorded.
WatchRead ==
  LET text == file.text
      rejected == text \in {Missing, Malformed} \/ Duplicates(text) \/ Changed(text)
      opened == [watcher EXCEPT !.seen = text, !.unread = FALSE] IN
  /\ watcher.pc = "read"
  /\ \/ text # Missing /\ watcher' = WatchEnds([watcher EXCEPT !.unread = TRUE])
     \/ watcher' = IF rejected THEN WatchEnds(opened)
                   ELSE [opened EXCEPT !.pc = "apply",
                           !.remove = DOMAIN managed \ {s.path : s \in text},
                           !.load = {s \in text : s.path \notin DOMAIN managed}]
  /\ UNCHANGED <<acting, models, default_id, retired, load_lock, loader, file, managed, client,
         deletion>>

\* ApplyEntries unloads what left the file; a model in use stays managed.
WatchUnload ==
  /\ watcher.pc = "apply"
  /\ \E p \in watcher.remove :
       /\ watcher' = [watcher EXCEPT !.remove = @ \ {p}]
       /\ LET id == managed[p].id IN
          \/ /\ CanUnload(id) /\ Unloaded(id)
             /\ managed' = Restrict(managed, DOMAIN managed \ {p})
          \/ ~CanUnload(id) /\ UNCHANGED <<acting, models, default_id, retired, managed>>
  /\ UNCHANGED <<acting, load_lock, loader, file, client, deletion>>

\* ApplyEntries loads what is new.
WatchLoad ==
  /\ watcher.pc = "apply" /\ watcher.remove = {} /\ loader["registry"].pc = "idle"
  /\ \E s \in watcher.load :
       loader' = [loader EXCEPT !["registry"] = [NotLoading EXCEPT !.pc = "called", !.spec = s]]
  /\ UNCHANGED <<acting, models, default_id, retired, load_lock, file, watcher, managed,
         client, deletion>>

WatchLoaded ==
  LET call == loader["registry"] IN
  /\ call.pc = "returned"
  /\ loader' = [loader EXCEPT !["registry"] = NotLoading]
  /\ watcher' = [watcher EXCEPT !.load = @ \ {call.spec}]
  /\ managed' = IF call.result = NoModel THEN managed
                ELSE Stored(managed, call.spec.path, [id |-> call.result, spec |-> call.spec])
  /\ UNCHANGED <<acting, models, default_id, retired, load_lock, file, client, deletion>>

WatchApplied ==
  /\ watcher.pc = "apply" /\ watcher.remove = {} /\ watcher.load = {}
  /\ watcher' = WatchEnds(watcher)
  /\ UNCHANGED <<acting, models, default_id, retired, load_lock, loader, file, managed, client,
         deletion>>

\* SelectModelForRequest: an explicit model by its ID, otherwise the default.  The request
\* leaves mutex_ with a pointer to the entry; `primary` is what the entry holds.
Select(c) ==
  /\ "client" \in acting
  /\ client[c].pc = "idle"
  /\ \E asked \in Loaded \cup retired \cup {NoModel}, picky \in BOOLEAN, options \in Options :
       LET id == IF asked # NoModel THEN asked ELSE default_id IN
       /\ id \in Loaded
       /\ client' = [client EXCEPT ![c] =
            [NoClient EXCEPT !.pc = "resolved", !.asked = asked, !.picky = picky, !.options = options,
                             !.primary = [id |-> id, path |-> models[id].path]]]
  /\ UNCHANGED <<acting, models, default_id, retired, load_lock, loader, file, watcher,
         managed, deletion>>

\* *primary: the entry while it is in the table.  What an erased one reads as is undefined:
\* its old contents, or those of whatever has its memory now.
Dereferenced(c) ==
  LET primary == client[c].primary IN
  IF primary.id \in Loaded THEN {primary} ELSE {primary} \cup [id : ModelIds, path : Paths]

\* The request has read e through its pointer.
Having(k, e) == [k EXCEPT !.garbled = @ \/ e # k.primary]

Serves(path, c) == client[c].picky => path \in Capable

\* allow_default_fallback: where policy allows it, a request that named no model.
MayReroute(c) == client[c].options.fallback /\ client[c].asked = NoModel

\* The selection fails, or goes on with ListModels.
Unserved(c, k) == IF MayReroute(c) THEN [k EXCEPT !.pc = "reroute", !.list = models] ELSE NoClient

\* The capabilities of the resolved model.
CheckCapabilities(c) ==
  /\ client[c].pc = "resolved"
  /\ \E e \in Dereferenced(c) :
       client' = [client EXCEPT ![c] =
         IF Serves(e.path, c) THEN [Having(@, e) EXCEPT !.pc = "checked"]
         ELSE Unserved(c, Having(@, e))]
  /\ UNCHANGED <<acting, models, default_id, retired, load_lock, loader, file, watcher,
         managed, deletion>>

\* What a selected request holds of a model: its backend, or nothing when the model is gone.
Held(k, id) == [k EXCEPT !.pc = IF id \in Loaded THEN "leased" ELSE "unbacked", !.id = id, !.list = << >>]

\* GetBackend(primary->id).  A generation request does not insist on a backend.
Acquire(c) ==
  /\ client[c].pc = "checked"
  /\ \E e \in Dereferenced(c) :
       client' = [client EXCEPT ![c] =
         IF client[c].options.ready /\ e.id \notin Loaded THEN Unserved(c, Having(@, e))
         ELSE Held(Having(@, e), e.id)]
  /\ UNCHANGED <<acting, models, default_id, retired, load_lock, loader, file, watcher,
         managed, deletion>>

\* PickFallbackCandidate: the listed models with the feature, in the scope the policy gives,
\* other than the one the request points to.
Candidates(c, e) ==
  {id \in DOMAIN client[c].list \ {e.id} :
     /\ client[c].options.same_path => client[c].list[id].path = e.path
     /\ Serves(client[c].list[id].path, c)
     /\ client[c].options.ready => id \in Loaded}

Reroute(c) ==
  /\ client[c].pc = "reroute"
  /\ \E e \in Dereferenced(c) :
       \/ Candidates(c, e) = {} /\ client' = [client EXCEPT ![c] = NoClient]
       \/ \E id \in Candidates(c, e) :
            client' = [client EXCEPT ![c] = Held(Having(@, e), id)]
  /\ UNCHANGED <<acting, models, default_id, retired, load_lock, loader, file, watcher,
         managed, deletion>>

\* The request ends and drops its lease.
Finish(c) ==
  /\ client[c].pc \in {"leased", "unbacked"}
  /\ client' = [client EXCEPT ![c] = NoClient]
  /\ UNCHANGED <<acting, models, default_id, retired, load_lock, loader, file, watcher,
         managed, deletion>>

LoadSteps(t) == LoadBegin(t) \/ LoadAdmit(t) \/ LoadFails(t) \/ LoadCommits(t)
WatchSteps == WatchStat \/ WatchRead \/ WatchUnload \/ WatchLoad \/ WatchLoaded \/ WatchApplied
AdminSteps == AdminLoad \/ AdminLoaded \/ SetDefaultModel \/ DeleteCounts \/ DeleteUnloads \/ DeleteAnswered
ClientSteps(c) == Select(c) \/ CheckCapabilities(c) \/ Acquire(c) \/ Reroute(c) \/ Finish(c)

RouterNext ==
  \/ \E t \in Threads : LoadSteps(t)
  \/ WatchSteps \/ AdminSteps \/ EditFile
  \/ \E c \in RouterClients : ClientSteps(c)

\* Every thread that is not waiting for a caller is scheduled; load_mutex_ is handed over.
RouterFairness ==
  /\ WF_routerVars(WatchSteps) /\ WF_routerVars(AdminLoaded)
  /\ \A t \in Threads : SF_routerVars(LoadBegin(t)) /\ WF_routerVars(LoadSteps(t))

RouterSpec == RouterInit /\ [][RouterNext]_routerVars /\ RouterFairness

-----------------------------------------------------------------------------
RouterTypeOK ==
  /\ Loaded \subseteq ModelIds /\ \A id \in Loaded : models[id] \in [path : Paths, by : Threads]
  /\ default_id \in ModelIds \cup {NoModel} /\ retired \subseteq ModelIds
  /\ load_lock \in Threads \cup {NoModel}
  /\ \A t \in Threads : /\ loader[t].pc \in {"idle", "called", "admit", "backend", "returned"}
                        /\ loader[t].spec \in Specs \cup {NoModel}
  /\ file.text \in Snapshots /\ file.mtime \in 1..(MaxEdits + 1)
  /\ watcher.pc \in {"stat", "read", "apply"} /\ watcher.load \subseteq Specs
  /\ DOMAIN managed \subseteq Paths
  /\ \A c \in RouterClients : client[c].pc \in {"idle", "resolved", "checked", "reroute",
         "leased", "unbacked"}
  /\ deletion.reply \in {"none", "409", "404"}

\* The default model is a loaded one, and there is a default whenever a model is loaded:
\* LoadModel, UnloadModel and the two handlers that set it cannot leave it dangling.
DefaultIsLoaded == default_id \in Loaded \/ (default_id = NoModel /\ Loaded = {})

\* No artifact is loaded twice, whichever of the admin API and the registry file asks:
\* load_mutex_ makes the conflict check and the commit one step for other loads.
OneModelPerArtifact == \A i, j \in Loaded : models[i].path = models[j].path => i = j

\* The ID the registry thread unloads for a path names the model it loaded for that path,
\* even after an operator has removed that model and loaded others: IDs are retired.
RegistryUnloadsOwnModels ==
  \A p \in DOMAIN managed : managed[p].id \in Loaded =>
    models[managed[p].id] = [path |-> p, by |-> "registry"]

\* While a request holds a backend, its model stays in the table.
LeasedModelStaysLoaded ==
  \A c \in RouterClients : client[c].pc = "leased" => client[c].id \in Loaded

\* A request whose pointer gave it the entry it resolved, and not what replaced it in
\* memory, is served by the model it names, or by one that has the feature it needs.
ServedAsAsked ==
  \A c \in RouterClients : client[c].pc = "leased" /\ ~client[c].garbled =>
    /\ client[c].asked \in {NoModel, client[c].id}
    /\ Serves(models[client[c].id].path, c)

\* The entry a request points to stays in the table until the request has read it.  The
\* code does not keep it there: UnloadModel looks at leases, and a request that has only
\* resolved its model has none.
PointerOutlivesModel ==
  \A c \in RouterClients : client[c].pc \in {"resolved", "checked", "reroute"} =>
    client[c].primary.id \in Loaded

\* The last edit of the registry file is read in the end, also when it falls between the
\* watcher's look at the time and its look at the contents, unless the watcher could not
\* open the file when it came to read that edit.
LastEditRead ==
  <>[](file.text # Missing =>
         watcher.seen = file.text \/ (watcher.unread /\ watcher.last = file.mtime))

\* The same without the exception.  The code does not promise it: the time is recorded
\* before the file is opened, and a file that could not be opened is not tried again.
LastEditAlwaysRead == <>[](file.text # Missing => watcher.seen = file.text)

\* "Distinguish a genuinely unknown id from a model whose backend is still referenced":
\* the answer 404 is given for a model that is not loaded.
NotFoundMeansUnknown == deletion.reply = "404" => deletion.id \notin Loaded

\* The registry's watcher, the admin handlers and the requests together keep the
\* router consistent: the default is loaded, an artifact is loaded once, the
\* watcher unloads only what it loaded, a leased model stays and a request is
\* served by the model it asked for.
RouterSafe ==
    /\ RouterTypeOK
    /\ DefaultIsLoaded
    /\ OneModelPerArtifact
    /\ RegistryUnloadsOwnModels
    /\ LeasedModelStaysLoaded
    /\ ServedAsAsked
=============================================================================
