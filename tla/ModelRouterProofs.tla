-------------------------- MODULE ModelRouterProofs --------------------------
(***************************************************************************)
(* RouterSafe holds of every behaviour of the model table, for any         *)
(* specifications, snapshots of the registry file and finite set of        *)
(* requests.  Two facts carry the argument.  An ID is never given twice,   *)
(* so that what somebody remembers about an ID (the registry's path table, *)
(* a load's result, a request's list of models) is still true of it when   *)
(* it is loaded.  And load_mutex_ keeps the answer of the conflict check   *)
(* true until the entry is stored.                                         *)
(***************************************************************************)
EXTENDS ModelRouter, FiniteSetTheorems, WellFoundedInduction, TLAPS

Model == [path : Paths, by : Threads]
Tables == UNION {[D -> Model] : D \in SUBSET ModelIds}
IsTable(m) == DOMAIN m \subseteq ModelIds /\ m \in [DOMAIN m -> Model]
Calls == [pc : {"idle", "called", "admit", "backend", "returned"},
          spec : Specs \cup {NoModel}, result : ModelIds \cup {NoModel}]

Watchers == [pc : {"stat", "read", "apply"}, last : 0..(MaxEdits + 1),
             seen : Snapshots \cup {Missing}, unread : BOOLEAN, remove : SUBSET Paths,
                    load : SUBSET Specs]
Entries == [id : ModelIds \cup {NoModel}, path : Paths \cup {NoModel}]
Clients == [pc : {"idle", "resolved", "checked", "reroute", "leased", "unbacked"},
            asked : ModelIds \cup {NoModel}, picky : BOOLEAN, options : Options \cup {NoModel},
            primary : Entries, id : ModelIds \cup {NoModel}, list : Tables, garbled : BOOLEAN]
Deletions == [pc : {"idle", "unload", "refused"}, id : ModelIds \cup {NoModel},
              references : Nat, reply : {"none", "409", "404"}]

TableTypes ==
  /\ IsTable(models) /\ retired \subseteq ModelIds
  /\ default_id \in ModelIds \cup {NoModel}
LoadTypes ==
  /\ load_lock \in Threads \cup {NoModel}
  /\ loader \in [Threads -> Calls]
  /\ \A t \in Threads : loader[t].pc # "idle" => loader[t].spec \in Specs
RegistryTypes ==
  /\ file \in [text : Snapshots, mtime : 1..(MaxEdits + 1)]
  /\ watcher \in Watchers
  /\ DOMAIN managed \subseteq Paths
  /\ managed = [p \in DOMAIN managed |-> managed[p]]
ClientTypes == client \in [RouterClients -> Clients]
DeletionTypes == deletion \in Deletions

\* Past its start a load holds load_mutex_, and once admitted its artifact stays unloaded.
LoadInv ==
  \A t \in Threads :
    /\ loader[t].pc \in {"admit", "backend"} => load_lock = t
    /\ loader[t].pc = "backend" => \A id \in Loaded : models[id].path # loader[t].spec.path

Known == Loaded \cup retired

\* What the registry thread remembers: the ID its last load returned, and path_to_id_.
ReturnedInv ==
  LET call == loader["registry"] IN
  call.pc = "returned" /\ call.result # NoModel =>
    /\ call.result \in Known
    /\ call.result \in Loaded => models[call.result] = [path |-> call.spec.path, by |-> "registry"]
ManagedInv ==
  \A p \in DOMAIN managed :
    /\ managed[p].id \in Known
    /\ managed[p].id \in Loaded => models[managed[p].id] = [path |-> p, by |-> "registry"]

\* What a request remembers: the entry it points to, the feature it found there, its list
\* of models, its lease.
ClientInv(c) ==
  LET k == client[c] IN
  /\ k.pc \in {"resolved", "checked", "reroute"} =>
       /\ k.primary.id \in Known /\ k.asked \in {NoModel, k.primary.id}
       /\ k.primary.id \in Loaded => models[k.primary.id].path = k.primary.path
  /\ k.pc = "checked" /\ ~k.garbled /\ k.picky => k.primary.path \in Capable
  /\ k.pc = "reroute" =>
       /\ k.asked = NoModel
       /\ \A id \in DOMAIN k.list :
            id \in Known /\ (id \in Loaded => models[id] = k.list[id])
  /\ k.pc = "leased" =>
       /\ k.id \in Loaded
       /\ ~k.garbled => k.asked \in {NoModel,
              k.id} /\ (k.picky => models[k.id].path \in Capable)
ClientsInv == \A c \in RouterClients : ClientInv(c)

RouterIInv ==
  /\ TableTypes /\ LoadTypes /\ RegistryTypes /\ ClientTypes /\ DeletionTypes
  /\ DefaultIsLoaded /\ OneModelPerArtifact
  /\ LoadInv /\ ReturnedInv /\ ManagedInv /\ ClientsInv

\* How the table may change: no ID is forgotten, a known ID keeps its model or is gone,
\* and a leased model stays.
Evolves ==
  /\ Known \subseteq Known'
  /\ \A id \in Known : id \in Loaded' => id \in Loaded /\ models'[id] = models[id]
  /\ \A c \in RouterClients : client[c].pc = "leased" => client[c].id \in Loaded'

-----------------------------------------------------------------------------
(* The operators of the model.                                             *)

\* The least of a set of natural numbers is one of them.
LEMMA LeastSuffix ==
  ASSUME NEW S \in SUBSET Nat, S # {}
  PROVE  (CHOOSE n \in S : \A m \in S : n =< m) \in S
<1> DEFINE R == {ss \in Nat \X Nat : ss[1] < ss[2]}
<1>1. IsWellFoundedOn(R, Nat)
  BY NatLessThanWellFounded, Zenon DEF OpToRel
<1>2. \E x \in S : \A y \in S : ~(<<y, x>> \in R)
  <2> HIDE DEF R
  <2>1. S \subseteq Nat
    OBVIOUS
  <2> QED BY <1>1, <2>1, WFMin, Zenon
<1>3. \A x, y \in S : y < x => <<y, x>> \in R
  OBVIOUS
<1> HIDE DEF R
<1>4. \E x \in S : \A y \in S : ~(y < x)
  BY <1>2, <1>3, Zenon
<1>5. \A x, y \in S : ~(y < x) => x =< y
  OBVIOUS
<1>6. \E x \in S : \A y \in S : x =< y
  BY <1>4, <1>5, Zenon
<1> QED BY <1>6, Zenon

\* EnsureUniqueIdLocked returns an ID that no model has or had.
LEMMA FreshIdIsFresh ==
  ASSUME NEW base \in Paths \cup ({s.id : s \in Specs} \ {NoModel}), HasFreshId(base)
  PROVE  FreshId(base) \in ModelIds /\ FreshId(base) \notin Known
<1> DEFINE S == {n \in 0..MaxSuffix : <<base, n>> \notin Loaded \cup retired}
<1>1. S \in SUBSET Nat /\ S # {}
  BY RouterBoundsAssumption DEF HasFreshId
<1> DEFINE least == CHOOSE n \in S : \A m \in S : n =< m
<1>2. least \in S
  BY <1>1, LeastSuffix, Zenon
<1>3. FreshId(base) = <<base, least>>
  BY DEF FreshId
<1>4. least \in 0..MaxSuffix /\ <<base, least>> \notin Loaded \cup retired
  <2> HIDE DEF least
  <2> QED BY <1>2
<1> HIDE DEF S, least
<1> QED BY <1>3, <1>4 DEF ModelIds, Known

\* The count of references is a number, and a model that may be unloaded has no lease.
LEMMA UnloadHasNoLease ==
  ASSUME NEW id
  PROVE  /\ References(id) \in Nat
         /\ CanUnload(id) =>
              \A c \in RouterClients : client[c].pc = "leased" => client[c].id # id
<1> DEFINE S == {c \in RouterClients : client[c].pc = "leased" /\ client[c].id = id}
<1>1. IsFiniteSet(S)
  BY RouterClientsAssumption, FS_Subset
<1>2. Cardinality(S) \in Nat /\ (Cardinality(S) = 0 <=> S = {})
  BY <1>1, FS_CardinalityType, FS_EmptySet
<1>3. References(id) \in Nat
  BY <1>2 DEF References
<1>4. CanUnload(id) => S = {}
  BY <1>2 DEF CanUnload, References
<1> QED BY <1>3, <1>4

\* Tables, as a set.
LEMMA TableSet ==
  /\ << >> \in Tables /\ IsTable(<< >>)
  /\ \A m : IsTable(m) <=> m \in Tables
<1>1. << >> \in [{} -> Model] /\ DOMAIN << >> = {}
  OBVIOUS
<1> HIDE DEF Model
<1> QED BY <1>1 DEF Tables, IsTable

-----------------------------------------------------------------------------
(* How the table changes, and what is remembered about it.                 *)

\* An unchanged table evolves, and what is only about it stays true.
LEMMA SameTable ==
  ASSUME RouterIInv, UNCHANGED <<models, retired>>
  PROVE  /\ Evolves /\ OneModelPerArtifact' /\ IsTable(models)' /\ (retired \subseteq ModelIds)'
         /\ UNCHANGED default_id => TableTypes' /\ DefaultIsLoaded'
         /\ UNCHANGED <<loader, load_lock>> => LoadInv'
<1>1. TableTypes /\ DefaultIsLoaded /\ OneModelPerArtifact /\ LoadInv
  BY DEF RouterIInv
<1>2. Known' = Known /\ Loaded' = Loaded
  BY DEF Known, Loaded
<1>3. Evolves
  BY <1>2, Zenon DEF Evolves, RouterIInv, ClientsInv, ClientInv, Known
<1>4. OneModelPerArtifact' /\ IsTable(models)' /\ (retired \subseteq ModelIds)'
  BY <1>1, <1>2 DEF OneModelPerArtifact, TableTypes, IsTable
<1>5. UNCHANGED default_id => TableTypes' /\ DefaultIsLoaded'
  BY <1>1, <1>2 DEF TableTypes, IsTable, DefaultIsLoaded
<1>6. UNCHANGED <<loader, load_lock>> => LoadInv'
  BY <1>1, <1>2 DEF LoadInv
<1> QED BY <1>3, <1>4, <1>5, <1>6

\* Variables an action leaves alone keep their types.
LEMMA SameTypes ==
  ASSUME RouterIInv
  PROVE  /\ UNCHANGED <<loader, load_lock>> => LoadTypes'
         /\ UNCHANGED <<file, watcher, managed>> => RegistryTypes'
         /\ UNCHANGED client => ClientTypes'
         /\ UNCHANGED deletion => DeletionTypes'
<1>1. UNCHANGED <<loader, load_lock>> => LoadTypes'
  BY DEF RouterIInv, LoadTypes
<1>2. UNCHANGED <<file, watcher, managed>> => RegistryTypes'
  BY DEF RouterIInv, RegistryTypes
<1>3. UNCHANGED client => ClientTypes'
  BY DEF RouterIInv, ClientTypes
<1>4. UNCHANGED deletion => DeletionTypes'
  BY DEF RouterIInv, DeletionTypes
<1> QED BY <1>1, <1>2, <1>3, <1>4

\* While the table evolves, what was remembered about an ID stays true of it.
LEMMA MemoryHolds ==
  ASSUME RouterIInv, Evolves
  PROVE  /\ UNCHANGED managed => ManagedInv'
         /\ loader'["registry"] = loader["registry"] => ReturnedInv'
         /\ \A c \in RouterClients : client'[c] = client[c] => ClientInv(c)'
         /\ UNCHANGED client => ClientsInv'
<1>1. UNCHANGED managed => ManagedInv'
  BY DEF RouterIInv, ManagedInv, Evolves
<1>2. loader'["registry"] = loader["registry"] => ReturnedInv'
  BY DEF RouterIInv, ReturnedInv, Evolves
<1>3. \A c \in RouterClients : client'[c] = client[c] => ClientInv(c)'
  <2> SUFFICES ASSUME NEW c \in RouterClients, client'[c] = client[c]
               PROVE  ClientInv(c)'
    OBVIOUS
  <2>1. ClientInv(c) /\ Loaded \subseteq Known
    BY DEF RouterIInv, ClientsInv, Known
  <2> QED BY <2>1 DEF ClientInv, Evolves
<1>4. UNCHANGED client => ClientsInv'
  BY <1>3 DEF ClientsInv
<1> QED BY <1>1, <1>2, <1>3, <1>4

\* An unload takes an unleased model from the table and picks a default among the rest.
LEMMA UnloadEvolves ==
  ASSUME RouterIInv, NEW id, CanUnload(id), Unloaded(id), UNCHANGED <<loader, load_lock>>
  PROVE  Evolves /\ TableTypes' /\ DefaultIsLoaded' /\ OneModelPerArtifact' /\ LoadInv'
<1>1. TableTypes /\ DefaultIsLoaded /\ OneModelPerArtifact /\ LoadInv /\ id \in Loaded
  BY DEF RouterIInv, CanUnload
<1>2. /\ Loaded' = Loaded \ {id} /\ retired' = retired \cup {id}
      /\ \A i \in Loaded' : models'[i] = models[i]
  BY DEF Unloaded, Restrict, Loaded
<1>3. Evolves
  <2>1. \A c \in RouterClients : client[c].pc = "leased" =>
          client[c].id \in Loaded /\ client[c].id # id
    BY UnloadHasNoLease DEF RouterIInv, ClientsInv, ClientInv
  <2> QED BY <1>1, <1>2, <2>1, Zenon DEF Evolves, Known
<1>4. IsTable(models')
  BY <1>1, <1>2 DEF TableTypes, IsTable, Unloaded, Restrict, Loaded
<1>5. retired' \subseteq ModelIds /\ default_id' \in ModelIds \cup {NoModel}
  BY <1>1, <1>2 DEF TableTypes, IsTable, Unloaded, Loaded
<1>6. DefaultIsLoaded'
  BY <1>1, <1>2 DEF DefaultIsLoaded, Unloaded
<1>7. OneModelPerArtifact' /\ LoadInv'
  BY <1>1, <1>2 DEF OneModelPerArtifact, LoadInv
<1> QED BY <1>3, <1>4, <1>5, <1>6, <1>7 DEF TableTypes, IsTable

\* A load's commit adds one entry under an ID that nobody has seen.
LEMMA CommitAdds ==
  ASSUME RouterIInv, NEW t \in Threads, LoadCommits(t)
  PROVE  \E id \in ModelIds :
           /\ id \notin Known /\ Loaded' = Loaded \cup {id}
           /\ models' = Stored(models, id, [path |-> loader[t].spec.path, by |-> t])
           /\ default_id' = IF default_id = NoModel \/ loader[t].spec.make_default THEN id ELSE default_id
           /\ loader' = [loader EXCEPT ![t].pc = "returned", ![t].result = id]
<1> DEFINE spec == loader[t].spec
           base == IF spec.id # NoModel THEN spec.id ELSE spec.path
<1>1. spec \in Specs
  BY DEF RouterIInv, LoadTypes, LoadCommits
<1>2. base \in Paths \cup ({s.id : s \in Specs} \ {NoModel})
  BY <1>1 DEF Paths
<1>3. HasFreshId(base)
  BY DEF LoadCommits
<1>4. FreshId(base) \in ModelIds /\ FreshId(base) \notin Known
  BY <1>2, <1>3, FreshIdIsFresh
<1>5. /\ models' = Stored(models, FreshId(base), [path |-> spec.path, by |-> t])
      /\ default_id' = IF default_id = NoModel \/ spec.make_default THEN FreshId(base) ELSE default_id
      /\ loader' = [loader EXCEPT ![t].pc = "returned", ![t].result = FreshId(base)]
  BY DEF LoadCommits, LoadReturns
<1> HIDE DEF base
<1>6. Loaded' = Loaded \cup {FreshId(base)}
  BY <1>5 DEF Stored, Loaded
<1> QED BY <1>4, <1>5, <1>6, Zenon

-----------------------------------------------------------------------------
(* Every action preserves RouterIInv.                                      *)

\* A load starts when nobody holds the lock.
LEMMA LoadBeginStep ==
  ASSUME RouterIInv, NEW t \in Threads, LoadBegin(t)
  PROVE  RouterIInv'
<1>1. LoadTypes /\ LoadInv /\ ReturnedInv
  BY DEF RouterIInv
<1>2. LoadTypes' /\ \A u \in Threads \ {t} : loader'[u] = loader[u]
  BY <1>1 DEF LoadBegin, LoadTypes, Calls
<1>3. LoadInv'
  BY <1>1, NoModelAssumption DEF LoadBegin, LoadInv, LoadTypes, Calls, Loaded
<1>4. ReturnedInv'
  BY <1>1 DEF LoadBegin, ReturnedInv, LoadTypes, Calls, Threads, Known, Loaded
<1> QED BY <1>2, <1>3, <1>4, SameTable, SameTypes, MemoryHolds DEF LoadBegin, RouterIInv

\* The conflict check: a refused load returns, an admitted one has no loaded rival.
LEMMA LoadAdmitStep ==
  ASSUME RouterIInv, NEW t \in Threads, LoadAdmit(t)
  PROVE  RouterIInv'
<1>1. LoadTypes /\ LoadInv /\ ReturnedInv
  BY DEF RouterIInv
<1>2. CASE Conflicts(loader[t].spec)
  <2>1. LoadTypes' /\ loader' = [loader EXCEPT ![t].pc = "returned", ![t].result = NoModel]
    BY <1>1, <1>2 DEF LoadAdmit, LoadReturns, LoadTypes, Calls
  <2>2. LoadInv'
    BY <1>1, <1>2, NoModelAssumption
       DEF LoadAdmit, LoadReturns, LoadInv, LoadTypes, Calls, Loaded
  <2>3. ReturnedInv'
    BY <1>1, <2>1 DEF LoadAdmit, ReturnedInv, LoadTypes, Calls, Threads, Known, Loaded
  <2> QED BY <2>1, <2>2, <2>3, SameTable, SameTypes, MemoryHolds DEF LoadAdmit, RouterIInv
<1>3. CASE ~Conflicts(loader[t].spec)
  <2>1. LoadTypes' /\ loader' = [loader EXCEPT ![t].pc = "backend"] /\ load_lock' = load_lock
    BY <1>1, <1>3 DEF LoadAdmit, LoadTypes, Calls
  <2>2. \A id \in Loaded : models[id].path # loader[t].spec.path
    BY <1>3 DEF Conflicts
  <2>3. LoadInv'
    BY <1>1, <2>1, <2>2 DEF LoadAdmit, LoadInv, LoadTypes, Calls, Loaded
  <2>4. ReturnedInv'
    BY <1>1, <2>1 DEF LoadAdmit, ReturnedInv, LoadTypes, Calls, Threads, Known, Loaded
  <2> QED BY <2>1, <2>3, <2>4, SameTable, SameTypes, MemoryHolds DEF LoadAdmit, RouterIInv
<1> QED BY <1>2, <1>3

\* A load that fails returns no ID and gives the lock back.
LEMMA LoadFailsStep ==
  ASSUME RouterIInv, NEW t \in Threads, LoadFails(t)
  PROVE  RouterIInv'
<1>1. LoadTypes /\ LoadInv /\ ReturnedInv
  BY DEF RouterIInv
<1>2. LoadTypes' /\ loader' = [loader EXCEPT ![t].pc = "returned", ![t].result = NoModel]
  BY <1>1, Zenon DEF LoadFails, LoadReturns, LoadTypes, Calls
<1>3. LoadInv'
  BY <1>1, NoModelAssumption DEF LoadFails, LoadReturns, LoadInv, LoadTypes, Calls, Loaded
<1>4. ReturnedInv'
  BY <1>1, <1>2 DEF LoadFails, ReturnedInv, LoadTypes, Calls, Threads, Known, Loaded
<1> QED BY <1>2, <1>3, <1>4, SameTable, SameTypes, MemoryHolds DEF LoadFails, RouterIInv

\* The commit: no other load is past its start, and the artifact is still unloaded.
LEMMA LoadCommitsStep ==
  ASSUME RouterIInv, NEW t \in Threads, LoadCommits(t)
  PROVE  RouterIInv'
<1>1. LoadTypes /\ LoadInv /\ ReturnedInv /\ TableTypes /\ DefaultIsLoaded /\ OneModelPerArtifact
  BY DEF RouterIInv
<1>2. /\ loader[t].pc = "backend" /\ load_lock = t /\ load_lock' = NoModel /\ loader[t].spec \in Specs
      /\ UNCHANGED <<acting, retired, file, watcher, managed, client, deletion>>
  BY <1>1 DEF LoadCommits, LoadReturns, LoadInv, LoadTypes
<1>3. PICK id \in ModelIds :
        /\ id \notin Known /\ Loaded' = Loaded \cup {id}
        /\ models' = Stored(models, id, [path |-> loader[t].spec.path, by |-> t])
        /\ default_id' = IF default_id = NoModel \/ loader[t].spec.make_default THEN id ELSE default_id
        /\ loader' = [loader EXCEPT ![t].pc = "returned", ![t].result = id]
  BY CommitAdds
<1>4. /\ models'[id] = [path |-> loader[t].spec.path, by |-> t]
      /\ \A i \in Loaded : models'[i] = models[i]
  BY <1>3 DEF Stored, Known, Loaded
<1>5. Evolves
  BY <1>2, <1>3, <1>4, Zenon DEF Evolves, Known, RouterIInv, ClientsInv, ClientInv
<1>6. TableTypes'
  <2>1. [path |-> loader[t].spec.path, by |-> t] \in Model
    BY <1>2 DEF Model, Paths
  <2>2. IsTable(models')
    BY <1>1, <1>3, <2>1 DEF TableTypes, IsTable, Stored, Loaded
  <2> QED BY <1>1, <1>2, <1>3, <2>2 DEF TableTypes, IsTable
<1>7. DefaultIsLoaded'
  BY <1>1, <1>3 DEF DefaultIsLoaded
<1>8. OneModelPerArtifact'
  BY <1>1, <1>2, <1>3, <1>4 DEF OneModelPerArtifact, LoadInv
<1>9. LoadTypes'
  <2>1. loader[t] \in Calls
    BY <1>1 DEF LoadTypes
  <2>2. [loader[t] EXCEPT !.pc = "returned", !.result = id] \in Calls
    BY <2>1, Zenon DEF Calls
  <2> QED BY <1>1, <1>2, <1>3, <2>2 DEF LoadTypes
<1>10. LoadInv'
  BY <1>1, <1>2, <1>3 DEF LoadInv, LoadTypes, Calls
<1>11. ReturnedInv'
  <2>1. CASE t = "registry"
    BY <1>1, <1>3, <1>4, <2>1 DEF ReturnedInv, LoadTypes, Calls, Known
  <2>2. CASE t # "registry"
    BY <1>1, <1>3, <1>5, <2>2, MemoryHolds DEF LoadTypes, Threads
  <2> QED BY <2>1, <2>2
<1> QED BY <1>2, <1>5, <1>6, <1>7, <1>8, <1>9, <1>10, <1>11, SameTypes, MemoryHolds
   DEF RouterIInv

\* A load that starts or ends at its caller, with the table and the lock as they are.
LEMMA CallChanges ==
  ASSUME RouterIInv, NEW t \in Threads, NEW call \in Calls,
         call.pc = "idle" \/ (call.pc = "called" /\ call.spec \in Specs),
         loader' = [loader EXCEPT ![t] = call], UNCHANGED <<models, retired, load_lock>>
  PROVE  LoadTypes' /\ LoadInv' /\ ReturnedInv'
<1>1. LoadTypes /\ LoadInv /\ ReturnedInv
  BY DEF RouterIInv
<1>2. LoadTypes'
  BY <1>1 DEF LoadTypes
<1>3. LoadInv'
  BY <1>1 DEF LoadInv, LoadTypes, Loaded
<1>4. ReturnedInv'
  BY <1>1 DEF ReturnedInv, LoadTypes, Threads, Known, Loaded
<1> QED BY <1>2, <1>3, <1>4

\* The records a caller writes are calls.
LEMMA CallRecords ==
  /\ NotLoading \in Calls /\ NotLoading.pc = "idle"
  /\ \A s \in Specs : LET call == [NotLoading EXCEPT !.pc = "called", !.spec = s] IN
       call \in Calls /\ call.pc = "called" /\ call.spec = s
BY Zenon DEF NotLoading, Calls

\* POST /v1/admin/models calls LoadModel.
LEMMA AdminLoadStep ==
  ASSUME RouterIInv, AdminLoad
  PROVE  RouterIInv'
<1>1. PICK s \in Specs : loader' = [loader EXCEPT !["admin"] =
                                      [NotLoading EXCEPT !.pc = "called", !.spec = s]]
  <2>1. AdminSpecs \subseteq Specs
    BY RouterInputsAssumption
  <2> QED BY <2>1, Zenon DEF AdminLoad
<1>2. LoadTypes' /\ LoadInv' /\ ReturnedInv'
  BY <1>1, CallRecords, CallChanges, Zenon DEF AdminLoad, Threads
<1> QED BY <1>2, SameTable, SameTypes, MemoryHolds DEF AdminLoad, RouterIInv

\* make_default after the load: only a model that is still loaded becomes the default.
LEMMA AdminLoadedStep ==
  ASSUME RouterIInv, AdminLoaded
  PROVE  RouterIInv'
<1>1. LoadTypes' /\ LoadInv' /\ ReturnedInv'
  BY CallRecords, CallChanges, Zenon DEF AdminLoaded, Threads
<1>2. TableTypes' /\ DefaultIsLoaded'
  BY SameTable DEF AdminLoaded, RouterIInv, TableTypes, IsTable, DefaultIsLoaded, Loaded
<1> QED BY <1>1, <1>2, SameTable, SameTypes, MemoryHolds DEF AdminLoaded, RouterIInv

\* The default is set to a loaded model.
LEMMA SetDefaultModelStep ==
  ASSUME RouterIInv, SetDefaultModel
  PROVE  RouterIInv'
<1>1. TableTypes' /\ DefaultIsLoaded'
  BY SameTable DEF SetDefaultModel, RouterIInv, TableTypes, IsTable, DefaultIsLoaded, Loaded
<1> QED BY <1>1, SameTable, SameTypes, MemoryHolds DEF SetDefaultModel, RouterIInv

\* DELETE /v1/admin/models reads the count of references.
LEMMA DeleteCountsStep ==
  ASSUME RouterIInv, DeleteCounts
  PROVE  RouterIInv'
<1>1. DeletionTypes'
  BY UnloadHasNoLease
     DEF DeleteCounts, DeletionTypes, Deletions, RouterIInv, TableTypes, IsTable, Loaded
<1> QED BY <1>1, SameTable, SameTypes, MemoryHolds DEF DeleteCounts, RouterIInv

\* DELETE unloads by the count at that moment, not by the one it read before.
LEMMA DeleteUnloadsStep ==
  ASSUME RouterIInv, DeleteUnloads
  PROVE  RouterIInv'
<1>1. DeletionTypes'
  <2>1. CASE deletion' = NoDeletion
    BY <2>1 DEF DeletionTypes, Deletions, NoDeletion
  <2>2. CASE deletion' = [deletion EXCEPT !.pc = "refused",
                            !.reply = IF deletion.references > 1 THEN "409" ELSE "404"]
    BY <2>2, Zenon DEF RouterIInv, DeletionTypes, Deletions
  <2> QED BY <2>1, <2>2 DEF DeleteUnloads
<1>2. CASE CanUnload(deletion.id) /\ Unloaded(deletion.id)
  <2>1. Evolves /\ TableTypes' /\ DefaultIsLoaded' /\ OneModelPerArtifact' /\ LoadInv'
    BY <1>2, UnloadEvolves DEF DeleteUnloads
  <2> QED BY <1>1, <2>1, SameTypes, MemoryHolds DEF DeleteUnloads, RouterIInv
<1>3. CASE UNCHANGED <<models, default_id, retired>>
  BY <1>1, <1>3, SameTable, SameTypes, MemoryHolds DEF DeleteUnloads, RouterIInv
<1> QED BY <1>2, <1>3 DEF DeleteUnloads

\* The handler answers a refusal.
LEMMA DeleteAnsweredStep ==
  ASSUME RouterIInv, DeleteAnswered
  PROVE  RouterIInv'
<1>1. DeletionTypes'
  BY DEF DeleteAnswered, DeletionTypes, Deletions, NoDeletion
<1> QED BY <1>1, SameTable, SameTypes, MemoryHolds DEF DeleteAnswered, RouterIInv

\* An edit replaces the registry file.
LEMMA EditFileStep ==
  ASSUME RouterIInv, EditFile
  PROVE  RouterIInv'
<1>1. file' \in [text : Snapshots, mtime : 1..(MaxEdits + 1)]
  BY RouterBoundsAssumption DEF RouterIInv, RegistryTypes, EditFile
<1>2. RegistryTypes'
  BY <1>1 DEF RouterIInv, RegistryTypes, EditFile
<1> QED BY <1>2, SameTable, SameTypes, MemoryHolds DEF EditFile, RouterIInv

\* The watcher's look at the file's time.
LEMMA WatchStatStep ==
  ASSUME RouterIInv, WatchStat
  PROVE  RouterIInv'
<1>1. watcher \in Watchers /\ file.mtime \in 0..(MaxEdits + 1)
  BY RouterBoundsAssumption DEF RouterIInv, RegistryTypes
<1>2. watcher' \in Watchers
  BY <1>1, Zenon DEF WatchStat, Watchers
<1>3. RegistryTypes'
  BY <1>2 DEF RouterIInv, RegistryTypes, WatchStat
<1> QED BY <1>3, SameTable, SameTypes, MemoryHolds DEF WatchStat, RouterIInv

\* A file that is read yields entries to load only when it is a set of specifications.
LEMMA WatchReadStep ==
  ASSUME RouterIInv, WatchRead
  PROVE  RouterIInv'
<1> DEFINE text == file.text
           rejected == text \in {Missing, Malformed} \/ Duplicates(text) \/ Changed(text)
           remove == DOMAIN managed \ {s.path : s \in text}
           load == {s \in text : s.path \notin DOMAIN managed}
           opened == [watcher EXCEPT !.seen = text, !.unread = FALSE]
<1>1. watcher \in Watchers /\ text \in Snapshots /\ remove \in SUBSET Paths
  BY DEF RouterIInv, RegistryTypes
<1>2. watcher' \in Watchers
  <2>1. CASE watcher' = WatchEnds([watcher EXCEPT !.unread = TRUE])
    BY <1>1, <2>1, Zenon DEF WatchEnds, Watchers
  <2>2. CASE rejected /\ watcher' = WatchEnds(opened)
    <3> HIDE DEF text
    <3> QED BY <1>1, <2>2, Zenon DEF WatchEnds, Watchers
  <2>3. CASE ~rejected /\ watcher' = [opened EXCEPT !.pc = "apply", !.remove = remove, !.load = load]
    <3>1. load \in SUBSET Specs
      BY <1>1, <2>3, SnapshotsAssumption
    <3> HIDE DEF text, remove, load
    <3> QED BY <1>1, <2>3, <3>1, Zenon DEF Watchers
  <2> QED BY <2>1, <2>2, <2>3 DEF WatchRead
<1>3. RegistryTypes'
  BY <1>2 DEF RouterIInv, RegistryTypes, WatchRead
<1> QED BY <1>3, SameTable, SameTypes, MemoryHolds DEF WatchRead, RouterIInv

\* ApplyEntries unloads an unleased model and forgets its path.
LEMMA WatchUnloadStep ==
  ASSUME RouterIInv, WatchUnload
  PROVE  RouterIInv'
<1>1. PICK p \in watcher.remove :
        /\ watcher' = [watcher EXCEPT !.remove = @ \ {p}]
        /\ \/ /\ CanUnload(managed[p].id) /\ Unloaded(managed[p].id)
              /\ managed' = Restrict(managed, DOMAIN managed \ {p})
           \/ UNCHANGED <<models, default_id, retired, managed>>
  BY Zenon DEF WatchUnload
<1>2. UNCHANGED <<load_lock, loader, file, client, deletion>>
  BY DEF WatchUnload
<1>3. watcher' \in Watchers
  BY <1>1 DEF RouterIInv, RegistryTypes, Watchers
<1>4. CASE /\ CanUnload(managed[p].id) /\ Unloaded(managed[p].id)
           /\ managed' = Restrict(managed, DOMAIN managed \ {p})
  <2>1. Evolves /\ TableTypes' /\ DefaultIsLoaded' /\ OneModelPerArtifact' /\ LoadInv'
    BY <1>2, <1>4, UnloadEvolves
  <2>2. /\ DOMAIN managed' \subseteq DOMAIN managed
        /\ \A r \in DOMAIN managed' : managed'[r] = managed[r]
        /\ managed' = [r \in DOMAIN managed' |-> managed'[r]]
    BY <1>4 DEF Restrict
  <2>3. RegistryTypes'
    BY <1>2, <1>3, <2>2 DEF RouterIInv, RegistryTypes
  <2>4. ManagedInv'
    BY <2>1, <2>2 DEF RouterIInv, ManagedInv, Evolves
  <2> QED BY <1>2, <2>1, <2>3, <2>4, SameTypes, MemoryHolds DEF RouterIInv
<1>5. CASE UNCHANGED <<models, default_id, retired, managed>>
  <2>1. RegistryTypes'
    BY <1>2, <1>3, <1>5 DEF RouterIInv, RegistryTypes
  <2> QED BY <1>2, <1>5, <2>1, SameTable, SameTypes, MemoryHolds DEF RouterIInv
<1> QED BY <1>1, <1>4, <1>5

\* ApplyEntries calls LoadModel for a new entry.
LEMMA WatchLoadStep ==
  ASSUME RouterIInv, WatchLoad
  PROVE  RouterIInv'
<1>1. PICK s \in Specs : loader' = [loader EXCEPT !["registry"] =
                                      [NotLoading EXCEPT !.pc = "called", !.spec = s]]
  <2>1. watcher.load \subseteq Specs
    BY DEF RouterIInv, RegistryTypes, Watchers
  <2> QED BY <2>1, Zenon DEF WatchLoad
<1>2. LoadTypes' /\ LoadInv' /\ ReturnedInv'
  BY <1>1, CallRecords, CallChanges, Zenon DEF WatchLoad, Threads
<1> QED BY <1>2, SameTable, SameTypes, MemoryHolds DEF WatchLoad, RouterIInv

\* The registry records the ID under the path of the load that returned it.
LEMMA WatchLoadedStep ==
  ASSUME RouterIInv, WatchLoaded
  PROVE  RouterIInv'
<1>1. LoadTypes' /\ LoadInv' /\ ReturnedInv'
  BY CallRecords, CallChanges, Zenon DEF WatchLoaded, Threads
<1>2. PICK call \in Calls : call = loader["registry"]
  BY DEF RouterIInv, LoadTypes, Threads
<1>3. call.pc = "returned" /\ call.spec \in Specs
  BY <1>2 DEF RouterIInv, LoadTypes, Threads, WatchLoaded
<1>4. watcher' \in Watchers
  BY <1>2 DEF RouterIInv, RegistryTypes, Watchers, WatchLoaded
<1>5. CASE call.result = NoModel
  <2>1. managed' = managed
    BY <1>2, <1>5 DEF WatchLoaded
  <2>2. RegistryTypes'
    BY <1>4, <2>1 DEF RouterIInv, RegistryTypes, WatchLoaded
  <2> QED BY <1>1, <2>1, <2>2, SameTable, SameTypes, MemoryHolds DEF WatchLoaded, RouterIInv
<1>6. CASE call.result # NoModel
  <2>1. managed' = Stored(managed, call.spec.path, [id |-> call.result, spec |-> call.spec])
    BY <1>2, <1>6 DEF WatchLoaded
  <2>2. /\ DOMAIN managed' = DOMAIN managed \cup {call.spec.path}
        /\ managed' = [r \in DOMAIN managed' |-> managed'[r]]
        /\ managed'[call.spec.path].id = call.result
        /\ \A r \in DOMAIN managed : r # call.spec.path => managed'[r] = managed[r]
    BY <2>1 DEF Stored
  <2>3. RegistryTypes'
    BY <1>3, <1>4, <2>2 DEF RouterIInv, RegistryTypes, WatchLoaded, Paths
  <2>4. /\ call.result \in Known
        /\ call.result \in Loaded =>
             models[call.result] = [path |-> call.spec.path, by |-> "registry"]
    BY <1>2, <1>3, <1>6 DEF RouterIInv, ReturnedInv
  <2>5. ManagedInv'
    BY <2>2, <2>4, Zenon DEF RouterIInv, ManagedInv, WatchLoaded, Known, Loaded
  <2> QED BY <1>1, <2>3, <2>5, SameTable, SameTypes, MemoryHolds DEF WatchLoaded, RouterIInv
<1> QED BY <1>5, <1>6

\* The reload ends.
LEMMA WatchAppliedStep ==
  ASSUME RouterIInv, WatchApplied
  PROVE  RouterIInv'
<1>1. watcher' \in Watchers
  BY Zenon DEF RouterIInv, RegistryTypes, Watchers, WatchApplied, WatchEnds
<1>2. RegistryTypes'
  BY <1>1 DEF RouterIInv, RegistryTypes, WatchApplied
<1> QED BY <1>2, SameTable, SameTypes, MemoryHolds DEF WatchApplied, RouterIInv

\* A request's own step: the others keep what they remember.
LEMMA OneClient ==
  ASSUME RouterIInv, NEW c \in RouterClients, NEW k \in Clients,
         client' = [client EXCEPT ![c] = k], ClientInv(c)',
         UNCHANGED <<models, default_id, retired, load_lock, loader, file, watcher, managed,
                deletion>>
  PROVE  RouterIInv'
<1>1. ClientTypes
  BY DEF RouterIInv
<1>2. ClientTypes' /\ \A d \in RouterClients \ {c} : client'[d] = client[d]
  BY <1>1 DEF ClientTypes
<1>3. Evolves
  BY SameTable
<1>4. ClientsInv'
  BY <1>2, <1>3, MemoryHolds DEF ClientsInv
<1> QED BY <1>2, <1>3, <1>4, SameTable, SameTypes, MemoryHolds DEF RouterIInv

\* A handler at its start.
LEMMA NoClientType == NoClient \in Clients /\ NoClient.pc = "idle"
<1>1. NoEntry \in Entries
  BY DEF NoEntry, Entries
<1>2. << >> \in Tables
  BY TableSet
<1> QED BY <1>1, <1>2, Zenon DEF NoClient, Clients

\* A handler that ends or fails goes back to its start.
LEMMA ClientEnds ==
  ASSUME RouterIInv, NEW c \in RouterClients, client' = [client EXCEPT ![c] = NoClient],
         UNCHANGED <<models, default_id, retired, load_lock, loader, file, watcher, managed,
                deletion>>
  PROVE  RouterIInv'
<1>1. client'[c].pc = "idle"
  BY NoClientType DEF RouterIInv, ClientTypes
<1>2. ClientInv(c)'
  BY <1>1 DEF ClientInv
<1> QED BY <1>2, NoClientType, OneClient, Zenon

\* A request resolves its model: the one it names, or the default.
LEMMA SelectStep ==
  ASSUME RouterIInv, NEW c \in RouterClients, Select(c)
  PROVE  RouterIInv'
<1>1. PICK asked \in Known \cup {NoModel}, picky \in BOOLEAN, options \in Options,
       id \in Loaded :
        /\ asked # NoModel => id = asked
        /\ client' = [client EXCEPT ![c] =
             [NoClient EXCEPT !.pc = "resolved", !.asked = asked, !.picky = picky, !.options = options,
                              !.primary = [id |-> id, path |-> models[id].path]]]
  BY Zenon DEF Select, Known
<1> DEFINE e == [id |-> id, path |-> models[id].path]
           k == [NoClient EXCEPT !.pc = "resolved", !.asked = asked, !.picky = picky, !.options = options,
                                 !.primary = e]
<1>2. client' = [client EXCEPT ![c] = k]
  BY <1>1
<1>3. e \in Entries /\ e.id = id /\ e.path = models[id].path
  BY DEF Entries, RouterIInv, TableTypes, IsTable, Model, Loaded
<1>4. asked \in ModelIds \cup {NoModel}
  BY DEF RouterIInv, TableTypes, IsTable, Known, Loaded
<1> HIDE DEF e
<1>5. k \in Clients
  BY <1>3, <1>4, NoClientType, Zenon DEF Clients
<1>6. client'[c] = k /\ k.pc = "resolved" /\ k.asked = asked /\ k.primary = e
  BY <1>2, NoClientType DEF RouterIInv, ClientTypes, Clients
<1> HIDE DEF k
<1>7. UNCHANGED <<models, default_id, retired, load_lock, loader, file, watcher, managed,
       deletion>>
  BY DEF Select
<1>8. ClientInv(c)'
  BY <1>1, <1>3, <1>6, <1>7 DEF ClientInv, Known, Loaded
<1> QED BY <1>2, <1>5, <1>7, <1>8, OneClient, Zenon

\* What a request has read through its pointer changes nothing else it remembers, and a
\* request that is not garbled has read the entry it resolved.
LEMMA HavingRead ==
  ASSUME NEW k \in Clients, NEW e
  PROVE  \E g \in BOOLEAN : Having(k, e) = [k EXCEPT !.garbled = g] /\ (~g => ~k.garbled /\ e = k.primary)
<1>1. k.garbled \in BOOLEAN
  BY Zenon DEF Clients
<1> DEFINE g == k.garbled \/ e # k.primary
<1>2. g \in BOOLEAN /\ (~g => ~k.garbled /\ e = k.primary)
  OBVIOUS
<1>3. Having(k, e) = [k EXCEPT !.garbled = g]
  BY Zenon DEF Having
<1> QED BY <1>2, <1>3, Zenon

\* A selection that fails ends, or goes on with the table as it is.
LEMMA UnservedStep ==
  ASSUME RouterIInv, NEW c \in RouterClients, client[c].pc \in {"resolved", "checked"},
         NEW g \in BOOLEAN,
                client' = [client EXCEPT ![c] = Unserved(c, [client[c] EXCEPT !.garbled = g])],
         UNCHANGED <<models, default_id, retired, load_lock, loader, file, watcher, managed,
                deletion>>
  PROVE  RouterIInv'
<1>1. PICK k \in Clients : k = client[c]
  BY DEF RouterIInv, ClientTypes
<1>2. /\ k.primary.id \in Known /\ k.asked \in {NoModel, k.primary.id}
      /\ k.primary.id \in Loaded => models[k.primary.id].path = k.primary.path
  BY <1>1 DEF RouterIInv, ClientsInv, ClientInv
<1>3. CASE MayReroute(c)
  <2> DEFINE r == [k EXCEPT !.pc = "reroute", !.list = models, !.garbled = g]
  <2>1. client' = [client EXCEPT ![c] = r]
    BY <1>1, <1>3, Zenon DEF Unserved, Clients
  <2>2. models \in Tables
    BY TableSet DEF RouterIInv, TableTypes
  <2>3. r \in Clients
    BY <2>2, Zenon DEF Clients
  <2>4. client'[c] = r
    BY <2>1 DEF RouterIInv, ClientTypes
  <2>5. r.pc = "reroute" /\ r.list = models /\ r.primary = k.primary /\ r.asked = k.asked
    BY DEF Clients
  <2> HIDE DEF r
  <2>6. k.asked = NoModel
    BY <1>1, <1>3 DEF MayReroute
  <2>7. ClientInv(c)'
    BY <1>2, <2>4, <2>5, <2>6 DEF ClientInv, Known, Loaded
  <2> QED BY <2>1, <2>3, <2>7, OneClient, Zenon
<1>4. CASE ~MayReroute(c)
  BY <1>4, ClientEnds, Zenon DEF Unserved
<1> QED BY <1>3, <1>4

\* The feature check reads the entry the request points to.
LEMMA CheckCapabilitiesStep ==
  ASSUME RouterIInv, NEW c \in RouterClients, CheckCapabilities(c)
  PROVE  RouterIInv'
<1>1. PICK k \in Clients : k = client[c]
  BY DEF RouterIInv, ClientTypes
<1>2. /\ k.pc = "resolved" /\ k.primary.id \in Known /\ k.asked \in {NoModel, k.primary.id}
      /\ k.primary.id \in Loaded => models[k.primary.id].path = k.primary.path
  BY <1>1 DEF CheckCapabilities, RouterIInv, ClientsInv, ClientInv
<1>3. UNCHANGED <<models, default_id, retired, load_lock, loader, file, watcher, managed,
       deletion>>
  BY DEF CheckCapabilities
<1>4. PICK e : client' = [client EXCEPT ![c] =
                 IF Serves(e.path, c) THEN [Having(k, e) EXCEPT !.pc = "checked"]
                 ELSE Unserved(c, Having(k, e))]
  BY <1>1, Zenon DEF CheckCapabilities
<1>5. PICK g \in BOOLEAN : /\ Having(k, e) = [k EXCEPT !.garbled = g]
                           /\ ~g => ~k.garbled /\ e = k.primary
  BY HavingRead
<1>6. CASE Serves(e.path, c)
  <2> DEFINE r == [k EXCEPT !.pc = "checked", !.garbled = g]
  <2>1. client' = [client EXCEPT ![c] = r]
    BY <1>4, <1>5, <1>6, Zenon DEF Clients
  <2>2. r \in Clients
    BY Zenon DEF Clients
  <2>3. client'[c] = r
    BY <2>1 DEF RouterIInv, ClientTypes
  <2>4. /\ r.pc = "checked" /\ r.primary = k.primary /\ r.asked = k.asked /\ r.garbled = g
        /\ r.picky = k.picky
    BY DEF Clients
  <2>5. ~g /\ k.picky => k.primary.path \in Capable
    BY <1>1, <1>5, <1>6 DEF Serves
  <2> HIDE DEF r
  <2>6. ClientInv(c)'
    BY <1>2, <1>3, <2>3, <2>4, <2>5 DEF ClientInv, Known, Loaded
  <2> QED BY <1>3, <2>1, <2>2, <2>6, OneClient, Zenon
<1>7. CASE ~Serves(e.path, c)
  BY <1>1, <1>2, <1>3, <1>4, <1>5, <1>7, UnservedStep, Zenon
<1> QED BY <1>6, <1>7

\* A request that holds the model of its ID, or none.
LEMMA HeldStep ==
  ASSUME RouterIInv, NEW c \in RouterClients, NEW id \in ModelIds, NEW g \in BOOLEAN,
         client' = [client EXCEPT ![c] = Held([client[c] EXCEPT !.garbled = g], id)],
         ~g /\ id \in Loaded => /\ client[c].asked \in {NoModel, id}
                                /\ client[c].picky => models[id].path \in Capable,
         UNCHANGED <<models, default_id, retired, load_lock, loader, file, watcher, managed,
                deletion>>
  PROVE  RouterIInv'
<1>1. PICK k \in Clients : k = client[c]
  BY DEF RouterIInv, ClientTypes
<1> DEFINE pc == IF id \in Loaded THEN "leased" ELSE "unbacked"
           r == [k EXCEPT !.garbled = g, !.pc = pc, !.id = id, !.list = << >>]
<1>2. client' = [client EXCEPT ![c] = r]
  BY <1>1 DEF Held, Clients
<1>3. pc \in {"leased", "unbacked"} /\ (pc = "leased" => id \in Loaded)
  OBVIOUS
<1> HIDE DEF pc
<1>4. r \in Clients
  BY <1>3, TableSet, Zenon DEF Clients
<1>5. client'[c] = r
  BY <1>2 DEF RouterIInv, ClientTypes
<1>6. r.pc = pc /\ r.id = id /\ r.garbled = g /\ r.asked = k.asked /\ r.picky = k.picky
  BY DEF Clients
<1> HIDE DEF r
<1>7. ClientInv(c)'
  <2>1. r.pc \notin {"resolved", "checked", "reroute"} /\ (r.pc = "leased" => id \in Loaded)
    BY <1>3, <1>6
  <2>2. (r.garbled => g) /\ (g => r.garbled)
    BY <1>6
  <2>3. r.picky => client[c].picky
    BY <1>1, <1>6
  <2>4. r.pc = "leased" /\ ~r.garbled =>
          r.asked \in {NoModel, r.id} /\ (r.picky => models[r.id].path \in Capable)
    <3>1. ~g /\ id \in Loaded =>
            client[c].asked \in {NoModel,
                   id} /\ (client[c].picky => models[id].path \in Capable)
      OBVIOUS
    <3> QED BY <1>1, <1>6, <2>1, <2>2, <2>3, <3>1, Zenon
  <2> QED BY <1>5, <1>6, <2>1, <2>4 DEF ClientInv, Loaded
<1> QED BY <1>2, <1>4, <1>7, OneClient, Zenon

\* A request takes its lease by the ID it reads, falls back when it named no model, or fails.
LEMMA AcquireStep ==
  ASSUME RouterIInv, NEW c \in RouterClients, Acquire(c)
  PROVE  RouterIInv'
<1>1. PICK k \in Clients : k = client[c]
  BY DEF RouterIInv, ClientTypes
<1>2. /\ k.pc = "checked" /\ k.primary.id \in Known /\ k.asked \in {NoModel, k.primary.id}
      /\ k.primary.id \in Loaded => models[k.primary.id].path = k.primary.path
      /\ ~k.garbled /\ k.picky => k.primary.path \in Capable
  BY <1>1 DEF Acquire, RouterIInv, ClientsInv, ClientInv
<1>3. UNCHANGED <<models, default_id, retired, load_lock, loader, file, watcher, managed,
       deletion>>
  BY DEF Acquire
<1>4. PICK e \in Dereferenced(c) :
        client' = [client EXCEPT ![c] =
          IF client[c].options.ready /\ e.id \notin Loaded THEN Unserved(c, Having(k, e))
          ELSE Held(Having(k, e), e.id)]
  BY <1>1, Zenon DEF Acquire
<1>5. PICK g \in BOOLEAN : /\ Having(k, e) = [k EXCEPT !.garbled = g]
                           /\ ~g => ~k.garbled /\ e = k.primary
  BY HavingRead
<1>6. e.id \in ModelIds
  BY <1>1, <1>2 DEF Dereferenced, Known, RouterIInv, TableTypes, IsTable, Loaded
<1>7. CASE client[c].options.ready /\ e.id \notin Loaded
  BY <1>1, <1>2, <1>3, <1>4, <1>5, <1>7, UnservedStep, Zenon
<1>8. CASE ~(client[c].options.ready /\ e.id \notin Loaded)
  <2>1. client' = [client EXCEPT ![c] = Held([client[c] EXCEPT !.garbled = g], e.id)]
    BY <1>1, <1>4, <1>5, <1>8, Zenon
  <2>2. ~g /\ e.id \in Loaded => /\ client[c].asked \in {NoModel, e.id}
                                 /\ client[c].picky => models[e.id].path \in Capable
    BY <1>1, <1>2, <1>5
  <2> QED BY <1>3, <1>6, <2>1, <2>2, HeldStep, Zenon
<1> QED BY <1>7, <1>8

\* The fallback comes from the list the request took: a listed ID that is loaded now is
\* still the model the list says.
LEMMA RerouteStep ==
  ASSUME RouterIInv, NEW c \in RouterClients, Reroute(c)
  PROVE  RouterIInv'
<1>1. PICK k \in Clients : k = client[c]
  BY DEF RouterIInv, ClientTypes
<1>2. /\ k.asked = NoModel
      /\ \A id \in DOMAIN k.list : id \in Known /\ (id \in Loaded => models[id] = k.list[id])
  BY <1>1, Zenon DEF Reroute, RouterIInv, ClientsInv, ClientInv
<1>3. UNCHANGED <<models, default_id, retired, load_lock, loader, file, watcher, managed,
       deletion>>
  BY Zenon DEF Reroute
<1>4. CASE client' = [client EXCEPT ![c] = NoClient]
  BY <1>3, <1>4, ClientEnds, Zenon
<1>5. ASSUME NEW e, NEW id \in Candidates(c, e),
       client' = [client EXCEPT ![c] = Held(Having(k, e), id)]
      PROVE  RouterIInv'
  <2>1. PICK g \in BOOLEAN : Having(k, e) = [k EXCEPT !.garbled = g]
    BY HavingRead, Zenon
  <2>2. id \in DOMAIN k.list /\ (k.picky => k.list[id].path \in Capable)
    BY <1>1 DEF Candidates, Serves
  <2>3. id \in ModelIds
    BY <1>2, <2>2 DEF Known, RouterIInv, TableTypes, IsTable, Loaded
  <2>4. id \in Loaded => /\ client[c].asked \in {NoModel, id}
                         /\ client[c].picky => models[id].path \in Capable
    BY <1>1, <1>2, <2>2
  <2> QED BY <1>1, <1>3, <1>5, <2>1, <2>3, <2>4, HeldStep, Zenon
<1> QED BY <1>1, <1>4, <1>5, Zenon DEF Reroute

\* The lease ends with the request.
LEMMA FinishStep ==
  ASSUME RouterIInv, NEW c \in RouterClients, Finish(c)
  PROVE  RouterIInv'
BY ClientEnds, Zenon DEF Finish

-----------------------------------------------------------------------------
\* RouterIInv holds at the start.
LEMMA RouterInitHolds ==
  ASSUME RouterInit
  PROVE  RouterIInv
<1>1. Loaded = {} /\ Known = {} /\ DOMAIN managed = {}
  BY DEF RouterInit, Loaded, Known
<1>2. TableTypes
  BY TableSet DEF RouterInit, TableTypes
<1>3. LoadTypes
  BY CallRecords, Zenon DEF RouterInit, LoadTypes
<1>4. RegistryTypes
  <2>1. file \in [text : Snapshots, mtime : 1..(MaxEdits + 1)]
    BY RouterInputsAssumption, RouterBoundsAssumption DEF RouterInit
  <2>2. watcher \in Watchers
    BY RouterBoundsAssumption DEF RouterInit, Watchers
  <2>3. managed = [p \in DOMAIN managed |-> managed[p]]
    BY DEF RouterInit
  <2> QED BY <1>1, <2>1, <2>2, <2>3 DEF RegistryTypes
<1>5. ClientTypes
  BY NoClientType DEF RouterInit, ClientTypes
<1>6. DeletionTypes
  BY DEF RouterInit, DeletionTypes, Deletions, NoDeletion
<1>7. DefaultIsLoaded /\ OneModelPerArtifact /\ ManagedInv
  BY <1>1 DEF RouterInit, DefaultIsLoaded, OneModelPerArtifact, ManagedInv
<1>8. LoadInv /\ ReturnedInv
  BY DEF RouterInit, LoadInv, ReturnedInv, NotLoading, Threads
<1>9. ClientsInv
  BY DEF RouterInit, ClientsInv, ClientInv, NoClient
<1> QED BY <1>2, <1>3, <1>4, <1>5, <1>6, <1>7, <1>8, <1>9 DEF RouterIInv

\* RouterIInv is inductive.
LEMMA RouterNextHolds ==
  ASSUME RouterIInv, [RouterNext]_routerVars
  PROVE  RouterIInv'
<1>1. ASSUME NEW t \in Threads, LoadSteps(t) PROVE RouterIInv'
  BY <1>1, LoadBeginStep, LoadAdmitStep, LoadFailsStep, LoadCommitsStep, Zenon DEF LoadSteps
<1>2. CASE WatchSteps
  BY <1>2, WatchStatStep, WatchReadStep, WatchUnloadStep, WatchLoadStep, WatchLoadedStep,
     WatchAppliedStep, Zenon DEF WatchSteps
<1>3. CASE AdminSteps
  BY <1>3, AdminLoadStep, AdminLoadedStep, SetDefaultModelStep, DeleteCountsStep,
     DeleteUnloadsStep, DeleteAnsweredStep, Zenon DEF AdminSteps
<1>4. ASSUME NEW c \in RouterClients, ClientSteps(c) PROVE RouterIInv'
  BY <1>4, SelectStep, CheckCapabilitiesStep, AcquireStep, RerouteStep, FinishStep, Zenon
     DEF ClientSteps
<1>5. CASE UNCHANGED routerVars
  BY <1>5, SameTable, SameTypes, MemoryHolds DEF RouterIInv, routerVars
<1> QED BY <1>1, <1>2, <1>3, <1>4, <1>5, EditFileStep, Zenon DEF RouterNext

\* RouterIInv implies what the run checks.
LEMMA RouterIInvSafe ==
  ASSUME RouterIInv
  PROVE  RouterSafe
<1>1. RouterTypeOK
  BY DEF RouterIInv, RouterTypeOK, TableTypes, IsTable, Model, LoadTypes, Calls, RegistryTypes,
         Watchers, ClientTypes, Clients, DeletionTypes, Deletions, Loaded
<1>2. RegistryUnloadsOwnModels
  BY DEF RouterIInv, ManagedInv, RegistryUnloadsOwnModels
<1>3. LeasedModelStaysLoaded /\ ServedAsAsked
  BY DEF RouterIInv, ClientsInv, ClientInv, LeasedModelStaysLoaded, ServedAsAsked, Serves
<1> QED BY <1>1, <1>2, <1>3 DEF RouterSafe, RouterIInv

\* Whatever the registry thread, the admin handlers and the requests do, in any order:
\* the default model is loaded, no artifact is loaded twice, the registry unloads only the
\* models it loaded, a leased model stays, and a request is served by the model it named or
\* by one with the feature it needs.
THEOREM RouterStaysSafe == RouterSpec => []RouterSafe
<1>1. RouterInit => RouterIInv
  BY RouterInitHolds
<1>2. RouterIInv /\ [RouterNext]_routerVars => RouterIInv'
  BY RouterNextHolds
<1>3. RouterIInv => RouterSafe
  BY RouterIInvSafe
<1> QED BY <1>1, <1>2, <1>3, PTL DEF RouterSpec

\* An ID names one model for ever: an ID that is loaded or retired keeps its model, is
\* unloaded, or stays away; EnsureUniqueIdLocked never gives it to another model.
IdNamesOneModel ==
  \A id \in Loaded \cup retired : id \in Loaded' => id \in Loaded /\ models'[id] = models[id]

\* Only a commit and the two unloads change the table, and every change evolves it.
LEMMA NextEvolves ==
  ASSUME RouterIInv, [RouterNext]_routerVars
  PROVE  IdNamesOneModel
<1>1. Evolves => IdNamesOneModel
  BY Zenon DEF Evolves, IdNamesOneModel, Known
<1>2. CASE UNCHANGED <<models, retired>>
  BY <1>1, <1>2, SameTable
<1>3. ASSUME NEW t \in Threads, LoadCommits(t) PROVE IdNamesOneModel
  <2>1. PICK id \in ModelIds :
          /\ id \notin Known /\ Loaded' = Loaded \cup {id}
          /\ models' = Stored(models, id, [path |-> loader[t].spec.path, by |-> t])
    BY <1>3, CommitAdds, Zenon
  <2> QED BY <2>1 DEF IdNamesOneModel, Stored, Known, Loaded
<1>4. CASE DeleteUnloads
  <2>1. CASE CanUnload(deletion.id) /\ Unloaded(deletion.id)
    BY <1>1, <1>4, <2>1, UnloadEvolves DEF DeleteUnloads
  <2>2. CASE UNCHANGED <<models, retired>>
    BY <1>2, <2>2
  <2> QED BY <1>4, <2>1, <2>2 DEF DeleteUnloads
<1>5. CASE WatchUnload
  <2>1. PICK p : \/ CanUnload(managed[p].id) /\ Unloaded(managed[p].id)
                 \/ UNCHANGED <<models, retired>>
    BY <1>5 DEF WatchUnload
  <2>2. UNCHANGED <<loader, load_lock>>
    BY <1>5 DEF WatchUnload
  <2> QED BY <1>1, <1>2, <2>1, <2>2, UnloadEvolves
<1>6. CASE EditFile \/ UNCHANGED routerVars
  BY <1>2, <1>6 DEF EditFile, routerVars
<1>7. CASE WatchSteps
  BY <1>2, <1>5, <1>7, Zenon
     DEF WatchSteps, WatchStat, WatchRead, WatchLoad, WatchLoaded, WatchApplied
<1>8. CASE AdminSteps
  BY <1>2, <1>4, <1>8, Zenon
     DEF AdminSteps, AdminLoad, AdminLoaded, SetDefaultModel, DeleteCounts,
     DeleteAnswered
<1>9. ASSUME NEW t \in Threads, LoadSteps(t) PROVE IdNamesOneModel
  BY <1>2, <1>3, <1>9 DEF LoadSteps, LoadBegin, LoadAdmit, LoadFails
<1>10. ASSUME NEW c \in RouterClients, ClientSteps(c) PROVE IdNamesOneModel
  BY <1>2, <1>10, Zenon DEF ClientSteps, Select, CheckCapabilities, Acquire, Reroute, Finish
<1> QED BY <1>6, <1>7, <1>8, <1>9, <1>10, Zenon DEF RouterNext

\* No ID is ever given to a second model, whichever of the registry, the admin API and the
\* requests still remember it.
THEOREM IdsAreNeverReused == RouterSpec => [][IdNamesOneModel]_routerVars
<1>1. RouterInit => RouterIInv
  BY RouterInitHolds
<1>2. RouterIInv /\ [RouterNext]_routerVars => RouterIInv'
  BY RouterNextHolds
<1>3. RouterIInv /\ [RouterNext]_routerVars => [IdNamesOneModel]_routerVars
  BY NextEvolves
<1> QED BY <1>1, <1>2, <1>3, PTL DEF RouterSpec
=============================================================================
