---------------------------- MODULE PolicyAdmin ----------------------------
(***************************************************************************)
(* The runtime policy and its persistence: policy/policy_store.cpp, the    *)
(* key table of server/auth/api_key_auth.cpp, the blocklist of             *)
(* server/policy/guardrail.cpp, the shared limit of the rate limiter, the  *)
(* routing options, the admin handlers of HandleClient that change them,   *)
(* and the part of main that loads and seeds the store.                    *)
(*                                                                         *)
(* An admin handler holds policy_update_mutex_ from the change it applies  *)
(* to the save and its roll-back; Save is split where the process may die. *)
(***************************************************************************)
EXTENDS Integers, Sequences, FiniteSets, SequencesExt, FiniteSetsExt, Functions

CONSTANTS
  Admins,       \* HTTP workers that handle an admin request
  Keys,         \* API keys, named by their hash
  Fields,       \* the fields of the routing policy
  Lists,        \* blocklists a client may send: sequences of words
  Limits,       \* values of tokens_per_minute a client may send
  ScopeLists,   \* the scopes a client may send with a key
  Startups,      \* the start-up configurations
  MaxUpdates,   \* admin requests in a behaviour
  MaxCrashes,   \* crashes of the process in a behaviour
  None

Scopes == {"generate", "read", "admin"}
Boot == "boot"
Faults == {"write", "copy", "rename", "rename_again"}

ASSUME StartupsAssumption ==
  \A c \in Startups :
    /\ c.yaml_keys \in [DOMAIN c.yaml_keys -> SUBSET Scopes] /\ DOMAIN c.yaml_keys \subseteq Keys
    /\ c.env_keys \in [DOMAIN c.env_keys -> SUBSET Scopes] /\ DOMAIN c.env_keys \subseteq Keys
    /\ c.words \in Seq(Seq({"a", "A", ",", " "}))
    /\ c.limit \in Nat /\ c.endpoints \in BOOLEAN /\ c.opa \in BOOLEAN /\ c.faults \subseteq Faults
    /\ c.endpoints => c.limit > 0
ASSUME PolicyBoundsAssumption == MaxUpdates \in Nat /\ MaxCrashes \in Nat

VARIABLES
  startup,   \* fixed: the YAML file and environment, and the faults of the file system
  process,    \* "down", "starting" or "serving"
  disk,     \* the files: target, backup and temp
  store,    \* PolicyStore's maps
  live,     \* what requests are checked against: auth, words, limit, http, sched
  made,     \* the parts HttpServer was given: limiter, guardrail
  saving,   \* the step Save is at, or "no"
  owner,    \* holder of policy_update_mutex_
  job,      \* the admin request of each worker
  updates, crashes

policyVars == <<startup, process, disk, store, live, made, saving, owner, job, updates, crashes>>

---------------------------------------------------------------------------
(* Conversions. *)

\* SplitCSV: cut at the commas, trim each piece, drop the empty ones.
Trim(s) ==
  LET ink == {i \in DOMAIN s : s[i] # " "}
  IN IF ink = {} THEN << >> ELSE SubSeq(s, Min(ink), Max(ink))
SplitCSV(line) ==
  LET cuts == SetToSortSeq({i \in DOMAIN line : line[i] = ","} \cup {0, Len(line) + 1}, <)
      pieces == [k \in 1 .. Len(cuts) - 1 |-> Trim(SubSeq(line, cuts[k] + 1, cuts[k + 1] - 1))]
  IN SelectSeq(pieces, LAMBDA p : p # << >>)
JoinCSV(values) ==
  FlattenSeq([i \in DOMAIN values |-> IF i = 1 THEN values[i] ELSE <<",">> \o values[i]])

\* NormalizeWords: lower case, no empty word.
NormalizeWords(words) ==
  LET lower(w) == [i \in DOMAIN w |-> IF w[i] = "A" THEN "a" ELSE w[i]]
  IN SelectSeq([i \in DOMAIN words |-> lower(words[i])], LAMBDA w : w # << >>)

\* MakeScopes and AddKeyHashed: no scope means generate and read; read is implied.
MakeScopes(scopes) ==
  IF scopes = {} THEN {"generate", "read"} ELSE scopes \cup {"read"}

\* The policy a saved file holds, as Load parses it.
Parsed(policy) == [policy EXCEPT !.words = SplitCSV(JoinCSV(@))]

Absent == [exists |-> FALSE]
File(policy) == [exists |-> TRUE, policy |-> Parsed(policy)]
NoKeys == [k \in {} |-> {}]
EmptyPolicy == [keys |-> NoKeys, words |-> << >>, limit |-> 0, routing |-> None]

\* PolicyStore::Load: the file, or its backup, or nothing.
Load ==
  IF disk.target.exists THEN disk.target.policy
  ELSE IF disk.backup.exists THEN disk.backup.policy
  ELSE EmptyPolicy

---------------------------------------------------------------------------
WithKey(f, k, v) == [x \in DOMAIN f \cup {k} |-> IF x = k THEN v ELSE f[x]]
WithoutKey(f, k) == Restrict(f, DOMAIN f \ {k})
Over(f, g) == [x \in DOMAIN f \cup DOMAIN g |-> IF x \in DOMAIN g THEN g[x] ELSE f[x]]
MadeScopes(f) == [k \in DOMAIN f |-> MakeScopes(f[k])]

Down == [auth |-> NoKeys, words |-> << >>, limit |-> 0, http |-> None, sched |-> None]
Idle == [op |-> "none"]

PolicyInit ==
  /\ startup \in Startups
  /\ process = "down"
  /\ disk = [target |-> Absent, backup |-> Absent, temp |-> Absent]
  /\ store = EmptyPolicy /\ live = Down
  /\ made = [limiter |-> FALSE, guardrail |-> FALSE]
  /\ saving = "no" /\ owner = None
  /\ job = [a \in Admins |-> Idle]
  /\ updates = 0 /\ crashes = 0

\* What main makes of the loaded policy: stored values win over the configured
\* ones, configured ones seed what the store lacks.  Keys of the environment are
\* never stored.
SeededPolicy(loaded) ==
  [keys |-> IF DOMAIN loaded.keys = {} THEN startup.yaml_keys ELSE loaded.keys,
   words |-> IF loaded.words # << >> THEN loaded.words ELSE startup.words,
   limit |-> IF loaded.limit > 0 \/ startup.limit = 0 THEN loaded.limit ELSE startup.limit,
   routing |-> IF loaded.routing # None THEN loaded.routing ELSE startup.routing]

\* What main has requests checked against.  The configured keys are accepted
\* beside the stored ones.
LivePolicy(seeded) ==
  [auth |-> Over(MadeScopes(Over(startup.yaml_keys, startup.env_keys)), MadeScopes(seeded.keys)),
   words |-> NormalizeWords(seeded.words),
   limit |-> IF seeded.limit > 0 THEN seeded.limit ELSE startup.limit,
   http |-> seeded.routing, sched |-> seeded.routing]

\* main, up to its call of Save.
StartServer ==
  LET seeded == SeededPolicy(Load)
      policy == LivePolicy(seeded)
  IN
  /\ process = "down"
  /\ process' = "starting"
  /\ store' = seeded
  /\ live' = policy
  /\ made' = [limiter |-> policy.limit > 0, guardrail |-> policy.words # << >> \/ startup.opa]
  /\ saving' = "temp" /\ owner' = Boot
  /\ UNCHANGED <<startup, disk, job, updates, crashes>>

---------------------------------------------------------------------------
(* PolicyStore::Save, one step per change of the directory.  A step of the   *)
(* file system may fail where startup.faults says so.                         *)

Succeeds(fault) == IF fault \in startup.faults THEN BOOLEAN ELSE {TRUE}

\* The outcome of Save is applied by the caller under the same mutex.
SaveEnds(ok) == saving' = IF ok THEN "saved" ELSE "failed"

SaveTemp ==
  /\ saving = "temp"
  /\ \E ok \in Succeeds("write") :
       /\ disk' = [disk EXCEPT !.temp = IF ok THEN File(store) ELSE Absent]
       /\ IF ok THEN saving' = "copy" ELSE SaveEnds(FALSE)
  /\ UNCHANGED <<startup, process, store, live, made, owner, job, updates, crashes>>

\* Mutant of SaveBackup: the new content is written over the target in place.
SaveBackupInPlace ==
  /\ saving = "copy"
  /\ disk' = [disk EXCEPT !.target = Absent]
  /\ saving' = "rename"
  /\ UNCHANGED <<startup, process, store, live, made, owner, job, updates, crashes>>

\* The result of copy_file is not looked at.
SaveBackup ==
  /\ saving = "copy"
  /\ \E ok \in Succeeds("copy") :
       disk' = IF disk.target.exists /\ ok THEN [disk EXCEPT !.backup = disk.target] ELSE disk
  /\ saving' = "rename"
  /\ UNCHANGED <<startup, process, store, live, made, owner, job, updates, crashes>>

SaveRename ==
  /\ saving = "rename"
  /\ \E ok \in Succeeds("rename") :
       IF ok THEN disk' = [disk EXCEPT !.target = disk.temp, !.temp = Absent] /\ SaveEnds(TRUE)
       ELSE disk' = [disk EXCEPT !.target = Absent] /\ saving' = "rename_again"
  /\ UNCHANGED <<startup, process, store, live, made, owner, job, updates, crashes>>

SaveRenameAgain ==
  /\ saving = "rename_again"
  /\ \E ok \in Succeeds("rename_again") :
       /\ disk' = IF ok THEN [disk EXCEPT !.target = disk.temp, !.temp = Absent]
                  ELSE [disk EXCEPT !.temp = Absent]
       /\ SaveEnds(ok)
  /\ UNCHANGED <<startup, process, store, live, made, owner, job, updates, crashes>>

\* A failed save at start-up is a warning.
StartDone ==
  /\ owner = Boot /\ saving \in {"saved", "failed"}
  /\ process' = "serving" /\ saving' = "no" /\ owner' = None
  /\ UNCHANGED <<startup, disk, store, live, made, job, updates, crashes>>

---------------------------------------------------------------------------
(* The admin handlers. *)

\* ResolveSubject and RequireScope: an anonymous caller is never an admin.
IsAdmin(k) == k \in DOMAIN live.auth /\ "admin" \in live.auth[k]

\* The request is authorised before anything is locked.
Arrive(a, request) ==
  /\ process = "serving" /\ job[a] = Idle /\ updates < MaxUpdates
  /\ \E k \in Keys : IsAdmin(k)
  /\ job' = [job EXCEPT ![a] = request]
  /\ updates' = updates + 1
  /\ UNCHANGED <<startup, process, disk, store, live, made, saving, owner, crashes>>

\* PUT /v1/admin/routing reads the options and merges its fields, unlocked.
ArriveRouting(a, fields) ==
  Arrive(a, [op |-> "routing", fields |-> DOMAIN fields, value |-> Over(live.http, fields)])

\* The handler takes policy_update_mutex_, notes the previous values, applies the
\* change and calls Save.
ApplyUpdate(a, newLive, newStore) ==
  /\ process = "serving" /\ owner = None
  /\ owner' = a /\ saving' = "temp"
  /\ live' = newLive /\ store' = newStore
  /\ job' = [job EXCEPT ![a] = @ @@ [live |-> live, store |-> store]]
  /\ UNCHANGED <<startup, process, disk, made, updates, crashes>>

\* 503 without a guardrail; 400 for a limit that endpoint limits do not allow.
Refuse(a) ==
  /\ \/ job[a].op = "guardrails" /\ ~made.guardrail
     \/ job[a].op = "rate_limit" /\ startup.endpoints /\ job[a].value <= 0
  /\ job' = [job EXCEPT ![a] = Idle]
  /\ UNCHANGED <<startup, process, disk, store, live, made, saving, owner, updates, crashes>>

PutGuardrails(a) ==
  /\ job[a].op = "guardrails" /\ made.guardrail
  /\ ApplyUpdate(a, [live EXCEPT !.words = NormalizeWords(job[a].value)],
              [store EXCEPT !.words = job[a].value])

\* Without a limiter the value is only stored.
PutRateLimit(a) ==
  /\ job[a].op = "rate_limit" /\ (startup.endpoints => job[a].value > 0)
  /\ ApplyUpdate(a, IF made.limiter THEN [live EXCEPT !.limit = job[a].value] ELSE live,
              [store EXCEPT !.limit = job[a].value])

PostApiKey(a) ==
  /\ job[a].op = "post_key"
  /\ ApplyUpdate(a, [live EXCEPT !.auth = WithKey(@, job[a].key, MakeScopes(job[a].value))],
              [store EXCEPT !.keys = WithKey(@, job[a].key, job[a].value)])

DeleteApiKey(a) ==
  /\ job[a].op = "delete_key"
  /\ ApplyUpdate(a, [live EXCEPT !.auth = WithoutKey(@, job[a].key)],
              [store EXCEPT !.keys = WithoutKey(@, job[a].key)])

PutRouting(a) ==
  /\ job[a].op = "routing"
  /\ ApplyUpdate(a, [live EXCEPT !.http = job[a].value, !.sched = job[a].value],
              [store EXCEPT !.routing = job[a].value])

\* Save succeeded: the answer is "ok".
Acknowledge(a) ==
  /\ owner = a /\ saving = "saved"
  /\ owner' = None /\ saving' = "no"
  /\ job' = [job EXCEPT ![a] = Idle]
  /\ UNCHANGED <<startup, process, disk, store, live, made, updates, crashes>>

\* What a handler puts back when Save failed.  A key returns with the scopes the
\* store had for it; when the store had none, POST removes it and DELETE leaves
\* it removed.
Restored(j) ==
  CASE j.op = "guardrails" -> [live |-> [live EXCEPT !.words = NormalizeWords(j.live.words)],
                               store |-> [store EXCEPT !.words = j.store.words]]
    [] j.op = "rate_limit" -> [live |-> [live EXCEPT !.limit = j.live.limit],
                               store |-> [store EXCEPT !.limit = j.store.limit]]
    [] j.op = "routing" -> [live |-> [live EXCEPT !.http = j.live.http, !.sched = j.live.http],
                            store |-> [store EXCEPT !.routing = j.store.routing]]
    [] j.op \in {"post_key", "delete_key"} ->
         IF j.key \in DOMAIN j.store.keys
         THEN [live |-> [live EXCEPT !.auth = WithKey(@, j.key, MakeScopes(j.store.keys[j.key]))],
               store |-> [store EXCEPT !.keys = WithKey(@, j.key, j.store.keys[j.key])]]
         ELSE [live |-> [live EXCEPT !.auth = WithoutKey(@, j.key)],
               store |-> [store EXCEPT !.keys = WithoutKey(@, j.key)]]

\* Save failed: roll back, and answer 500.
Rollback(a) ==
  /\ owner = a /\ saving = "failed"
  /\ live' = Restored(job[a]).live /\ store' = Restored(job[a]).store
  /\ owner' = None /\ saving' = "no"
  /\ job' = [job EXCEPT ![a] = Idle]
  /\ UNCHANGED <<startup, process, disk, made, updates, crashes>>

\* The process dies: the files stay.
Crash ==
  /\ process # "down" /\ crashes < MaxCrashes
  /\ process' = "down" /\ crashes' = crashes + 1
  /\ store' = EmptyPolicy /\ live' = Down
  /\ made' = [limiter |-> FALSE, guardrail |-> FALSE]
  /\ saving' = "no" /\ owner' = None
  /\ job' = [a \in Admins |-> Idle]
  /\ UNCHANGED <<startup, disk, updates>>

Arrivals(a) ==
  \/ \E l \in Lists : Arrive(a, [op |-> "guardrails", value |-> l])
  \/ \E n \in Limits : Arrive(a, [op |-> "rate_limit", value |-> n])
  \/ \E k \in Keys, s \in ScopeLists : Arrive(a, [op |-> "post_key", key |-> k, value |-> s])
  \/ \E k \in Keys : Arrive(a, [op |-> "delete_key", key |-> k])
  \/ \E f \in Fields, v \in {1, 2} : ArriveRouting(a, [x \in {f} |-> v])

Save == SaveTemp \/ SaveBackup \/ SaveRename \/ SaveRenameAgain

Handle(a) ==
  \/ Refuse(a)
  \/ PutGuardrails(a) \/ PutRateLimit(a) \/ PostApiKey(a) \/ DeleteApiKey(a) \/ PutRouting(a)
  \/ Acknowledge(a) \/ Rollback(a)

PolicyNext ==
  \/ StartServer \/ StartDone \/ Save \/ Crash
  \/ \E a \in Admins : Arrivals(a) \/ Handle(a)

PolicySpec == PolicyInit /\ [][PolicyNext]_policyVars

---------------------------------------------------------------------------
(* Properties. *)

Policies ==
  [keys : UNION {[D -> SUBSET Scopes] : D \in SUBSET Keys}, words : Seq(Seq({"a", "A", ",", " "})),
   limit : Int, routing : [Fields -> {1, 2}] \cup {None}]

\* The store, the key table and Save's position keep their types.
PolicyTypeOK ==
  /\ startup \in Startups /\ process \in {"down", "starting", "serving"}
  /\ store \in Policies
  /\ \A f \in {"target", "backup", "temp"} :
       disk[f].exists => disk[f].policy \in Policies
  /\ live.auth \in [DOMAIN live.auth -> SUBSET Scopes] /\ DOMAIN live.auth \subseteq Keys
  /\ saving \in {"no", "temp", "copy", "rename", "rename_again", "saved", "failed"}
  /\ owner \in Admins \cup {Boot, None}
  /\ (owner = None) <=> (saving = "no")

PolicySettled == process = "serving" /\ owner = None

\* Requests are checked against what the store says (docs/AdminGuide.md: "keeping
\* the store in sync with in-memory auth"): between updates every stored key has
\* exactly its stored scopes in the key table, the HTTP server and the scheduler
\* route by the stored policy, and the guardrail and limiter, where there is one,
\* enforce the stored list and limit, after any mixture of updates, failed saves and
\* restarts.
LiveFollowsStore ==
  PolicySettled =>
    /\ \A k \in DOMAIN store.keys : k \in DOMAIN live.auth /\ live.auth[k] = MakeScopes(store.keys[k])
    /\ live.http = store.routing /\ live.sched = store.routing
    /\ made.guardrail => live.words = NormalizeWords(store.words)
    /\ made.limiter => live.limit = store.limit

\* The files hold a policy, or a restart would make exactly this policy of them (main
\* seeds the store, and its own save may fail).
Saved(policy) == Load = Parsed(policy) \/ SeededPolicy(Load) = policy

\* Save is atomic for a crash: while an update is in progress, the files hold the
\* policy before the update or the policy after it, whichever step the process dies
\* at and whichever kind of file error occurred.
SaveIsOldOrNew ==
  owner \in Admins => Saved(job[owner].store) \/ Saved(store)

\* "On persistence failure, in-memory policy changes are rolled back so runtime and
\* disk remain consistent" (docs/AdminGuide.md): between updates the files hold the
\* policy in memory, so an acknowledged update is on disk and a refused one is not.
FilesHoldStore == PolicySettled => Saved(store)

\* Words that a comma-separated line gives back as they are.
Plainly(words) == Parsed([words |-> words]).words = words

\* What a restart enforces of the policy in memory: every stored key with its scopes,
\* the stored routing, a positive limit, and a blocklist that is not empty and whose
\* words have no commas; a key that is not stored only if it is configured.  The start
\* fills in an emptied policy from the configuration, and accepts the configured keys
\* again, so nothing is said of a deletion of those.
RestartEnforcesStore ==
  PolicySettled =>
    LET again == LivePolicy(SeededPolicy(Load))
    IN /\ \A k \in DOMAIN store.keys :
            k \in DOMAIN again.auth /\ again.auth[k] = MakeScopes(store.keys[k])
       /\ DOMAIN again.auth \ DOMAIN store.keys
            \subseteq DOMAIN startup.yaml_keys \cup DOMAIN startup.env_keys
       /\ again.http = store.routing /\ again.sched = store.routing
       /\ store.limit > 0 => again.limit = store.limit
       /\ store.words # << >> /\ Plainly(store.words) => again.words = NormalizeWords(store.words)

\* A restart enforces the policy that was in force before it, the deletion of the last
\* key or of a configured one, an empty blocklist and a limit of zero included.
RestartEnforcesEveryUpdate ==
  PolicySettled => LivePolicy(SeededPolicy(Load)) = live

\* An update whose save failed leaves the live policy and the store as they were
\* when it began, for a key the store knows or nobody knows.
FailedUpdateUndone ==
  [][\A a \in Admins :
       /\ owner = a /\ saving = "failed" /\ owner' = None /\ process' # "down"
       /\ "key" \in DOMAIN job[a] =>
            (job[a].key \in DOMAIN job[a].store.keys \/ job[a].key \notin DOMAIN job[a].live.auth)
       => live' = job[a].live /\ store' = job[a].store]_policyVars

\* The same for every key.  docs/AdminGuide.md: "On persistence failure, in-memory
\* policy changes are rolled back".
EveryFailedUpdateUndone ==
  [][\A a \in Admins :
       owner = a /\ saving = "failed" /\ owner' = None /\ process' # "down" => live' = job[a].live]_policyVars

\* PUT /v1/admin/routing changes the fields its body names and no other.
RoutingPutKeepsOtherFields ==
  [][\A a \in Admins :
       owner = None /\ owner' = a /\ job[a].op = "routing" =>
         \A f \in Fields \ job[a].fields : live'.http[f] = live.http[f]]_policyVars

\* Between updates the live policy and the files are the stored one, at any step of an
\* update the files are those before it or after it, a restart enforces what was
\* stored, and an update that failed has changed nothing.
PolicySafe ==
    /\ [](/\ PolicyTypeOK
          /\ LiveFollowsStore
          /\ SaveIsOldOrNew
          /\ FilesHoldStore
          /\ RestartEnforcesStore)
    /\ FailedUpdateUndone
============================================================================
