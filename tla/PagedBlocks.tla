---------------------------- MODULE PagedBlocks ----------------------------
(***************************************************************************)
(* The paged KV block pool (runtime/kv_cache/paged_kv_cache.cpp) and its   *)
(* users: block reservation, prefix donation, session commits, swapping    *)
(* and release in scheduler/scheduler.cpp, and the block tables of radix   *)
(* nodes (runtime/prefix_cache/radix_prefix_cache.cpp).                    *)
(*                                                                         *)
(* A block table is the set of its pages.  Page contents, dirty bits and   *)
(* the LRU or clock order are left out: SelectEvictionCandidate may return *)
(* any page that is not in use.  The sequence slot of an admission is a    *)
(* free choice here; SlotLifecycle models it.                              *)
(***************************************************************************)
EXTENDS Integers, FiniteSets

CONSTANTS
  Pages,         \* the pages of pages_
  NHost,         \* the number of blocks of host_blocks_
  Requests,
  Nodes,         \* radix nodes that can hold a donated table
  Configs,       \* the configurations to start from
  MaxNeed,       \* bound on total_blocks_needed
  None

ASSUME BoundsAssumption == NHost \in Nat /\ MaxNeed \in Nat \ {0}
ASSUME ConfigsAssumption ==
  /\ Configs \subseteq [users : SUBSET Requests, split : BOOLEAN, batch : Nat \ {0}]
  /\ \A c \in Configs : c.split => c.users = {}
ASSUME NoneAssumption == None \notin Requests /\ None \notin Nodes

HostBlocks == 1 .. NHost

VARIABLES
  config,    \* fixed at the start: users, the requests that name the one session
             \* id; split, use_decode_workers_; batch, max_batch_size
  pool,      \* KVPage: in_use and ref_count of every page
  host,      \* host blocks in use
  phase,     \* per request: new, ready (selected and admitted), decode (queued
             \* again), pool (owned by a decode worker), done
  table,     \* per request: inference.block_table
  handles,   \* per request: swapped_host_handles
  trie,      \* per node: block_table ({}: no donor)
  warm,      \* block_table of the session entry's retained state
  lease,     \* the request that has the session in use
  adopted,   \* lease's request took over the references of warm
  sel,       \* WorkerLoop's selection
  cand       \* the admission in progress

vars == <<config, pool, host, phase, table, handles, trie, warm, lease, adopted, sel, cand>>

NoAdmission == [pc |-> "none", req |-> None, donor |-> None, session |-> FALSE,
                cached |-> {}, total |-> 0, fresh |-> {}, tried |-> {}]

TypeOK ==
  /\ config \in Configs
  /\ pool \in [Pages -> [used : BOOLEAN, ref : Int]]
  /\ host \subseteq HostBlocks
  /\ phase \in [Requests -> {"new", "ready", "decode", "pool", "done"}]
  /\ table \in [Requests -> SUBSET Pages]
  /\ handles \in [Requests -> SUBSET HostBlocks]
  /\ trie \in [Nodes -> SUBSET Pages]
  /\ warm \subseteq Pages
  /\ lease \in Requests \cup {None}
  /\ adopted \in BOOLEAN
  /\ sel \subseteq Requests
  /\ cand \in [pc : {"none", "tight", "reserve", "alloc"}, req : Requests \cup {None},
               donor : Nodes \cup {None}, session : BOOLEAN, cached : SUBSET Pages,
               total : 0 .. MaxNeed, fresh : SUBSET Pages, tried : SUBSET Requests]

Init ==
  /\ config \in Configs
  /\ pool = [p \in Pages |-> [used |-> FALSE, ref |-> 0]]
  /\ host = {}
  /\ phase = [r \in Requests |-> "new"]
  /\ table = [r \in Requests |-> {}]
  /\ handles = [r \in Requests |-> {}]
  /\ trie = [n \in Nodes |-> {}]
  /\ warm = {}
  /\ lease = None
  /\ adopted = FALSE
  /\ sel = {}
  /\ cand = NoAdmission

---------------------------------------------------------------------------
(* The calls of PagedKVCache, as functions of the pool. *)

\* NumFreeBlocks counts these.
Free(po) == {p \in Pages : ~po[p].used}

\* The page sets ReserveBlocks(n) can return; none when it would throw.
Reservations(po, n) == {S \in SUBSET Free(po) : Cardinality(S) = n}

ReserveBlocks(po, S) == [p \in Pages |-> IF p \in S THEN [used |-> TRUE, ref |-> 1] ELSE po[p]]

AcquireBlocks(po, S) == [p \in Pages |-> IF p \in S THEN [po[p] EXCEPT !.ref = @ + 1] ELSE po[p]]

\* A page is freed when the last owner releases it.
ReleaseBlocksRef(po, S) ==
  [p \in Pages |-> IF p \notin S THEN po[p]
                   ELSE [used |-> po[p].used /\ po[p].ref > 1, ref |-> po[p].ref - 1]]

\* SwapOut moves the data away and frees the page, whatever its ref_count.
SwapOutPages(po, S) == [p \in Pages |-> IF p \in S THEN [po[p] EXCEPT !.used = FALSE] ELSE po[p]]

---------------------------------------------------------------------------
(* WorkerLoop: BuildBatchLocked and the admission part of ProcessBatch. *)

Swapped(r) == handles[r] # {}

\* A swapped-out request is selected only after TrySwapIn: its blocks move back
\* into freshly reserved pages and the host blocks are freed.
BuildBatchLocked ==
  /\ sel = {}
  /\ \E S \in SUBSET {r \in Requests : phase[r] \in {"new", "decode"}} :
       LET back == {r \in S : Swapped(r)} IN
       /\ S # {}
       /\ Cardinality(S) <= config.batch
       /\ \E into \in [back -> SUBSET Free(pool)] :
            /\ \A r \in back : Cardinality(into[r]) = Cardinality(handles[r])
            /\ \A r, q \in back : r # q => into[r] \cap into[q] = {}
            /\ pool' = ReserveBlocks(pool, UNION {into[r] : r \in back})
            /\ host' = host \ UNION {handles[r] : r \in back}
            /\ table' = [r \in Requests |-> IF r \in back THEN into[r] ELSE table[r]]
            /\ handles' = [r \in Requests |-> IF r \in back THEN {} ELSE handles[r]]
            /\ phase' = [r \in Requests |->
                           IF r \in S /\ phase[r] = "decode" THEN "ready" ELSE phase[r]]
       /\ sel' = S
  /\ UNCHANGED <<config, trie, warm, lease, adopted, cand>>

Needed(c) == IF c.total > Cardinality(c.cached) THEN c.total - Cardinality(c.cached) ELSE 0

\* Start of the admission of r with the pool po: NumFreeBlocks is compared once
\* with the need.
StartWith(r, donor, session, cached, po) ==
  \E total \in 1 .. MaxNeed :
    LET c == [NoAdmission EXCEPT !.req = r, !.donor = donor, !.session = session,
                                 !.cached = cached, !.total = total] IN
    cand' = [c EXCEPT !.pc = IF Cardinality(Free(po)) < Needed(c) THEN "tight" ELSE "reserve"]

\* The radix lookup returns a donor's whole table, or misses.
StartWithLookup(r, po) ==
  \/ StartWith(r, None, FALSE, {}, po)
  \/ \E n \in Nodes : trie[n] # {} /\ StartWith(r, n, FALSE, trie[n], po)

CanStart(r) == r \in sel /\ phase[r] = "new" /\ cand.pc = "none"

\* Without session state: the candidate is what the radix lookup returns.
LookupPrefix(r) ==
  /\ CanStart(r)
  /\ r \in config.users => lease # None     \* session_busy
  /\ StartWithLookup(r, pool)
  /\ UNCHANGED <<config, pool, host, phase, table, handles, trie, warm, lease, adopted, sel>>

\* AcquireLease succeeds: the retained state is the candidate when the prompt
\* extends it, and is released and discarded when it does not.
AcquireSession(r) ==
  /\ CanStart(r)
  /\ r \in config.users /\ lease = None
  /\ lease' = r
  /\ \/ /\ warm # {}
        /\ UNCHANGED <<pool, warm>>
        /\ StartWith(r, None, TRUE, warm, pool)
     \/ /\ pool' = ReleaseBlocksRef(pool, warm)
        /\ warm' = {}
        /\ StartWithLookup(r, pool')
  /\ UNCHANGED <<config, host, phase, table, handles, trie, adopted, sel>>

\* Requests of the selection that TrySwapOut has not been tried on.
Victims == {v \in sel \ {cand.req} : table[v] # {} /\ ~Swapped(v)} \ cand.tried

\* TrySwapOut moves every block of a victim of the selection to the first free
\* host blocks.
SwapOutVictim(v) ==
  /\ cand.pc = "tight" /\ v \in Victims
  /\ \E H \in SUBSET (HostBlocks \ host) :
       /\ Cardinality(H) = Cardinality(table[v])
       /\ \A h \in H : \A g \in HostBlocks \ (host \cup H) : h < g
       /\ host' = host \cup H
       /\ handles' = [handles EXCEPT ![v] = H]
  /\ pool' = SwapOutPages(pool, table[v])
  /\ table' = [table EXCEPT ![v] = {}]
  /\ cand' = [cand EXCEPT !.pc = "reserve"]
  /\ UNCHANGED <<config, phase, trie, warm, lease, adopted, sel>>

\* SwapOut throws when the host pool runs out midway: the blocks moved so far
\* stay moved, their handles are lost and the victim keeps its table.
SwapOutThrows(v) ==
  /\ cand.pc = "tight" /\ v \in Victims
  /\ Cardinality(HostBlocks \ host) < Cardinality(table[v])
  /\ \E S \in SUBSET table[v] :
       /\ Cardinality(S) = Cardinality(HostBlocks \ host)
       /\ pool' = SwapOutPages(pool, S)
  /\ host' = HostBlocks
  /\ cand' = [cand EXCEPT !.tried = @ \cup {v}]
  /\ UNCHANGED <<config, phase, table, handles, trie, warm, lease, adopted, sel>>

\* Reserve the new blocks; with too few free pages new_blocks stays empty.
ReserveNew ==
  /\ \/ cand.pc = "reserve"
     \/ cand.pc = "tight" /\ Victims = {}
  /\ \/ \E S \in Reservations(pool, Needed(cand)) :
          /\ pool' = ReserveBlocks(pool, S)
          /\ cand' = [cand EXCEPT !.pc = "alloc", !.fresh = S]
     \/ /\ Cardinality(Free(pool)) < Needed(cand)
        /\ cand' = [cand EXCEPT !.pc = "alloc"]
        /\ UNCHANGED pool
  /\ UNCHANGED <<config, host, phase, table, handles, trie, warm, lease, adopted, sel>>

\* AllocSeqSlot retires a donor that is not the candidate.
EvictBystander(n) ==
  /\ cand.pc = "alloc" /\ ~cand.session
  /\ n # cand.donor /\ trie[n] # {}
  /\ pool' = ReleaseBlocksRef(pool, trie[n])
  /\ trie' = [trie EXCEPT ![n] = {}]
  /\ UNCHANGED <<config, host, phase, table, handles, warm, lease, adopted, sel, cand>>

\* Mutant of EvictMatched: the candidate's blocks outlive its donor.
EvictMatchedKeepsCandidate ==
  /\ cand.pc = "alloc" /\ cand.donor # None
  /\ pool' = ReleaseBlocksRef(pool, trie[cand.donor])
  /\ trie' = [trie EXCEPT ![cand.donor] = {}]
  /\ cand' = [cand EXCEPT !.donor = None]
  /\ UNCHANGED <<config, host, phase, table, handles, warm, lease, adopted, sel>>

\* AllocSeqSlot retires the matched donor: the candidate is dropped, the new
\* blocks are released and the whole prompt is reserved.
EvictMatched ==
  /\ cand.pc = "alloc" /\ cand.donor # None
  /\ LET after == ReleaseBlocksRef(ReleaseBlocksRef(pool, trie[cand.donor]), cand.fresh)
         plain == [cand EXCEPT !.donor = None, !.cached = {}] IN
     \/ \E S \in Reservations(after, cand.total) :
          /\ pool' = ReserveBlocks(after, S)
          /\ cand' = [plain EXCEPT !.fresh = S]
     \/ /\ Cardinality(Free(after)) < cand.total
        /\ pool' = after
        /\ cand' = [plain EXCEPT !.fresh = {}]
  /\ trie' = [trie EXCEPT ![cand.donor] = {}]
  /\ UNCHANGED <<config, host, phase, table, handles, warm, lease, adopted, sel>>

\* can_admit: shared blocks of a donor need a reference of their own; session
\* blocks bring the one the session held.
Admit ==
  /\ cand.pc = "alloc"
  /\ Needed(cand) = 0 \/ cand.fresh # {}
  /\ pool' = IF cand.session THEN pool ELSE AcquireBlocks(pool, cand.cached)
  /\ table' = [table EXCEPT ![cand.req] = cand.cached \cup cand.fresh]
  /\ adopted' = (adopted \/ cand.session)
  /\ phase' = [phase EXCEPT ![cand.req] = "ready"]
  /\ cand' = NoAdmission
  /\ UNCHANGED <<config, host, handles, trie, warm, lease, sel>>

\* No slot, no blocks or no restored lease: the reservation is returned and the
\* request runs without a sequence.
NotAdmitted ==
  /\ cand.pc = "alloc"
  /\ pool' = ReleaseBlocksRef(pool, cand.fresh)
  /\ phase' = [phase EXCEPT ![cand.req] = "ready"]
  /\ cand' = NoAdmission
  /\ UNCHANGED <<config, host, table, handles, trie, warm, lease, adopted, sel>>

---------------------------------------------------------------------------
(* After admission: prefill, hand-off, execution and release. *)

Ready(r) == r \in sel /\ phase[r] = "ready" /\ cand.pc = "none"

\* The prefill failed: every scheduler reference goes, a session's state too.
PrefillFails(r) ==
  /\ Ready(r) /\ table[r] # {}
  /\ pool' = ReleaseBlocksRef(pool, table[r])
  /\ table' = [table EXCEPT ![r] = {}]
  /\ IF lease = r THEN warm' = {} /\ adopted' = FALSE ELSE UNCHANGED <<warm, adopted>>
  /\ UNCHANGED <<config, host, phase, handles, trie, lease, sel, cand>>

\* Split mode: the request is published to the decode workers and stays in the
\* worker's selection until the batch ends.
HandOff(r) ==
  /\ config.split /\ Ready(r)
  /\ phase' = [phase EXCEPT ![r] = "pool"]
  /\ UNCHANGED <<config, pool, host, table, handles, trie, warm, lease, adopted, sel, cand>>

\* A full KV channel: the request returns to the prefill queue, or is failed.
HandOffRejected(r) ==
  /\ config.split /\ Ready(r)
  /\ pool' = ReleaseBlocksRef(pool, table[r])
  /\ table' = [table EXCEPT ![r] = {}]
  /\ \E next \in {"new", "done"} : phase' = [phase EXCEPT ![r] = next]
  /\ handles' = [handles EXCEPT ![r] = IF phase'[r] = "done" THEN {} ELSE @]
  /\ sel' = sel \ {r}
  /\ UNCHANGED <<config, host, trie, warm, lease, adopted, cand>>

\* Execution starts when the whole selection has been through admission.
Executed(r) == Ready(r) /\ \A q \in sel : phase[q] # "new"

\* The decode slice yields: the request is queued for decode again.
ExecYield(r) ==
  /\ Executed(r)
  /\ phase' = [phase EXCEPT ![r] = "decode"]
  /\ UNCHANGED <<config, pool, host, table, handles, trie, warm, lease, adopted, sel, cand>>

\* The request is answered; its host handles go with the request object.
Finished(r) ==
  /\ phase' = [phase EXCEPT ![r] = "done"]
  /\ table' = [table EXCEPT ![r] = {}]
  /\ handles' = [handles EXCEPT ![r] = {}]
  /\ UNCHANGED <<config, host, sel, cand>>

\* The finished request's references are released without a donation.
FinishRelease(r) ==
  /\ Executed(r) /\ lease # r
  /\ pool' = ReleaseBlocksRef(pool, table[r])
  /\ Finished(r)
  /\ UNCHANGED <<trie, warm, lease, adopted>>

\* Dropping the references of several nodes.
ReleaseNodes(po, tables, E) ==
  [p \in Pages |-> LET k == Cardinality({n \in E : p \in tables[n]}) IN
                   IF k = 0 THEN po[p]
                   ELSE [used |-> po[p].used /\ po[p].ref > k, ref |-> po[p].ref - k]]

\* Donation: a reference for the node, Insert, and the scheduler's own release.
\* Insert at an existing node releases the old table; a new leaf is followed by
\* the evictions that restore the limits, of any donors.
FinishDonate(r, n) ==
  /\ Executed(r) /\ lease # r /\ table[r] # {}
  /\ LET donated == [trie EXCEPT ![n] = table[r]]
         taken == ReleaseBlocksRef(AcquireBlocks(pool, table[r]), trie[n]) IN
     \E E \in SUBSET {m \in Nodes : donated[m] # {}} :
       /\ trie[n] = {} \/ E = {}
       /\ trie' = [m \in Nodes |-> IF m \in E THEN {} ELSE donated[m]]
       /\ pool' = ReleaseBlocksRef(ReleaseNodes(taken, donated, E), table[r])
  /\ Finished(r)
  /\ UNCHANGED <<warm, lease, adopted>>

\* FinalizeSessionLease: a request with a sequence commits its table to the
\* session, or releases it and discards the stale copy when it failed; without
\* a sequence the lease is released and the retained state stays.
FinishSession(r) ==
  /\ Executed(r) /\ lease = r
  /\ \/ /\ table[r] # {} \/ Swapped(r)
        /\ \/ warm' = table[r] /\ UNCHANGED pool
           \/ warm' = {} /\ pool' = ReleaseBlocksRef(pool, table[r])
     \/ /\ table[r] = {} /\ ~Swapped(r)
        /\ UNCHANGED <<pool, warm>>
  /\ lease' = None
  /\ adopted' = FALSE
  /\ Finished(r)
  /\ UNCHANGED trie

\* The worker goes back to its queues.
EndBatch ==
  /\ sel # {} /\ \A r \in sel : phase[r] \notin {"new", "ready"}
  /\ sel' = {}
  /\ UNCHANGED <<config, pool, host, phase, table, handles, trie, warm, lease, adopted, cand>>

\* A decode worker finishes or fails a request and releases its references.
DecoderReleases(r) ==
  /\ phase[r] = "pool"
  /\ pool' = ReleaseBlocksRef(pool, table[r])
  /\ Finished(r)
  /\ UNCHANGED <<trie, warm, lease, adopted>>

\* CollectExpired and ReleaseSessionState.
SessionExpires ==
  /\ lease = None /\ warm # {}
  /\ pool' = ReleaseBlocksRef(pool, warm)
  /\ warm' = {}
  /\ UNCHANGED <<config, host, phase, table, handles, trie, lease, adopted, sel, cand>>

AllAnswered == (\A r \in Requests : phase[r] = "done") /\ UNCHANGED vars

Next ==
  \/ BuildBatchLocked \/ ReserveNew \/ EvictMatched \/ Admit \/ NotAdmitted
  \/ EndBatch \/ SessionExpires \/ AllAnswered
  \/ \E r \in Requests :
       \/ LookupPrefix(r) \/ AcquireSession(r) \/ SwapOutVictim(r) \/ SwapOutThrows(r)
       \/ PrefillFails(r) \/ HandOff(r) \/ HandOffRejected(r)
       \/ ExecYield(r) \/ FinishRelease(r) \/ FinishSession(r) \/ DecoderReleases(r)
  \/ \E n \in Nodes : EvictBystander(n) \/ \E r \in Requests : FinishDonate(r, n)

Spec == Init /\ [][Next]_vars

---------------------------------------------------------------------------
Owners(p) == {r \in Requests : p \in table[r]} \cup {n \in Nodes : p \in trie[n]}
             \cup {o \in {"session"} : p \in warm /\ ~adopted}
             \cup {o \in {"admission"} : p \in cand.fresh}

\* The ref_count of a page is the number of block tables and reservations that
\* name it, and the page is in use exactly while there is one: no owner is left
\* with a page that is handed out again and no page outlives its owners.  With
\* batches of one request: SwapOut, which takes a victim from the same batch,
\* frees pages without looking at ref_count.
RefCountIsOwners ==
  config.batch = 1 =>
    \A p \in Pages : /\ pool[p].ref = Cardinality(Owners(p))
                     /\ pool[p].used <=> pool[p].ref > 0

\* A host block holds the swapped blocks of one request: no two requests share a
\* handle, a handle names a host block in use, and a request's blocks are either
\* in its table or on the host.
SwapHandlesExclusive ==
  \A r \in Requests :
    /\ handles[r] \subseteq host
    /\ table[r] = {} \/ handles[r] = {}
    /\ \A q \in Requests \ {r} : handles[r] \cap handles[q] = {}

\* "This node owns one reference per block, including prefix blocks shared with
\* other donors": a page in the table of a radix node is never free.
DonatedPagesInUse == \A n \in Nodes : \A p \in trie[n] : pool[p].used

\* Every page is accounted for: its ref_count is the number of its owners and a
\* swapped-out request has host blocks of its own.
PagesSafe == TypeOK /\ RefCountIsOwners /\ SwapHandlesExclusive
=============================================================================
