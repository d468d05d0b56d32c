# InferFlux in TLA+

InferFlux is an inference server: an HTTP front end hands requests to a
scheduler, which batches them, gives each one KV-cache memory and runs them on
a backend (native CUDA, llama.cpp, CPU and others). This directory models the
concurrent and stateful parts of it and the index arithmetic of its native
kernels, checks them with TLC on small instances, and proves part of what the
runs check with TLAPS for every size.

Paths below are relative to `src/`. `PROJECT.json` maps every definition to the
lines it models and lists the hazards of the code with the properties that
watch them.

## 1. The system

| Part | State | What is hard about it |
|---|---|---|
| Sequence slot manager, `runtime/scheduler/sequence_slot_manager.cpp` | a table of slots with state, generation and retire fence | stale leases, deferred reuse, two-lock release |
| Slot use, `scheduler/scheduler.cpp` (AllocSeqSlot, FreeSeqSlot, FinalizeSessionLease, ...) | leases in requests, radix nodes, sessions; deferred retirements; backend KV | three kinds of thread, hand-over of ownership, asynchronous backend frees |
| Queues and loops, `scheduler/scheduler.cpp`, `scheduler/fairness_controller.cpp` | `pending_prefill_`, `pending_decode_`, `publishing_decode_`, batches in flight, promises | exactly-once answers, exceptions, shutdown order |
| Paged KV cache, `runtime/kv_cache/paged_kv_cache.cpp` | pages with a reference count, host blocks, offload files | sharing between requests, donors and sessions; partial failure; a writer thread behind a bounded queue |
| Radix prefix cache, `runtime/prefix_cache/radix_prefix_cache.cpp` | a trie of donated sequences with LRU stamps and two counters | counters, pruning, LRU order against a match in use |
| KV transport, `runtime/disaggregated/` | a bounded channel and ticket stages | several consumers, lost segments, time-outs |
| Session handles, `scheduler/session_handle_manager.cpp` | one entry per session: retained state, in-use flag, expiry | expiry against use, the cap, stale copies |
| Batch executor, `runtime/execution/` | the slices of an answer, budgets, stop strings | an answer put together from slices |
| Model registry, router and backend choice | a map of models, a watched file, leases | a model that goes while requests wait for it; fallback rules |
| HTTP server, authentication, rate limiter, policy store | connections, streams, token buckets, a policy file | stop against accept, partial responses, crash during a save |
| llama.cpp adapter, `runtime/backends/` | one context of shared sequences | requests that must not see each other's rows |
| Native CUDA backend, `runtime/backends/cuda/` | two lanes of streams, a token relay, decode graphs, buffers, operator health | overlap, fences, stale graphs, aliased buffers, index arithmetic |
| Tokenizers, formats, text splitters, structured output, metrics, logging, CLI, web UI | text | string processing |

An HTTP thread calls `Generate` and waits on a future. `WorkerLoop` selects a
batch, and for each admitted request looks up the radix cache, reserves pages,
takes a slot (evicting donors if it must) and prefills. In unified mode the same
thread decodes; in split mode it publishes the request and a KV packet to a pool
of decode workers. When a request ends, its slot and pages are released, donated
to the radix cache or kept for its session. A third thread wakes every 30
seconds to expire sessions and to poll deferred retirements. Below the scheduler
a backend runs the batch: the llama.cpp adapter in one context, the native
backend on one pipeline or on two lanes that overlap prefill and decode.

The properties worth having are therefore: a slot and a page have exactly the
owners that believe they own them; a live sequence's KV is never cleared or
overwritten by somebody else; a request is in one place, is answered once, and
is answered at all; tickets say where packets are; retained sessions are neither
lost nor shared; a response is whole or visibly cut; a crash leaves the old
policy or the new one; every product of a kernel is added once; and nothing
waits for ever.

## 2. Modules

### Scheduler and its tables

**SequenceSlots** models the slot manager alone. One action per public
operation, atomic because each holds `mutex_`; ReleaseLease locks twice and is
two actions. Any lease ever issued can be presented again. `issued` and `held`
are history variables: which leases exist and which have been neither given
back nor evicted.

**SlotLifecycle** extends SequenceSlots with its callers. `thr[t]` is where a
thread is inside AllocSeqSlot, FreeSeqSlot or the poll; a step is what one lock
covers. `kv` is what the backend has written for a slot: clearing and writing
happen where the code calls the backend. A radix lookup is a free choice of
donor and an LRU victim a free choice too, which RadixCache refines.

**SlotOwnership** is the abstract specification of SlotLifecycle: a slot is
free, with a thread, owned by a request, a radix node or the session table,
draining, or lost (only where hydration loses it); only some moves between these
are allowed, and a free slot is clean. `OwnershipProtocol` is its specification
under the mapping `Ownership`.

**SchedulerQueues** models the queues, both loops and the promises. Queues are
multisets, since any request can have the best score. Prefill and execution are
reduced to their outcomes (finished, yielded, failed, rejected by the channel,
threw). **RequestService** is its abstract specification, what `Generate`
promises its caller; `ImplementsService` is the refinement.

**PagedBlocks** models the block pool and every caller of it: reservation at
admission with the retired-donor correction, sharing with a donor, donation,
session adoption, swap-out and swap-in, release in each error path. **PageStore**
models the other half of the same class: host pages, clock and LRU eviction,
offload files and the asynchronous writer with its bounded queue.

**RadixCache** models the trie: nodes are token paths, `used` is the order of
`last_used`. Insert is one action followed, for a new leaf, by the steps of its
two trimming loops.

**KVTransport** models publication, the channel, the tickets and the drain of
the decode workers, with optional blob packets, unreadable segments and
preemption.

**SessionHandles** models the session table under the calls the worker, the
eviction thread and the destructor make. A retained sequence is named after the
request that computed it, so losing or sharing one is visible.

**TokenSlices** models the batch executor for one answer: fairness slices,
bursts, budgets, stop strings, held-back text and the assembly of the result.

### Server

**HttpServer** models the listeners, the bounded queue of connections, the
workers and Stop, step by step; an accept that fails ends its loop only.
**HttpRequests** models what happens to the requests of one connection inside a
worker: authorisation, rate limit, readiness, the completion, streaming and
embedding handlers, failing or partial sends and the kept connection. A handler
that waits for a generation waits for its promise, whoever hangs up; only the
wait for an embedding looks at the peer.

**ModelRouter** models loading, unloading, the default model, administrative
deletion, the watcher of the registry file and requests that choose a model and
lease it. A request resolves its model to a pointer, reads the capabilities
through it later and takes the lease last, three steps between which the model
can be unloaded; a pointer whose model is gone reads any entry that may be at
its place. A registry file may be malformed, absent or impossible to open.
**BackendSelection** models the choice of a backend for one load, a pure
function of placement, policy, machine and artifact, over all small setups.

**PolicyAdmin** models the policy store, the admin handlers with their rollback,
crashes between the steps of a save, and the start that loads the store, fills in
what it lacks from the configuration and fills the key table, the blocklist, the
limit and the routing options. **RateLimiter** models the token buckets of every
principal, aggregate and per endpoint class, in sixtieths of a token over a
bounded clock, beside a copy that is never evicted.

### Backends

**LlamaContext** models the llama.cpp adapter as the scheduler's worker drives it:
prefill in chunks with prefix reuse, the unified step of the phased requests, then
Generate and Decode for the others. Each call's effect on the rows of the shared
context and on the one buffer of logits is kept, and which row's logits a request
is answered from; the library is an external store of rows.

**PrimaryPipeline** models the native executor's own pipeline with prefills in
flight, the token relay on the device and penalties. **LaneOverlap** models
mixed batches on two lanes: permits, lane workers, streams, sequence fences,
time-outs and teardown, an initialisation that succeeds, lacks something or cannot
allocate the replicas, and batches of which only some rows fail.

**ForwardPass** models one pass through the layers as the values its buffers
hold, with fused attempts that may be refused and buffers that alias.
**DecodeGraphs** is the cache of captured decode graphs, with the relay that replays
the graph of the last decode step without going through the cache.
**DispatchSelection** is the rules that choose an operator, the health record, the
load-time probe, and the decode step's own attempts, the fused gate/up kernel that
stands in for the stage included.

**QuantLayout**, **GemvKernels** and **GemvDispatch** model the quantized
matrix-vector kernels: which elements every thread decodes, which products it
adds, from which row of a staged tile, and which kernel a call launches. A dot
product is the multiset of the products that were added, compared with the one the
dequantize kernels and the definition of the product call for.
**AttentionKernels** does the same for the positions that attention reads, splits
and merges, for the shared memory a launch asks for, and for the register fragments
of the tensor-core variants. `flash_attention_mma.cuh:53` speaks of devices
before sm_75; the decode kernel's mma instruction is not guarded by the
architecture, so there is no build for them and they are left out.

### Model checking and proofs

**MCSlotLifecycle**, **MCSchedulerQueues** and **MCPagedBlocks** give constants
and symmetry sets for one component. **MCTables**, **MCServer**, **MCParts** and
**MCNative** extend several components that do not interact at this level, and a
variable `focus`, chosen in Init, says which of them takes steps; the others
stay in an initial state. They define no behaviour of their own.

The modules named `...Proofs` hold the theorems (section 6).

Definitions whose comment begins "Mutant of" are altered copies of a definition,
used to show that a property can fail; no specification uses them.

## 3. What the runs check

State counts are distinct states. A scheduler is configured once, in its
constructor, so the larger models take their configuration from a variable that
Init chooses from a set and no step changes: one run covers all configurations
of its MC module, and a property that the code promises only for some of them
says so. A property named `...Safe` is the conjunction of what a component
promises; its parts have names and comments of their own in the module.

- `lifecycle` (406,549): three requests on two slots, so that admission must
  evict donors and wait for deferred frees, with two generations and two radix
  nodes. Configurations: unified with a session; split, with a decode worker and
  a context limit; split with packets that carry the KV, so that the decode
  worker allocates slots itself. `LiveSequencesSafe`: live KV is intact, an
  acquired slot is clear, one owner per slot, a session in use has its request
  (without a context limit). `DonorSurvivesUntilCopy`: the matched donor is there
  when it is copied (without hydration). `OwnershipProtocol`: SlotOwnership is
  implemented.
- `queues` (150,387): unified with an embedding and shutdown; split with two
  workers; split with an embedding and one worker; loops that may throw with
  shutdown at any time, without and with a model that loses a feature between
  prefill and decode. Priorities force preemption, the channel rejects, one retry
  and one extra slice each. An unanswered request is in one place, RequestService
  is implemented, a healthy scheduler answers every request, and the destructor
  of a unified one returns.
- `paged` (910,908): three pages, four requests, two radix nodes, three host
  blocks, needs of up to three pages, a session shared by two requests.
  `RefCountIsOwners` is exact: the count equals the number of tables naming the
  page, so both early frees and leaks are violations. It is stated for batches of
  one request, unified or split: a swap-out takes its victim from the same batch
  and ignores the count (below). Batches of two run in unified mode, where
  swapping and an exhausted host pool occur and `SwapHandlesExclusive` is the
  question.
- `tables` (274,693), one table at a time. Slots: two slots, two requests, three
  generations, so that a lease can be stale by two acquisitions, with
  EvictIdleSlots and PerformGracefulDegradation, which only tests call. Radix
  cache: five prompts with common prefixes of different lengths, three sequences,
  two backends, limits 3 and 2, so every insertion path, both trimming loops and
  both evictions occur. Transport: three requests on a channel of two with one
  decode worker; two requests and two workers with hydration and preemption on a
  channel of one, and with unreadable segments. Sessions: three sessions, one of
  them with two turns, on a table of two, so eviction at the cap, refusal when all
  are in use, expiry, incompatible state and the final drain all happen. Page
  store: two pages, one host page, both policies, no writer, one and two.
- `tables_live` (76,396): deferred retirements complete; a readable packet is
  settled; an idle session past its TTL is collected or used
  (`LocksAreReleased`: the trimming loops of an insertion and every call of the
  page store end, so their mutex is released).
- `server` (312,814), three parts. Connections: two listeners, two workers, two
  connections, a queue of one, a stop at any step; an open connection is in one
  place, and connections and Stop end. Requests: every way a request can go wrong
  with failing sends; one status line, streams that end as their protocol says,
  nothing behind a failed send, the gauge and the readiness report agree with the
  handlers; a handler answers or waits for the scheduler, and returns once its
  promises are settled. Router: two loads, edits of the registry file, deletions
  and requests, in pairs; the default is loaded, an artifact is loaded once, the
  watcher unloads only its own models, a leased model stays, a request is served by
  what it asked for, and the last edit is read if its file could be opened.
- `parts` (1,470,386), six sequential parts on all small inputs: TokenSlices,
  LlamaContext, PrimaryPipeline, PolicyAdmin, RateLimiter, BackendSelection.
- `native` (287,580), six parts of the native backend: LaneOverlap with lanes that
  hang or fail, GemvDispatch with the kernels, AttentionKernels, ForwardPass,
  DecodeGraphs and DispatchSelection. The kernel parts are evaluated for every
  call of a set of shapes around each threshold of the code (13 widths, row counts
  on both sides of a tile, contexts on both sides of a chunk).

Deadlock checking is off where behaviours really end or spin: all requests
served, generations used up, scheduler stopped, a swapped-out request that no
one makes room for, a pure choice that has been made, and a trimming loop without
a victim, which in the code is an endless loop and here a stuttering state that
`LocksAreReleased` would report.

Bounds: two slots, workers, nodes or sessions competing for one resource, plus
one more party where a third is needed to take what the two leave (a request
that evicts a donor, a session beyond the cap, a packet beyond the capacity).
For seven of the components the proofs of section 6 remove the bounds.

## 4. Where the code and its own words differ

Each of these runs has one property, taken from a comment of the repository, and
TLC finds it violated by what the code does. `PROJECT.json` quotes the comment.

| Run | What happens |
|---|---|
| `lifecycle_hydrate_leak` | hydration overwrites the lease of the slot used for prefill; that slot is never freed |
| `queues_worker_death` | an exception ends WorkerLoop without failing the queued requests |
| `queues_split_shutdown` | decode workers leave before the last hand-over; WorkerLoop then never ends |
| `paged_swap_shared` | SwapOut frees pages that a donor still references |

Further differences were seen in counterexamples while the models were built.
They have no run of their own; the properties above are stated so as not to
depend on them. Where a name is given, the module states the property.

Scheduler and tables:

- ReleaseLease returns false for a lease it released, if another thread reaps
  between its two locks (`sequence_slot_manager.cpp:217`).
- After PerformGracefulDegradation, which has no caller, slots at or above
  `max_slots_` are still issued, and a lease on one of them cannot be released
  (`sequence_slot_manager.cpp:578`, the range checks at 144, 172 and 322).
- A decode worker that hydrates can evict the donor the worker thread matched
  (`scheduler.cpp:1329`), and ProcessBatch takes and frees slots without
  `queue_mutex_` (`scheduler.cpp:2371`, against the comment at 1347).
- The context-overflow rejection leaves its session in use (`scheduler.cpp:2322`).
- Requests handed over after the last decode worker died wait for ever
  (`scheduler.cpp:1728`).
- A decode batch whose members were all refused is refused again, setting its
  promises twice (`scheduler.cpp:1560`).
- ApplyFairness takes from `pending_decode_` in split mode (`scheduler.cpp:3119`,
  against the comment at 1930).
- A request that ends while swapped out leaves its host blocks in use
  (`scheduler.cpp:2997`), and one that is swapped out may never be swapped in
  while donors hold the pages (`scheduler.cpp:3550`).
- A write of an offload file that failed is not repeated, and two writers may have
  two tasks of one page and finish in either order, so a file can stay older than
  what was persisted (PageStore, `FilesAlwaysCatchUp`).
- Insertion at an existing node or a split point ignores `max_sequences_`
  (`radix_prefix_cache.cpp:261`), and pruning a victim can leave its parent as a
  childless husk (`radix_prefix_cache.cpp:364`).
- With two decode workers a ticket times out although its request is in the
  other's batch (`scheduler.cpp:1353`).
- With fairness slices, text is sent behind a matched stop string, and an answer
  that ends inside a character has another result than its stream (TokenSlices,
  `StopEndsAnswer`, `ResultIsAlwaysStream`).

Server:

- A Stop after an accept loop failed returns at once and joins nothing
  (HttpServer, `StopJoinsAfterFailure`).
- An exception under an open stream, such as a dropped promise, makes the handler
  send a second head (HttpRequests, `OneResponseHeadAlways`). A connection is kept
  although its response was sent only in part: nobody looks at what SendAll returns
  (`KeptAfterWholeResponseAlways`).
- A failed update of a key that the store did not have is not undone, and a PUT of the routing
  policy resets the fields it does not name (PolicyAdmin,
  `EveryFailedUpdateUndone`, `RoutingPutKeepsOtherFields`; docs/AdminGuide.md).
  A restart does not keep every update: the configured keys are accepted again
  beside the stored ones, an emptied list or a limit of zero is filled in from the
  configuration, and a word with a comma comes back as two
  (`RestartEnforcesEveryUpdate`).
- A request that has resolved its model but not leased it reads the entry through a
  pointer after an unload may have freed it (ModelRouter, `PointerOutlivesModel`;
  `model_selection.cpp:164`).
- A registry file that could not be opened is not tried again until it changes,
  since its time is recorded first (ModelRouter, `LastEditAlwaysRead`).
- A deletion can answer 404 for a model that is loaded (ModelRouter,
  `NotFoundMeansUnknown`; `http_server.cpp:2625`).
- With `allow_llama_cpp_fallback` off, a cuda request can still be served by
  llama.cpp (BackendSelection, `FallbackNeedsPermission`;
  docs/CONFIG_REFERENCE.md:232).

Backends:

- In the llama.cpp context, Generate uses and clears sequence 0 whoever holds it
  (LlamaContext, `HeldRowsSurvive`); a Decode that is not given a first token samples
  the logits of whoever ran last (`AnsweredWithOwnText`); a unified step meets a full
  context without shifting it, and fails for all its requests (`ContextShifts`).
- Work that is still queued on a stream can reach the next holder of its slot; a
  chunk without logits may not be there for the next call; a mixed call for which
  the lanes cannot be had need not return (LaneOverlap,
  `NextOccupantUndisturbed`, `ChunkRowsReachSlot`, `CallAlwaysReturns`;
  PrimaryPipeline, `PromptIsInSlot`).
- Split attention leaves out the end of contexts longer than eight chunks
  (AttentionKernels, `WholeContextAttended`). Heads of at most 32 dimensions leave
  half of a tile without scores, and the warp-per-head kernel drops dimensions
  beyond a multiple of 32 and treats groups other than 2, 4 and 8 as ungrouped
  (`EveryHeadAttended`). When the first tensor-core decode call is denied its shared
  memory, the error it leaves behind is reported by the kernel launched in its
  place, so that step fails (`flash_attention.cu:1918`). The accumulating Q8 tile kernels do
  not count every product once, and beyond `mmq_mma_max_batch` the slices of K do
  not fit their scratch (GemvDispatch, `DotCountedOnce`, `SlicesFit`).
- A call whose graph capture a projection aborted computes nothing (DecodeGraphs,
  `AbortedCaptureRunsDirectly`; docs/GEMV_KERNEL_ARCHITECTURE.md:270).
- The decode step's quantized cascade for a single projection gives the GEMV its row
  count and its depth in the other order (`transformer_forward.cu:3133`), so it is
  right for square matrices only; ForwardPass marks such a pass (`misshapen`), and
  its properties except it.
- The load-time probe tries five widths on one layer, so an operator that diverges
  elsewhere stays selectable (DispatchSelection, `ProbeFindsDivergence`); it leaves
  out the tensor-core attempt that decode makes first, so at its own widths it
  need not run what decode runs (`ProbeRunsWhatDecodeRuns`, against
  `transformer_forward.cu:2786`); and the fused gate/up kernel runs in place of the
  stage also where another tier is selected (`StandInFollowsSelection`, against
  `transformer_forward.cu:2990`).

## 5. Fairness

The runs `lifecycle` and `paged` use none, and no safety property depends on any.
The others assume weak fairness, except where strong fairness is named:

- scheduler slots (`tables_live`): each thread finishes the procedure it is in, the
  eviction thread wakes (its wait has a 30 s time-out), and device streams drain;
- queues: WorkerLoop and each decode worker take a step when they can. Every
  push to a queue notifies the condition variable of its consumer, and the
  loops re-test their predicate, so a wake-up is not lost. Clients and shutdown
  are not assumed to act;
- radix cache: the trimming loops run on, because the thread is inside a
  function call;
- transport: the decode workers step, and a publication that has begun goes on;
- sessions: the eviction thread wakes and collects, and what has been taken out
  of the table is released by the thread that took it;
- page store: a call that waits for room in the writer's queue goes on when there
  is room, writer threads take their next task, and stopped ones are joined;
- HTTP server: the thread in Stop, each accept loop and each worker take a step
  when they can; clients need not. A worker's wait has no time-out, so Stop's wake-up can be
  missed between the test of the flag and the wait; the liveness properties exclude exactly
  that (`missed`);
- requests: a handler goes on. The scheduler is not assumed to settle its promises;
- router: the watcher polls, loads that have begun go on, and a load that waits for
  the load mutex gets it although others keep taking it (strong fairness, since
  the mutex is free again and again);
- lanes: the caller, the lane workers and the streams step, unless the
  configuration says that a lane hangs.

## 6. Proofs

The theorems hold for every value of the constants: any number of slots,
requests, threads, sessions, connections, any configuration and any bound. They rest
only on the named assumptions of the modules (`...Assumption`), which TLC also
evaluates on every run: sizes are positive where the code requires it, and "none"
values differ from the real ones.

Each proof has the same form. The property of a run is seldom inductive, so the
proof module defines an invariant that implies it, shows that the initial states
satisfy it and that each action preserves it (one lemma per action), and combines
these facts.

**SequenceSlotsProofs.** The invariant is `TypeOK /\ HeldLeaseOwnsSlot /\
OccupiedSlotHasHolder`. The second conjunct alone is not inductive: RetireLease
accepts a lease by slot and generation, and to know that it takes the slot from
its own holder one needs that leases are determined by these two numbers and that
every occupied slot has a holder of the current generation.

- `SlotTypes`, `HeldLeasesOwnTheirSlots`, `OccupiedSlotsAreLeased` (every occupied slot
  has a live lease; not that the lease can still be released, see section 4),
  `SlotTableStaysSafe` (`SlotTableSafe` of the run `tables`);
- `FencedSlotsAreNotReacquired` (`FencedSlotNotReacquired`): an action property.

**SchedulerQueuesProofs.** The invariant says for each request in which places it
can be in each phase, that an answered request has left the queues, and that a
selection is used up before it is overwritten.

- `QueuesStaySafe` (`QueuesSafe`): an unanswered request is in one place;
- `QueuesImplementService` (`ImplementsService`): the queues and loops implement
  RequestService, step by step.

**KVTransportProofs.** A packet is sent once, its ticket's stage says where it is,
and a lone worker drains the channel before it runs its batch.

- `ChannelStaysSafe` (`ChannelSafe`).

**SessionHandlesProofs.** A running request and its entry agree about the sequence,
a cold admission creates a sequence nobody has, and what is about to be released is
used by no request.

- `SessionsStaySafe` (`SessionsSafe`).

**HttpServerProofs.** Two places never hold the same connection, what they hold is
open, and while no accept loop has failed a started server runs until Stop clears
the flag.

- `ConnectionsStaySafe` (`ConnectionsSafe`).

**ModelRouterProofs.** What the registry thread, a load and a request remember
about an ID is old by the time it is used. The invariant says that it is still
true of the ID if a model has that ID now (`ReturnedInv`, `ManagedInv`,
`ClientsInv`), because no ID is given twice, and that `load_mutex_` keeps an
admitted artifact out of the table until its entry is stored (`LoadInv`).
`Evolves` says how any action may change the table; the parts about threads that
did not act follow from it.

- `RouterStaysSafe` (`RouterSafe` of the run `server`);
- `IdsAreNeverReused`: an action property, an ID names one model for ever.

**PageStoreProofs.** A page in use holds what its holder put there and no other
page holds anything (`PageInv`); with any number of writers the last task on its way
for a page carries the last value persisted for it, wherever that task is: waiting
for room, in the queue, with a writer or done (`FilesInv`). A page is `behind` from
a write that failed, or that began while another writer had the page, to the next
one that is neither; of any other page one writer at a time has a task
(`LoneWriter`), and that one or the file has the last value (`Written`). That both policies find a
free page when there is one needs the arithmetic of the clock's hand and that every
page is somewhere in the order of use.

- `StoreStaysSafe` (`StoreSafe`).

Only model-checked:

- all liveness properties: the prover supports neither fairness nor ENABLED;
- `TrieSafe`, `SlicesSafe`, `LimiterSafe`, `GemvSafe`, `AttentionSafe`: what they
  state is the result of a recursive or folded computation over data (a trie walk, a
  text, a sum), and the prover has no induction over data;
- `LiveSequencesSafe`, `DonorSurvivesUntilCopy`, `OwnershipProtocol`: their invariant
  has not been put in inductive form;
- `PagesSafe`: the reference count equals a sum of cardinalities over tables that
  change together, again an induction over the set of owners;
- `ResponsesSafe`, `PolicySafe`, `ContextSafe`, `PipelineSafe`, `LanesSafe`,
  `ForwardSafe`, `SelectionSafe`, `DispatchSafe`, `GraphsSafe`: their
  modules compute with sequences and nested records of the code's data structures, or
  enumerate a finite set of set-ups that is already complete for the thresholds of
  the code; their invariants have not been put in inductive form.

## 7. Abstractions and bounds

- Time is an event: a ttl or a fence elapses at any moment, except that a fence
  of `time_point::max()` never does. Only the rate limiter has a clock.
- The generation counter is bounded by MaxGen; the code's is 64 bits wide and
  does not wrap in practice.
- Token contents, scores, metrics and logging are left out. A radix path and the
  text of an answer are real sequences, since prefixes and stop strings matter
  there.
- Arithmetic on activations is the multiset of the terms added; a buffer of the
  forward pass holds the name of the value computed into it. Launches the code
  does not check are assumed to succeed; fused attempts may be refused at any time.
- Undefined behaviour is not chosen from: the one unsynchronised access found on
  the modelled paths (the swap victim search reading a request already handed to
  a decode worker) is listed as a hazard and batches of two stay in unified mode.
- Time slices and embedding slices are bounded by MaxWork, packet retries by
  MaxRetries, as configured in the code; updates, crashes, loads and edits by the
  constants of that name.

## 8. Not modelled

Model file formats, tokenizers and chat templates (the handlers' look at the model
for its template, `http_server.cpp:3401`, included), text splitters, schema
conversion, image decoding, speculative decoding, metrics text, log formatting, the
start-up advisor, the command line client and the web UI: computations over data
without interleaved state. Floating-point results of the kernels. The CPU, ROCm, MPS,
MLX, Vulkan and OpenCL adapters, which are device code behind the interface that
SlotLifecycle and LlamaContext use. Network clients (HTTP client, OPA) and the
operating system's shared memory are outside; their failures appear as outcomes
where the modelled code handles them. The orderings of the batch selection policies
are a free choice in SchedulerQueues. The multi-rank branch of WorkerLoop is a stub
in the source. `PROJECT.json` gives the reason for each part.
