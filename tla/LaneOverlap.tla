---------------------------- MODULE LaneOverlap ----------------------------
(* The two lanes of the native CUDA executor (inferflux_cuda_executor.cpp) and  *)
(* the dispatcher that feeds them (unified_batch_lane_dispatcher.cpp): a mixed  *)
(* batch is split, its decode rows and its prefill rows are handed to two       *)
(* worker threads, the caller waits five seconds for each of them and runs the  *)
(* whole batch again on the primary stream when a lane does not answer.         *)
(*                                                                              *)
(* What the model keeps is who writes which row of which KV slot, and when the  *)
(* GPU really does it: a stream is the queue of the row writes it has accepted. *)
(* A row write reads the rows below it, so running one on a slot whose rows     *)
(* belong to another occupant is the corruption everything here is built to     *)
(* prevent.                                                                     *)
EXTENDS Integers, Sequences, FiniteSets, SequencesExt, Functions, FiniteSetsExt

CONSTANTS LaneSlots,    \* sequence ids, KV slots of the device
          MaxGen,       \* bound: requests that are given a slot
          MaxRows,      \* MaxSeqLen() of the KV cache, in rows
          MaxCalls,     \* bound: calls of ExecuteUnifiedBatch
          LaneLimit,    \* max_pending_per_lane
          Primed,       \* slots whose request has its first row when we start
          LaneConfigs   \* what the device and the lanes may do

ASSUME LaneAssumption ==
  /\ LaneSlots \subseteq Nat /\ IsFiniteSet(LaneSlots) /\ Primed \subseteq LaneSlots
  /\ {MaxGen, MaxRows, MaxCalls, LaneLimit} \subseteq Nat \ {0}
  /\ LaneConfigs \subseteq [slow : BOOLEAN, chunks : BOOLEAN, cleans : BOOLEAN,
                      replicas : {"made", "lacking", "unallocated"}]

VARIABLES laneConfig,   \* the configuration of this run
          occupant,     \* slot -> the scheduler's record of who holds it
          kv,           \* slot -> row -> generation that wrote it (0: cleared)
          stream,       \* stream -> row writes and clears accepted, not yet done
          fences,       \* slot -> stream -> operations its release still waits for
          overlap,      \* lane_overlap_ready_ / lane_overlap_init_attempted_
          overlapLock,  \* lane_overlap_mutex_: "free" or its holder
          lanes,        \* dispatcher: running_ / stopping_
          queue,        \* lane -> work items not taken
          pending,      \* handle -> entry of pending_
          permits,      \* lane -> pending_decode_count_ / pending_prefill_count_
          worker,       \* lane -> what its thread does
          call,         \* the thread inside ExecuteUnifiedBatch
          calls,        \* calls made, the next handle is taken from it
          abandoned     \* a handle was given up while its item could still run

laneVars == <<laneConfig, occupant, kv, stream, fences, overlap, overlapLock, lanes,
              queue, pending, permits, worker, call, calls, abandoned>>
deviceVars == <<kv, stream, fences>>
dispatcherVars == <<lanes, queue, pending, permits>>

Lanes == {"decode", "prefill"}
Streams == {"compute"} \cup Lanes

Row == [op : {"row"}, slot : LaneSlots, gen : 1..MaxGen, past : 0..MaxRows - 1,
        phase : Lanes, logits : BOOLEAN]
Clear(s) == [op |-> "clear", slot |-> s]

Ready == [at |-> "idle", batch |-> {}, handle |-> [l \in Lanes |-> 0], good |-> TRUE,
          failed |-> {}]
Resting == [at |-> "idle", handle |-> 0, rows |-> {}, failed |-> {}]

LaneInit ==
  /\ laneConfig \in LaneConfigs
  /\ occupant = [s \in LaneSlots |->
                   IF s \in Primed THEN [state |-> "held", gen |-> 1, past |-> 1, primed |-> TRUE]
                   ELSE [state |-> "free", gen |-> 0, past |-> 0, primed |-> FALSE]]
  /\ kv = [s \in LaneSlots |-> [i \in 1..MaxRows |-> IF s \in Primed /\ i = 1 THEN 1 ELSE 0]]
  /\ stream = [t \in Streams |-> <<>>]
  /\ fences = [s \in LaneSlots |-> [t \in Streams |-> 0]]
  /\ overlap = "none" /\ overlapLock = "free"
  /\ lanes = "stopped" /\ queue = [l \in Lanes |-> <<>>]
  /\ pending = <<>> /\ permits = [l \in Lanes |-> 0]
  /\ worker = [l \in Lanes |-> Resting]
  /\ call = Ready /\ calls = 0 /\ abandoned = FALSE

\* What one accepted operation does to the KV cache.
Applied(cache, o) ==
  IF o.op = "clear" THEN [cache EXCEPT ![o.slot] = [i \in 1..MaxRows |-> 0]]
                    ELSE [cache EXCEPT ![o.slot][o.past + 1] = o.gen]

Drained(cache, ops) == FoldLeft(Applied, cache, ops)

\* The GPU does the next operation of stream t; an event recorded behind it is
\* one operation nearer.
StreamStep(t) ==
  /\ stream[t] # <<>>
  /\ kv' = Applied(kv, Head(stream[t]))
  /\ stream' = [stream EXCEPT ![t] = Tail(@)]
  /\ fences' = [s \in LaneSlots |->
                  [fences[s] EXCEPT ![t] = IF @ > 0 THEN @ - 1 ELSE 0]]
  /\ UNCHANGED <<laneConfig, occupant, overlap, overlapLock, dispatcherVars, worker, call,
                 calls, abandoned>>

\* cudaStreamSynchronize on the streams T, the primary one last, after which what
\* they held is done.
Synchronized(T, content) ==
  /\ kv' = FoldLeft(LAMBDA c, t : IF t \in T THEN Drained(c, content[t]) ELSE c,
                    kv, <<"decode", "prefill", "compute">>)
  /\ stream' = [t \in Streams |-> IF t \in T THEN <<>> ELSE content[t]]
  /\ fences' = [s \in LaneSlots |-> [t \in Streams |-> IF t \in T THEN 0 ELSE fences[s][t]]]

\* ------------------------------------------------------------- the scheduler
\* The scheduler hands a free slot to a new request (generation bumped).
AcquireSlot(s) ==
  /\ occupant[s].state = "free"
  /\ MapThenSumSet(LAMBDA z : occupant[z].gen, LaneSlots) < MaxGen
  /\ occupant' = [occupant EXCEPT ![s] = [state |-> "held", gen |-> @.gen + 1, past |-> 0,
                                             primed |-> FALSE]]
  /\ UNCHANGED <<laneConfig, kv, stream, fences, overlap, overlapLock, dispatcherVars, worker,
                 call, calls, abandoned>>

Held == {s \in LaneSlots : occupant[s].state = "held"}

\* The rows a request can present: its prompt first (in chunks that ask for no
\* logits, when the prompt is long enough to be chunked), then one row a step.
RowsOf(s) ==
  LET o == occupant[s]
      row(p, g) == [op |-> "row", slot |-> s, gen |-> o.gen, past |-> o.past,
                    phase |-> p, logits |-> g]
  IN IF o.primed THEN {row("decode", TRUE)}
     ELSE {row("prefill", TRUE)} \cup (IF laneConfig.chunks THEN {row("prefill", FALSE)} ELSE {})

\* The scheduler's record after a batch of which the rows in `failed` came back
\* not ok: their requests fail and present nothing more.
Answered(batch, failed) ==
  [s \in LaneSlots |->
     LET mine == {r \in batch : r.slot = s} IN
     IF mine = {} THEN occupant[s]
     ELSE IF mine \subseteq failed THEN [occupant[s] EXCEPT !.state = "failed"]
     ELSE [occupant[s] EXCEPT !.past = @ + 1, !.primed = @ \/ \E r \in mine : r.logits]]

BatchesOf(S) == {B \in SUBSET UNION {RowsOf(s) : s \in S} :
                   \A s \in S : Cardinality({r \in B : r.slot = s}) = 1}

\* HasMixedWorkload: IsPrefillLikeInput holds of some rows and not of others.
HasMixedWorkload(B) == {r.phase : r \in B} = Lanes

\* A call of ExecuteUnifiedBatch. A row that would not fit the slot is failed
\* before anything runs (SeqIdInKvRange, MaxSeqLen), so only rows that fit are
\* presented here.
Call ==
  /\ call.at = "idle" /\ calls < MaxCalls
  /\ \E S \in (SUBSET {s \in Held : occupant[s].past < MaxRows}) \ {{}} :
       \E B \in BatchesOf(S) :
         call' = [Ready EXCEPT !.batch = B,
                               !.at = IF HasMixedWorkload(B) THEN "overlap" ELSE "standard"]
  /\ calls' = calls + 1
  /\ UNCHANGED <<laneConfig, occupant, deviceVars, overlap, overlapLock, dispatcherVars, worker,
                 abandoned>>

\* The standard path, under shared_pipeline_mutex_: the decode rows as one batch
\* whose sampling waits for the stream, then the clears of fresh prompts and the
\* prefills; a prefill without logits is left in flight. A row whose forward
\* failed (in `failed`) was not written and is not ok.
Standard ==
  /\ call.at = "standard"
  /\ \E failed \in SUBSET call.batch :
       LET of(p) == SetToSeq({r \in call.batch \ failed : r.phase = p})
           fresh == {r.slot : r \in {q \in call.batch : q.phase = "prefill" /\ q.past = 0}}
           clears == SetToSeq({Clear(s) : s \in fresh})
           sampled == {r \in call.batch \ failed : r.logits}
           ops == stream["compute"] \o of("decode") \o clears \o of("prefill")
           done == [stream EXCEPT !["compute"] = ops]
       IN /\ IF sampled # {} THEN Synchronized({"compute"}, done)
             ELSE stream' = done /\ UNCHANGED <<kv, fences>>
          /\ occupant' = Answered(call.batch, failed)
  /\ call' = [call EXCEPT !.at = "cleanup"]
  /\ UNCHANGED <<laneConfig, overlap, overlapLock, dispatcherVars, worker, calls, abandoned>>

\* ------------------------------------------------------- the overlap path
\* As Swept below, with the permits kept.
SweptWithPermits(old) ==
  /\ pending' = Restrict(pending, DOMAIN pending \ old)
  /\ UNCHANGED permits

\* SweepAbandoned(30 s): of the entries nobody waits for any more, those that are
\* old enough are erased and their permit given back.
Swept(old) ==
  /\ pending' = Restrict(pending, DOMAIN pending \ old)
  /\ permits' = [l \in Lanes |-> permits[l]
                   - Cardinality({h \in old : pending[h].lane = l})]

\* ExecuteUnifiedBatchWithOverlap up to the lane resources: the sweep, then the
\* standard path when the prompt is too short for an overlap to pay.
OverlapBegins ==
  /\ call.at = "overlap"
  /\ \E old \in SUBSET DOMAIN pending : Swept(old)
  /\ \E next \in {"standard", "ensure"} : call' = [call EXCEPT !.at = next]
  /\ UNCHANGED <<laneConfig, occupant, deviceVars, overlap, overlapLock, lanes, queue, worker,
                 calls, abandoned>>

\* EnsureLaneOverlapResources, all of it under lane_overlap_mutex_. A first
\* initialisation that misses a stream, the cache or the weights is not repeated
\* and leaves this and later batches to the standard path; one that cannot
\* allocate the lane replicas calls DestroyLaneOverlapResources, which waits for
\* that same mutex: "destroy" is a place the caller does not leave.
EnsureLaneOverlapResources ==
  /\ call.at = "ensure" /\ overlapLock = "free"
  /\ \/ overlap = "ready" /\ call' = [call EXCEPT !.at = "dispatch"]
        /\ UNCHANGED <<overlap, overlapLock>>
     \/ overlap = "failed" /\ call' = [call EXCEPT !.at = "standard"]
        /\ UNCHANGED <<overlap, overlapLock>>
     \/ /\ overlap = "none"
        /\ overlap' = IF laneConfig.replicas = "made" THEN "ready" ELSE "failed"
        /\ overlapLock' = IF laneConfig.replicas = "unallocated" THEN "caller" ELSE "free"
        /\ call' = [call EXCEPT !.at = CASE laneConfig.replicas = "made" -> "dispatch"
                                         [] laneConfig.replicas = "lacking" -> "standard"
                                         [] laneConfig.replicas = "unallocated" -> "destroy"]
  /\ UNCHANGED <<laneConfig, occupant, deviceVars, dispatcherVars, worker, calls, abandoned>>

\* EnsureLaneDispatcherStarted.
EnsureLaneDispatcherStarted ==
  /\ call.at = "dispatch" /\ lanes # "stopping"
  /\ lanes' = "running"
  /\ call' = [call EXCEPT !.at = "submit_decode"]
  /\ UNCHANGED <<laneConfig, occupant, deviceVars, overlap, overlapLock, queue, pending,
                 permits, worker, calls, abandoned>>

Handle(l) == 2 * calls + (IF l = "decode" THEN 0 ELSE 1)

\* Submit(inputs, lane) and what the caller does with the answer: a lane with no
\* permit left refuses, and the caller then drains the other lane and falls back.
SubmitLane(l, next, refused) ==
  /\ call.at = "submit_" \o l
  /\ IF permits[l] >= LaneLimit
     THEN call' = [call EXCEPT !.at = refused, !.good = FALSE]
          /\ UNCHANGED <<queue, pending, permits>>
     ELSE /\ pending' = pending @@ (Handle(l) :> [lane |-> l, ready |-> FALSE, good |-> FALSE,
                                              failed |-> {}])
          /\ permits' = [permits EXCEPT ![l] = @ + 1]
          /\ queue' = [queue EXCEPT ![l] = Append(@, [handle |-> Handle(l),
                                  rows |-> {r \in call.batch : r.phase = l}])]
          /\ call' = [call EXCEPT !.at = next, !.handle[l] = Handle(l)]
  /\ UNCHANGED <<laneConfig, occupant, deviceVars, overlap, overlapLock, lanes, worker, calls,
                 abandoned>>

SubmitDecode == SubmitLane("decode", "submit_prefill", "standard")
SubmitPrefill == SubmitLane("prefill", "wait_decode", "wait_decode")

\* Where the caller goes when it has stopped waiting for lane l.
AfterWait(l, good) ==
  IF l = "decode" /\ call.handle["prefill"] # 0 THEN "wait_prefill"
  ELSE IF good THEN "merge" ELSE "standard"

\* WaitForLaneHandle collects a result that is ready, or finds the entry gone.
Collect(l) ==
  LET h == call.handle[l] IN
  /\ call.at = "wait_" \o l
  /\ h \in DOMAIN pending => pending[h].ready
  /\ LET good == call.good /\ h \in DOMAIN pending /\ pending[h].good
         failed == IF h \in DOMAIN pending THEN pending[h].failed ELSE {}
     IN call' = [call EXCEPT !.good = good, !.failed = @ \cup failed, !.at = AfterWait(l, good)]
  /\ IF h \in DOMAIN pending
     THEN /\ pending' = Restrict(pending, DOMAIN pending \ {h})
          /\ permits' = [permits EXCEPT ![l] = @ - 1]
     ELSE UNCHANGED <<pending, permits>>
  /\ UNCHANGED <<laneConfig, occupant, deviceVars, overlap, overlapLock, lanes, queue, worker,
                 calls, abandoned>>

\* The five-second deadline passes with the entry still pending: the handle is
\* dropped, its entry and its work item stay where they are.
GiveUp(l) ==
  LET h == call.handle[l] IN
  /\ call.at = "wait_" \o l /\ laneConfig.slow
  /\ h \in DOMAIN pending /\ ~pending[h].ready
  /\ call' = [call EXCEPT !.good = FALSE, !.at = AfterWait(l, FALSE)]
  /\ abandoned' = TRUE
  /\ UNCHANGED <<laneConfig, occupant, deviceVars, overlap, overlapLock, dispatcherVars, worker,
                 calls>>

\* As Merge below, with a lane that answered taken for a lane whose rows are all ok.
MergeAllOk ==
  /\ call.at = "merge"
  /\ occupant' = Answered(call.batch, {})
  /\ call' = [call EXCEPT !.at = "cleanup"]
  /\ UNCHANGED <<laneConfig, deviceVars, overlap, overlapLock, dispatcherVars, worker, calls,
                 abandoned>>

\* Both lanes answered: their outputs go back to the rows they came from. (A row
\* a lane failed is reported failed; the rows that are ok advance.)
Merge ==
  /\ call.at = "merge"
  /\ occupant' = Answered(call.batch, call.failed)
  /\ call' = [call EXCEPT !.at = "cleanup"]
  /\ UNCHANGED <<laneConfig, deviceVars, overlap, overlapLock, dispatcherVars, worker, calls,
                 abandoned>>

\* ReleaseBatchScopedDequantizedCache: with a batch-scoped policy it takes the
\* lane mutex and waits for the three streams when there is something to free.
Cleanup ==
  /\ call.at = "cleanup"
  /\ laneConfig.cleans => overlapLock = "free"
  /\ \/ laneConfig.cleans /\ Synchronized(Streams, stream)
     \/ UNCHANGED deviceVars
  /\ call' = Ready
  /\ UNCHANGED <<laneConfig, occupant, overlap, overlapLock, dispatcherVars, worker, calls,
                 abandoned>>

\* ------------------------------------------------------- the lane workers
\* WorkerLoop drops the items whose entry was swept and takes the first other.
Live(items) == SelectSeq(items, LAMBDA i : i.handle \in DOMAIN pending)

TakeItem(l) ==
  /\ worker[l].at = "idle" /\ queue[l] # <<>>
  /\ LET rest == Live(queue[l]) IN
     IF rest = <<>> THEN queue' = [queue EXCEPT ![l] = <<>>] /\ UNCHANGED worker
     ELSE /\ worker' = [worker EXCEPT ![l] = [at |-> "lock", handle |-> Head(rest).handle,
                                             rows |-> Head(rest).rows, failed |-> {}]]
          /\ LET n == CHOOSE i \in 1..Len(queue[l]) : queue[l][i] = Head(rest)
             IN queue' = [queue EXCEPT ![l] = SubSeq(@, n + 1, Len(@))]
  /\ UNCHANGED <<laneConfig, occupant, deviceVars, overlap, overlapLock, lanes, pending,
                 permits, call, calls, abandoned>>

\* ExecuteLaneBatchForAsync: the lane mutex is held for the whole execution, so
\* the lanes take turns. The rows go to the lane's stream, but for those whose
\* forward failed.
RunLane(l) ==
  /\ worker[l].at = "lock" /\ overlapLock = "free"
  /\ overlapLock' = l
  /\ \E failed \in SUBSET worker[l].rows :
       /\ worker' = [worker EXCEPT ![l].at = "running", ![l].failed = failed]
       /\ stream' = [stream EXCEPT ![l] = @ \o SetToSeq(worker[l].rows \ failed)]
  /\ UNCHANGED <<laneConfig, occupant, kv, fences, overlap, dispatcherVars, call, calls,
                 abandoned>>

\* As LaneEnds below, with the mutex kept when the execution failed.
LaneEndsLocked(l) ==
  /\ worker[l].at = "running" /\ stream[l] = <<>>
  /\ worker' = [worker EXCEPT ![l] = Resting]
  /\ \E good \in BOOLEAN :
       /\ overlapLock' = IF good THEN "free" ELSE overlapLock
       /\ pending' = IF worker[l].handle \in DOMAIN pending
                     THEN [pending EXCEPT ![worker[l].handle].ready = TRUE,
                                          ![worker[l].handle].good = good,
                                       ![worker[l].handle].failed = worker[l].failed]
                     ELSE pending
  /\ UNCHANGED <<laneConfig, occupant, deviceVars, overlap, lanes, queue, permits, call,
                 calls, abandoned>>

\* The lane waits for its stream (sampling or the drain), lets go of the mutex and
\* marks the entry ready if it is still there; an exception is a failed result.
LaneEnds(l) ==
  /\ worker[l].at = "running" /\ stream[l] = <<>>
  /\ overlapLock' = "free"
  /\ worker' = [worker EXCEPT ![l] = Resting]
  /\ \E good \in BOOLEAN :
       pending' = IF worker[l].handle \in DOMAIN pending
                  THEN [pending EXCEPT ![worker[l].handle].ready = TRUE,
                                       ![worker[l].handle].good = good,
                                       ![worker[l].handle].failed = worker[l].failed]
                  ELSE pending
  /\ UNCHANGED <<laneConfig, occupant, deviceVars, overlap, lanes, queue, permits, call,
                 calls, abandoned>>

\* StopLaneDispatcher, from the destructor or before a model is loaded: no call is
\* in the executor then. The queues are dropped, the workers joined.
StopLanes ==
  /\ call.at = "idle" /\ lanes = "running"
  /\ lanes' = "stopping"
  /\ queue' = [l \in Lanes |-> <<>>]
  /\ UNCHANGED <<laneConfig, occupant, deviceVars, overlap, overlapLock, pending, permits,
                 worker, call, calls, abandoned>>

LanesStopped ==
  /\ lanes = "stopping" /\ \A l \in Lanes : worker[l].at = "idle"
  /\ lanes' = "stopped" /\ pending' = <<>> /\ permits' = [l \in Lanes |-> 0]
  /\ UNCHANGED <<laneConfig, occupant, deviceVars, overlap, overlapLock, queue, worker, call,
                 calls, abandoned>>

\* ------------------------------------------------------ releasing a sequence
InCall(s) == \E r \in call.batch : r.slot = s

\* As Recorded below, with no event on the primary stream.
RecordedOnLanes(t) == IF t = "compute" THEN 0 ELSE Len(stream[t])

\* What an event recorded on stream t now waits for.
Recorded(t) == Len(stream[t])

\* NativeBeginFreeSequence: an event on each of the three streams; when one cannot
\* be recorded the sequence is freed at once (NativeFreeSequence).
BeginFreeSequence(s) ==
  /\ occupant[s].state \in {"held", "failed"} /\ ~InCall(s)
  /\ \/ /\ fences' = [fences EXCEPT ![s] = [t \in Streams |-> Recorded(t)]]
        /\ occupant' = [occupant EXCEPT ![s].state = "releasing"]
        /\ UNCHANGED <<kv, stream>>
     \/ /\ Synchronized(Streams, [stream EXCEPT !["compute"] = Append(@, Clear(s))])
        /\ occupant' = [occupant EXCEPT ![s].state = "free"]
  /\ UNCHANGED <<laneConfig, overlap, overlapLock, dispatcherVars, worker, call, calls,
                 abandoned>>

\* NativePollFreeSequence: once the three events are done the rows are cleared and
\* the slot may be handed out again.
PollFreeSequence(s) ==
  /\ occupant[s].state = "releasing" /\ \A t \in Streams : fences[s][t] = 0
  /\ kv' = [kv EXCEPT ![s] = [i \in 1..MaxRows |-> 0]]
  /\ occupant' = [occupant EXCEPT ![s].state = "free"]
  /\ UNCHANGED <<laneConfig, stream, fences, overlap, overlapLock, dispatcherVars, worker, call,
                 calls, abandoned>>

\* ---------------------------------------------------------------- the system
CallSteps == \/ Standard \/ OverlapBegins \/ EnsureLaneOverlapResources
             \/ EnsureLaneDispatcherStarted \/ SubmitDecode \/ SubmitPrefill \/ Merge \/ Cleanup
             \/ \E l \in Lanes : Collect(l) \/ GiveUp(l)
WorkerSteps(l) == TakeItem(l) \/ RunLane(l) \/ LaneEnds(l)
ReleaseSteps(s) == BeginFreeSequence(s) \/ PollFreeSequence(s)

LaneNext == \/ \E s \in LaneSlots : AcquireSlot(s) \/ ReleaseSteps(s)
            \/ Call \/ CallSteps \/ StopLanes \/ LanesStopped
            \/ \E l \in Lanes : WorkerSteps(l)
            \/ \E t \in Streams : StreamStep(t)

\* The threads and the device go on when they can: the caller's own steps, the two
\* workers and the three streams.
LaneFairness == /\ WF_laneVars(CallSteps) /\ WF_laneVars(LanesStopped)
                /\ \A l \in Lanes : WF_laneVars(WorkerSteps(l))
                /\ \A t \in Streams : WF_laneVars(StreamStep(t))

LaneSpec == LaneInit /\ [][LaneNext]_laneVars /\ LaneFairness

\* --------------------------------------------------------------- properties
LaneTypeOK ==
  /\ laneConfig \in LaneConfigs /\ abandoned \in BOOLEAN /\ calls \in 0..MaxCalls
  /\ occupant \in [LaneSlots -> [state : {"free", "held", "failed", "releasing"},
                                 gen : 0..MaxGen, past : 0..MaxRows, primed : BOOLEAN]]
  /\ kv \in [LaneSlots -> [1..MaxRows -> 0..MaxGen]]
  /\ \A t \in Streams : \A o \in Range(stream[t]) : o \in Row \/ \E s \in LaneSlots : o = Clear(s)
  /\ overlapLock \in {"free", "caller"} \cup Lanes
  /\ permits \in [Lanes -> 0..LaneLimit]

\* The permits of a lane are the entries it has in pending_, never more than the
\* limit: submitting, collecting, giving up, sweeping and stopping, in any order,
\* leak none (a leaked permit disables the overlap for good) and free none twice.
PermitsMatchPending ==
  \A l \in Lanes : /\ permits[l] = Cardinality({h \in DOMAIN pending : pending[h].lane = l})
                   /\ permits[l] <= LaneLimit

\* Row o is on its way to its slot.
OnItsWay(s, i) == \E t \in Streams : \E o \in Range(stream[t]) :
                    o.op = "row" /\ o.slot = s /\ o.past = i - 1 /\ o.gen = occupant[s].gen

\* Every row a stream still has to write belongs to the request that holds the
\* slot: the fence of a release outlasts all the work that could touch the slot
\* after it is handed out again.
InFlightIsOccupants ==
  \A t \in Streams : \A o \in Range(stream[t]) :
    o.op = "row" => occupant[o.slot].gen = o.gen /\ occupant[o.slot].state # "free"

\* Every row a request counts on is in its slot or on its way there.
RowsReachSlot ==
  \A s \in Held : \A i \in 1..occupant[s].past :
    kv[s][i] = occupant[s].gen \/ OnItsWay(s, i)

\* As long as no lane missed its five-second deadline, no write in flight outlives
\* the request it was made for (BeginFreeSequence records an event on each stream,
\* PollFreeSequence frees the slot behind them).
FenceCoversWork == ~abandoned => InFlightIsOccupants

\* As long as no lane missed its deadline and no prompt is prefilled in chunks, the
\* rows reported ok, by the standard path or by either lane, are in the slot.
OkRowsReachSlot == ~abandoned /\ ~laneConfig.chunks => RowsReachSlot

\* A call of ExecuteUnifiedBatch returns: whatever the lanes answer, refuse or
\* fail to answer, the caller gets past its waits, the fallback and the cleanup,
\* which needs the mutex the lanes hold while they run.
\* (Unless the lanes' buffers cannot be allocated: see CallAlwaysReturns.)
MixedBatchReturns == laneConfig.replicas # "unallocated" /\ call.at # "idle" ~> call.at = "idle"

\* Stopping the dispatcher ends, with items queued, running or abandoned.
LanesStop == lanes = "stopping" ~> lanes = "stopped"

\* What EnsureLaneOverlapResources says it does when the lanes cannot be had:
\* "mixed workloads will use single-lane execution".
CallAlwaysReturns == call.at # "idle" ~> call.at = "idle"

\* NativeFreeSequence's comment promises that a slot is cleared only after the
\* in-flight work of the previous occupant "so the next request never observes
\* stale cache state from a prior occupant".
NextOccupantUndisturbed ==
  \A t \in Streams : \A o \in Range(stream[t]) :
    o.op = "row" /\ occupant[o.slot].state = "held" => occupant[o.slot].gen = o.gen

\* The comment on prefills without logits says that they need no drain because
\* they are ordered on the primary stream: the rows of such a chunk are then
\* there for whatever call comes next.
ChunkRowsReachSlot == RowsReachSlot

\* The permits in use are the items pending, a fence recorded for a sequence
\* covers the work still queued for it, and a row reported ok is in its slot.
LanesSafe == LaneTypeOK /\ PermitsMatchPending /\ FenceCoversWork /\ OkRowsReachSlot

\* Neither a caller of ExecuteUnifiedBatch nor the teardown of the lanes waits for
\* ever, whatever the lanes do.
LanesReturn == MixedBatchReturns /\ LanesStop
====
