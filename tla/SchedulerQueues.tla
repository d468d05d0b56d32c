-------------------------- MODULE SchedulerQueues --------------------------
(***************************************************************************)
(* The request queues of scheduler/scheduler.cpp and the threads that move *)
(* requests between them: Generate and Embed, WorkerLoop with              *)
(* BuildBatchLocked, ApplyFairness and ProcessBatch, DecodeWorkerLoop,     *)
(* FailAllQueuedLocked and the destructor.                                 *)
(*                                                                         *)
(* A step is one critical section of queue_mutex_, or the part of a loop   *)
(* body that touches no shared queue.  A queue is a multiset (the copies   *)
(* of each request): BuildBatchLocked orders by a score and any request    *)
(* may have the best one.  Slots, blocks and KV packets are in             *)
(* SlotLifecycle, PagedBlocks and KVTransport; here a prefill or an        *)
(* execution is one of its outcomes.                                       *)
(***************************************************************************)
EXTENDS Integers, FiniteSets

CONSTANTS
  Requests,          \* requests clients may submit
  Decoders,          \* threads that may be decode workers
  Configs,           \* the scheduler configurations and their environments:
                     \*   clients     the requests that are submitted
                     \*   embeds      those submitted through Embed
                     \*   pool        the decode workers; {}: unified mode
                     \*   stops       the server is shut down at some point
                     \*   faulty      the loops whose body may throw
                     \*   capability  a model may lose a feature between
                     \*               prefill and decode
  Priority,          \* per request: inference.priority
  Threshold,         \* fairness high_priority_threshold
  Preemption,        \* fairness enable_preemption
  MaxBatch,          \* max_batch_size
  MaxWork,           \* time slices (embedding slices) a request may need
  MaxRetries         \* kv_enqueue_max_retries

ASSUME ConfigsAssumption ==
  Configs \subseteq [clients : SUBSET Requests, embeds : SUBSET Requests,
                     pool : SUBSET Decoders, stops : BOOLEAN,
                     faulty : SUBSET {"worker", "decoder"}, capability : BOOLEAN]
ASSUME PriorityAssumption == Priority \in [Requests -> Int] /\ Threshold \in Int
ASSUME BoundsAssumption == MaxBatch \in Nat \ {0} /\ MaxWork \in Nat /\ MaxRetries \in Nat
ASSUME PreemptionAssumption == Preemption \in BOOLEAN

VARIABLES
  config,      \* config_, fixed by the constructor
  stop,        \* stop_
  prefill,     \* pending_prefill_
  decode,      \* pending_decode_
  publishing,  \* publishing_decode_
  phase,       \* inference.phase, or None before submission
  retries,     \* disagg_enqueue_retries
  work,        \* slices left
  answers,     \* how often the promise was given a value or broken
  valid,       \* promise_valid
  wpc,         \* where WorkerLoop is
  sel,         \* selection.pending not yet looked at by ProcessBatch
  staged,      \* staged_decode_worker
  ready,       \* staged_decode_local and decode_ready
  requeue,     \* requeue
  dpc,         \* where each decode worker is
  batch        \* its batch

queues == <<prefill, decode, publishing>>
reqVars == <<phase, retries, work, answers, valid>>
workerVars == <<config, wpc, sel, staged, ready, requeue>>
decoderVars == <<config, dpc, batch>>
vars == <<stop, queues, reqVars, workerVars, decoderVars>>

Split == config.pool # {}
Embeds == config.embeds
Phases == {"None", "Pending", "Prefill", "Decode", "Finished"}
Empty == [r \in Requests |-> 0]
Members(q) == {r \in Requests : q[r] > 0}
Add(q, S) == [r \in Requests |-> IF r \in S THEN q[r] + 1 ELSE q[r]]
Remove(q, S) == [r \in Requests |-> IF r \in S THEN q[r] - 1 ELSE q[r]]
SetPhase(S, p) == phase' = [r \in Requests |-> IF r \in S THEN p ELSE phase[r]]

\* promise.set_value for every request of S.
Answer(S) == answers' = Add(answers, S)

\* A shared_ptr dropped by a dying loop takes its promise with it; the future
\* then holds a broken_promise error.
Break(S) == Answer({r \in S : answers[r] = 0})

TypeOK ==
  /\ config \in Configs
  /\ stop \in BOOLEAN
  /\ prefill \in [Requests -> Nat] /\ decode \in [Requests -> Nat]
  /\ publishing \subseteq Requests
  /\ phase \in [Requests -> Phases]
  /\ retries \in [Requests -> 0 .. MaxRetries + 1]
  /\ work \in [Requests -> 0 .. MaxWork]
  /\ answers \in [Requests -> Nat]
  /\ valid \in [Requests -> BOOLEAN]
  /\ wpc \in {"wait", "fair", "admit", "publish", "exec", "requeue", "exited"}
  /\ sel \subseteq Requests /\ staged \subseteq Requests
  /\ ready \subseteq Requests /\ requeue \subseteq Requests
  /\ dpc \in [Decoders -> {"wait", "exec", "failing", "exited"}]
  /\ batch \in [Decoders -> SUBSET Requests]

Init ==
  /\ config \in Configs
  /\ stop = FALSE
  /\ prefill = Empty /\ decode = Empty /\ publishing = {}
  /\ phase = [r \in Requests |-> "None"]
  /\ retries = Empty
  /\ work = [r \in Requests |-> MaxWork]
  /\ answers = Empty
  /\ valid = [r \in Requests |-> TRUE]
  /\ wpc = "wait"
  /\ sel = {} /\ staged = {} /\ ready = {} /\ requeue = {}
  /\ dpc = [d \in Decoders |-> IF d \in config.pool THEN "wait" ELSE "exited"]
  /\ batch = [d \in Decoders |-> {}]

---------------------------------------------------------------------------
(* Clients and shutdown. *)

\* Generate; Embed answers at once in split mode, and otherwise is Generate.
Generate(r) ==
  /\ ~stop /\ r \in config.clients /\ phase[r] = "None"
  /\ IF r \in Embeds /\ Split
       THEN /\ Answer({r}) /\ SetPhase({r}, "Finished")
            /\ UNCHANGED prefill
       ELSE /\ prefill' = Add(prefill, {r}) /\ SetPhase({r}, "Pending")
            /\ UNCHANGED answers
  /\ UNCHANGED <<stop, decode, publishing, retries, work, valid, workerVars, decoderVars>>

\* ~Scheduler, before it joins the loops.
Stop ==
  /\ config.stops /\ ~stop
  /\ stop' = TRUE
  /\ UNCHANGED <<queues, reqVars, workerVars, decoderVars>>

---------------------------------------------------------------------------
(* WorkerLoop. *)

\* Mutant of WorkerExit: the wait's predicate leaves out stop_.
WorkerExitNotWoken ==
  /\ wpc = "wait"
  /\ prefill # Empty \/ decode # Empty
  /\ stop /\ prefill = Empty /\ decode = Empty
  /\ wpc' = "exited"
  /\ UNCHANGED <<stop, queues, reqVars, sel, staged, ready, requeue, decoderVars>>

WorkerExit ==
  /\ wpc = "wait"
  /\ stop /\ prefill = Empty /\ decode = Empty
  /\ wpc' = "exited"
  /\ UNCHANGED <<stop, queues, reqVars, sel, staged, ready, requeue, decoderVars>>

\* The requests BuildBatchLocked looks at, and which of them come from the
\* decode queue: a request in both counts once, as a prefill.
FromDecode == IF Split THEN {} ELSE Members(decode) \ Members(prefill)
Candidates == Members(prefill) \cup FromDecode

\* A queue after a batch S was taken: at most one copy of each request stays.
Left(q, S) == [r \in Requests |-> IF r \in S \/ q[r] = 0 THEN 0 ELSE 1]

\* BuildBatchLocked, once the wait found a candidate.
BuildBatchLocked ==
  /\ wpc = "wait"
  /\ \E S \in SUBSET Candidates :
       /\ S # {} /\ Cardinality(S) <= MaxBatch
       /\ prefill' = Left(prefill, S)
       /\ decode' = IF Split THEN decode ELSE Left(decode, S \cup Members(prefill))
       /\ sel' = S
       /\ phase' = [r \in Requests |-> IF r \notin S THEN phase[r]
                                       ELSE IF r \in FromDecode THEN "Decode" ELSE "Prefill"]
  /\ wpc' = "fair"
  /\ UNCHANGED <<stop, publishing, retries, work, answers, valid, staged, ready, requeue,
                 decoderVars>>

\* FairnessController::Evaluate: a queued request of the highest priority and
\* a selected one of the lowest.
Queued == Members(prefill) \cup Members(decode)
Swaps ==
  IF ~Preemption THEN {}
  ELSE {p \in Queued \X sel :
          /\ \A q \in Queued : Priority[q] <= Priority[p[1]]
          /\ \A s \in sel : Priority[p[2]] <= Priority[s]
          /\ Priority[p[1]] >= Threshold
          /\ Priority[p[2]] < Priority[p[1]]}

\* Mutant of ApplyFairness: the displaced request is not queued again.
ApplyFairnessDropsDisplaced ==
  /\ wpc = "fair"
  /\ \/ Swaps = {} /\ UNCHANGED <<prefill, decode, sel>>
     \/ \E p \in Swaps :
          /\ sel' = (sel \ {p[2]}) \cup {p[1]}
          /\ IF prefill[p[1]] > 0
               THEN prefill' = Remove(prefill, {p[1]}) /\ UNCHANGED decode
               ELSE decode' = Remove(decode, {p[1]}) /\ UNCHANGED prefill
  /\ wpc' = "admit"
  /\ UNCHANGED <<stop, publishing, reqVars, staged, ready, requeue, decoderVars>>

\* The queued request q takes the place of the selected request d, which goes
\* back to the queue of its phase.  The newcomer keeps its phase.
Swap(q, d) ==
  LET back == phase[d] = "Decode"
      rest(queue) == IF queue[q] > 0 THEN Remove(queue, {q}) ELSE queue
      pre == rest(prefill)
      dec == IF prefill[q] > 0 THEN decode ELSE rest(decode)
  IN /\ sel' = (sel \ {d}) \cup {q}
     /\ prefill' = IF back THEN pre ELSE Add(pre, {d})
     /\ decode' = IF back THEN Add(dec, {d}) ELSE dec
     /\ SetPhase({d}, IF back THEN "Decode" ELSE "Prefill")

ApplyFairness ==
  /\ wpc = "fair"
  /\ \/ Swaps = {} /\ UNCHANGED <<prefill, decode, phase, sel>>
     \/ \E p \in Swaps : Swap(p[1], p[2])
  /\ wpc' = "admit"
  /\ UNCHANGED <<stop, publishing, retries, work, answers, valid, staged, ready, requeue,
                 decoderVars>>

\* ProcessBatch, first loop: one selected request leaves the selection.
Leaves(r) == wpc = "admit" /\ r \in sel /\ sel' = sel \ {r}

\* A request that is not in its prefill phase, an embedding, or one whose
\* backend decodes on this thread goes to decode_ready.
AdmitLocal(r) ==
  /\ Leaves(r)
  /\ ready' = ready \cup {r}
  /\ UNCHANGED <<stop, queues, reqVars, wpc, staged, requeue, decoderVars>>

\* Its backend decodes on the decode workers, and no transport is configured.
AdmitStaged(r) ==
  /\ Leaves(r) /\ Split /\ phase[r] = "Prefill"
  /\ staged' = staged \cup {r}
  /\ UNCHANGED <<stop, queues, reqVars, wpc, ready, requeue, decoderVars>>

\* With a transport the request is registered before Enqueue.
AdmitPublish(r) ==
  /\ Leaves(r) /\ Split /\ phase[r] = "Prefill"
  /\ publishing' = publishing \cup {r}
  /\ wpc' = "publish"
  /\ UNCHANGED <<stop, prefill, decode, reqVars, staged, ready, requeue, decoderVars>>

\* Enqueue accepted the packet.
PublishAccepted(r) ==
  /\ wpc = "publish" /\ r \in publishing
  /\ publishing' = publishing \ {r}
  /\ decode' = Add(decode, {r})
  /\ SetPhase({r}, "Decode")
  /\ retries' = [retries EXCEPT ![r] = 0]
  /\ wpc' = "admit"
  /\ UNCHANGED <<stop, prefill, work, answers, valid, sel, staged, ready, requeue, decoderVars>>

\* Mutant of PublishRejected: a retried request is not queued again.
PublishRejectedForgets(r) ==
  /\ wpc = "publish" /\ r \in publishing
  /\ publishing' = publishing \ {r}
  /\ retries' = [retries EXCEPT ![r] = @ + 1]
  /\ wpc' = "admit"
  /\ UNCHANGED <<stop, prefill, decode, phase, work, answers, valid, sel, staged, ready,
                 requeue, decoderVars>>

\* Enqueue found the channel full: retry through the prefill queue, or fail.
PublishRejected(r) ==
  /\ wpc = "publish" /\ r \in publishing
  /\ publishing' = publishing \ {r}
  /\ retries' = [retries EXCEPT ![r] = @ + 1]
  /\ IF retries[r] + 1 > MaxRetries
       THEN /\ Answer({r}) /\ UNCHANGED <<prefill, phase>>
       ELSE /\ prefill' = Add(prefill, {r}) /\ SetPhase({r}, "Pending")
            /\ UNCHANGED answers
  /\ wpc' = "admit"
  /\ UNCHANGED <<stop, decode, work, valid, sel, staged, ready, requeue, decoderVars>>

\* Context overflow: answered before any work.
AdmitOverflow(r) ==
  /\ Leaves(r) /\ phase[r] = "Prefill" /\ r \notin Embeds
  /\ Answer({r})
  /\ UNCHANGED <<stop, queues, phase, retries, work, valid, wpc, staged, ready, requeue,
                 decoderVars>>

\* Every selected request was looked at: the staged ones go to the decode
\* workers, the others are executed here.
Stage ==
  /\ wpc = "admit" /\ sel = {}
  /\ decode' = Add(decode, staged)
  /\ SetPhase(staged \cup {r \in ready : phase[r] = "Prefill" /\ r \notin Embeds}, "Decode")
  /\ staged' = {}
  /\ wpc' = IF ready = {} THEN "wait" ELSE "exec"
  /\ UNCHANGED <<stop, prefill, publishing, retries, work, answers, valid, sel, ready,
                 requeue, decoderVars>>

\* ExecuteBatch returned and request r is finished, or unsupported.
ExecFinish(r) ==
  /\ wpc = "exec" /\ r \in ready
  /\ ready' = ready \ {r}
  /\ Answer({r}) /\ SetPhase({r}, "Finished")
  /\ UNCHANGED <<stop, queues, retries, work, valid, wpc, sel, staged, requeue, decoderVars>>

\* Its time slice ended.
ExecYield(r) ==
  /\ wpc = "exec" /\ r \in ready \ Embeds /\ work[r] > 0
  /\ ready' = ready \ {r}
  /\ requeue' = requeue \cup {r}
  /\ work' = [work EXCEPT ![r] = @ - 1]
  /\ SetPhase({r}, "Decode")
  /\ UNCHANGED <<stop, queues, retries, answers, valid, wpc, sel, staged, decoderVars>>

\* An embedding with inputs left goes back to the prefill queue.
ExecEmbedSlice(r) ==
  /\ wpc = "exec" /\ r \in ready \cap Embeds /\ work[r] > 0
  /\ ready' = ready \ {r}
  /\ prefill' = Add(prefill, {r})
  /\ work' = [work EXCEPT ![r] = @ - 1]
  /\ SetPhase({r}, "Pending")
  /\ UNCHANGED <<stop, decode, publishing, retries, answers, valid, wpc, sel, staged,
                 requeue, decoderVars>>

\* The yielded requests rejoin the decode queue.
Requeue ==
  /\ wpc = "exec" /\ ready = {}
  /\ decode' = Add(decode, requeue)
  /\ requeue' = {}
  /\ wpc' = "wait"
  /\ UNCHANGED <<stop, prefill, publishing, reqVars, sel, staged, ready, decoderVars>>

\* An exception leaves ProcessBatch: the loop ends, and with it what it held;
\* a request being published stays in publishing_decode_.
WorkerThrows ==
  /\ "worker" \in config.faulty /\ wpc \in {"fair", "admit", "publish", "exec"}
  /\ wpc' = "exited"
  /\ Break((sel \cup staged \cup ready \cup requeue) \ Queued)
  /\ sel' = {} /\ staged' = {} /\ ready' = {} /\ requeue' = {}
  /\ UNCHANGED <<stop, queues, phase, retries, work, valid, decoderVars>>

WorkerSteps ==
  \/ WorkerExit \/ BuildBatchLocked \/ ApplyFairness \/ Stage \/ Requeue
  \/ \E r \in Requests :
       \/ AdmitLocal(r) \/ AdmitStaged(r) \/ AdmitPublish(r) \/ AdmitOverflow(r)
       \/ PublishAccepted(r) \/ PublishRejected(r)
       \/ ExecFinish(r) \/ ExecYield(r) \/ ExecEmbedSlice(r)

---------------------------------------------------------------------------
(* DecodeWorkerLoop. *)

\* Stopped and nothing left to do: the loop ends, and fails what is queued.
DecoderStops(d) ==
  /\ dpc[d] = "wait" /\ batch[d] = {}
  /\ stop /\ decode = Empty
  /\ dpc' = [dpc EXCEPT ![d] = "failing"]
  /\ UNCHANGED <<stop, queues, reqVars, workerVars, batch>>

\* A fresh batch from the queue.
DecoderTakes(d) ==
  /\ dpc[d] = "wait" /\ batch[d] = {}
  /\ \E S \in SUBSET Members(decode) :
       /\ S # {} /\ Cardinality(S) <= MaxBatch
       /\ S # Members(decode) => Cardinality(S) = MaxBatch
       /\ decode' = Remove(decode, S)
       /\ batch' = [batch EXCEPT ![d] = S]
  /\ dpc' = [dpc EXCEPT ![d] = "exec"]
  /\ UNCHANGED <<stop, prefill, publishing, reqVars, workerVars>>

\* AppendCompatiblePendingDecodeLocked: some queued requests join the batch.
DecoderMerges(d) ==
  /\ dpc[d] = "wait" /\ batch[d] # {}
  /\ \E S \in SUBSET (Members(decode) \ batch[d]) :
       /\ S = {} \/ Cardinality(batch[d] \cup S) <= MaxBatch
       /\ decode' = Remove(decode, S)
       /\ batch' = [batch EXCEPT ![d] = @ \cup S]
  /\ dpc' = [dpc EXCEPT ![d] = "exec"]
  /\ UNCHANGED <<stop, prefill, publishing, reqVars, workerVars>>

Unanswered(S) == \A r \in S : answers[r] = 0

\* One round over the batch.  Stepwise, the requests with tokens left stay in
\* the batch; otherwise they yield to the queue.  The others are answered.
DecoderExecutes(d) ==
  /\ dpc[d] = "exec" /\ Unanswered(batch[d])
  /\ \E keep \in SUBSET {r \in batch[d] : work[r] > 0}, stepwise \in BOOLEAN :
       /\ decode' = IF stepwise THEN decode ELSE Add(decode, keep)
       /\ batch' = [batch EXCEPT ![d] = IF stepwise THEN keep ELSE {}]
       /\ Answer(batch[d] \ keep)
       /\ SetPhase(batch[d] \ keep, "Finished")
       /\ work' = [r \in Requests |-> IF r \in keep THEN work[r] - 1 ELSE work[r]]
  /\ dpc' = [dpc EXCEPT ![d] = "wait"]
  /\ UNCHANGED <<stop, prefill, publishing, retries, valid, workerVars>>

\* ResolveBackends finds every request of the batch unsupported: all are
\* answered and the loop continues without clearing the batch.
DecoderAllUnsupported(d) ==
  /\ config.capability /\ dpc[d] = "exec" /\ Unanswered(batch[d])
  /\ Answer(batch[d])
  /\ dpc' = [dpc EXCEPT ![d] = "wait"]
  /\ UNCHANGED <<stop, queues, phase, retries, work, valid, workerVars, batch>>

\* A request of the batch was answered before: set_value throws, and the loop
\* ends.
DecoderAnswersTwice(d) ==
  /\ dpc[d] = "exec"
  /\ \E r \in batch[d] :
       /\ answers[r] > 0
       /\ Answer({r} \cup {q \in batch[d] \ Queued : answers[q] = 0})
  /\ batch' = [batch EXCEPT ![d] = {}]
  /\ dpc' = [dpc EXCEPT ![d] = "failing"]
  /\ UNCHANGED <<stop, queues, phase, retries, work, valid, workerVars>>

DecoderThrows(d) ==
  /\ "decoder" \in config.faulty /\ dpc[d] = "exec"
  /\ dpc' = [dpc EXCEPT ![d] = "failing"]
  /\ Break(batch[d] \ Queued)
  /\ batch' = [batch EXCEPT ![d] = {}]
  /\ UNCHANGED <<stop, queues, phase, retries, work, valid, workerVars>>

\* Mutant of FailAllQueuedLocked: the queues are not cleared.
FailAllQueuedKeepsQueues(d) ==
  /\ dpc[d] = "failing"
  /\ Answer({r \in Queued : valid[r]})
  /\ dpc' = [dpc EXCEPT ![d] = "exited"]
  /\ UNCHANGED <<stop, queues, valid, phase, retries, work, workerVars, batch>>

\* FailAllQueuedLocked, on every way out of the loop.
FailAllQueuedLocked(d) ==
  /\ dpc[d] = "failing"
  /\ LET S == {r \in Queued : valid[r]} IN
       /\ Answer(S)
       /\ valid' = [r \in Requests |-> valid[r] /\ r \notin S]
  /\ prefill' = Empty /\ decode' = Empty
  /\ dpc' = [dpc EXCEPT ![d] = "exited"]
  /\ UNCHANGED <<stop, publishing, phase, retries, work, workerVars, batch>>

DecoderSteps(d) ==
  \/ DecoderStops(d) \/ DecoderTakes(d) \/ DecoderMerges(d) \/ DecoderExecutes(d)
  \/ DecoderAllUnsupported(d) \/ DecoderAnswersTwice(d) \/ FailAllQueuedLocked(d)

---------------------------------------------------------------------------
Next ==
  \/ Stop \/ WorkerThrows \/ WorkerSteps
  \/ \E r \in Requests : Generate(r)
  \/ \E d \in Decoders : DecoderSteps(d) \/ DecoderThrows(d)

Spec == Init /\ [][Next]_vars

\* A loop whose wait predicate holds is woken: every push to a queue notifies
\* the consumers of that queue, and a loop body ends.
FairSpec == Spec /\ WF_vars(WorkerSteps) /\ \A d \in Decoders : WF_vars(DecoderSteps(d))

---------------------------------------------------------------------------
(* Properties. *)

\* The copies of r in the queues and in the hands of the loops.
Places(r) ==
  prefill[r] + decode[r]
  + Cardinality({S \in {"publishing", "sel", "staged", "ready", "requeue"} :
      r \in CASE S = "publishing" -> publishing [] S = "sel" -> sel
              [] S = "staged" -> staged [] S = "ready" -> ready [] S = "requeue" -> requeue})
  + Cardinality({d \in Decoders : r \in batch[d]})

(* A submitted request that has no answer yet is in exactly one place: one   *)
(* queue, or one stage of one loop.  Two copies would be executed twice and  *)
(* answered twice; none would never be answered.  BuildBatchLocked's removal *)
(* of duplicates is therefore never needed.                                  *)
UnansweredInOnePlace ==
  \A r \in Requests : phase[r] # "None" /\ answers[r] = 0 => Places(r) = 1

\* A model that loses a feature makes a decode worker set promises twice
\* (DecoderAnswersTwice); elsewhere that would be a state of its own.
ServiceStatus ==
  [r \in Requests |-> IF phase[r] = "None" THEN "idle"
                      ELSE IF answers[r] = 0 THEN "waiting"
                      ELSE IF answers[r] = 1 \/ config.capability THEN "answered"
                      ELSE "twice"]

Service == INSTANCE RequestService WITH status <- ServiceStatus

(* The queues and loops implement the request service: whatever requeueing,  *)
(* swapping, publishing and retrying happens, and whichever of WorkerLoop, a *)
(* decode worker and FailAllQueuedLocked gets to a request, its promise is   *)
(* set once and it does not become pending again.                            *)
ImplementsService == Service!Spec

(* Every future returned by Generate becomes ready.                          *)
EveryRequestAnswered == Service!EveryoneAnswered

\* No loop throws, no model changes, and decode workers are not shut down.
Healthy == config.faulty = {} /\ ~config.capability /\ (Split => ~config.stops)

(* Where no loop throws and decode workers keep running, every future        *)
(* returned by Generate becomes ready: no preemption, rejected packet, yield *)
(* or embedding slice leaves a request behind, nor does a unified shutdown.  *)
HealthyRequestsAnswered ==
  \A r \in Requests :
    (Healthy /\ phase[r] # "None" /\ answers[r] = 0) ~> (answers[r] > 0)

(* The destructor's joins return: once stop_ is set, every loop ends.        *)
ShutdownCompletes ==
  stop ~> (wpc = "exited" /\ \A d \in Decoders : dpc[d] = "exited")

(* In unified mode the destructor's join returns: once stop_ is set,         *)
(* WorkerLoop empties its queues and ends.                                   *)
UnifiedShutdownCompletes == (stop /\ ~Split) ~> (wpc = "exited")

\* Whatever the loops, the preemption and the retries do, an unanswered request
\* is in one queue or in one thread's hands, and the counters keep their bounds.
QueuesSafe == TypeOK /\ UnansweredInOnePlace
=============================================================================
