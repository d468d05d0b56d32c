----------------------- MODULE SchedulerQueuesProofs -----------------------
(***************************************************************************)
(* Proofs about SchedulerQueues, for every set of requests and decode      *)
(* workers, every configuration and every bound.                           *)
(*                                                                         *)
(* UnansweredInOnePlace is not inductive: a request that was answered must *)
(* be known to have left the queues, or a loop that still had it would     *)
(* answer it again; FailAllQueuedLocked skips the requests whose promise   *)
(* is not valid, which must have been answered; and BuildBatchLocked       *)
(* overwrites the selection, which must have been used up.                 *)
(***************************************************************************)
EXTENDS SchedulerQueues, TLAPS

\* r is in one of the sets of WorkerLoop, or being published.
InStage(r) == r \in publishing \cup sel \cup staged \cup ready \cup requeue

\* At most one of the places outside the decode workers has r, once.
OneCopy(r) ==
  /\ prefill[r] + decode[r] <= 1
  /\ InStage(r) => prefill[r] + decode[r] = 0
  /\ r \in publishing => r \notin sel \cup staged \cup ready \cup requeue
  /\ r \in sel => r \notin staged \cup ready \cup requeue
  /\ r \in staged => r \notin ready \cup requeue
  /\ r \in ready => r \notin requeue

Somewhere(r) == prefill[r] + decode[r] = 1 \/ InStage(r)

InBatch(r) == \E d \in Decoders : r \in batch[d]

\* What is known of one request.
RequestInv(r) ==
  /\ OneCopy(r)
  /\ InBatch(r) => ~Somewhere(r)
  /\ phase[r] = "None" => ~Somewhere(r) /\ ~InBatch(r) /\ answers[r] = 0
  /\ phase[r] # "None" /\ answers[r] = 0 => Somewhere(r) \/ InBatch(r)
  /\ answers[r] > 0 => ~Somewhere(r)
  /\ ~config.capability => answers[r] <= 1 /\ (answers[r] > 0 => ~InBatch(r))
  /\ answers[r] = 0 => valid[r] /\ retries[r] <= MaxRetries

IInv ==
  /\ TypeOK
  /\ wpc \in {"wait", "exec"} => sel = {}
  /\ \A d, e \in Decoders : d # e => batch[d] \cap batch[e] = {}
  /\ \A r \in Requests : RequestInv(r)

---------------------------------------------------------------------------
(* The bounds are numbers. *)
LEMMA Bounds == MaxBatch \in Nat /\ MaxWork \in Nat /\ MaxRetries \in Nat
BY BoundsAssumption

(* The constructor establishes the invariant. *)
LEMMA InitIInv == Init => IInv
<1> SUFFICES ASSUME Init PROVE IInv OBVIOUS
<1> USE DEF Init, Empty
<1>1. prefill \in [Requests -> Nat] /\ decode \in [Requests -> Nat] /\ answers \in [Requests -> Nat]
  OBVIOUS
<1>2. phase \in [Requests -> Phases] /\ valid \in [Requests -> BOOLEAN]
  BY DEF Phases
<1>3. retries \in [Requests -> 0 .. MaxRetries + 1] /\ work \in [Requests -> 0 .. MaxWork]
  BY Bounds
<1>4. TypeOK
  BY <1>1, <1>2, <1>3, Zenon DEF TypeOK
<1>5. \A r \in Requests : RequestInv(r)
  BY Bounds DEF RequestInv, OneCopy, Somewhere, InBatch, InStage
<1> QED BY <1>4, <1>5 DEF IInv

(* What the types say of one request. *)
LEMMA TypesAt ==
  ASSUME TypeOK, NEW q \in Requests
  PROVE  /\ prefill[q] \in Nat /\ decode[q] \in Nat /\ answers[q] \in Nat
         /\ retries[q] \in Nat /\ retries[q] <= MaxRetries + 1
         /\ phase[q] \in Phases /\ valid[q] \in BOOLEAN
BY Bounds DEF TypeOK

(* WorkerExit keeps the invariant. *)
LEMMA WorkerExitKeeps ==
  ASSUME IInv, WorkerExit
  PROVE IInv'
<1> USE DEF queues, reqVars, workerVars, decoderVars
<1>t. TypeOK BY DEF IInv
<1>r. \A q \in Requests : RequestInv(q) BY DEF IInv
<1>s. wpc \in {"wait", "exec"} => sel = {} BY DEF IInv
<1>b. \A d1, d2 \in Decoders : d1 # d2 => batch[d1] \cap batch[d2] = {} BY DEF IInv
<1>1. TypeOK' BY <1>t, Bounds DEF WorkerExit, TypeOK, Phases
<1>2. batch' = batch BY Zenon DEF WorkerExit
<1>3. ASSUME NEW q \in Requests PROVE RequestInv(q)'
  <2>1. RequestInv(q) BY <1>r
  <2>2. InBatch(q)' = InBatch(q) BY <1>2 DEF InBatch
  <2> QED
    BY <1>t, Bounds, <2>1, <2>2
       DEF WorkerExit, RequestInv, OneCopy, Somewhere, InStage, TypeOK, Phases
<1> QED BY <1>b, <1>s, <1>1, <1>2, <1>3 DEF IInv, WorkerExit

(* BuildBatchLocked keeps the invariant. *)
LEMMA BuildBatchLockedKeeps ==
  ASSUME IInv, BuildBatchLocked
  PROVE IInv'
<1> USE DEF queues, reqVars, workerVars, decoderVars
<1>t. TypeOK BY DEF IInv
<1>r. \A q \in Requests : RequestInv(q) BY DEF IInv
<1>s. wpc \in {"wait", "exec"} => sel = {} BY DEF IInv
<1>b. \A d1, d2 \in Decoders : d1 # d2 => batch[d1] \cap batch[d2] = {} BY DEF IInv
<1>1. TypeOK'
  BY <1>t, Bounds
     DEF BuildBatchLocked, Candidates, FromDecode, Left, Members, Split, TypeOK, Phases
<1>2. batch' = batch BY Zenon DEF BuildBatchLocked
<1>3. ASSUME NEW q \in Requests PROVE RequestInv(q)'
  <2>1. RequestInv(q) BY <1>r
  <2>2. InBatch(q)' = InBatch(q) BY <1>2 DEF InBatch
  <2>3. PICK S \in SUBSET Candidates :
          /\ prefill' = Left(prefill, S)
          /\ decode' = IF Split THEN decode ELSE Left(decode, S \cup Members(prefill))
          /\ sel' = S
          /\ phase' = [r \in Requests |-> IF r \notin S THEN phase[r]
                                       ELSE IF r \in FromDecode THEN "Decode" ELSE "Prefill"]
    BY Zenon DEF BuildBatchLocked
  <2>4. /\ prefill'[q] = IF q \in S \/ prefill[q] = 0 THEN 0 ELSE 1
        /\ decode'[q] = IF Split THEN decode[q]
                        ELSE IF q \in S \/ prefill[q] > 0 \/ decode[q] = 0 THEN 0 ELSE 1
        /\ q \in S => prefill[q] > 0 \/ (~Split /\ decode[q] > 0)
        /\ phase'[q] # "None" <=> phase[q] # "None" \/ q \in S
        /\ q \in sel' <=> q \in S
    BY <2>3 DEF Left, Members, Candidates, FromDecode
  <2>5. wpc = "wait" /\ UNCHANGED <<publishing, retries, answers, valid, staged, ready,
         requeue, config>>
    BY DEF BuildBatchLocked
  <2>6. q \notin sel BY <1>s, <2>5
  <2> QED
    BY <1>t, TypesAt, <2>1, <2>2, <2>4, <2>5, <2>6 DEF RequestInv, OneCopy, Somewhere, InStage
<1> QED BY <1>b, <1>s, <1>1, <1>2, <1>3 DEF IInv, BuildBatchLocked

(* ApplyFairness keeps the invariant. *)
LEMMA ApplyFairnessKeeps ==
  ASSUME IInv, ApplyFairness
  PROVE IInv'
<1> USE DEF queues, reqVars, workerVars, decoderVars
<1>t. TypeOK BY DEF IInv
<1>r. \A q \in Requests : RequestInv(q) BY DEF IInv
<1>s. wpc \in {"wait", "exec"} => sel = {} BY DEF IInv
<1>b. \A d1, d2 \in Decoders : d1 # d2 => batch[d1] \cap batch[d2] = {} BY DEF IInv
<1>1. TypeOK'
  BY <1>t, Bounds
     DEF ApplyFairness, Swap, Swaps, Queued, Members, Remove, Add, SetPhase, TypeOK, Phases
<1>2. batch' = batch BY Zenon DEF ApplyFairness
<1>3. ASSUME NEW q \in Requests PROVE RequestInv(q)'
  <2>1. RequestInv(q) BY <1>r
  <2>2. InBatch(q)' = InBatch(q) BY <1>2 DEF InBatch
  <2>3. CASE UNCHANGED <<prefill, decode, phase, sel>>
    BY <1>t, Bounds, <2>1, <2>2, <2>3
       DEF ApplyFairness, RequestInv, OneCopy, Somewhere, InStage, TypeOK, Phases
  <2>4. CASE \E p \in Swaps : Swap(p[1], p[2])
    <3>1. PICK p \in Swaps : Swap(p[1], p[2]) BY <2>4
    <3>2. p[1] \in Queued /\ p[2] \in sel /\ p[1] # p[2]
      BY <1>t, Bounds, <3>1, PriorityAssumption DEF Swaps, Queued, Members, TypeOK, Phases
    <3>3. UNCHANGED <<publishing, retries, answers, valid, staged, ready, requeue, config>>
      BY <1>t, Bounds DEF ApplyFairness, TypeOK, Phases
    <3>4. CASE q \notin {p[1], p[2]}
      BY <1>t, Bounds, <2>1, <2>2, <3>1, <3>3, <3>4
         DEF Swap, Remove, Add, SetPhase, RequestInv, OneCopy, Somewhere, InStage, TypeOK,
             Phases
    <3>5. CASE q = p[1]
      <4>1. (prefill[q] = 1 /\ decode[q] = 0) \/ (prefill[q] = 0 /\ decode[q] = 1)
        BY <1>t, Bounds, <2>1, <3>2, <3>5
           DEF Queued, Members, RequestInv, OneCopy, TypeOK, Phases
      <4>2. prefill'[q] = 0 /\ decode'[q] = 0
        <5>1. Swap(q, p[2]) BY <1>t, Bounds, <3>1, <3>5 DEF TypeOK, Phases
        <5>2. prefill[q] = 1 => prefill'[q] = 0 /\ decode'[q] = decode[q]
          BY <1>t, Bounds, <3>2, <3>5, <5>1 DEF Swap, Remove, Add, TypeOK, Phases
        <5>3. prefill[q] = 0 /\ decode[q] = 1 => prefill'[q] = 0 /\ decode'[q] = 0
          BY <1>t, Bounds, <3>2, <3>5, <5>1 DEF Swap, Remove, Add, TypeOK, Phases
        <5> QED BY <1>t, Bounds, <4>1, <5>2, <5>3 DEF TypeOK, Phases
      <4>3. q \in sel' /\ phase'[q] = phase[q]
        BY <1>t, Bounds, <3>1, <3>2, <3>5 DEF Swap, SetPhase, TypeOK, Phases
      <4> QED
        BY <1>t, Bounds, <2>1, <2>2, <3>3, <4>1, <4>2, <4>3
           DEF RequestInv, OneCopy, Somewhere, InStage, TypeOK, Phases
    <3>6. CASE q = p[2]
      <4>1. prefill[q] = 0 /\ decode[q] = 0 /\ InStage(q)
        BY <1>t, Bounds, <2>1, <3>2, <3>6 DEF RequestInv, OneCopy, InStage, TypeOK, Phases
      <4>2. prefill'[q] + decode'[q] = 1 /\ phase'[q] # "None" /\ q \notin sel'
        BY <1>t, Bounds, <3>1, <3>2, <3>6, <4>1 DEF Swap, Remove, Add, SetPhase, TypeOK, Phases
      <4> QED
        BY <1>t, Bounds, <1>1, <2>1, <2>2, <3>2, <3>3, <3>6, <4>1, <4>2
           DEF RequestInv, OneCopy, Somewhere, InStage, TypeOK, Phases
    <3> QED BY <1>t, Bounds, <3>4, <3>5, <3>6 DEF TypeOK, Phases
  <2> QED BY <1>t, Bounds, <2>3, <2>4 DEF ApplyFairness, TypeOK, Phases
<1> QED BY <1>b, <1>s, <1>1, <1>2, <1>3 DEF IInv, ApplyFairness

(* Stage keeps the invariant. *)
LEMMA StageKeeps ==
  ASSUME IInv, Stage
  PROVE IInv'
<1> USE DEF queues, reqVars, workerVars, decoderVars
<1>t. TypeOK BY DEF IInv
<1>r. \A q \in Requests : RequestInv(q) BY DEF IInv
<1>s. wpc \in {"wait", "exec"} => sel = {} BY DEF IInv
<1>b. \A d1, d2 \in Decoders : d1 # d2 => batch[d1] \cap batch[d2] = {} BY DEF IInv
<1>1. TypeOK' BY <1>t, Bounds DEF Stage, Add, SetPhase, TypeOK, Phases
<1>2. batch' = batch BY Zenon DEF Stage
<1>3. ASSUME NEW q \in Requests PROVE RequestInv(q)'
  <2>1. RequestInv(q) BY <1>r
  <2>2. InBatch(q)' = InBatch(q) BY <1>2 DEF InBatch
  <2> QED
    BY <1>t, Bounds, <2>1, <2>2
       DEF Stage, Add, SetPhase, RequestInv, OneCopy, Somewhere, InStage, TypeOK, Phases
<1> QED BY <1>b, <1>s, <1>1, <1>2, <1>3 DEF IInv, Stage

(* Requeue keeps the invariant. *)
LEMMA RequeueKeeps ==
  ASSUME IInv, Requeue
  PROVE IInv'
<1> USE DEF queues, reqVars, workerVars, decoderVars
<1>t. TypeOK BY DEF IInv
<1>r. \A q \in Requests : RequestInv(q) BY DEF IInv
<1>s. wpc \in {"wait", "exec"} => sel = {} BY DEF IInv
<1>b. \A d1, d2 \in Decoders : d1 # d2 => batch[d1] \cap batch[d2] = {} BY DEF IInv
<1>1. TypeOK' BY <1>t, Bounds DEF Requeue, Add, TypeOK, Phases
<1>2. batch' = batch BY Zenon DEF Requeue
<1>3. ASSUME NEW q \in Requests PROVE RequestInv(q)'
  <2>1. RequestInv(q) BY <1>r
  <2>2. InBatch(q)' = InBatch(q) BY <1>2 DEF InBatch
  <2> QED
    BY <1>t, Bounds, <2>1, <2>2
       DEF Requeue, Add, RequestInv, OneCopy, Somewhere, InStage, TypeOK, Phases
<1> QED BY <1>b, <1>s, <1>1, <1>2, <1>3 DEF IInv, Requeue

(* AdmitLocal keeps the invariant. *)
LEMMA AdmitLocalKeeps ==
  ASSUME IInv, NEW r \in Requests, AdmitLocal(r)
  PROVE IInv'
<1> USE DEF queues, reqVars, workerVars, decoderVars
<1>t. TypeOK BY DEF IInv
<1>r. \A q \in Requests : RequestInv(q) BY DEF IInv
<1>s. wpc \in {"wait", "exec"} => sel = {} BY DEF IInv
<1>b. \A d1, d2 \in Decoders : d1 # d2 => batch[d1] \cap batch[d2] = {} BY DEF IInv
<1>1. TypeOK' BY <1>t, Bounds DEF AdmitLocal, Leaves, TypeOK, Phases
<1>2. batch' = batch BY Zenon DEF AdmitLocal
<1>3. ASSUME NEW q \in Requests PROVE RequestInv(q)'
  <2>1. RequestInv(q) BY <1>r
  <2>2. InBatch(q)' = InBatch(q) BY <1>2 DEF InBatch
  <2> QED
    BY <1>t, Bounds, <2>1, <2>2
       DEF AdmitLocal, Leaves, RequestInv, OneCopy, Somewhere, InStage, TypeOK, Phases
<1> QED BY <1>b, <1>s, <1>1, <1>2, <1>3 DEF IInv, AdmitLocal, Leaves

(* AdmitStaged keeps the invariant. *)
LEMMA AdmitStagedKeeps ==
  ASSUME IInv, NEW r \in Requests, AdmitStaged(r)
  PROVE IInv'
<1> USE DEF queues, reqVars, workerVars, decoderVars
<1>t. TypeOK BY DEF IInv
<1>r. \A q \in Requests : RequestInv(q) BY DEF IInv
<1>s. wpc \in {"wait", "exec"} => sel = {} BY DEF IInv
<1>b. \A d1, d2 \in Decoders : d1 # d2 => batch[d1] \cap batch[d2] = {} BY DEF IInv
<1>1. TypeOK' BY <1>t, Bounds DEF AdmitStaged, Leaves, TypeOK, Phases
<1>2. batch' = batch BY Zenon DEF AdmitStaged
<1>3. ASSUME NEW q \in Requests PROVE RequestInv(q)'
  <2>1. RequestInv(q) BY <1>r
  <2>2. InBatch(q)' = InBatch(q) BY <1>2 DEF InBatch
  <2> QED
    BY <1>t, Bounds, <2>1, <2>2
       DEF AdmitStaged, Leaves, RequestInv, OneCopy, Somewhere, InStage, TypeOK, Phases
<1> QED BY <1>b, <1>s, <1>1, <1>2, <1>3 DEF IInv, AdmitStaged, Leaves

(* AdmitPublish keeps the invariant. *)
LEMMA AdmitPublishKeeps ==
  ASSUME IInv, NEW r \in Requests, AdmitPublish(r)
  PROVE IInv'
<1> USE DEF queues, reqVars, workerVars, decoderVars
<1>t. TypeOK BY DEF IInv
<1>r. \A q \in Requests : RequestInv(q) BY DEF IInv
<1>s. wpc \in {"wait", "exec"} => sel = {} BY DEF IInv
<1>b. \A d1, d2 \in Decoders : d1 # d2 => batch[d1] \cap batch[d2] = {} BY DEF IInv
<1>1. TypeOK' BY <1>t, Bounds DEF AdmitPublish, Leaves, TypeOK, Phases
<1>2. batch' = batch BY Zenon DEF AdmitPublish
<1>3. ASSUME NEW q \in Requests PROVE RequestInv(q)'
  <2>1. RequestInv(q) BY <1>r
  <2>2. InBatch(q)' = InBatch(q) BY <1>2 DEF InBatch
  <2> QED
    BY <1>t, Bounds, <2>1, <2>2
       DEF AdmitPublish, Leaves, RequestInv, OneCopy, Somewhere, InStage, TypeOK, Phases
<1> QED BY <1>b, <1>s, <1>1, <1>2, <1>3 DEF IInv, AdmitPublish, Leaves

(* AdmitOverflow keeps the invariant. *)
LEMMA AdmitOverflowKeeps ==
  ASSUME IInv, NEW r \in Requests, AdmitOverflow(r)
  PROVE IInv'
<1> USE DEF queues, reqVars, workerVars, decoderVars
<1>t. TypeOK BY DEF IInv
<1>r. \A q \in Requests : RequestInv(q) BY DEF IInv
<1>s. wpc \in {"wait", "exec"} => sel = {} BY DEF IInv
<1>b. \A d1, d2 \in Decoders : d1 # d2 => batch[d1] \cap batch[d2] = {} BY DEF IInv
<1>1. TypeOK' BY <1>t, Bounds DEF AdmitOverflow, Leaves, Answer, Add, TypeOK, Phases
<1>2. batch' = batch BY Zenon DEF AdmitOverflow
<1>3. ASSUME NEW q \in Requests PROVE RequestInv(q)'
  <2>1. RequestInv(q) BY <1>r
  <2>2. InBatch(q)' = InBatch(q) BY <1>2 DEF InBatch
  <2>3. /\ answers'[q] = IF q = r THEN answers[q] + 1 ELSE answers[q]
        /\ r \in sel /\ (q \in sel' <=> q \in sel /\ q # r)
        /\ UNCHANGED <<prefill, decode, publishing, phase, retries, valid, staged, ready,
               requeue, config>>
    BY DEF AdmitOverflow, Leaves, Answer, Add
  <2> QED
    BY <1>t, TypesAt, <2>1, <2>2, <2>3 DEF RequestInv, OneCopy, Somewhere, InStage
<1> QED BY <1>b, <1>s, <1>1, <1>2, <1>3 DEF IInv, AdmitOverflow, Leaves

(* PublishAccepted keeps the invariant. *)
LEMMA PublishAcceptedKeeps ==
  ASSUME IInv, NEW r \in Requests, PublishAccepted(r)
  PROVE IInv'
<1> USE DEF queues, reqVars, workerVars, decoderVars
<1>t. TypeOK BY DEF IInv
<1>r. \A q \in Requests : RequestInv(q) BY DEF IInv
<1>s. wpc \in {"wait", "exec"} => sel = {} BY DEF IInv
<1>b. \A d1, d2 \in Decoders : d1 # d2 => batch[d1] \cap batch[d2] = {} BY DEF IInv
<1>1. TypeOK' BY <1>t, Bounds DEF PublishAccepted, Add, SetPhase, TypeOK, Phases
<1>2. batch' = batch BY Zenon DEF PublishAccepted
<1>3. ASSUME NEW q \in Requests PROVE RequestInv(q)'
  <2>1. RequestInv(q) BY <1>r
  <2>2. InBatch(q)' = InBatch(q) BY <1>2 DEF InBatch
  <2>3. /\ decode'[q] = IF q = r THEN decode[q] + 1 ELSE decode[q]
        /\ phase'[q] = IF q = r THEN "Decode" ELSE phase[q]
        /\ r \in publishing /\ (q \in publishing' <=> q \in publishing /\ q # r)
        /\ UNCHANGED <<prefill, answers, valid, sel, staged, ready, requeue, config>>
    BY DEF PublishAccepted, Add, SetPhase
  <2>4. retries'[q] = IF q = r THEN 0 ELSE retries[q]
    BY <1>t DEF PublishAccepted, TypeOK
  <2> QED
    BY <1>t, Bounds, TypesAt, <2>1, <2>2, <2>3, <2>4 DEF RequestInv, OneCopy, Somewhere, InStage
<1> QED BY <1>b, <1>s, <1>1, <1>2, <1>3 DEF IInv, PublishAccepted

(* PublishRejected keeps the invariant. *)
LEMMA PublishRejectedKeeps ==
  ASSUME IInv, NEW r \in Requests, PublishRejected(r)
  PROVE IInv'
<1> USE DEF queues, reqVars, workerVars, decoderVars
<1>t. TypeOK BY DEF IInv
<1>r. \A q \in Requests : RequestInv(q) BY DEF IInv
<1>s. wpc \in {"wait", "exec"} => sel = {} BY DEF IInv
<1>b. \A d1, d2 \in Decoders : d1 # d2 => batch[d1] \cap batch[d2] = {} BY DEF IInv
<1>0. retries[r] <= MaxRetries
  <2>1. r \in publishing BY DEF PublishRejected
  <2> QED BY <1>t, <1>r, <2>1, TypesAt DEF RequestInv, Somewhere, InStage
<1>1. TypeOK' BY <1>t, Bounds, <1>0 DEF PublishRejected, Answer, Add, SetPhase, TypeOK, Phases
<1>2. batch' = batch BY Zenon DEF PublishRejected
<1>3. ASSUME NEW q \in Requests PROVE RequestInv(q)'
  <2>1. RequestInv(q) BY <1>r
  <2>2. InBatch(q)' = InBatch(q) BY <1>2 DEF InBatch
  <2> QED
    BY <1>t, Bounds, <2>1, <2>2
       DEF PublishRejected, Answer, Add, SetPhase, RequestInv, OneCopy, Somewhere, InStage,
           TypeOK, Phases
<1>4. wpc' = "admit" BY DEF PublishRejected
<1> QED BY <1>b, <1>1, <1>2, <1>3, <1>4 DEF IInv

(* ExecFinish keeps the invariant. *)
LEMMA ExecFinishKeeps ==
  ASSUME IInv, NEW r \in Requests, ExecFinish(r)
  PROVE IInv'
<1> USE DEF queues, reqVars, workerVars, decoderVars
<1>t. TypeOK BY DEF IInv
<1>r. \A q \in Requests : RequestInv(q) BY DEF IInv
<1>s. wpc \in {"wait", "exec"} => sel = {} BY DEF IInv
<1>b. \A d1, d2 \in Decoders : d1 # d2 => batch[d1] \cap batch[d2] = {} BY DEF IInv
<1>1. TypeOK' BY <1>t, Bounds DEF ExecFinish, Answer, Add, SetPhase, TypeOK, Phases
<1>2. batch' = batch BY Zenon DEF ExecFinish
<1>3. ASSUME NEW q \in Requests PROVE RequestInv(q)'
  <2>1. RequestInv(q) BY <1>r
  <2>2. InBatch(q)' = InBatch(q) BY <1>2 DEF InBatch
  <2> QED
    BY <1>t, Bounds, <2>1, <2>2
       DEF ExecFinish, Answer, Add, SetPhase, RequestInv, OneCopy, Somewhere, InStage, TypeOK,
           Phases
<1>4. UNCHANGED <<wpc, sel>> BY DEF ExecFinish
<1> QED BY <1>b, <1>s, <1>1, <1>2, <1>3, <1>4 DEF IInv

(* ExecYield keeps the invariant. *)
LEMMA ExecYieldKeeps ==
  ASSUME IInv, NEW r \in Requests, ExecYield(r)
  PROVE IInv'
<1> USE DEF queues, reqVars, workerVars, decoderVars
<1>t. TypeOK BY DEF IInv
<1>r. \A q \in Requests : RequestInv(q) BY DEF IInv
<1>s. wpc \in {"wait", "exec"} => sel = {} BY DEF IInv
<1>b. \A d1, d2 \in Decoders : d1 # d2 => batch[d1] \cap batch[d2] = {} BY DEF IInv
<1>1. TypeOK' BY <1>t, Bounds DEF ExecYield, SetPhase, TypeOK, Phases
<1>2. batch' = batch BY Zenon DEF ExecYield
<1>3. ASSUME NEW q \in Requests PROVE RequestInv(q)'
  <2>1. RequestInv(q) BY <1>r
  <2>2. InBatch(q)' = InBatch(q) BY <1>2 DEF InBatch
  <2> QED
    BY <1>t, Bounds, <2>1, <2>2
       DEF ExecYield, SetPhase, RequestInv, OneCopy, Somewhere, InStage, TypeOK, Phases
<1> QED BY <1>b, <1>s, <1>1, <1>2, <1>3 DEF IInv, ExecYield

(* ExecEmbedSlice keeps the invariant. *)
LEMMA ExecEmbedSliceKeeps ==
  ASSUME IInv, NEW r \in Requests, ExecEmbedSlice(r)
  PROVE IInv'
<1> USE DEF queues, reqVars, workerVars, decoderVars
<1>t. TypeOK BY DEF IInv
<1>r. \A q \in Requests : RequestInv(q) BY DEF IInv
<1>s. wpc \in {"wait", "exec"} => sel = {} BY DEF IInv
<1>b. \A d1, d2 \in Decoders : d1 # d2 => batch[d1] \cap batch[d2] = {} BY DEF IInv
<1>1. TypeOK' BY <1>t, Bounds DEF ExecEmbedSlice, Add, SetPhase, TypeOK, Phases
<1>2. batch' = batch BY Zenon DEF ExecEmbedSlice
<1>3. ASSUME NEW q \in Requests PROVE RequestInv(q)'
  <2>1. RequestInv(q) BY <1>r
  <2>2. InBatch(q)' = InBatch(q) BY <1>2 DEF InBatch
  <2>3. /\ prefill'[q] = IF q = r THEN prefill[q] + 1 ELSE prefill[q]
        /\ phase'[q] = IF q = r THEN "Pending" ELSE phase[q]
        /\ r \in ready /\ (q \in ready' <=> q \in ready /\ q # r)
        /\ UNCHANGED <<decode, publishing, retries, answers, valid, sel, staged, requeue,
               config>>
    BY DEF ExecEmbedSlice, Add, SetPhase
  <2> QED
    BY <1>t, TypesAt, <2>1, <2>2, <2>3 DEF RequestInv, OneCopy, Somewhere, InStage
<1> QED BY <1>b, <1>s, <1>1, <1>2, <1>3 DEF IInv, ExecEmbedSlice

(* Generate keeps the invariant. *)
LEMMA GenerateKeeps ==
  ASSUME IInv, NEW r \in Requests, Generate(r)
  PROVE IInv'
<1> USE DEF queues, reqVars, workerVars, decoderVars
<1>t. TypeOK BY DEF IInv
<1>r. \A q \in Requests : RequestInv(q) BY DEF IInv
<1>s. wpc \in {"wait", "exec"} => sel = {} BY DEF IInv
<1>b. \A d1, d2 \in Decoders : d1 # d2 => batch[d1] \cap batch[d2] = {} BY DEF IInv
<1>1. TypeOK'
  <2>1. UNCHANGED <<config, stop, decode, publishing, retries, work, valid, wpc, sel, staged,
         ready,
                    requeue, dpc, batch>>
    BY DEF Generate
  <2>2. prefill' \in [Requests -> Nat] /\ answers' \in [Requests -> Nat]
        /\ phase' \in [Requests -> Phases]
    BY <1>t DEF Generate, Answer, SetPhase, Add, TypeOK, Phases
  <2> QED BY <1>t, <2>1, <2>2 DEF TypeOK
<1>2. batch' = batch BY Zenon DEF Generate
<1>3. ASSUME NEW q \in Requests PROVE RequestInv(q)'
  <2>1. RequestInv(q) BY <1>r
  <2>2. InBatch(q)' = InBatch(q) BY <1>2 DEF InBatch
  <2> QED
    BY <1>t, Bounds, <2>1, <2>2
       DEF Generate, Answer, SetPhase, Add, RequestInv, OneCopy, Somewhere, InStage, TypeOK,
           Phases
<1>4. UNCHANGED <<wpc, sel>> BY DEF Generate
<1> QED BY <1>b, <1>s, <1>1, <1>2, <1>3, <1>4 DEF IInv

(* Stop keeps the invariant. *)
LEMMA StopKeeps ==
  ASSUME IInv, Stop
  PROVE IInv'
<1> USE DEF queues, reqVars, workerVars, decoderVars
<1>t. TypeOK BY DEF IInv
<1>r. \A q \in Requests : RequestInv(q) BY DEF IInv
<1>s. wpc \in {"wait", "exec"} => sel = {} BY DEF IInv
<1>b. \A d1, d2 \in Decoders : d1 # d2 => batch[d1] \cap batch[d2] = {} BY DEF IInv
<1>1. TypeOK' BY <1>t, Bounds DEF Stop, TypeOK, Phases
<1>2. batch' = batch BY Zenon DEF Stop
<1>3. ASSUME NEW q \in Requests PROVE RequestInv(q)'
  <2>1. RequestInv(q) BY <1>r
  <2>2. InBatch(q)' = InBatch(q) BY <1>2 DEF InBatch
  <2> QED
    BY <1>t, Bounds, <2>1, <2>2
       DEF Stop, RequestInv, OneCopy, Somewhere, InStage, TypeOK, Phases
<1> QED BY <1>b, <1>s, <1>1, <1>2, <1>3 DEF IInv, Stop

(* WorkerThrows keeps the invariant. *)
LEMMA WorkerThrowsKeeps ==
  ASSUME IInv, WorkerThrows
  PROVE IInv'
<1> USE DEF queues, reqVars, workerVars, decoderVars
<1>t. TypeOK BY DEF IInv
<1>r. \A q \in Requests : RequestInv(q) BY DEF IInv
<1>s. wpc \in {"wait", "exec"} => sel = {} BY DEF IInv
<1>b. \A d1, d2 \in Decoders : d1 # d2 => batch[d1] \cap batch[d2] = {} BY DEF IInv
<1>1. TypeOK'
  BY <1>t, Bounds DEF WorkerThrows, Break, Answer, Add, Queued, Members, TypeOK, Phases
<1>2. batch' = batch BY Zenon DEF WorkerThrows
<1>3. ASSUME NEW q \in Requests PROVE RequestInv(q)'
  <2>1. RequestInv(q) BY <1>r
  <2>2. InBatch(q)' = InBatch(q) BY <1>2 DEF InBatch
  <2> QED
    BY <1>t, Bounds, <2>1, <2>2
       DEF WorkerThrows, Break, Answer, Add, Queued, Members, RequestInv, OneCopy, Somewhere,
           InStage, TypeOK, Phases
<1> QED BY <1>b, <1>s, <1>1, <1>2, <1>3 DEF IInv, WorkerThrows

(* DecoderStops keeps the invariant. *)
LEMMA DecoderStopsKeeps ==
  ASSUME IInv, NEW d \in Decoders, DecoderStops(d)
  PROVE IInv'
<1> USE DEF queues, reqVars, workerVars, decoderVars
<1>t. TypeOK BY DEF IInv
<1>r. \A q \in Requests : RequestInv(q) BY DEF IInv
<1>s. wpc \in {"wait", "exec"} => sel = {} BY DEF IInv
<1>b. \A d1, d2 \in Decoders : d1 # d2 => batch[d1] \cap batch[d2] = {} BY DEF IInv
<1>1. TypeOK' BY <1>t, Bounds DEF DecoderStops, TypeOK, Phases
<1>2. \A e \in Decoders : e # d => batch'[e] = batch[e] BY DEF DecoderStops
<1>3. ASSUME NEW q \in Requests PROVE RequestInv(q)'
  <2>1. RequestInv(q) BY <1>r
  <2>2. InBatch(q) <=> q \in batch[d] \/ \E e \in Decoders \ {d} : q \in batch[e]
    BY DEF InBatch
  <2>3. InBatch(q)' <=> q \in batch'[d] \/ \E e \in Decoders \ {d} : q \in batch[e]
    BY <1>2 DEF InBatch
  <2>4. q \in batch[d] => ~ \E e \in Decoders \ {d} : q \in batch[e]
    BY <1>b
  <2> HIDE DEF InBatch
  <2> QED
    BY <1>t, Bounds, <2>1, <2>2, <2>3, <2>4
       DEF DecoderStops, RequestInv, OneCopy, Somewhere, InStage, TypeOK, Phases
<1>4. \A e, f \in Decoders : e # f => batch'[e] \cap batch'[f] = {}
  BY <1>t, <1>b, <1>2 DEF DecoderStops, RequestInv, Somewhere, InBatch, TypeOK, Phases
<1> QED BY <1>s, <1>1, <1>3, <1>4 DEF IInv, DecoderStops

(* DecoderTakes keeps the invariant. *)
LEMMA DecoderTakesKeeps ==
  ASSUME IInv, NEW d \in Decoders, DecoderTakes(d)
  PROVE IInv'
<1> USE DEF queues, reqVars, workerVars, decoderVars
<1>t. TypeOK BY DEF IInv
<1>r. \A q \in Requests : RequestInv(q) BY DEF IInv
<1>s. wpc \in {"wait", "exec"} => sel = {} BY DEF IInv
<1>b. \A d1, d2 \in Decoders : d1 # d2 => batch[d1] \cap batch[d2] = {} BY DEF IInv
<1>1. TypeOK' BY <1>t, Bounds DEF DecoderTakes, Remove, Members, TypeOK, Phases
<1>2. \A e \in Decoders : e # d => batch'[e] = batch[e] BY DEF DecoderTakes
<1>3. ASSUME NEW q \in Requests PROVE RequestInv(q)'
  <2>1. RequestInv(q) BY <1>r
  <2>2. InBatch(q) <=> q \in batch[d] \/ \E e \in Decoders \ {d} : q \in batch[e]
    BY DEF InBatch
  <2>3. InBatch(q)' <=> q \in batch'[d] \/ \E e \in Decoders \ {d} : q \in batch[e]
    BY <1>2 DEF InBatch
  <2>4. q \in batch[d] => ~ \E e \in Decoders \ {d} : q \in batch[e]
    BY <1>b
  <2> HIDE DEF InBatch
  <2> QED
    BY <1>t, Bounds, <2>1, <2>2, <2>3, <2>4
       DEF DecoderTakes, Remove, Members, RequestInv, OneCopy, Somewhere, InStage, TypeOK,
           Phases
<1>4. \A e, f \in Decoders : e # f => batch'[e] \cap batch'[f] = {}
  <2>1. \A q \in Members(decode), e \in Decoders : q \notin batch[e]
    BY <1>t, <1>r DEF Members, RequestInv, OneCopy, Somewhere, InBatch, TypeOK, Phases
  <2>2. \A q \in batch'[d] : q \in batch[d] \/ q \in Members(decode)
    BY <1>t, Bounds DEF DecoderTakes, TypeOK, Phases
  <2> QED BY <1>t, <1>b, <1>1, <1>2, <2>1, <2>2 DEF TypeOK
<1> QED BY <1>s, <1>1, <1>3, <1>4 DEF IInv, DecoderTakes

(* DecoderMerges keeps the invariant. *)
LEMMA DecoderMergesKeeps ==
  ASSUME IInv, NEW d \in Decoders, DecoderMerges(d)
  PROVE IInv'
<1> USE DEF queues, reqVars, workerVars, decoderVars
<1>t. TypeOK BY DEF IInv
<1>r. \A q \in Requests : RequestInv(q) BY DEF IInv
<1>s. wpc \in {"wait", "exec"} => sel = {} BY DEF IInv
<1>b. \A d1, d2 \in Decoders : d1 # d2 => batch[d1] \cap batch[d2] = {} BY DEF IInv
<1>1. TypeOK' BY <1>t, Bounds DEF DecoderMerges, Remove, Members, TypeOK, Phases
<1>2. \A e \in Decoders : e # d => batch'[e] = batch[e] BY DEF DecoderMerges
<1>3. ASSUME NEW q \in Requests PROVE RequestInv(q)'
  <2>1. RequestInv(q) BY <1>r
  <2>2. InBatch(q) <=> q \in batch[d] \/ \E e \in Decoders \ {d} : q \in batch[e]
    BY DEF InBatch
  <2>3. InBatch(q)' <=> q \in batch'[d] \/ \E e \in Decoders \ {d} : q \in batch[e]
    BY <1>2 DEF InBatch
  <2>4. q \in batch[d] => ~ \E e \in Decoders \ {d} : q \in batch[e]
    BY <1>b
  <2> HIDE DEF InBatch
  <2> QED
    BY <1>t, Bounds, <2>1, <2>2, <2>3, <2>4
       DEF DecoderMerges, Remove, Members, RequestInv, OneCopy, Somewhere, InStage, TypeOK,
           Phases
<1>4. \A e, f \in Decoders : e # f => batch'[e] \cap batch'[f] = {}
  <2>1. \A q \in Members(decode), e \in Decoders : q \notin batch[e]
    BY <1>t, <1>r DEF Members, RequestInv, OneCopy, Somewhere, InBatch, TypeOK, Phases
  <2>2. \A q \in batch'[d] : q \in batch[d] \/ q \in Members(decode)
    BY <1>t, Bounds DEF DecoderMerges, TypeOK, Phases
  <2> QED BY <1>t, <1>b, <1>1, <1>2, <2>1, <2>2 DEF TypeOK
<1> QED BY <1>s, <1>1, <1>3, <1>4 DEF IInv, DecoderMerges

(* DecoderExecutes keeps the invariant. *)
LEMMA DecoderExecutesKeeps ==
  ASSUME IInv, NEW d \in Decoders, DecoderExecutes(d)
  PROVE IInv'
<1> USE DEF queues, reqVars, workerVars, decoderVars
<1>t. TypeOK BY DEF IInv
<1>r. \A q \in Requests : RequestInv(q) BY DEF IInv
<1>s. wpc \in {"wait", "exec"} => sel = {} BY DEF IInv
<1>b. \A d1, d2 \in Decoders : d1 # d2 => batch[d1] \cap batch[d2] = {} BY DEF IInv
<1>1. TypeOK'
  BY <1>t, Bounds DEF DecoderExecutes, Unanswered, Add, Answer, SetPhase, TypeOK, Phases
<1>2. \A e \in Decoders : e # d => batch'[e] = batch[e] BY DEF DecoderExecutes
<1>3. ASSUME NEW q \in Requests PROVE RequestInv(q)'
  <2>1. RequestInv(q) BY <1>r
  <2>2. InBatch(q) <=> q \in batch[d] \/ \E e \in Decoders \ {d} : q \in batch[e]
    BY DEF InBatch
  <2>3. InBatch(q)' <=> q \in batch'[d] \/ \E e \in Decoders \ {d} : q \in batch[e]
    BY <1>2 DEF InBatch
  <2>4. q \in batch[d] => ~ \E e \in Decoders \ {d} : q \in batch[e]
    BY <1>b
  <2> HIDE DEF InBatch
  <2> QED
    BY <1>t, Bounds, <2>1, <2>2, <2>3, <2>4
       DEF DecoderExecutes, Unanswered, Add, Answer, SetPhase, RequestInv, OneCopy, Somewhere,
           InStage, TypeOK, Phases
<1>4. \A e, f \in Decoders : e # f => batch'[e] \cap batch'[f] = {}
  BY <1>t, <1>b, <1>2
     DEF DecoderExecutes, Unanswered, Add, Answer, SetPhase, RequestInv, Somewhere, InBatch,
         TypeOK, Phases
<1> QED BY <1>s, <1>1, <1>3, <1>4 DEF IInv, DecoderExecutes

(* DecoderAllUnsupported keeps the invariant. *)
LEMMA DecoderAllUnsupportedKeeps ==
  ASSUME IInv, NEW d \in Decoders, DecoderAllUnsupported(d)
  PROVE IInv'
<1> USE DEF queues, reqVars, workerVars, decoderVars
<1>t. TypeOK BY DEF IInv
<1>r. \A q \in Requests : RequestInv(q) BY DEF IInv
<1>s. wpc \in {"wait", "exec"} => sel = {} BY DEF IInv
<1>b. \A d1, d2 \in Decoders : d1 # d2 => batch[d1] \cap batch[d2] = {} BY DEF IInv
<1>1. TypeOK'
  BY <1>t, Bounds DEF DecoderAllUnsupported, Unanswered, Answer, Add, TypeOK, Phases
<1>2. \A e \in Decoders : e # d => batch'[e] = batch[e] BY DEF DecoderAllUnsupported
<1>3. ASSUME NEW q \in Requests PROVE RequestInv(q)'
  <2>1. RequestInv(q) BY <1>r
  <2>2. InBatch(q) <=> q \in batch[d] \/ \E e \in Decoders \ {d} : q \in batch[e]
    BY DEF InBatch
  <2>3. InBatch(q)' <=> q \in batch'[d] \/ \E e \in Decoders \ {d} : q \in batch[e]
    BY <1>2 DEF InBatch
  <2>4. q \in batch[d] => ~ \E e \in Decoders \ {d} : q \in batch[e]
    BY <1>b
  <2> HIDE DEF InBatch
  <2> QED
    BY <1>t, Bounds, <2>1, <2>2, <2>3, <2>4
       DEF DecoderAllUnsupported, Unanswered, Answer, Add, RequestInv, OneCopy, Somewhere,
           InStage, TypeOK, Phases
<1>4. \A e, f \in Decoders : e # f => batch'[e] \cap batch'[f] = {}
  BY <1>t, <1>b, <1>2
     DEF DecoderAllUnsupported, Unanswered, Answer, Add, RequestInv, Somewhere, InBatch,
         TypeOK, Phases
<1> QED BY <1>s, <1>1, <1>3, <1>4 DEF IInv, DecoderAllUnsupported

(* DecoderAnswersTwice keeps the invariant. *)
LEMMA DecoderAnswersTwiceKeeps ==
  ASSUME IInv, NEW d \in Decoders, DecoderAnswersTwice(d)
  PROVE IInv'
<1> USE DEF queues, reqVars, workerVars, decoderVars
<1>t. TypeOK BY DEF IInv
<1>r. \A q \in Requests : RequestInv(q) BY DEF IInv
<1>s. wpc \in {"wait", "exec"} => sel = {} BY DEF IInv
<1>b. \A d1, d2 \in Decoders : d1 # d2 => batch[d1] \cap batch[d2] = {} BY DEF IInv
<1>1. TypeOK'
  BY <1>t, Bounds DEF DecoderAnswersTwice, Answer, Add, Queued, Members, TypeOK, Phases
<1>2. \A e \in Decoders : e # d => batch'[e] = batch[e] BY DEF DecoderAnswersTwice
<1>3. ASSUME NEW q \in Requests PROVE RequestInv(q)'
  <2>1. RequestInv(q) BY <1>r
  <2>2. InBatch(q) <=> q \in batch[d] \/ \E e \in Decoders \ {d} : q \in batch[e]
    BY DEF InBatch
  <2>3. InBatch(q)' <=> q \in batch'[d] \/ \E e \in Decoders \ {d} : q \in batch[e]
    BY <1>2 DEF InBatch
  <2>4. q \in batch[d] => ~ \E e \in Decoders \ {d} : q \in batch[e]
    BY <1>b
  <2> HIDE DEF InBatch
  <2>5. batch'[d] = {} /\ UNCHANGED <<prefill, decode, publishing, sel, staged, ready,
         requeue, config, phase, retries, valid>>
    BY <1>t, Bounds DEF DecoderAnswersTwice, TypeOK, Phases
  <2>6. q \notin batch[d] => answers'[q] = answers[q]
    BY <1>t, Bounds DEF DecoderAnswersTwice, Answer, Add, Queued, Members, TypeOK, Phases
  <2>7. q \in batch[d] => answers'[q] > 0
    BY <1>t, Bounds, <2>1, <2>2
       DEF DecoderAnswersTwice, Answer, Add, Queued, Members, RequestInv, OneCopy, Somewhere,
           TypeOK, Phases
  <2>8. ~config.capability => answers'[q] <= 1
    BY <1>t, Bounds, <2>1, <2>2
       DEF DecoderAnswersTwice, Answer, Add, Queued, Members, RequestInv, OneCopy, Somewhere,
           TypeOK, Phases
  <2> QED
    BY <1>t, Bounds, <1>1, <2>1, <2>2, <2>3, <2>4, <2>5, <2>6, <2>7, <2>8
       DEF RequestInv, OneCopy, Somewhere, InStage, TypeOK, Phases
<1>4. \A e, f \in Decoders : e # f => batch'[e] \cap batch'[f] = {}
  BY <1>t, <1>b, <1>2
     DEF DecoderAnswersTwice, Answer, Add, Queued, Members, RequestInv, Somewhere, InBatch,
         TypeOK, Phases
<1> QED BY <1>s, <1>1, <1>3, <1>4 DEF IInv, DecoderAnswersTwice

(* FailAllQueuedLocked keeps the invariant. *)
LEMMA FailAllQueuedLockedKeeps ==
  ASSUME IInv, NEW d \in Decoders, FailAllQueuedLocked(d)
  PROVE IInv'
<1> USE DEF queues, reqVars, workerVars, decoderVars
<1>t. TypeOK BY DEF IInv
<1>r. \A q \in Requests : RequestInv(q) BY DEF IInv
<1>s. wpc \in {"wait", "exec"} => sel = {} BY DEF IInv
<1>b. \A d1, d2 \in Decoders : d1 # d2 => batch[d1] \cap batch[d2] = {} BY DEF IInv
<1>1. TypeOK'
  BY <1>t, Bounds DEF FailAllQueuedLocked, Answer, Add, Queued, Members, Empty, TypeOK, Phases
<1>2. \A e \in Decoders : e # d => batch'[e] = batch[e] BY DEF FailAllQueuedLocked
<1>3. ASSUME NEW q \in Requests PROVE RequestInv(q)'
  <2>1. RequestInv(q) BY <1>r
  <2>2. InBatch(q) <=> q \in batch[d] \/ \E e \in Decoders \ {d} : q \in batch[e]
    BY DEF InBatch
  <2>3. InBatch(q)' <=> q \in batch'[d] \/ \E e \in Decoders \ {d} : q \in batch[e]
    BY <1>2 DEF InBatch
  <2>4. q \in batch[d] => ~ \E e \in Decoders \ {d} : q \in batch[e]
    BY <1>b
  <2> HIDE DEF InBatch
  <2>5. /\ prefill'[q] = 0 /\ decode'[q] = 0 /\ batch' = batch
        /\ UNCHANGED <<publishing, sel, staged, ready, requeue, config, phase, retries>>
    BY <1>t, Bounds DEF FailAllQueuedLocked, Empty, TypeOK, Phases
  <2>6. CASE prefill[q] + decode[q] = 1
    <3>1. answers[q] = 0 /\ valid[q]
      BY <1>t, Bounds, <2>1, <2>6 DEF RequestInv, Somewhere, TypeOK, Phases
    <3>2. answers'[q] = 1
      BY <1>t, Bounds, <2>6, <3>1
         DEF FailAllQueuedLocked, Answer, Add, Queued, Members, TypeOK, Phases
    <3> QED
      BY <1>t, Bounds, <1>1, <2>1, <2>2, <2>3, <2>5, <2>6, <3>2
         DEF RequestInv, OneCopy, Somewhere, InStage, TypeOK, Phases
  <2>7. CASE prefill[q] = 0 /\ decode[q] = 0
    <3>1. answers'[q] = answers[q] /\ valid'[q] = valid[q]
      BY <1>t, Bounds, <2>7
         DEF FailAllQueuedLocked, Answer, Add, Queued, Members, TypeOK, Phases
    <3> QED
      BY <1>t, Bounds, <1>1, <2>1, <2>2, <2>3, <2>5, <2>7, <3>1
         DEF RequestInv, OneCopy, Somewhere, InStage, TypeOK, Phases
  <2>8. prefill[q] \in Nat /\ decode[q] \in Nat /\ prefill[q] + decode[q] <= 1
    BY <1>t, Bounds, <2>1 DEF RequestInv, OneCopy, TypeOK, Phases
  <2> QED BY <1>t, Bounds, <2>6, <2>7, <2>8 DEF TypeOK, Phases
<1>4. \A e, f \in Decoders : e # f => batch'[e] \cap batch'[f] = {}
  BY <1>t, <1>b, <1>2
     DEF FailAllQueuedLocked, Answer, Add, Queued, Members, Empty, RequestInv, Somewhere,
         InBatch, TypeOK, Phases
<1> QED BY <1>s, <1>1, <1>3, <1>4 DEF IInv, FailAllQueuedLocked

(* DecoderThrows keeps the invariant. *)
LEMMA DecoderThrowsKeeps ==
  ASSUME IInv, NEW d \in Decoders, DecoderThrows(d)
  PROVE IInv'
<1> USE DEF queues, reqVars, workerVars, decoderVars
<1>t. TypeOK BY DEF IInv
<1>r. \A q \in Requests : RequestInv(q) BY DEF IInv
<1>s. wpc \in {"wait", "exec"} => sel = {} BY DEF IInv
<1>b. \A d1, d2 \in Decoders : d1 # d2 => batch[d1] \cap batch[d2] = {} BY DEF IInv
<1>1. TypeOK'
  BY <1>t, Bounds DEF DecoderThrows, Break, Answer, Add, Queued, Members, TypeOK, Phases
<1>2. \A e \in Decoders : e # d => batch'[e] = batch[e] BY DEF DecoderThrows
<1>3. ASSUME NEW q \in Requests PROVE RequestInv(q)'
  <2>1. RequestInv(q) BY <1>r
  <2>2. InBatch(q) <=> q \in batch[d] \/ \E e \in Decoders \ {d} : q \in batch[e]
    BY DEF InBatch
  <2>3. InBatch(q)' <=> q \in batch'[d] \/ \E e \in Decoders \ {d} : q \in batch[e]
    BY <1>2 DEF InBatch
  <2>4. q \in batch[d] => ~ \E e \in Decoders \ {d} : q \in batch[e]
    BY <1>b
  <2> HIDE DEF InBatch
  <2>5. batch'[d] = {} /\ UNCHANGED <<prefill, decode, publishing, sel, staged, ready,
         requeue, config, phase, retries, valid>>
    BY <1>t, Bounds DEF DecoderThrows, TypeOK, Phases
  <2>6. q \notin batch[d] => answers'[q] = answers[q]
    BY <1>t, Bounds DEF DecoderThrows, Break, Answer, Add, Queued, Members, TypeOK, Phases
  <2>7. q \in batch[d] => answers'[q] > 0
    BY <1>t, Bounds, <2>1, <2>2
       DEF DecoderThrows, Break, Answer, Add, Queued, Members, RequestInv, OneCopy, Somewhere,
           TypeOK, Phases
  <2>8. ~config.capability => answers'[q] <= 1
    BY <1>t, Bounds, <2>1, <2>2
       DEF DecoderThrows, Break, Answer, Add, Queued, Members, RequestInv, OneCopy, Somewhere,
           TypeOK, Phases
  <2> QED
    BY <1>t, Bounds, <1>1, <2>1, <2>2, <2>3, <2>4, <2>5, <2>6, <2>7, <2>8
       DEF RequestInv, OneCopy, Somewhere, InStage, TypeOK, Phases
<1>4. \A e, f \in Decoders : e # f => batch'[e] \cap batch'[f] = {}
  BY <1>t, <1>b, <1>2
     DEF DecoderThrows, Break, Answer, Add, Queued, Members, RequestInv, Somewhere, InBatch,
         TypeOK, Phases
<1> QED BY <1>s, <1>1, <1>3, <1>4 DEF IInv, DecoderThrows

(* A step that changes nothing keeps the invariant. *)
LEMMA StutterKeeps ==
  ASSUME IInv, UNCHANGED vars
  PROVE IInv'
<1> USE DEF queues, reqVars, workerVars, decoderVars
<1>t. TypeOK BY DEF IInv
<1>r. \A q \in Requests : RequestInv(q) BY DEF IInv
<1>s. wpc \in {"wait", "exec"} => sel = {} BY DEF IInv
<1>b. \A d1, d2 \in Decoders : d1 # d2 => batch[d1] \cap batch[d2] = {} BY DEF IInv
<1>1. TypeOK' BY <1>t, Bounds DEF vars, TypeOK, Phases
<1>2. ASSUME NEW q \in Requests PROVE RequestInv(q)'
  <2>1. RequestInv(q) BY <1>r
  <2> QED
    BY <1>t, Bounds, <2>1
       DEF vars, RequestInv, OneCopy, Somewhere, InStage, InBatch, TypeOK, Phases
<1> QED BY <1>b, <1>s, <1>1, <1>2 DEF IInv, vars

(* Every step preserves it.  The actions of WorkerLoop and of the clients   *)
(* leave the batches of the decode workers alone; a decode worker changes   *)
(* its own.                                                                 *)
LEMMA NextIInv == IInv /\ [Next]_vars => IInv'
BY WorkerExitKeeps, BuildBatchLockedKeeps, ApplyFairnessKeeps, StageKeeps, RequeueKeeps,
       AdmitLocalKeeps, AdmitStagedKeeps, AdmitPublishKeeps, AdmitOverflowKeeps,
       PublishAcceptedKeeps, PublishRejectedKeeps, ExecFinishKeeps, ExecYieldKeeps,
       ExecEmbedSliceKeeps, GenerateKeeps, StopKeeps, WorkerThrowsKeeps, DecoderStopsKeeps,
       DecoderTakesKeeps, DecoderMergesKeeps, DecoderExecutesKeeps, DecoderAllUnsupportedKeeps,
       DecoderAnswersTwiceKeeps, FailAllQueuedLockedKeeps, DecoderThrowsKeeps, StutterKeeps
   DEF Next, WorkerSteps, DecoderSteps

(* What Cardinality counts, for the two sizes that occur here. *)
LEMMA NoneOrOne == Cardinality({}) = 0 /\ \A x : Cardinality({x}) = 1
<1> DEFINE Counts(S, f) == f = [T \in SUBSET S |-> IF T = {} THEN 0
                                                     ELSE 1 + f[T \ {CHOOSE y : y \in T}]]
<1>1. \A S : Cardinality(S) = (CHOOSE f : Counts(S, f))[S] BY DEF Cardinality
<1>2. Cardinality({}) = 0
  <2>1. Counts({}, [T \in SUBSET {} |-> 0]) BY Zenon
  <2>2. Counts({}, CHOOSE f : Counts({}, f)) BY <2>1, Zenon
  <2> DEFINE g == CHOOSE f : Counts({}, f)
  <2>3. g = [T \in SUBSET {} |-> IF T = {} THEN 0 ELSE 1 + g[T \ {CHOOSE y : y \in T}]]
     BY <2>2, Zenon
  <2> HIDE DEF g
  <2>4. g[{}] = 0 BY <2>3, Zenon
  <2> QED BY <1>1, <2>4, Zenon DEF g
<1>3. ASSUME NEW x PROVE Cardinality({x}) = 1
  <2> DEFINE h == [T \in SUBSET {x} |-> IF T = {} THEN 0 ELSE 1]
  <2>0. (CHOOSE y : y \in {x}) = x BY Zenon
  <2>1. Counts({x}, h)
    <3>1. ASSUME NEW T \in SUBSET {x}
          PROVE (IF T = {} THEN 0 ELSE 1) = IF T = {} THEN 0 ELSE 1 + h[T \ {CHOOSE y : y \in T}]
      <4>1. CASE T = {} BY <4>1
      <4>2. CASE T # {}
        <5>1. T = {x} BY <4>2
        <5>2. T \ {CHOOSE y : y \in T} = {} BY <2>0, <5>1
        <5>3. h[{}] = 0 OBVIOUS
        <5>4. 1 + h[T \ {CHOOSE y : y \in T}] = 1 BY <5>2, <5>3
        <5> QED BY <4>2, <5>4
      <4> QED BY <4>1, <4>2
    <3> QED BY <3>1, Zenon
  <2>2. Counts({x}, CHOOSE f : Counts({x}, f)) BY <2>1, Zenon
  <2> DEFINE g == CHOOSE f : Counts({x}, f)
  <2>3. g = [T \in SUBSET {x} |-> IF T = {} THEN 0 ELSE 1 + g[T \ {CHOOSE y : y \in T}]]
     BY <2>2, Zenon
  <2>9. Cardinality({x}) = g[{x}] BY <1>1, Zenon
  <2> HIDE DEF g
  <2>4. g[{}] = 0 BY <2>3
  <2>5. {x} # {} /\ {x} \ {CHOOSE y : y \in {x}} = {} BY <2>0
  <2>6. g[{x}] = IF {x} = {} THEN 0 ELSE 1 + g[{x} \ {CHOOSE y : y \in {x}}] BY <2>3, Zenon
  <2>7. g[{x}] = 1 + g[{}] BY <2>5, <2>6, Zenon
  <2> QED BY <2>4, <2>7, <2>9
<1> QED BY <1>2, <1>3

(* The invariant gives the count of the places of an unanswered request.    *)
LEMMA OnePlace == IInv => UnansweredInOnePlace
<1> SUFFICES ASSUME IInv, NEW r \in Requests, phase[r] # "None", answers[r] = 0
             PROVE  Places(r) = 1
  BY DEF UnansweredInOnePlace
<1> DEFINE Names == {"publishing", "sel", "staged", "ready", "requeue"}
           Of(S) == CASE S = "publishing" -> publishing [] S = "sel" -> sel
                      [] S = "staged" -> staged [] S = "ready" -> ready [] S = "requeue" -> requeue
           Stages == {S \in Names : r \in Of(S)}
           Batches == {d \in Decoders : r \in batch[d]}
<1>1. RequestInv(r) /\ prefill[r] \in Nat /\ decode[r] \in Nat
  BY DEF IInv, TypeOK
<1>2. Stages \in {{}, {"publishing"}, {"sel"}, {"staged"}, {"ready"}, {"requeue"}}
  BY <1>1 DEF RequestInv, OneCopy
<1>3. Stages = {} <=> ~InStage(r)
  BY DEF InStage
<1>4. Batches = {} <=> ~InBatch(r)
  BY Zenon DEF InBatch
<1>5. Batches # {} => \E d \in Decoders : Batches = {d}
  BY DEF IInv
<1>6. Cardinality({}) = 0 /\ \A x : Cardinality({x}) = 1
  BY NoneOrOne
<1>7. Cardinality(Stages) = IF InStage(r) THEN 1 ELSE 0
  BY <1>2, <1>3, <1>6, Zenon
<1>8. Cardinality(Batches) = IF InBatch(r) THEN 1 ELSE 0
  BY <1>4, <1>5, <1>6, Zenon
<1>9. Places(r) = prefill[r] + decode[r] + Cardinality(Stages) + Cardinality(Batches)
  BY DEF Places
<1> HIDE DEF Stages, Batches
<1>10. /\ Somewhere(r) \/ InBatch(r)
       /\ InBatch(r) => ~Somewhere(r)
       /\ InStage(r) => prefill[r] + decode[r] = 0
       /\ prefill[r] + decode[r] <= 1
  BY <1>1 DEF RequestInv, OneCopy
<1> QED BY <1>1, <1>7, <1>8, <1>9, <1>10 DEF Somewhere

(* The invariant of the queues run for every number of requests and decode  *)
(* workers, every configuration, batch size, number of slices and retries:  *)
(* whatever is preempted, requeued, published or failed, an unanswered      *)
(* request is in one queue or in the hands of one loop.                     *)
THEOREM QueuesStaySafe == Spec => []QueuesSafe
<1>1. Init => IInv BY InitIInv
<1>2. IInv /\ [Next]_vars => IInv' BY NextIInv
<1>3. IInv => QueuesSafe BY OnePlace DEF IInv, QueuesSafe
<1> QED BY <1>1, <1>2, <1>3, PTL DEF Spec
---------------------------------------------------------------------------
(* What a client sees of a request, in the terms of the service. *)
LEMMA StatusIs ==
  ASSUME IInv, NEW r \in Requests
  PROVE  /\ ServiceStatus[r] = "idle" <=> phase[r] = "None"
         /\ ServiceStatus[r] = "waiting" <=> phase[r] # "None" /\ answers[r] = 0
         /\ ServiceStatus[r] = "answered" <=> phase[r] # "None" /\ answers[r] > 0
         /\ ServiceStatus[r] \in {"idle", "waiting", "answered"}
<1>1. RequestInv(r) /\ answers[r] \in Nat BY DEF IInv, TypeOK
<1> QED BY <1>1 DEF RequestInv, ServiceStatus

(* A step that submits nothing and takes no answer back answers some of the *)
(* waiting requests, or is invisible to the clients.                        *)
LEMMA AnswersOnly ==
  ASSUME IInv, IInv',
         \A r \in Requests : phase'[r] = "None" <=> phase[r] = "None",
         \A r \in Requests : answers[r] > 0 => answers'[r] > 0
  PROVE  [Service!Next]_ServiceStatus
<1> DEFINE S == {r \in Requests : ServiceStatus[r] = "waiting" /\ ServiceStatus'[r] = "answered"}
<1>1. \A r \in Requests : ServiceStatus'[r] = IF r \in S THEN "answered" ELSE ServiceStatus[r]
  <2> SUFFICES ASSUME NEW r \in Requests
               PROVE  ServiceStatus'[r] = IF r \in S THEN "answered" ELSE ServiceStatus[r]
    OBVIOUS
  <2>1. /\ ServiceStatus'[r] = "idle" <=> phase'[r] = "None"
        /\ ServiceStatus'[r] = "waiting" <=> phase'[r] # "None" /\ answers'[r] = 0
        /\ ServiceStatus'[r] = "answered" <=> phase'[r] # "None" /\ answers'[r] > 0
        /\ ServiceStatus'[r] \in {"idle", "waiting", "answered"}
    <3>1. RequestInv(r)' /\ answers'[r] \in Nat BY DEF IInv, TypeOK
    <3> QED BY <3>1 DEF RequestInv, ServiceStatus
  <2> QED BY <2>1, StatusIs
<1>2. ServiceStatus' = [r \in Requests |-> IF r \in S THEN "answered" ELSE ServiceStatus[r]]
  BY <1>1 DEF ServiceStatus
<1>3. CASE S = {}
  <2>1. \A r \in Requests : ServiceStatus'[r] = ServiceStatus[r] BY <1>1, <1>3
  <2> QED BY <2>1 DEF ServiceStatus
<1>4. CASE S # {}
  BY <1>2, <1>4, Zenon DEF Service!Next, Service!AnswerSome
<1> QED BY <1>3, <1>4

(* Every step but a submission leaves the requests submitted or not, and    *)
(* keeps the answers given.  A phase is set for requests that some place    *)
(* has, which are submitted.                                                *)
LEMMA NothingSubmitted ==
  ASSUME IInv, [Next]_vars, ~ \E r \in Requests : Generate(r), NEW q \in Requests
  PROVE  /\ phase'[q] = "None" <=> phase[q] = "None"
         /\ answers[q] > 0 => answers'[q] > 0
<1> USE DEF queues, reqVars, workerVars, decoderVars
<1>0. /\ phase[q] \in Phases /\ answers[q] \in Nat
      /\ phase[q] = "None" => prefill[q] = 0 /\ decode[q] = 0 /\ ~InStage(q) /\ ~InBatch(q)
  <2>1. prefill[q] \in Nat /\ decode[q] \in Nat /\ RequestInv(q) BY DEF IInv, TypeOK
  <2>2. phase[q] \in Phases /\ answers[q] \in Nat BY DEF IInv, TypeOK
  <2>3. OneCopy(q) /\ (phase[q] = "None" => ~Somewhere(q) /\ ~InBatch(q)) BY <2>1 DEF RequestInv
  <2>4. ~Somewhere(q) => prefill[q] = 0 /\ decode[q] = 0 /\ ~InStage(q)
    <3>1. prefill[q] + decode[q] <= 1 BY <2>3 DEF OneCopy
    <3>2. ~Somewhere(q) => prefill[q] + decode[q] # 1 /\ ~InStage(q) BY DEF Somewhere
    <3> QED BY <2>1, <3>1, <3>2
  <2> QED BY <2>2, <2>3, <2>4
<1> USE <1>0
<1>1. ASSUME WorkerExit PROVE (phase' = phase) /\ (answers' = answers)
  BY <1>1, Zenon DEF WorkerExit
<1>2. ASSUME BuildBatchLocked
   PROVE (phase'[q] = "None" <=> phase[q] = "None") /\ (answers' = answers)
  <2>1. answers' = answers BY <1>2, Zenon DEF BuildBatchLocked
  <2>2. PICK S \in SUBSET Candidates :
          phase' = [r \in Requests |-> IF r \notin S THEN phase[r]
                                      ELSE IF r \in FromDecode THEN "Decode" ELSE "Prefill"]
    BY <1>2, Zenon DEF BuildBatchLocked
  <2>3. q \in S => prefill[q] > 0 \/ decode[q] > 0
    BY <2>2 DEF Candidates, FromDecode, Members
  <2> QED BY <2>1, <2>2, <2>3
<1>3. ASSUME ApplyFairness
   PROVE (phase'[q] = "None" <=> phase[q] = "None") /\ (answers' = answers)
  <2>1. CASE phase' = phase BY <1>3, <2>1, Zenon DEF ApplyFairness
  <2>2. CASE \E p \in Swaps : Swap(p[1], p[2])
    <3>1. PICK p \in Swaps : Swap(p[1], p[2]) BY <2>2
    <3>2. p[2] \in sel BY <3>1 DEF Swaps
    <3> QED BY <1>3, <3>1, <3>2 DEF ApplyFairness, Swap, SetPhase, InStage
  <2> QED BY <1>3, <2>1, <2>2 DEF ApplyFairness
<1>4. ASSUME Stage PROVE (phase'[q] = "None" <=> phase[q] = "None") /\ (answers' = answers)
  BY <1>4 DEF Stage, SetPhase, InStage, InBatch
<1>5. ASSUME Requeue PROVE (phase' = phase) /\ (answers' = answers)
  BY <1>5, Zenon DEF Requeue
<1>6. ASSUME NEW r \in Requests, AdmitLocal(r) PROVE (phase' = phase) /\ (answers' = answers)
  BY <1>6, Zenon DEF AdmitLocal
<1>7. ASSUME NEW r \in Requests, AdmitStaged(r) PROVE (phase' = phase) /\ (answers' = answers)
  BY <1>7, Zenon DEF AdmitStaged
<1>8. ASSUME NEW r \in Requests, AdmitPublish(r) PROVE (phase' = phase) /\ (answers' = answers)
  BY <1>8, Zenon DEF AdmitPublish
<1>9. ASSUME NEW r \in Requests, AdmitOverflow(r)
   PROVE (phase' = phase) /\ (answers[q] > 0 => answers'[q] > 0)
  BY <1>9 DEF AdmitOverflow, Answer, Add, Leaves
<1>10. ASSUME NEW r \in Requests, PublishAccepted(r)
   PROVE (phase'[q] = "None" <=> phase[q] = "None") /\ (answers' = answers)
  BY <1>10 DEF PublishAccepted, SetPhase, InStage, InBatch
<1>11. ASSUME NEW r \in Requests, PublishRejected(r)
   PROVE (phase'[q] = "None" <=> phase[q] = "None") /\ (answers[q] > 0 => answers'[q] > 0)
  BY <1>11 DEF PublishRejected, Answer, Add, SetPhase, InStage, InBatch
<1>12. ASSUME NEW r \in Requests, ExecFinish(r)
   PROVE (phase'[q] = "None" <=> phase[q] = "None") /\ (answers[q] > 0 => answers'[q] > 0)
  BY <1>12 DEF ExecFinish, Answer, Add, SetPhase, InStage, InBatch
<1>13. ASSUME NEW r \in Requests, ExecYield(r)
   PROVE (phase'[q] = "None" <=> phase[q] = "None") /\ (answers' = answers)
  BY <1>13 DEF ExecYield, SetPhase, InStage, InBatch
<1>14. ASSUME NEW r \in Requests, ExecEmbedSlice(r)
   PROVE (phase'[q] = "None" <=> phase[q] = "None") /\ (answers' = answers)
  BY <1>14 DEF ExecEmbedSlice, SetPhase, InStage, InBatch
<1>15. ASSUME Stop PROVE (phase' = phase) /\ (answers' = answers)
  BY <1>15, Zenon DEF Stop
<1>16. ASSUME WorkerThrows PROVE (phase' = phase) /\ (answers[q] > 0 => answers'[q] > 0)
  BY <1>16 DEF WorkerThrows, Break, Answer, Add
<1>17. ASSUME NEW d \in Decoders, DecoderStops(d) PROVE (phase' = phase) /\ (answers' = answers)
  BY <1>17, Zenon DEF DecoderStops
<1>18. ASSUME NEW d \in Decoders, DecoderTakes(d) PROVE (phase' = phase) /\ (answers' = answers)
  BY <1>18, Zenon DEF DecoderTakes
<1>19. ASSUME NEW d \in Decoders, DecoderMerges(d)
   PROVE (phase' = phase) /\ (answers' = answers)
  BY <1>19, Zenon DEF DecoderMerges
<1>20. ASSUME NEW d \in Decoders, DecoderExecutes(d)
   PROVE (phase'[q] = "None" <=> phase[q] = "None") /\ (answers[q] > 0 => answers'[q] > 0)
  BY <1>20 DEF DecoderExecutes, Answer, Add, SetPhase, InStage, InBatch
<1>21. ASSUME NEW d \in Decoders, DecoderAllUnsupported(d)
   PROVE (phase' = phase) /\ (answers[q] > 0 => answers'[q] > 0)
  BY <1>21 DEF DecoderAllUnsupported, Answer, Add
<1>22. ASSUME NEW d \in Decoders, DecoderAnswersTwice(d)
   PROVE (phase' = phase) /\ (answers[q] > 0 => answers'[q] > 0)
  BY <1>22 DEF DecoderAnswersTwice, Answer, Add
<1>23. ASSUME NEW d \in Decoders, FailAllQueuedLocked(d)
   PROVE (phase' = phase) /\ (answers[q] > 0 => answers'[q] > 0)
  BY <1>23 DEF FailAllQueuedLocked, Answer, Add
<1>24. ASSUME NEW d \in Decoders, DecoderThrows(d)
   PROVE (phase' = phase) /\ (answers[q] > 0 => answers'[q] > 0)
  BY <1>24 DEF DecoderThrows, Break, Answer, Add
<1>25. CASE UNCHANGED vars
  BY <1>25 DEF vars
<1> QED
  BY <1>1, <1>2, <1>3, <1>4, <1>5, <1>6, <1>7, <1>8, <1>9, <1>10, <1>11, <1>12, <1>13,
     <1>14, <1>15, <1>16, <1>17, <1>18, <1>19, <1>20, <1>21, <1>22, <1>23, <1>24, <1>25,
            ZenonT(30)
  DEF Next, WorkerSteps, DecoderSteps

(* Generate is a submission, answered at once when a split scheduler gets   *)
(* an embedding.                                                            *)
LEMMA GenerateSubmits ==
  ASSUME IInv, IInv', NEW r \in Requests, Generate(r)
  PROVE  Service!Submit(r)
<1>1. phase[r] = "None" /\ answers[r] = 0
  <2>1. phase[r] = "None" /\ RequestInv(r) BY DEF Generate, IInv
  <2> QED BY <2>1 DEF RequestInv
<1>t. TypeOK /\ config' = config BY DEF IInv, Generate, workerVars
<1>2. \A q \in Requests \ {r} : phase'[q] = phase[q] /\ answers'[q] = answers[q]
  BY <1>t DEF Generate, Answer, SetPhase, Add, TypeOK
<1>3. \/ phase'[r] = "Finished" /\ answers'[r] = 1
      \/ phase'[r] = "Pending" /\ answers'[r] = 0
  BY <1>1, <1>t DEF Generate, Answer, SetPhase, Add, TypeOK
<1>4. ServiceStatus[r] = "idle"
  BY <1>1 DEF ServiceStatus
<1>5. ServiceStatus'[r] \in {"waiting", "answered"}
  BY <1>3 DEF ServiceStatus
<1>6. \A q \in Requests \ {r} : ServiceStatus'[q] = ServiceStatus[q]
  <2> SUFFICES ASSUME NEW q \in Requests \ {r}
     PROVE ServiceStatus'[q] = ServiceStatus[q] OBVIOUS
  <2>1. phase'[q] = phase[q] /\ answers'[q] = answers[q] /\ config' = config BY <1>2, <1>t
  <2> QED BY <2>1 DEF ServiceStatus
<1>7. ServiceStatus' = [ServiceStatus EXCEPT ![r] = ServiceStatus'[r]]
  BY <1>6, Zenon DEF ServiceStatus
<1> QED BY <1>4, <1>5, <1>7 DEF Service!Submit, Service!Move

(* The scheduler's queues and loops implement the request service, for      *)
(* every number of requests and decode workers and every configuration: a   *)
(* promise is set once, and a request does not become pending again.        *)
THEOREM QueuesImplementService == Spec => ImplementsService
<1>1. Init => Service!Init
  BY DEF Init, Service!Init, ServiceStatus
<1>2. IInv /\ IInv' /\ [Next]_vars => [Service!Next]_ServiceStatus
  <2> SUFFICES ASSUME IInv, IInv', [Next]_vars PROVE [Service!Next]_ServiceStatus
    OBVIOUS
  <2>1. CASE \E r \in Requests : Generate(r)
    BY <2>1, GenerateSubmits DEF Service!Next
  <2>2. CASE ~ \E r \in Requests : Generate(r)
    BY <2>2, NothingSubmitted, AnswersOnly
  <2> QED BY <2>1, <2>2
<1> QED BY <1>1, <1>2, InitIInv, NextIInv, PTL DEF Spec, ImplementsService, Service!Spec
=============================================================================
