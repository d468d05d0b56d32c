---------------------------- MODULE TokenSlices ----------------------------
(***************************************************************************)
(* The life of one request inside the batch executor: the slices of the   *)
(* phased executor (runtime/execution/batch_executor.cpp) and the steps of *)
(* the step-wise decode worker (scheduler/scheduler.cpp), which may follow *)
(* one another for the same request.  Between two slices the request goes  *)
(* back to a queue and only its own fields survive; what the client has    *)
(* been sent cannot be taken back.                                         *)
(*                                                                         *)
(* A token is its index in the text the model produces for the prompt, 0   *)
(* stands for -1 (end of the text, or none).  A piece of text is a         *)
(* sequence of letters: "<" is the first half of a two-byte character, ">" *)
(* its second half, "c" the assembled character and "?" its replacement.   *)
(***************************************************************************)
EXTENDS Integers, SequencesExt

CONSTANTS
    Texts,          \* what the model says after the prompt, piece by piece
    PromptSize,     \* tokens of the prompt
    Budgets,        \* values of max_tokens
    Bursts,         \* values of decode_burst_tokens
    Timeslices,     \* values of fairness.max_timeslice_tokens
    Stops,          \* stop strings; the empty one never matches
    StepCap,        \* UnifiedBatchTokenCapacity of the backend
    ChunkSizes,     \* values of chunked_prefill_tokens
    Others,         \* most other requests in a batch
    EmptyText       \* kBackendEmptyResponseText

ASSUME SlicesAssumption ==
    /\ PromptSize \in Nat \ {0} /\ StepCap \in Nat \ {0} /\ Others \in Nat
    /\ Budgets \subseteq Nat \ {0} /\ ChunkSizes \subseteq Nat \ {0}
    /\ Bursts \subseteq Nat /\ Timeslices \subseteq Nat

VARIABLES
    task,      \* the request and the configuration, fixed at the start
    req,       \* the InferenceRequest: what survives between two slices
    exec,      \* the state of the current slice, or req.execution
    at,        \* where the request is: queued, phased, step or done
    rows,      \* the tokens its sequence holds, by position
    streamed,  \* the letters sent through on_token
    charged,   \* tokens recorded for the fairness metrics
    cancel,    \* the cancellation flag
    hit        \* a stop string has ended a slice (history)

sliceVars == <<task, req, exec, at, rows, streamed, charged, cancel, hit>>

-----------------------------------------------------------------------------
(* Pure parts. *)

AtLeastOne(n) == IF n < 1 THEN 1 ELSE n

Least(a, b) == IF a < b THEN a ELSE b

\* ComputePrefillChunkCap with mixed_prefill_budget_ratio = 1.
ComputePrefillChunkCap(cap, decodes, prefills, chunk) ==
    LET bounded == AtLeastOne(Least(chunk, cap))
        budget  == AtLeastOne(Least(bounded, AtLeastOne(cap)) - decodes)
    IN  IF prefills = 0 THEN bounded
        ELSE AtLeastOne(Least(bounded, budget \div prefills))

\* The incremental UTF-8 assembler: the pending half and the new letters.
Assemble(pending, piece) ==
    CASE piece = <<>>                 -> [text |-> <<>>, pending |-> pending]
      [] piece = <<"<">> /\ ~pending  -> [text |-> <<>>, pending |-> TRUE]
      [] piece = <<"<">> /\ pending   -> [text |-> <<"?">>, pending |-> TRUE]
      [] piece = <<">">> /\ pending   -> [text |-> <<"c">>, pending |-> FALSE]
      [] piece = <<">">> /\ ~pending  -> [text |-> <<"?">>, pending |-> FALSE]
      [] OTHER -> [text    |-> (IF pending THEN <<"?">> ELSE <<>>) \o piece,
                   pending |-> FALSE]

\* Finish: an unfinished character becomes its replacement.
Flush(pending) == IF pending THEN <<"?">> ELSE <<>>

\* ApplyStop: the text without a matched stop suffix, and the part of the new
\* letters that precedes it.
ApplyStop(new, output, stop) ==
    IF stop # <<>> /\ IsSuffix(stop, output)
    THEN LET keep == Len(output) - Len(stop)
             before == Len(output) - Len(new)
         IN  [text |-> SubSeq(output, 1, keep), stop |-> TRUE,
              emit |-> IF keep > before THEN SubSeq(new, 1, keep - before) ELSE <<>>]
    ELSE [text |-> output, stop |-> FALSE, emit |-> new]

Piece(tok) == IF tok \in 1..Len(task.text) THEN task.text[tok] ELSE <<>>

\* The backend's answer to a row: the token that follows the one fed, 0 at the
\* end of the text.
Following(tok) == IF tok < Len(task.text) THEN tok + 1 ELSE 0

\* AppendGeneratedPiece, on a slice whose text is `completion`.
AppendGeneratedPiece(r, e, piece) ==
    LET a == Assemble(r.utf8, piece)
        s == ApplyStop(a.text, e.completion \o a.text, task.stop)
    IN  IF a.text = <<>>
        THEN [req |-> [r EXCEPT !.utf8 = a.pending], exec |-> e,
              emit |-> <<>>, stop |-> FALSE]
        ELSE [req |-> [r EXCEPT !.utf8 = a.pending],
              exec |-> [e EXCEPT !.completion = s.text],
              emit |-> s.emit, stop |-> s.stop]

MaxNonEmittingSteps == 32      \* max(8 * max_tokens, 32) for small budgets

-----------------------------------------------------------------------------
(* Start: what the prefill of the scheduler hands over.  The prompt is     *)
(* resident and its first token sampled ("seeded"), or the prefill is left *)
(* to the batch, from the start or behind a copied prefix.                 *)

Prompt(n) == [i \in 1..n |-> 0]

Seeded == [n_past |-> PromptSize, offset |-> PromptSize,
           first_token |-> 1, first_piece |-> TRUE]

Deferred(n) == [n_past |-> n, offset |-> n, first_token |-> 0, first_piece |-> FALSE]

Starts == {Seeded} \cup {Deferred(n) : n \in 0..PromptSize - 1}

NoSlice == [active |-> FALSE, gen |-> 0, silent |-> 0, limit |-> 0, cur |-> 0,
            sliced |-> FALSE, in_prefill |-> FALSE, completion |-> <<>>]

SlicesInit ==
    \E text \in Texts, max \in Budgets, burst \in Bursts, slice \in Timeslices,
       stop \in Stops, chunk \in ChunkSizes, start \in Starts :
      /\ start = Seeded => text # <<>>
      /\ task = [text |-> text, max |-> max, burst |-> burst, slice |-> slice,
                 stop |-> stop, chunk |-> chunk]
      /\ req = [n_past |-> start.n_past, offset |-> start.offset,
                first_token |-> start.first_token, first_piece |-> start.first_piece,
                utf8 |-> FALSE, output |-> <<>>, remaining |-> max, total |-> 0]
      /\ rows = Prompt(start.n_past)
      /\ exec = NoSlice /\ at = "queued" /\ streamed = <<>> /\ charged = 0
      /\ cancel = FALSE /\ hit = FALSE

\* The batch the request is selected into: ApplyTimeslice.
ApplyTimeslice ==
    IF task.slice = 0 THEN 0
    ELSE IF req.remaining > 0 THEN Least(task.slice, req.remaining) ELSE task.slice

-----------------------------------------------------------------------------
(* The phased executor. *)

\* PlanFairnessSlice's limit.
DecodeLimit(slice) ==
    LET budget == Least(task.max, req.remaining)
        sliced == IF slice > 0 THEN Least(budget, slice) ELSE budget
    IN  AtLeastOne(IF task.burst > 0 THEN Least(sliced, task.burst) ELSE sliced)

\* The seeding loop of ExecuteUnifiedBatchPhased: the first token is sent if it
\* has not been, or the prefill goes on.
Seed(e) ==
    LET token == [e EXCEPT !.cur = req.first_token]
        visible == req.first_piece /\ Piece(req.first_token) # <<>>
        a == AppendGeneratedPiece(req, [token EXCEPT !.gen = @ + 1], Piece(req.first_token))
    IN  IF req.first_token # 0
        THEN IF visible
             THEN [a EXCEPT !.exec.active = ~(a.stop \/ cancel)]
             ELSE [req |-> req, exec |-> [token EXCEPT !.silent = 1],
                   emit |-> <<>>, stop |-> FALSE]
        ELSE [req |-> [req EXCEPT !.n_past = req.offset],
              exec |-> [e EXCEPT !.in_prefill = TRUE], emit |-> <<>>, stop |-> FALSE]

BeginPhased ==
    /\ at = "queued"
    /\ LET slice == ApplyTimeslice
           s == Seed([NoSlice EXCEPT !.active = TRUE, !.limit = DecodeLimit(slice),
                                     !.sliced = slice > 0 \/ task.burst > 0])
       IN  /\ req' = s.req /\ exec' = s.exec
           /\ streamed' = streamed \o s.emit
           /\ hit' = (hit \/ s.stop)
    /\ at' = "phased"
    /\ UNCHANGED <<task, rows, charged, cancel>>

\* A token the backend returned for this request's row, on either path.
Sampled(r, e, token) ==
    LET next == [e EXCEPT !.cur = token]
        a == AppendGeneratedPiece(r, [next EXCEPT !.gen = @ + 1], Piece(token))
    IN  IF token = 0
        THEN [req |-> r, exec |-> [e EXCEPT !.active = FALSE], emit |-> <<>>, stop |-> FALSE]
        ELSE IF Piece(token) # <<>>
        THEN [a EXCEPT !.exec.active = ~a.stop]
        ELSE [req |-> r, emit |-> <<>>, stop |-> FALSE,
              exec |-> [next EXCEPT !.silent = @ + 1,
                                    !.active = e.silent + 1 < MaxNonEmittingSteps]]

\* What a step does to the request's own row: one more chunk of the prompt, or
\* the current token at n_past.  The step-wise path moves n_past only behind the
\* last chunk.
PrefillStep(size) ==
    LET end == req.offset + size
        moved == [req EXCEPT !.offset = end,
                             !.n_past = IF at = "phased" \/ end >= PromptSize
                                        THEN end ELSE @]
    IN  IF end < PromptSize
        THEN [req |-> moved, exec |-> exec, emit |-> <<>>, stop |-> FALSE]
        ELSE Sampled(moved, [exec EXCEPT !.in_prefill = FALSE], Following(0))

DecodeStep == Sampled([req EXCEPT !.n_past = @ + 1], exec, Following(exec.cur))

\* A failed step: the request stops; a failed last chunk still moves the offset.
FailedStep(size) ==
    LET last == req.offset + size >= PromptSize
    IN  [req  |-> IF ~exec.in_prefill THEN [req EXCEPT !.n_past = @ + 1]
                  ELSE IF ~last THEN req
                  ELSE [req EXCEPT !.offset = PromptSize,
                                   !.n_past = IF at = "phased" THEN PromptSize ELSE @],
         exec |-> [exec EXCEPT !.active = FALSE, !.in_prefill = FALSE],
         emit |-> <<>>, stop |-> FALSE]

\* What the backend stores for the row: the tokens fed, at the position given.
Stored(size) ==
    IF exec.in_prefill THEN SubSeq(rows, 1, req.offset) \o Prompt(size)
    ELSE SubSeq(rows, 1, req.n_past) \o <<exec.cur>>

\* The request has a row in the next step.
HasRow == exec.active /\ ~cancel /\ (exec.in_prefill \/ exec.gen < exec.limit)

\* The progress a step leaves on the request: none on the phased path, the text
\* and the counters on the step-wise one (SyncUnifiedDecodeStepProgress).
Synced(r, e) ==
    IF at = "phased" THEN r
    ELSE [r EXCEPT !.output = e.completion, !.total = e.gen,
                   !.remaining = IF e.limit > e.gen THEN e.limit - e.gen ELSE 0,
                   !.first_token = IF e.active /\ (e.in_prefill \/ e.gen < e.limit)
                                   THEN e.cur ELSE @]

\* One call of the backend with the request's row and those of other requests.
Step ==
    /\ at \in {"phased", "step"} /\ HasRow
    /\ \E decodes \in 0..Others, prefills \in 0..Others :
         LET mine == IF exec.in_prefill THEN 1 ELSE 0
             size == Least(PromptSize - req.offset,
                           ComputePrefillChunkCap(StepCap, decodes + 1 - mine,
                                                  prefills + mine, task.chunk))
             ok == IF exec.in_prefill THEN PrefillStep(size) ELSE DecodeStep
             failed == FailedStep(size)
         IN  \/ /\ exec' = ok.exec /\ req' = Synced(ok.req, ok.exec)
                /\ rows' = Stored(size)
                /\ streamed' = streamed \o ok.emit
                /\ hit' = (hit \/ ok.stop)
             \/ /\ exec' = failed.exec /\ req' = Synced(failed.req, failed.exec)
                /\ UNCHANGED <<rows, streamed, hit>>
    /\ UNCHANGED <<task, at, charged, cancel>>

\* FinalizeFairnessSlice: the slice used up its limit and the budget is not spent.
Yields(after) == exec.sliced /\ exec.gen >= exec.limit /\ after > 0

\* The prompt is charged with the first slice.
PromptCharge == IF req.total = 0 THEN PromptSize ELSE 0

\* Mutant of Requeued: the request keeps the piece it has already sent.
RequeuedWithPiece(r) == [r EXCEPT !.first_token = exec.cur, !.first_piece = TRUE]

\* What a yielding request keeps for its next slice.
Requeued(r) == [r EXCEPT !.first_token = exec.cur, !.first_piece = FALSE]

\* The end of ExecuteUnifiedBatchPhased and FinalizeFairnessSlice; the request
\* goes back to a queue or its result is assembled from accumulated_output.
FinalizeSlice ==
    /\ at = "phased" /\ ~HasRow
    /\ LET after == IF req.remaining > exec.gen THEN req.remaining - exec.gen ELSE 0
           text == IF exec.gen = 0 /\ exec.completion = <<>> THEN <<EmptyText>>
                   ELSE exec.completion
           tail == IF Yields(after) THEN <<>> ELSE Flush(req.utf8)
           kept == IF text \o tail \in {<<>>, <<EmptyText>>} THEN <<>> ELSE text \o tail
           r == [req EXCEPT !.total = @ + exec.gen, !.remaining = after,
                            !.output = @ \o kept]
       IN  /\ charged' = charged + exec.gen + PromptCharge
           /\ streamed' = streamed \o tail
           /\ IF Yields(after)
              THEN req' = Requeued(r) /\ exec' = NoSlice /\ at' = "queued"
              ELSE /\ req' = [r EXCEPT !.first_token = 0, !.first_piece = FALSE,
                                       !.utf8 = FALSE]
                   /\ exec' = [NoSlice EXCEPT !.completion =
                                  IF r.output # <<>> THEN r.output ELSE text \o tail]
                   /\ at' = "done"
    /\ UNCHANGED <<task, rows, cancel, hit>>

-----------------------------------------------------------------------------
(* The step-wise path of the decode worker, when no burst is configured.   *)

\* PrimeUnifiedDecodeStepState.
Prime ==
    /\ at = "queued" /\ task.burst = 0
    /\ at' = "step"
    /\ LET e == [NoSlice EXCEPT !.active = TRUE, !.gen = req.total,
                                !.limit = req.total + req.remaining,
                                !.sliced = TRUE, !.completion = req.output]
           s == Seed(e)
           open == s.exec.active /\ ~cancel
                     /\ (s.exec.in_prefill \/ s.exec.gen < s.exec.limit)
           primed == [s.exec EXCEPT !.active = open]
       IN  /\ exec' = primed
           /\ req' = [s.req EXCEPT !.first_piece = FALSE, !.output = primed.completion,
                                   !.total = primed.gen,
                                   !.remaining = primed.limit - primed.gen]
           /\ streamed' = streamed \o s.emit
           /\ hit' = (hit \/ s.stop)
    /\ UNCHANGED <<task, rows, charged, cancel>>

\* FinalizeUnifiedDecodeStepResult.
FinalizeStep ==
    /\ at = "step" /\ ~HasRow
    /\ at' = "done"
    /\ LET text == exec.completion \o Flush(req.utf8)
       IN  /\ streamed' = streamed \o Flush(req.utf8)
           /\ req' = [req EXCEPT !.output = text, !.utf8 = FALSE]
           /\ exec' = [NoSlice EXCEPT !.completion =
                          IF text = <<>> THEN <<EmptyText>> ELSE text]
    /\ UNCHANGED <<task, rows, charged, cancel, hit>>

\* The client hangs up.
CancelRequest ==
    /\ at # "done" /\ ~cancel
    /\ cancel' = TRUE
    /\ UNCHANGED <<task, req, exec, at, rows, streamed, charged, hit>>

SlicesNext ==
    BeginPhased \/ Step \/ FinalizeSlice \/ Prime \/ FinalizeStep \/ CancelRequest

SlicesSpec == SlicesInit /\ [][SlicesNext]_sliceVars

-----------------------------------------------------------------------------
(* Properties. *)

\* The letters the first n pieces make, with an unfinished character pending.
Assembled(n) ==
    LET Add(before, piece) ==
          LET a == Assemble(before.pending, piece)
          IN  [text |-> before.text \o a.text, pending |-> a.pending]
    IN  FoldLeft(Add, [text |-> <<>>, pending |-> FALSE],
                 SelectSeq(SubSeq(task.text, 1, n), LAMBDA piece : piece # <<>>))

\* The type of every variable.
SlicesTypeOK ==
    /\ at \in {"queued", "phased", "step", "done"}
    /\ req.n_past \in Nat /\ req.offset \in 0..PromptSize
    /\ req.first_token \in 0..Len(task.text)
    /\ req.remaining \in 0..task.max /\ req.total \in Nat
    /\ exec.cur \in 0..Len(task.text) /\ exec.limit \in Nat
    /\ {req.utf8, req.first_piece, exec.active, exec.in_prefill, cancel, hit}
         \subseteq BOOLEAN
    /\ charged \in Nat

\* Over any number of slices and steps, and both executors in turn, the
\* request's sequence holds the prompt and then every generated token once and
\* in order: the row of a step is fed the right token at the right position.
FedInOrder ==
    rows = Prompt(Least(Len(rows), PromptSize))
             \o [i \in 1..(IF Len(rows) > PromptSize THEN Len(rows) - PromptSize ELSE 0)
                    |-> i]

\* What the client has received is the beginning of the model's text, each
\* letter once and in order, although the pieces were produced in several
\* slices; only the end of the answer may replace an unfinished character.
StreamIsText ==
    LET all == Assembled(Len(task.text))
        text == all.text \o Flush(all.pending)
    IN  task.stop = <<>> =>
          \/ IsPrefix(streamed, text)
          \/ at = "done" /\ \E n \in 0..Len(task.text) :
               Assembled(n).pending /\ streamed = Assembled(n).text \o <<"?">>

\* A finished request never produced more visible tokens than max_tokens, however
\* often its budget was divided.
WithinBudget == req.total <= task.max /\ exec.gen <= task.max

\* The fairness metrics were charged the prompt once, and each token of the
\* phased slices once.
ChargedOnce == charged \in {0} \cup (PromptSize..PromptSize + task.max)

\* Without slices a matched stop string ends the answer: nothing more is sent.
StopEndsUnslicedAnswer ==
    [][hit /\ task.burst = 0 /\ task.slice = 0 => streamed' = streamed]_sliceVars

\* A matched stop string ends the answer.
StopEndsAnswer == [][hit => streamed' = streamed]_sliceVars

\* The text of the result, put together from the slices, is the text that was
\* streamed, unless a stop string was cut off it or the answer ended inside a
\* character.
ResultIsStream ==
    at = "done" /\ ~hit /\ exec.completion # <<EmptyText>> /\ ~IsSuffix(<<"?">>, streamed)
      => exec.completion = streamed

\* The same for every answer no stop string ended.
ResultIsAlwaysStream ==
    at = "done" /\ ~hit /\ exec.completion # <<EmptyText>> => exec.completion = streamed

\* However an answer is divided into slices and steps: the backend is fed each
\* token once and in order, the client receives the model's text, the budget and
\* the charge are those of one request, the result is what was streamed, and
\* nothing is sent behind a stop string of an unsliced answer.
SlicesSafe ==
    /\ [](/\ SlicesTypeOK
          /\ FedInOrder
          /\ StreamIsText
          /\ WithinBudget
          /\ ChargedOnce
          /\ ResultIsStream)
    /\ StopEndsUnslicedAnswer
=============================================================================
