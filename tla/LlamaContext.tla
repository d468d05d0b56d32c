---------------------------- MODULE LlamaContext ----------------------------
(***************************************************************************)
(* The llama.cpp adapter (runtime/backends/llama/llama_cpp_backend.cpp) as *)
(* the scheduler's worker thread drives it: one context shared by every    *)
(* sequence, one buffer for the logits of the last llama_decode.  A batch  *)
(* of requests is first prefilled, then the phased ones run a slice        *)
(* together, then the others run one by one: structured output, logprobs   *)
(* and images through Generate, and a request whose first token ended the  *)
(* text through Decode.                                                    *)
(*                                                                         *)
(* llama.cpp itself is external: llama_decode stores a row only behind the *)
(* last position of its sequence and inside n_ctx_seq, and fails as a      *)
(* whole otherwise; on recurrent memory a suffix cannot be erased.         *)
(***************************************************************************)
EXTENDS Integers, SequencesExt

CONSTANTS
    LlamaReqs,     \* requests
    Prompts,       \* the prompts they may have: functions to sequences of tokens
    Stateless,     \* requests served by Generate
    NSeq,          \* SequenceCapacity: sequences 0 .. NSeq - 1
    CtxSeq,        \* n_ctx_seq
    TokenCap,      \* EffectiveBatchTokenCap
    Memories,      \* kinds of memory: subset of {"plain", "recurrent"}
    MaxFails,      \* bound on failures of llama_decode that have no cause here
    MaxOut,        \* max_tokens of every request
    Junk           \* what a context no request has yields

ASSUME LlamaAssumption ==
    /\ NSeq \in Nat \ {0} /\ CtxSeq \in Nat \ {0, 1} /\ TokenCap \in Nat \ {0}
    /\ MaxFails \in Nat /\ MaxOut \in Nat \ {0}
    /\ Memories \subseteq {"plain", "recurrent"} /\ Stateless \subseteq LlamaReqs
    /\ \A f \in Prompts, r \in LlamaReqs : Len(f[r]) \in 1..CtxSeq

VARIABLES
    PromptOf,  \* the prompt of each request
    memory,    \* the kind of memory of the model
    cells,     \* per sequence, the tokens stored by position
    logits,    \* the context behind the last row of the last llama_decode
    progress,  \* per request: new, held, ended, failed, donor or done
    seqOf,     \* per request, its sequence (-1: none)
    n_past,    \* per request, the position of its next row
    cur,       \* per request, the token to feed next
    out,       \* per request, the tokens it was answered with
    slid,      \* requests whose oldest rows were evicted
    running,   \* the request inside Generate or Decode, with its loop
    stage,     \* of the batch: prefill, phased or single
    fails,     \* failures so far
    damaged,   \* requests whose stored rows Generate or a sliding window took, and
               \* those that copied such rows (history)
    unseeded,  \* requests Decode continued without a first token (history)
    misfit     \* which call submitted rows behind the wrong position, and whose rows
               \* it took to be there (history)

llamaVars == <<PromptOf, memory, cells, logits, progress, seqOf, n_past, cur, out, slid,
               running, stage, fails, damaged, unseeded, misfit>>

Seqs == 0..NSeq - 1

Nobody == [req |-> Junk, by |-> "", seq |-> 0, pos |-> 0, left |-> 0]

LlamaInit ==
    /\ PromptOf \in Prompts /\ memory \in Memories
    /\ cells = [s \in Seqs |-> <<>>] /\ logits = <<>>
    /\ progress = [r \in LlamaReqs |-> "new"]
    /\ seqOf = [r \in LlamaReqs |-> -1]
    /\ n_past = [r \in LlamaReqs |-> 0]
    /\ cur = [r \in LlamaReqs |-> Junk]
    /\ out = [r \in LlamaReqs |-> <<>>]
    /\ slid = {} /\ running = Nobody /\ stage = "prefill" /\ fails = 0
    /\ damaged = {} /\ unseeded = {} /\ misfit = {}

-----------------------------------------------------------------------------
(* The context.  What the model answers to a prompt is the prompt's. *)

Answer(r, k) == [i \in 1..k |-> <<PromptOf[r], i>>]

\* The token the model samples behind a context: the next one of the request
\* whose text the context is, whole or, after an eviction, its end.
Sample(context) ==
    LET Whose(r, k) ==
          \/ context = PromptOf[r] \o Answer(r, k)
          \/ r \in slid /\ context # <<>> /\ IsSuffix(context, PromptOf[r] \o Answer(r, k))
        fits == {rk \in LlamaReqs \X (0..MaxOut) : Whose(rk[1], rk[2])}
    IN  IF fits = {} THEN Junk
        ELSE LET rk == CHOOSE rk \in fits : TRUE IN <<PromptOf[rk[1]], rk[2] + 1>>

\* Rows behind the last position of sequence s, within its capacity.
Fits(c, s, pos, tokens) == pos = Len(c[s]) /\ pos + Len(tokens) <= CtxSeq

\* llama_memory_seq_rm of the suffix from n on; it cannot be done on recurrent
\* memory unless the whole sequence goes or nothing does.
CanTrim(c, s, n) == memory = "plain" \/ n = 0 \/ n >= Len(c[s])

Trimmed(c, s, n) == [c EXCEPT ![s] = SubSeq(@, 1, IF n < Len(@) THEN n ELSE Len(@))]

FreeSequence(c, s) == [c EXCEPT ![s] = <<>>]

\* TruncateSequence: when the suffix cannot be erased the sequence is cleared.
TruncateSequence(c, s, n) ==
    IF CanTrim(c, s, n) THEN [ok |-> TRUE, cells |-> Trimmed(c, s, n)]
    ELSE [ok |-> FALSE, cells |-> FreeSequence(c, s)]

\* CopySequencePrefix: the whole source is copied, then trimmed to n tokens.
CopySequencePrefix(c, from, to, n) ==
    LET copied == [c EXCEPT ![to] = c[from]]
    IN  IF CanTrim(copied, to, n) THEN [ok |-> TRUE, cells |-> Trimmed(copied, to, n)]
        ELSE [ok |-> FALSE, cells |-> FreeSequence(c, to)]

\* The sliding window of Generate, Decode and BatchDecodeStep: the oldest rows
\* go and the others move down.
Slides(pos) == pos >= CtxSeq - 1

Discard(pos) == pos - CtxSeq \div 2 + 1

Window(rows, pos) ==
    IF Slides(pos)
    THEN [rows |-> SubSeq(rows, Discard(pos) + 1, Len(rows)),
          pos  |-> pos - Discard(pos)]
    ELSE [rows |-> rows, pos |-> pos]

-----------------------------------------------------------------------------
(* ExecuteUnifiedBatch: one llama_decode for the tokens of all inputs.     *)

\* Where the tokens of input i begin in the batch.
Offset(inputs, i) == FoldLeft(LAMBDA n, x : n + Len(x.tokens), 0, SubSeq(inputs, 1, i - 1))

\* Mutant of logit_indices: the ordinal among the inputs that ask for logits.
logit_ordinals(inputs) ==
    [i \in DOMAIN inputs |->
       IF inputs[i].tokens # <<>> /\ inputs[i].request_logits
       THEN Len(SelectSeq(SubSeq(inputs, 1, i - 1), LAMBDA x : x.request_logits)) ELSE -1]

\* The index in the batch, from 0, of the row whose logits input i is given.
logit_indices(inputs) ==
    [i \in DOMAIN inputs |->
       IF inputs[i].tokens # <<>> /\ inputs[i].request_logits
       THEN Offset(inputs, i) + Len(inputs[i].tokens) - 1 ELSE -1]

\* The rows of the batch: the context behind each token, where logits are kept.
BatchRows(c, inputs) ==
    FlattenSeq([i \in DOMAIN inputs |->
      [j \in DOMAIN inputs[i].tokens |->
         IF j = Len(inputs[i].tokens) /\ inputs[i].request_logits
         THEN c[inputs[i].seq] \o inputs[i].tokens ELSE <<>>]])

ExecuteUnifiedBatch(c, inputs) ==
    LET rows == BatchRows(c, inputs)
    IN  [ok |-> /\ Len(rows) <= TokenCap
                /\ \A i \in DOMAIN inputs :
                     Fits(c, inputs[i].seq, inputs[i].n_past, inputs[i].tokens),
         cells |-> [s \in Seqs |->
           IF \E i \in DOMAIN inputs : inputs[i].seq = s
           THEN c[s] \o inputs[CHOOSE i \in DOMAIN inputs : inputs[i].seq = s].tokens
           ELSE c[s]],
         logits |-> [i \in DOMAIN inputs |->
           IF logit_indices(inputs)[i] < 0 THEN <<>> ELSE rows[logit_indices(inputs)[i] + 1]]]

-----------------------------------------------------------------------------
(* Prefill: one request is admitted to a sequence. *)

FreeSeqs == {s \in Seqs : \A r \in LlamaReqs : seqOf[r] # s}

Donors == {d \in LlamaReqs : progress[d] = "donor"}

Common(p, q) ==
    CHOOSE n \in 0..Len(p) :
        /\ IsPrefix(SubSeq(p, 1, n), q)
        /\ n < Len(p) => ~IsPrefix(SubSeq(p, 1, n + 1), q)

\* ResolvePrefixReuse: n tokens of the prompt are taken to be resident, all but
\* the last when the whole prompt matches.  A retained prefix is copied to a
\* free sequence; a session goes on in its own.
ResolvePrefixReuse(r) ==
    LET Clamped(n) == IF n >= Len(PromptOf[r]) THEN Len(PromptOf[r]) - 1 ELSE n
        Copy(d, s) ==
          LET n == Clamped(Common(PromptOf[r], PromptOf[d]))
              copy == CopySequencePrefix(cells, seqOf[d], s, n)
          IN  [seq |-> s, cells |-> copy.cells, n |-> IF copy.ok THEN n ELSE 0,
               copied |-> copy.ok, from |-> {d}, session |-> FALSE]
    IN  {[seq |-> s, cells |-> cells, n |-> 0, copied |-> FALSE, from |-> {}, session |-> FALSE]
           : s \in FreeSeqs}
        \cup {Copy(d, s) : d \in {d \in Donors : Common(PromptOf[r], PromptOf[d]) > 0},
                           s \in FreeSeqs}
        \cup {[seq |-> seqOf[d], cells |-> cells, n |-> Clamped(Len(PromptOf[d])),
               copied |-> TRUE, from |-> {d}, session |-> TRUE]
                : d \in {d \in Donors : IsPrefix(PromptOf[d], PromptOf[r])}}

\* ExecutePhasedPrefillStep: where the prefill starts, and what is erased first.
Start(r, reuse) ==
    LET cut == TruncateSequence(reuse.cells, reuse.seq, reuse.n)
    IN  IF reuse.n = 0 THEN [cells |-> FreeSequence(reuse.cells, reuse.seq), start |-> 0]
        ELSE [cells |-> cut.cells, start |-> IF cut.ok THEN reuse.n ELSE 0]

\* The chunks of the prompt from `start` on, as far as they all succeed; a
\* failing one leaves the chunks before it.
Chunks(r, s, c, start, failAt) ==
    LET rest == SubSeq(PromptOf[r], start + 1, Len(PromptOf[r]))
        done == IF failAt < Len(rest) THEN failAt - (failAt % TokenCap) ELSE Len(rest)
    IN  IF ~Fits(c, s, start, rest)
        THEN [ok |-> FALSE, cells |-> c]
        ELSE [ok |-> failAt >= Len(rest),
              cells |-> [c EXCEPT ![s] = @ \o SubSeq(rest, 1, done)]]

\* The logits the phased step samples: ExecuteUnifiedBatch is given its last chunk.
LastChunkLogits(r, s, c, start) ==
    LET n == Len(PromptOf[r])
        first == start + ((n - start - 1) \div TokenCap) * TokenCap
        chunk == [seq |-> s, n_past |-> first, tokens |-> SubSeq(PromptOf[r], first + 1, n),
                  request_logits |-> TRUE]
    IN  ExecuteUnifiedBatch(Trimmed(c, s, first), <<chunk>>).logits[1]

\* A prefill that succeeded: the request holds its sequence and the first token,
\* or the text ended there (first_token is -1).
Prefilled(r, s, c, row, warm) ==
    \E ends \in BOOLEAN :
      /\ cells' = c /\ logits' = row
      /\ n_past' = [n_past EXCEPT ![r] = Len(PromptOf[r])]
      /\ seqOf' = [q \in LlamaReqs |-> IF q = r THEN s ELSE IF seqOf[q] = s THEN -1 ELSE seqOf[q]]
      /\ progress' = [q \in LlamaReqs |->
           IF q = r THEN IF ends THEN "ended" ELSE "held"
           ELSE IF seqOf[q] = s THEN "done" ELSE progress[q]]
      /\ cur' = [cur EXCEPT ![r] = IF ends THEN Junk ELSE Sample(row)]
      /\ out' = [out EXCEPT ![r] = IF ends THEN <<>> ELSE <<Sample(row)>>]
      /\ damaged' = IF warm \cap damaged # {} THEN damaged \cup {r} ELSE damaged

\* ExecutePhasedPrefillStep, then PrefillPartial behind a copied prefix, then a
\* full Prefill, which clears the sequence; a request that fails all of them
\* gives the sequence back and is served by Generate.  The chunk at failAt fails
\* for no cause of its own.
PrefillRequest(r) ==
    /\ stage = "prefill" /\ running = Nobody
    /\ progress[r] = "new" /\ r \notin Stateless
    /\ \E failAt \in 0..CtxSeq, reuse \in ResolvePrefixReuse(r) :
         LET s == reuse.seq
             begun == Start(r, reuse)
             injected == failAt < Len(PromptOf[r]) - begun.start
             step == Chunks(r, s, begun.cells, begun.start, failAt)
             part == Chunks(r, s, step.cells, reuse.n, CtxSeq)
             full == Chunks(r, s, FreeSequence(step.cells, s), 0, CtxSeq)
             of == reuse.from \cup {r}
             tried == IF Len(begun.cells[s]) = begun.start THEN {} ELSE {[of |-> of, by |-> "step"]}
             again == IF step.ok \/ ~reuse.copied \/ Len(step.cells[s]) = reuse.n THEN {}
                      ELSE {[of |-> of, by |-> "partial"]}
         IN  /\ injected => fails < MaxFails
             /\ injected \/ failAt = CtxSeq
             /\ fails' = IF injected THEN fails + 1 ELSE fails
             /\ misfit' = misfit \cup tried \cup again
             /\ IF step.ok
                THEN Prefilled(r, s, step.cells, LastChunkLogits(r, s, step.cells, begun.start),
                               IF begun.start > 0 THEN reuse.from ELSE {})
                ELSE IF reuse.copied /\ part.ok
                THEN Prefilled(r, s, part.cells, part.cells[s],
                               IF reuse.n > 0 THEN reuse.from ELSE {})
                ELSE \/ full.ok /\ Prefilled(r, s, full.cells, full.cells[s], {})
                     \/ /\ cells' = FreeSequence(step.cells, s)
                        /\ progress' = [q \in LlamaReqs |->
                             IF q = r THEN "failed" ELSE IF seqOf[q] = s THEN "done" ELSE progress[q]]
                        /\ seqOf' = [q \in LlamaReqs |-> IF seqOf[q] = s THEN -1 ELSE seqOf[q]]
                        /\ UNCHANGED <<logits, n_past, cur, out, damaged>>
    /\ UNCHANGED <<PromptOf, memory, slid, running, stage, unseeded>>

\* Without a free sequence, or without blocks, the request is served by Generate.
NotAdmitted(r) ==
    /\ stage = "prefill" /\ running = Nobody
    /\ progress[r] = "new" /\ r \notin Stateless
    /\ progress' = [progress EXCEPT ![r] = "failed"]
    /\ UNCHANGED <<PromptOf, memory, cells, logits, seqOf, n_past, cur, out, slid, running,
           stage,
                   fails, damaged, unseeded, misfit>>

-----------------------------------------------------------------------------
(* Phased slices: ExecuteUnifiedBatch with a row for every held request.   *)

HeldReqs == {r \in LlamaReqs : progress[r] = "held" /\ Len(out[r]) < MaxOut}

\* The rows of a step, in the order of the batch; a cancelled request has none.
StepInputs(order) ==
    [i \in DOMAIN order |-> [seq |-> seqOf[order[i]], n_past |-> n_past[order[i]],
                             tokens |-> <<cur[order[i]]>>, request_logits |-> TRUE]]

\* One step: every row is stored and its own logits sampled, or none is.
UnifiedStep ==
    /\ stage = "phased" /\ running = Nobody /\ HeldReqs # {}
    /\ \E rows \in SUBSET HeldReqs \ {{}} : \E order \in SetToSeqs(rows), ends \in SUBSET rows :
         LET step == ExecuteUnifiedBatch(cells, StepInputs(order))
             Own(r) == step.logits[CHOOSE i \in DOMAIN order : order[i] = r]
             cancelled == HeldReqs \ rows
         IN  /\ \/ /\ step.ok
                   /\ cells' = step.cells /\ logits' = Last(step.logits)
                   /\ n_past' = [r \in LlamaReqs |-> n_past[r] + IF r \in rows THEN 1 ELSE 0]
                   /\ cur' = [r \in LlamaReqs |->
                        IF r \in rows \ ends THEN Sample(Own(r)) ELSE cur[r]]
                   /\ out' = [r \in LlamaReqs |->
                        IF r \in rows \ ends THEN Append(out[r], Sample(Own(r))) ELSE out[r]]
                   /\ progress' = [r \in LlamaReqs |->
                        IF r \in ends \cup cancelled THEN "done" ELSE progress[r]]
                   /\ UNCHANGED fails
                \/ /\ ends = {}
                   /\ ~step.ok \/ (fails < MaxFails)
                   /\ fails' = IF step.ok THEN fails + 1 ELSE fails
                   /\ progress' = [r \in LlamaReqs |-> IF r \in HeldReqs THEN "done" ELSE progress[r]]
                   /\ UNCHANGED <<cells, logits, n_past, cur, out>>
             /\ misfit' = misfit \cup
                  {[of |-> {r}, by |-> "unified"] : r \in {r \in rows : Len(cells[seqOf[r]]) # n_past[r]}}
    /\ UNCHANGED <<PromptOf, memory, seqOf, slid, running, stage, damaged, unseeded>>

\* The slice ends: requests that used up their budget are finished, the others
\* stay held for the next batch.
SliceEnds ==
    /\ stage = "phased" /\ running = Nobody
    /\ progress' = [r \in LlamaReqs |->
         IF progress[r] = "held" /\ Len(out[r]) >= MaxOut THEN "done" ELSE progress[r]]
    /\ stage' = "single"
    /\ UNCHANGED <<PromptOf, memory, cells, logits, seqOf, n_past, cur, out, slid, running,
                   fails, damaged, unseeded, misfit>>

-----------------------------------------------------------------------------
(* One by one: Generate on sequence 0, Decode on the request's own.        *)

\* Generate (and GenerateWithImages, which falls back to it): sequence 0 is
\* cleared, whoever holds it, and the prompt fed to it in chunks; when one fails
\* the answer is empty.
GenerateStart(r) ==
    /\ stage = "single" /\ running = Nobody
    /\ (progress[r] = "new" /\ r \in Stateless) \/ progress[r] = "failed"
    /\ \E failAt \in 0..Len(PromptOf[r]) :
         LET prompt == Chunks(r, 0, FreeSequence(cells, 0), 0, failAt)
         IN  /\ cells' = prompt.cells
             /\ IF prompt.ok
                THEN /\ logits' = prompt.cells[0]
                     /\ running' = [req |-> r, by |-> "generate", seq |-> 0,
                                    pos |-> Len(PromptOf[r]), left |-> MaxOut]
                     /\ UNCHANGED <<progress, fails>>
                ELSE /\ fails < MaxFails /\ fails' = fails + 1
                     /\ progress' = [progress EXCEPT ![r] = "done"]
                     /\ UNCHANGED <<logits, running>>
    /\ damaged' = damaged \cup {q \in LlamaReqs : seqOf[q] = 0}
    /\ UNCHANGED <<PromptOf, memory, seqOf, n_past, cur, out, slid, stage, unseeded, misfit>>

\* ExecuteRequest calls Decode for a request without a first token: it samples
\* from the logits that are there.
DecodeStart(r) ==
    /\ stage = "single" /\ running = Nobody
    /\ progress[r] = "ended"
    /\ running' = [req |-> r, by |-> "decode", seq |-> seqOf[r], pos |-> n_past[r], left |-> MaxOut]
    /\ unseeded' = unseeded \cup {r}
    /\ UNCHANGED <<PromptOf, memory, cells, logits, progress, seqOf, n_past, cur, out, slid,
                   stage, fails, damaged, misfit>>

LoopEnds(r) ==
    /\ running' = Nobody
    /\ progress' = [progress EXCEPT ![r] = "done"]

\* One turn of the loop: sample, emit, evict if the window is full, feed.
\* Generate ends before it feeds the last token, Decode after.
LoopStep ==
    /\ running # Nobody
    /\ LET r == running.req
           s == running.seq
           token == Sample(logits)
           moved == Window(cells[s], running.pos)
           slides == [cells EXCEPT ![s] = moved.rows]
           fed == Append(moved.rows, token)
           fits == Fits(slides, s, moved.pos, <<token>>)
       IN  \/ /\ LoopEnds(r)                     \* end of text, or cancelled
              /\ UNCHANGED <<cells, logits, out, slid, fails, damaged, misfit>>
           \/ /\ running.left > 0
              /\ out' = [out EXCEPT ![r] = Append(@, token)]
              /\ IF running.by = "generate" /\ running.left = 1
                 THEN LoopEnds(r) /\ UNCHANGED <<cells, logits, slid, fails, damaged, misfit>>
                 ELSE /\ misfit' = IF Len(moved.rows) = moved.pos THEN misfit
                                   ELSE misfit \cup {[of |-> {r}, by |-> "loop"]}
                      /\ slid' = IF Slides(running.pos) THEN slid \cup {r} ELSE slid
                      /\ damaged' = IF Slides(running.pos) /\ running.by = "decode"
                                    THEN damaged \cup {r} ELSE damaged
                      /\ \/ /\ fits
                            /\ cells' = [cells EXCEPT ![s] = fed] /\ logits' = fed
                            /\ IF running.left = 1 THEN LoopEnds(r)
                               ELSE /\ running' = [running EXCEPT !.pos = moved.pos + 1,
                                                                  !.left = @ - 1]
                                    /\ UNCHANGED progress
                            /\ UNCHANGED fails
                         \/ /\ ~fits \/ fails < MaxFails
                            /\ fails' = IF fits THEN fails + 1 ELSE fails
                            /\ cells' = slides /\ LoopEnds(r)
                            /\ UNCHANGED logits
    /\ UNCHANGED <<PromptOf, memory, seqOf, n_past, cur, stage, unseeded>>

-----------------------------------------------------------------------------
(* The end of a request, and of a batch. *)

\* A finished request gives its sequence back, or leaves it as a donor.
ReleaseSequence(r) ==
    /\ stage = "single" /\ running = Nobody /\ progress[r] = "done" /\ seqOf[r] >= 0
    /\ \/ /\ cells' = FreeSequence(cells, seqOf[r])
          /\ seqOf' = [seqOf EXCEPT ![r] = -1] /\ UNCHANGED progress
       \/ progress' = [progress EXCEPT ![r] = "donor"] /\ UNCHANGED <<cells, seqOf>>
    /\ UNCHANGED <<PromptOf, memory, logits, n_past, cur, out, slid, running, stage, fails,
           damaged, unseeded, misfit>>

\* A donor is evicted.
EvictDonor(r) ==
    /\ stage = "prefill" /\ running = Nobody /\ progress[r] = "donor"
    /\ cells' = FreeSequence(cells, seqOf[r])
    /\ seqOf' = [seqOf EXCEPT ![r] = -1]
    /\ progress' = [progress EXCEPT ![r] = "done"]
    /\ UNCHANGED <<PromptOf, memory, logits, n_past, cur, out, slid, running, stage, fails,
           damaged, unseeded, misfit>>

\* A retained session is serialized and hydrated into another sequence.
MoveDonor(r) ==
    /\ stage = "prefill" /\ running = Nobody /\ progress[r] = "donor"
    /\ \E s \in FreeSeqs :
         /\ cells' = [FreeSequence(cells, seqOf[r]) EXCEPT ![s] = cells[seqOf[r]]]
         /\ seqOf' = [seqOf EXCEPT ![r] = s]
    /\ UNCHANGED <<PromptOf, memory, logits, progress, n_past, cur, out, slid, running, stage,
                   fails, damaged, unseeded, misfit>>

NextStage ==
    /\ running = Nobody
    /\ \/ stage = "prefill" /\ stage' = "phased"
       \/ /\ stage = "single" /\ stage' = "prefill"
          /\ \A r \in LlamaReqs : progress[r] = "done" => seqOf[r] < 0
    /\ UNCHANGED <<PromptOf, memory, cells, logits, progress, seqOf, n_past, cur, out, slid,
                   running, fails, damaged, unseeded, misfit>>

LlamaNext ==
    \/ \E r \in LlamaReqs :
         PrefillRequest(r) \/ NotAdmitted(r) \/ GenerateStart(r) \/ DecodeStart(r)
         \/ ReleaseSequence(r) \/ EvictDonor(r) \/ MoveDonor(r)
    \/ UnifiedStep \/ SliceEnds \/ LoopStep \/ NextStage

LlamaSpec == LlamaInit /\ [][LlamaNext]_llamaVars

-----------------------------------------------------------------------------
(* Properties. *)

\* The type of every variable.
LlamaTypeOK ==
    /\ \A s \in Seqs : Len(cells[s]) <= CtxSeq
    /\ \A r \in LlamaReqs :
         /\ progress[r] \in {"new", "held", "ended", "failed", "donor", "done"}
         /\ seqOf[r] \in Seqs \cup {-1} /\ n_past[r] \in 0..CtxSeq
         /\ Len(out[r]) <= MaxOut
    /\ stage \in {"prefill", "phased", "single"}
    /\ fails \in 0..MaxFails /\ slid \subseteq LlamaReqs

\* Every answer is the request's own text, token by token, whatever prefixes were
\* copied to its sequence, whatever could not be erased, whichever chunk failed
\* and whoever else was in the batch: phased, after a fallback to Generate, and
\* when Generate slides its window.  The exceptions are the requests the adapter
\* does not protect: `damaged` (Generate cleared the sequence they held, their
\* window slid in Decode, or they copied from such a request) and `unseeded`
\* (Decode without a first token samples the logits of whoever ran last).
OwnTokens ==
    \A r \in LlamaReqs \ (damaged \cup unseeded) : out[r] = Answer(r, Len(out[r]))

\* The rows of a sequence are its holder's, and the next position is behind them:
\* the prompt and the tokens fed so far, or at least the prompt of a donor.
OwnRows ==
    \A r \in LlamaReqs \ damaged :
        /\ progress[r] = "held" =>
             /\ cells[seqOf[r]] = PromptOf[r] \o Answer(r, Len(out[r]) - 1)
             /\ n_past[r] = Len(cells[seqOf[r]])
        /\ progress[r] \in {"ended", "donor"} => IsPrefix(PromptOf[r], cells[seqOf[r]])

\* No row is submitted behind the wrong position of its sequence, which would fail
\* the call for all requests of the step, except behind the rows of a damaged
\* request and by PrefillPartial, which does not erase what a failed step left and is followed
\* by a Prefill that does: a reused sequence is cleared, or truncated, or, where
\* its suffix cannot be erased, cleared and prefilled from the start.
PositionsMatch == \A m \in misfit : m.of \cap damaged # {} \/ m.by = "partial"

\* A request is answered with its own text.
AnsweredWithOwnText == \A r \in LlamaReqs : out[r] = Answer(r, Len(out[r]))

\* A request at the end of its context is given room before its next row, so
\* that the step does not fail for it and for all the others.
ContextShifts ==
    stage = "phased" => \A r \in HeldReqs : n_past[r] < CtxSeq

\* A sequence that a request or a retained prefix holds keeps its rows.
HeldRowsSurvive ==
    \A r \in LlamaReqs : progress[r] \in {"held", "donor"} =>
        IsPrefix(PromptOf[r], cells[seqOf[r]])

\* The llama.cpp context keeps the sequences apart: a request's positions and rows
\* are its own, and so are the logits its tokens are sampled from.
ContextSafe == LlamaTypeOK /\ OwnTokens /\ OwnRows /\ PositionsMatch
=============================================================================
