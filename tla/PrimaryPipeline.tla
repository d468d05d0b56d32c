-------------------------- MODULE PrimaryPipeline --------------------------
(* The primary decode and prefill path of the native CUDA executor:             *)
(* InferfluxCudaExecutor::ExecuteUnifiedBatch without the overlap, with the     *)
(* device-side token relay (decode_relay_fingerprint.h), the repetition-penalty *)
(* histories, and the two uploads a forward makes through pinned host memory    *)
(* (transformer_forward.cu: Forward and BatchForward).                          *)
(*                                                                              *)
(* The host only enqueues: what the device reads it reads when the stream gets  *)
(* there. So the model has the host's buffers (stage, hostMeta), the device's   *)
(* (dev) and the queue of operations between them (compute).                    *)
EXTENDS Integers, Sequences, FiniteSets, SequencesExt, Functions

CONSTANTS PipeSlots,     \* sequence ids
          PipeGens,      \* bound: occupants of all slots together
          InFlight,      \* bound: operations in flight when a batch arrives
          PipeRows,      \* rows of a KV slot
          PromptRows,    \* chunks of a prompt; only the last one asks for logits
          DecodeWidths   \* values of decode_batch_capacity to consider

ASSUME PipeAssumption ==
  /\ IsFiniteSet(PipeSlots) /\ PipeSlots \subseteq Nat
  /\ {PipeGens, PipeRows, PromptRows, InFlight} \cup DecodeWidths \subseteq Nat \ {0}

VARIABLES width,      \* decode_batch_capacity
          holder,     \* slot -> its request: generation and rows it has
          slotRows,   \* slot -> row -> token written there
          pinned,     \* the static pinned_stage of Forward
          hostMeta,   \* h_batch_meta_: the pinned batch metadata
          dev,        \* device buffers: d_token_ids_ and d_batch_meta_
          compute,    \* operations the primary stream has not done yet
          relay,      \* decode_relay_active_ and decode_relay_armed_
          history,    \* sequence_recent_tokens_
          run,        \* the call that holds shared_pipeline_mutex_
          clobbered   \* pinned was rewritten before the device had read it

pipeVars == <<width, holder, slotRows, pinned, hostMeta, dev, compute, relay, history, run, clobbered>>
hostVars == <<pinned, hostMeta>>
deviceState == <<slotRows, dev>>

\* Row i of the text of a request: the token fed at n_past = i - 1.
Token(s, gen, i) == <<s, gen, i>>
Feed(s) == [slot |-> s, gen |-> holder[s].gen, past |-> holder[s].past,
            token |-> Token(s, holder[s].gen, holder[s].past + 1)]
SampledRow(r) == Token(r.slot, r.gen, r.past + 2)

NoCall == [at |-> "idle", group |-> <<>>, chunk |-> <<>>, fits |-> TRUE,
           prefills |-> <<>>, mixed |-> FALSE]
NoHistory == [gen |-> 0, tokens |-> <<>>]
Empty == [i \in 1..PipeRows |-> <<>>]

PipeInit ==
  /\ width \in DecodeWidths
  /\ holder = [s \in PipeSlots |-> [gen |-> 1, past |-> 0]]
  /\ slotRows = [s \in PipeSlots |-> Empty]
  /\ pinned = <<>> /\ hostMeta = <<>> /\ dev = [token |-> <<>>, meta |-> <<>>]
  /\ compute = <<>>
  /\ relay = [active |-> FALSE, armed |-> <<>>]
  /\ history = [s \in PipeSlots |-> NoHistory]
  /\ run = NoCall /\ clobbered = FALSE

\* ------------------------------------------------------------------ the device
\* One operation of the stream, on the device state d = [rows, dev]. An upload
\* reads the pinned buffer now, not when it was enqueued.
Done(d, o) ==
  CASE o.op = "upload" -> [d EXCEPT !.dev.token = pinned]
    [] o.op = "prefill" -> [d EXCEPT !.rows[o.slot][o.past + 1] = d.dev.token]
    [] o.op = "clear" -> [d EXCEPT !.rows[o.slot] = Empty]
    [] o.op = "meta" -> [d EXCEPT !.dev.meta = hostMeta]
    [] o.op = "relay" -> [d EXCEPT !.dev.meta = [b \in DOMAIN @ |->
           IF b \in DOMAIN o.tokens
           THEN [@[b] EXCEPT !.token = o.tokens[b], !.past = @ + 1] ELSE @[b]]]
    [] o.op = "decode" -> [d EXCEPT !.rows = [s \in PipeSlots |-> [i \in 1..PipeRows |->
           LET hit == {b \in 1..o.width : d.dev.meta[b].slot = s /\ d.dev.meta[b].past + 1 = i}
           IN IF hit = {} THEN d.rows[s][i] ELSE d.dev.meta[CHOOSE b \in hit : TRUE].token]]]

Device == [rows |-> slotRows, dev |-> dev]
Settled(ops) == FoldLeft(Done, Device, ops)

DeviceStep ==
  /\ compute # <<>>
  /\ LET d == Done(Device, Head(compute)) IN slotRows' = d.rows /\ dev' = d.dev
  /\ compute' = Tail(compute)
  /\ UNCHANGED <<width, holder, hostVars, relay, history, run, clobbered>>

Enqueue(ops) == compute' = compute \o ops /\ UNCHANGED deviceState

\* The host waits for the stream after enqueueing ops.
EnqueueAndWait(ops) ==
  LET d == Settled(compute \o ops)
  IN slotRows' = d.rows /\ dev' = d.dev /\ compute' = <<>>

\* ------------------------------------------------------------- a batch arrives
Decodable == {s \in PipeSlots : holder[s].past >= PromptRows /\ holder[s].past < PipeRows}
Prefillable == {s \in PipeSlots : holder[s].past < PromptRows}
Orders(S) == UNION {{f \in [1..Cardinality(T) -> T] : IsInjective(f)} : T \in SUBSET S}

\* The partition of the inputs; a prefill among them disarms the relay.
Begin ==
  /\ run.at = "idle" /\ Len(compute) <= InFlight
  /\ \E group \in Orders(Decodable), prefills \in Orders(Prefillable) :
       /\ group \o prefills # <<>>
       /\ run' = [at |-> "chunk", group |-> group, chunk |-> <<>>,
                  fits |-> Len(group) <= width, prefills |-> prefills,
                  mixed |-> prefills # <<>>]
       /\ relay' = IF prefills = <<>> THEN relay ELSE [relay EXCEPT !.active = FALSE]
  /\ UNCHANGED <<width, holder, deviceState, hostVars, compute, history, clobbered>>

\* --------------------------------------------------------------- decode chunks
\* A guard by the width of the batch alone.
SameWidth(armed, batch) == Len(armed) = Len(batch)

\* DecodeRelayIdentityMatches: same rows, same occupants, at the n_past and with
\* the token the relay kernel left in the device metadata.
DecodeRelayIdentityMatches(armed, batch) == armed = batch

\* The chunk goes to the device: by replaying the captured graph on the metadata
\* that is already there, or by uploading the metadata of this batch first.
ForwardChunk ==
  /\ run.at = "chunk" /\ run.group # <<>>
  /\ LET n == IF Len(run.group) < width THEN Len(run.group) ELSE width
         batch == [b \in 1..n |-> Feed(run.group[b])]
         replay == relay.active /\ DecodeRelayIdentityMatches(relay.armed, batch)
         decode == <<[op |-> "decode", width |-> n]>>
     IN /\ run' = [run EXCEPT !.at = "sample", !.chunk = batch,
                              !.group = SubSeq(@, n + 1, Len(@))]
        /\ \/ replay /\ Enqueue(decode) /\ UNCHANGED <<hostMeta, relay>>
           \/ /\ hostMeta' = batch
              /\ Enqueue(<<[op |-> "meta"]>> \o decode)
              /\ relay' = [relay EXCEPT !.active = FALSE]
  /\ UNCHANGED <<width, holder, pinned, history, clobbered>>

\* The forward of the chunk fails: its rows are not ok and the relay is off.
ForwardFails ==
  /\ run.at = "chunk" /\ run.group # <<>>
  /\ run' = [run EXCEPT !.group = SubSeq(@, width + 1, Len(@))]
  /\ relay' = [relay EXCEPT !.active = FALSE]
  /\ UNCHANGED <<width, holder, deviceState, hostVars, compute, history, clobbered>>

\* The penalty window a row is sampled under, whoever wrote it.
RecentOfSlot(s, gen) == history[s].tokens

\* The penalty window a row is sampled under: only tokens recorded for the same
\* generation of the slot.
Recent(s, gen) == IF history[s].gen = gen THEN history[s].tokens ELSE <<>>

PenaltyWindow == 2  \* bound: kPenaltyWindowSize
RecordTokens(s, gen, token) ==
  LET all == Append(IF history[s].gen = gen THEN history[s].tokens ELSE <<>>, token)
  IN [gen |-> gen, tokens |-> SubSeq(all, IF Len(all) > PenaltyWindow THEN 2 ELSE 1, Len(all))]

\* Sampling waits for the stream; the sampled tokens go into the histories.
SampleChunk ==
  /\ run.at = "sample"
  /\ EnqueueAndWait(<<>>)
  /\ history' = [s \in PipeSlots |->
                   IF \E b \in DOMAIN run.chunk : run.chunk[b].slot = s
                   THEN LET r == run.chunk[CHOOSE b \in DOMAIN run.chunk : run.chunk[b].slot = s]
                        IN RecordTokens(s, r.gen, SampledRow(r))
                   ELSE history[s]]
  /\ run' = [run EXCEPT !.at = "arm"]
  /\ UNCHANGED <<width, holder, hostVars, relay, clobbered>>

\* When the group fitted one chunk the sampled tokens are written into the device
\* metadata and the relay is armed for exactly that batch; the rows are ok.
ArmRelay ==
  /\ run.at = "arm"
  /\ IF run.fits
     THEN /\ Enqueue(<<[op |-> "relay", tokens |-> [b \in DOMAIN run.chunk |-> SampledRow(run.chunk[b])]]>>)
          /\ relay' = [active |-> TRUE,
                       armed |-> [b \in DOMAIN run.chunk |->
                                    [run.chunk[b] EXCEPT !.past = @ + 1,
                                                         !.token = SampledRow(run.chunk[b])]]]
     ELSE relay' = [relay EXCEPT !.active = FALSE] /\ UNCHANGED <<deviceState, compute>>
  /\ holder' = [s \in PipeSlots |->
                IF \E r \in Range(run.chunk) : r.slot = s /\ r.gen = holder[s].gen
                THEN [holder[s] EXCEPT !.past = @ + 1] ELSE holder[s]]
  /\ run' = [run EXCEPT !.at = "chunk", !.chunk = <<>>]
  /\ UNCHANGED <<width, hostVars, history, clobbered>>

\* -------------------------------------------------------------------- prefills
\* Every slot a prompt starts in is cleared before the first prefill runs.
ClearPrefills ==
  /\ run.at = "chunk" /\ run.group = <<>>
  /\ LET fresh == SelectSeq(run.prefills, LAMBDA s : holder[s].past = 0)
     IN Enqueue([k \in DOMAIN fresh |-> [op |-> "clear", slot |-> fresh[k]]])
  /\ run' = [run EXCEPT !.at = "prefill"]
  /\ UNCHANGED <<width, holder, hostVars, relay, history, clobbered>>

\* Forward copies the tokens into the pinned stage and enqueues the upload and the
\* layers. Only the last chunk of a prompt is sampled, and only sampling waits.
Prefill ==
  /\ run.at = "prefill" /\ run.prefills # <<>>
  /\ LET r == Feed(Head(run.prefills))
         last == r.past + 1 = PromptRows
     IN /\ clobbered' = (clobbered \/ \E i \in DOMAIN compute : compute[i].op = "upload")
        /\ pinned' = r.token
        /\ Enqueue(<<[op |-> "upload"], [op |-> "prefill", slot |-> r.slot, past |-> r.past]>>)
        /\ run' = [run EXCEPT !.at = IF last THEN "prefilled" ELSE @,
                              !.prefills = Tail(@), !.chunk = IF last THEN <<r>> ELSE <<>>]
        /\ holder' = IF last THEN holder ELSE [holder EXCEPT ![r.slot].past = @ + 1]
  /\ UNCHANGED <<width, hostMeta, relay, history>>

\* The row of a prefill that fails is not ok: its request does not advance.
PrefillFails ==
  /\ run.at = "prefill" /\ run.prefills # <<>>
  /\ run' = [run EXCEPT !.prefills = Tail(@)]
  /\ UNCHANGED <<width, holder, deviceState, hostVars, compute, relay, history, clobbered>>

SamplePrefill ==
  /\ run.at = "prefilled"
  /\ EnqueueAndWait(<<>>)
  /\ LET r == run.chunk[1] IN
     /\ history' = [history EXCEPT ![r.slot] = RecordTokens(r.slot, r.gen, SampledRow(r))]
     /\ holder' = IF holder[r.slot].gen = r.gen THEN [holder EXCEPT ![r.slot].past = @ + 1] ELSE holder
  /\ run' = [run EXCEPT !.at = "prefill", !.chunk = <<>>]
  /\ UNCHANGED <<width, hostVars, relay, clobbered>>

\* The call returns. A prefill that ran after the decode group armed the relay
\* disarms it again.
End ==
  /\ run.at = "prefill" /\ run.prefills = <<>>
  /\ run' = NoCall
  /\ relay' = IF run.mixed THEN [relay EXCEPT !.active = FALSE] ELSE relay
  /\ UNCHANGED <<width, holder, deviceState, hostVars, compute, history, clobbered>>

\* ------------------------------------------------------------ the other threads
\* NativeFreeSequence: waits for the streams, clears the slot, forgets the history
\* and disarms the relay; the slot then goes to the next request. An eviction may
\* do so while a call that already sampled the sequence is about to record it.
Reassign(s) ==
  /\ MapThenSumSet(LAMBDA u : holder[u].gen, PipeSlots) < PipeGens
  /\ \/ run.at = "idle"
     \/ run.at = "sample" /\ run.group = <<>> /\ run.prefills = <<>>
  /\ EnqueueAndWait(<<[op |-> "clear", slot |-> s]>>)
  /\ history' = [history EXCEPT ![s] = NoHistory]
  /\ relay' = [relay EXCEPT !.active = FALSE]
  /\ holder' = [holder EXCEPT ![s] = [gen |-> @.gen + 1, past |-> 0]]
  /\ UNCHANGED <<width, hostVars, run, clobbered>>

PipeNext == \/ DeviceStep \/ Begin \/ ForwardChunk \/ ForwardFails \/ SampleChunk
            \/ ArmRelay \/ ClearPrefills \/ Prefill \/ PrefillFails \/ SamplePrefill \/ End
            \/ \E s \in PipeSlots : Reassign(s)

PipeSpec == PipeInit /\ [][PipeNext]_pipeVars

\* --------------------------------------------------------------- properties
PipeTypeOK ==
  /\ holder \in [PipeSlots -> [gen : 1..PipeGens, past : 0..PipeRows]]
  /\ relay.active \in BOOLEAN /\ clobbered \in BOOLEAN
  /\ run.at \in {"idle", "chunk", "sample", "arm", "prefill", "prefilled"}

\* Once the stream has drained, every row a request counts on holds the token of
\* that row of its own text.
TextIsInSlot ==
  LET d == Settled(compute) IN
  \A s \in PipeSlots : \A i \in 1..holder[s].past : d.rows[s][i] = Token(s, holder[s].gen, i)

\* A decode step writes each row where its own request expects it, whether the
\* metadata was uploaded or relayed on the device, across changes of the batch's
\* members, slots that changed hands, failed forwards and multi-chunk groups. (As
\* long as no prompt upload was overtaken: see PromptIsInSlot.)
DecodeRowsAreOwn == ~clobbered => TextIsInSlot

\* The tokens a request is penalised for are tokens of its own text, also when the
\* slot changed hands while its last step was being recorded.
PenaltiesAreOwn ==
  \A s \in PipeSlots : \A t \in Range(Recent(s, holder[s].gen)) :
    t[1] = s /\ t[2] = holder[s].gen

\* The comment on prefills without logits says they may stay in flight because all
\* of them are ordered on the primary stream: each then writes its own tokens.
PromptIsInSlot == TextIsInSlot

\* A decode row is computed from its own last token and penalised by its own
\* history, whether the token came from the host or over the relay.
PipelineSafe == PipeTypeOK /\ DecodeRowsAreOwn /\ PenaltiesAreOwn
====
