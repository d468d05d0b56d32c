----------------------------- MODULE ForwardPass -----------------------------
(***************************************************************************)
(* One forward pass of the native CUDA backend                             *)
(* (runtime/backends/cuda/native/transformer_forward.cu): Forward, which   *)
(* runs a prompt chunk or a single row, the compute section of             *)
(* BatchForwardDevice, which runs one decode step of a batch, and          *)
(* EmbedForward.                                                           *)
(*                                                                         *)
(* The arithmetic is left out.  A device buffer holds the name of the      *)
(* quantity it contains, <<name, layer>>, or Junk; a kernel gives its      *)
(* output that name only when every input holds what the model's equations *)
(* (Needs) ask for.  Quantizing does not change the name.  A buffer that   *)
(* AllocateScratch placed over another one loses its content when the      *)
(* other is written.                                                       *)
(*                                                                         *)
(* Whether a fused path accepts a projection depends on its weight type,   *)
(* shape and policy; here every attempt may decline before it touches      *)
(* anything, fail after it overwrote its scratch activation and some of    *)
(* its outputs, or succeed.                                                *)
(***************************************************************************)
EXTENDS Integers, Sequences, FiniteSets
LOCAL INSTANCE SequencesExt

CONSTANT ForwardJobs    \* the passes considered

VARIABLES
    job,        \* the call and the policy it runs under
    stage,      \* the next stage of the layer loop
    layer,
    st,         \* the buffers and the local flags of the pass
    outcome     \* what the function returned

forwardVars == <<job, stage, layer, st, outcome>>

Junk == <<"junk", 0>>

Buffers ==
    {"residual", "residual_f32", "norm_out", "act_q8_1", "ffn_act_q8_1",
     "q", "k", "v", "cache", "attn_out", "gate", "up", "down", "logits", "pooled"}

(* What each quantity of the model is computed from.                       *)
WithBias == [q |-> "q_biased", k |-> "k_biased", v |-> "v_biased"]

Biased(x, l) == IF x \in job.biases THEN <<WithBias[x], l>> ELSE <<x, l>>

Needs(name, l) ==
    CASE name = "normed_in" -> {<<"resid_out", l - 1>>}
      [] name \in {"q", "k", "v"} -> {<<"normed_in", l>>}
      [] name = "q_biased" -> {<<"q", l>>}
      [] name = "k_biased" -> {<<"k", l>>}
      [] name = "v_biased" -> {<<"v", l>>}
      [] name = "q_rotated" -> {Biased("q", l)}
      [] name = "k_rotated" -> {Biased("k", l)}
      [] name = "kv_rows" -> {<<"k_rotated", l>>, Biased("v", l)}
      [] name = "attn" -> {<<"q_rotated", l>>, <<"kv_rows", l>>}
      [] name = "o" -> {<<"attn", l>>}
      [] name = "resid_mid" -> {<<"resid_out", l - 1>>, <<"o", l>>}
      [] name = "normed_mid" -> {<<"resid_mid", l>>}
      [] name \in {"gate", "up"} -> {<<"normed_mid", l>>}
      [] name = "swiglu" -> {<<"gate", l>>, <<"up", l>>}
      [] name = "down" -> {<<"swiglu", l>>}
      [] name = "resid_out" -> {<<"resid_mid", l>>, <<"down", l>>}
      [] name = "normed_out" -> {<<"resid_out", l>>}
      [] name = "logits" -> {<<"normed_out", l>>}
      [] name = "pooled" -> {<<"normed_out", l>>}

Kernel(name, l, inputs) == IF inputs = Needs(name, l) THEN <<name, l>> ELSE Junk

(* AllocateScratch: when they fit, q, k, v live inside gate, attn_out in   *)
(* up, and down is norm_out.                                               *)
Aliases ==
    {{"q", "gate"}, {"k", "gate"}, {"v", "gate"}, {"attn_out", "up"}, {"down", "norm_out"}}

Overlaps(x, y) == job.aliased /\ {x, y} \in Aliases

(* Kernels that write the buffers of `outs` (buffer -> content).  The      *)
(* scratch act_q8_1_mmq and packed, which every reader refills first, is   *)
(* not kept.                                                               *)
Write(s, outs) ==
    [s EXCEPT !.buf = [y \in Buffers |->
        IF y \in DOMAIN outs THEN outs[y]
        ELSE IF \E x \in DOMAIN outs : Overlaps(x, y) THEN Junk ELSE s.buf[y]]]

Put(s, x, v) == Write(s, [y \in {x} |-> v])

Decoding == job.path = "decode"

residual == IF job.fp32 THEN "residual_f32" ELSE "residual"

-----------------------------------------------------------------------------
(* Attempts.  A result is [ok, s]; a cascade goes on from what the failed  *)
(* attempts left behind.                                                   *)
Done(s) == [ok |-> TRUE, s |-> s]
Not(s) == [ok |-> FALSE, s |-> s]

OrElse(R, F(_)) == {r \in R : r.ok} \cup UNION {F(r.s) : r \in {x \in R : ~x.ok}}
AndThen(R, F(_)) == {r \in R : ~r.ok} \cup UNION {F(r.s) : r \in {x \in R : x.ok}}
Marked(R, F(_)) == {IF r.ok THEN Done(F(r.s)) ELSE r : r \in R}

Accumulated(R) == Marked(R, LAMBDA s : [s EXCEPT !.accumulated = TRUE])

(* An attempt that quantizes `act` into `scratch` and computes outs.  Only *)
(* the half instances do anything.                                         *)
Attempt(s, scratch, act, outs) ==
    {Not(s)} \cup
    {[ok |-> D = DOMAIN outs, s |-> Write(Put(s, scratch, act), [x \in D |-> outs[x]])] :
        D \in IF job.half THEN SUBSET DOMAIN outs ELSE {}}

(* One output only.                                                        *)
Into(x, v) == [y \in {x} |-> v]

TryPackedGemv(s, in, out, name, l) ==
    Attempt(s, "packed", s.buf[in], Into(out, Kernel(name, l, {s.buf[in]})))

TryQ8_1MmaGemv(s, in, out, name, l) ==
    IF job.wide THEN Attempt(s, "act_q8_1_mmq", s.buf[in], Into(out, Kernel(name, l, {s.buf[in]})))
    ELSE {Not(s)}

TryQ8_1Gemv(s, in, out, name, l) ==
    Attempt(s, "act_q8_1", s.buf[in], Into(out, Kernel(name, l, {s.buf[in]})))

(* residual += W * in: `sum` is the quantity the addition completes.       *)
Sum(s, sum, name, l, act) == Kernel(sum, l, {s.buf[residual], Kernel(name, l, {act})})

TryQ8_1GemvAccum(s, in, name, sum, l) ==
    IF job.fp32 THEN {Not(s)}
    ELSE Accumulated(Attempt(s, "act_q8_1", s.buf[in], Into("residual", Sum(s, sum, name, l, s.buf[in]))))

TryQ8_1GemvAccumF32(s, in, name, sum, l) ==
    IF ~job.fp32 THEN {Not(s)}
    ELSE Accumulated(Attempt(s, "act_q8_1", s.buf[in], Into("residual_f32", Sum(s, sum, name, l, s.buf[in]))))

(* The variants that take an activation an epilogue already quantized.     *)
Prequantized == "ffn_act_q8_1"

TryQ8_1GemvPrequantized(s, l) ==
    Attempt(s, Prequantized, s.buf[Prequantized], Into("down", Kernel("down", l, {s.buf[Prequantized]})))

TryQ8_1GemvPrequantizedAccum(s, l) ==
    IF job.fp32 THEN {Not(s)}
    ELSE Accumulated(Attempt(s, Prequantized, s.buf[Prequantized],
                             Into("residual", Sum(s, "resid_out", "down", l, s.buf[Prequantized]))))

TryQ8_1GemvPrequantizedAccumF32(s, l) ==
    IF ~job.fp32 THEN {Not(s)}
    ELSE Accumulated(Attempt(s, Prequantized, s.buf[Prequantized],
                             Into("residual_f32", Sum(s, "resid_out", "down", l, s.buf[Prequantized]))))

TryMmqGemvPrequantized(s, l) ==
    Attempt(s, Prequantized, s.buf[Prequantized], Into("down", Kernel("down", l, {s.buf[Prequantized]})))

(* TryMmqGemv reads the transformed down-projection weight, TryMmqMmaGemv  *)
(* the raw Q6_K one with tensor cores.                                     *)
TryMmqGemv(s, l) == Attempt(s, "act_q8_1", s.buf["gate"], Into("down", Kernel("down", l, {s.buf["gate"]})))

TryMmqMmaGemv(s, in, out, name, l) ==
    Attempt(s, "act_q8_1_mmq", s.buf[in], Into(out, Kernel(name, l, {s.buf[in]})))

(* SwiGLU fused into the quantizer: gate and up are read, not overwritten. *)
SwiGlu(s, l) == Kernel("swiglu", l, {s.buf["gate"], s.buf["up"]})

TryMmqSiluMulGemv(s, l) == Attempt(s, "act_q8_1", SwiGlu(s, l), Into("down", Kernel("down", l, {SwiGlu(s, l)})))

TryMmqMmaSiluMul(s, l) == Attempt(s, "act_q8_1_mmq", SwiGlu(s, l), Into("down", Kernel("down", l, {SwiGlu(s, l)})))

TryQ8_1SiluMulGemv(s, l) == Attempt(s, "act_q8_1", SwiGlu(s, l), Into("down", Kernel("down", l, {SwiGlu(s, l)})))

TryPackedSiluMulGemv(s, l) == Attempt(s, "packed", SwiGlu(s, l), Into("down", Kernel("down", l, {SwiGlu(s, l)})))

TryQ8_1SiluMulGemvAccum(s, l) ==
    IF job.fp32 THEN {Not(s)}
    ELSE Accumulated(Attempt(s, "act_q8_1", SwiGlu(s, l), Into("residual", Sum(s, "resid_out", "down", l, SwiGlu(s, l)))))

TryQ8_1SiluMulGemvAccumF32(s, l) ==
    IF ~job.fp32 THEN {Not(s)}
    ELSE Accumulated(Attempt(s, "act_q8_1", SwiGlu(s, l), Into("residual_f32", Sum(s, "resid_out", "down", l, SwiGlu(s, l)))))

(* Projections that share one activation.  `group` is {q, k, v} or         *)
(* {gate, up}; `normed` tells that norm_out already holds the activation,  *)
(* otherwise it is the norm (nm) of the residual.                          *)
Project(group, l, act) == [x \in group |-> Kernel(x, l, {act})]

Input(s, nm, l, normed) == IF normed THEN s.buf["norm_out"] ELSE Kernel(nm, l, {s.buf["residual"]})

(* With q81_precomputed the group trusts what act_q8_1 holds.              *)
TryQ8_1ProjectionGroup(s, group, nm, l, normed, q81_precomputed) ==
    LET act == IF q81_precomputed THEN s.buf["act_q8_1"] ELSE Input(s, nm, l, normed)
    IN  Attempt(s, "act_q8_1", act, Project(group, l, act))

(* The packed group leaves the normalized activation in norm_out.          *)
TryPackedProjectionGroup(s, group, nm, l, normed) ==
    LET act == Input(s, nm, l, normed)
        t == IF normed THEN s ELSE Put(s, "norm_out", act)
    IN  {Not(s)} \cup IF job.half THEN Attempt(t, "packed", act, Project(group, l, act)) ELSE {}

(* The norm of the LM head, the packed activation and the projection.      *)
TryPackedRmsNormGemv(s, l) ==
    LET act == Kernel("normed_out", l, {s.buf["residual"]})
    IN  {Not(s)} \cup
        IF job.half
        THEN Attempt(Put(s, "norm_out", act), "packed", act, Into("logits", Kernel("logits", l, {act})))
        ELSE {}

-----------------------------------------------------------------------------
(* The unfused fallback normalizes once, before its first projection.      *)
NormOnce(s, nm, l) ==
    IF s.norm_computed THEN s
    ELSE [Put(s, "norm_out", Kernel(nm, l, {s.buf["residual"]})) EXCEPT !.norm_computed = TRUE]

TryQuantizedProjection(s, x, l) ==
    OrElse(TryQ8_1MmaGemv(s, "norm_out", x, x, l), LAMBDA t : TryQ8_1Gemv(t, "norm_out", x, x, l))

(* cuBLAS: it may fail, and then nothing is written.                       *)
RunDenseProjection(s, x, l) ==
    {Not(s), Done(Put(s, x, Kernel(x, l, {s.buf["norm_out"]})))}

(* The decode step's cascade hands the GEMV its row count and its depth in *)
(* the other order, so it computes the projection only of a square matrix. *)
try_quantized_projection(s, x, l) ==
    LET R == TryQuantizedProjection(s, x, l)
    IN  IF x \in job.square THEN R
        ELSE Marked(R, LAMBDA t : [Put(t, x, Junk) EXCEPT !.misshapen = TRUE])

(* During a capture without a pinned cuBLAS workspace the stage aborts.    *)
run_dense_projection(s, x, l) ==
    IF job.cublas_barred THEN {Not([s EXCEPT !.capture_abort = TRUE])} ELSE RunDenseProjection(s, x, l)

-----------------------------------------------------------------------------
(* The stages.  Ran notes the tier that computed, Reported the operator    *)
(* that the summary names.                                                 *)
Ran(R, tier) == Marked(R, LAMBDA s : [s EXCEPT !.ran = tier])
Reported(R, op) == Marked(R, LAMBDA s : [s EXCEPT !.actual = op])

(* One operator of each behaviour: the grouped ones that the fused SiLU    *)
(* path gives way to (q81_group_mmq3) and the others.                      *)
FfnOps == {"q81_group", "q81_group_mmq3", "packed_group", "fallback"}
DownOps == {"mmq_mma", "mmq", "q81_gemv", "packed_gemv", "fallback"}

TierOf(op) ==
    CASE op \in {"q81_group", "q81_group_mmq3", "q81_gemv"} -> "q81"
      [] op \in {"packed_group", "packed_gemv"} -> "packed"
      [] op \in {"mmq", "mmq_mma"} -> "mmq"
      [] op = "fallback" -> "fallback"

(* The operators a stage tries before its fallback, by the selected one.   *)
FfnOrder(op) ==
    CASE TierOf(op) = "q81" -> <<op, "packed_group">>
      [] op = "packed_group" -> <<op>>
      [] op = "fallback" -> <<>>

DownOrder(op) ==
    CASE op = "mmq_mma" -> <<"mmq_mma", "mmq", "q81_gemv", "packed_gemv">>
      [] op = "mmq" -> <<"mmq", "q81_gemv", "packed_gemv">>
      [] op = "q81_gemv" -> <<"q81_gemv", "mmq_mma", "mmq", "packed_gemv">>
      [] op = "packed_gemv" -> <<"packed_gemv">>
      [] op = "fallback" -> <<>>

(* The first operator that accepts is reported; else the fallback runs.    *)
ExecuteStage(s, order, try(_, _), run_fallback(_)) ==
    OrElse(FoldLeft(LAMBDA R, op : OrElse(R, LAMBDA t : Reported(try(t, op), op)), {Not(s)}, order),
           run_fallback)

-----------------------------------------------------------------------------
(* Q, K and V.                                                             *)
QKV == {"q", "k", "v"}
GateUp == {"gate", "up"}

NormedFromF32(s, nm, l) == Kernel(nm, l, {s.buf["residual_f32"]})

(* With an fp32 residual the input is normalized before the projections;   *)
(* the decode step of a half model quantizes it in the same kernel.        *)
PrefillPreNorm(s, l) ==
    IF job.fp32 /\ ~s.normed
    THEN [Put(s, "norm_out", NormedFromF32(s, "normed_in", l)) EXCEPT !.normed = TRUE]
    ELSE s

DecodePreNorm(s, l) ==
    IF job.fp32 /\ ~s.normed /\ job.half
    THEN LET act == NormedFromF32(s, "normed_in", l)
         IN  [Put(Put(s, "norm_out", act), "act_q8_1", act) EXCEPT !.normed = TRUE, !.q81 = TRUE]
    ELSE PrefillPreNorm(s, l)

(* The tensor-core kernels on the activation in norm_out, which they       *)
(* normalize themselves when nobody did.                                   *)
EnsureNormed(s, nm, l, normed) ==
    IF normed THEN s ELSE Put(s, "norm_out", Kernel(nm, l, {s.buf["residual"]}))

MmaGroup(s, group, nm, l, normed) ==
    IF ~(job.half /\ job.wide) THEN {Not(s)}
    ELSE LET t == EnsureNormed(s, nm, l, normed)
         IN  Attempt(t, "act_q8_1_mmq", t.buf["norm_out"], Project(group, l, t.buf["norm_out"]))

PrefillQkvQ81(s, l, normed) ==
    OrElse(MmaGroup(s, QKV, "normed_in", l, normed),
           LAMBDA t : TryQ8_1ProjectionGroup(t, QKV, "normed_in", l, normed, FALSE))

DecodeQkvQ81(s, l, normed) ==
    OrElse(MmaGroup(s, QKV, "normed_in", l, normed),
           LAMBDA t : TryQ8_1ProjectionGroup(t, QKV, "normed_in", l, normed, t.q81))

(* One projection after the other; the first that fails ends the pass.     *)
InTurn(s, nm, l, xs, try(_, _), dense(_, _)) ==
    LET one(t, x) == OrElse(try(NormOnce(t, nm, l), x), LAMBDA u : dense(u, x))
    IN  FoldLeft(LAMBDA R, x : AndThen(R, LAMBDA t : one(t, x)), {Done(s)}, xs)

(* Prefill: one launch for q and one for k and v, else each on its own.    *)
PrefillQkvFallback(s, l, normed) ==
    LET t == [EnsureNormed(s, "normed_in", l, normed) EXCEPT !.norm_computed = TRUE]
        each(u) == InTurn(u, "normed_in", l, <<"q", "k", "v">>,
                          LAMBDA w, x : TryQuantizedProjection(w, x, l), LAMBDA w, x : RunDenseProjection(w, x, l))
    IN  OrElse(MmaGroup(t, QKV, "normed_in", l, TRUE), each)

DecodeQkvFallback(s, l, normed) ==
    InTurn([s EXCEPT !.norm_computed = normed], "normed_in", l, <<"q", "k", "v">>,
           LAMBDA w, x : try_quantized_projection(w, x, l), LAMBDA w, x : run_dense_projection(w, x, l))

QkvPacked(s, l, normed) == TryPackedProjectionGroup(s, QKV, "normed_in", l, normed)

(* BiasAdd or BiasAddTriple.                                               *)
BiasAdd(s, l) == Write(s, [x \in job.biases |-> Kernel(WithBias[x], l, {s.buf[x]})])

(* The decode step may leave the biases to RoPE and to the append, which   *)
(* only the kernels for a contiguous cache can do.                         *)
FoldBias == job.fold_bias /\ job.contiguous

(* The flag survives the layer that used it.                               *)
DecodeBiasKeepsQ81(s, l) == IF FoldBias THEN s ELSE BiasAdd(s, l)

(* input_q81_precomputed is used once.                                     *)
DecodeBias(s, l) == [(IF FoldBias THEN s ELSE BiasAdd(s, l)) EXCEPT !.q81 = FALSE]

-----------------------------------------------------------------------------
(* RoPE, the append to the KV cache and attention.                         *)
Rotate(s, l, q, k) ==
    Write(s, [x \in {"q", "k"} |->
        IF x = "q" THEN Kernel("q_rotated", l, {q}) ELSE Kernel("k_rotated", l, {k})])

KvAppend(s, l, k, v) == Put(s, "cache", Kernel("kv_rows", l, {k, v}))

PrefillRope(s, l) ==
    LET t == Rotate(s, l, s.buf["q"], s.buf["k"])
    IN  KvAppend(t, l, t.buf["k"], t.buf["v"])

(* The value a folded bias makes of x on the way.                          *)
Folded(s, x, l) == IF FoldBias /\ x \in job.biases THEN Kernel(WithBias[x], l, {s.buf[x]}) ELSE s.buf[x]

FusedRopeKvAppend(s, l) ==
    LET q == Kernel("q_rotated", l, {s.buf["q"]})
        k == Kernel("k_rotated", l, {s.buf["k"]})
    IN  Write(s, [x \in {"q", "cache"} |-> IF x = "q" THEN q ELSE Kernel("kv_rows", l, {k, s.buf["v"]})])

DecodeRope(s, l) ==
    IF job.fused_rope /\ ~(FoldBias /\ job.biases # {}) THEN FusedRopeKvAppend(s, l)
    ELSE LET t == Rotate(s, l, Folded(s, "q", l), Folded(s, "k", l))
         IN  KvAppend(t, l, t.buf["k"], IF job.contiguous THEN Folded(t, "v", l) ELSE t.buf["v"])

Attend(s, l) == Put(s, "attn_out", Kernel("attn", l, {s.buf["q"], s.buf["cache"]}))

-----------------------------------------------------------------------------
(* Output projection and the residual.                                     *)
Dense(s, in, out, name, l) == Put(s, out, Kernel(name, l, {s.buf[in]}))

DenseAccum(s, in, name, sum, l) ==
    [Put(s, "residual", Sum(s, sum, name, l, s.buf[in])) EXCEPT !.accumulated = TRUE]

(* cuBLAS writes its own output for an fp32 residual and accumulates into  *)
(* a half one.                                                             *)
DenseOrAccum(s, in, out, name, sum, l) ==
    IF job.fp32 THEN Dense(s, in, out, name, l) ELSE DenseAccum(s, in, name, sum, l)

OAccumulates(s, l) ==
    OrElse(TryQ8_1GemvAccumF32(s, "attn_out", "o", "resid_mid", l),
           LAMBDA t : TryQ8_1GemvAccum(t, "attn_out", "o", "resid_mid", l))

OProjects(s, l) ==
    OrElse(TryQ8_1Gemv(s, "attn_out", "norm_out", "o", l), LAMBDA t : TryPackedGemv(t, "attn_out", "norm_out", "o", l))

PrefillOProj(s, l) ==
    OrElse(OrElse(OAccumulates(s, l), LAMBDA t : OProjects(t, l)),
           LAMBDA t : {Not(t), Done(DenseOrAccum(t, "attn_out", "norm_out", "o", "resid_mid", l))})

(* The decode step tries the tensor cores first and does not look at what  *)
(* cuBLAS returns.                                                         *)
DecodeOProj(s, l) ==
    OrElse(OrElse(OrElse(TryQ8_1MmaGemv(s, "attn_out", "norm_out", "o", l), LAMBDA t : OAccumulates(t, l)),
                  LAMBDA t : OProjects(t, l)),
           LAMBDA t : IF job.cublas_barred THEN {Not([t EXCEPT !.capture_abort = TRUE])}
                      ELSE {Done(DenseOrAccum(t, "attn_out", "norm_out", "o", "resid_mid", l))})

ResidualAdd(s, in, sum, l) == Put(s, residual, Kernel(sum, l, {s.buf[residual], s.buf[in]}))

(* residual += O, unless the projection accumulated.                       *)
AddAttention(s, l) ==
    IF s.accumulated THEN s
    ELSE LET t == ResidualAdd(s, "norm_out", "resid_mid", l)
         IN  IF job.residual_norm
             THEN [Put(t, "norm_out", Kernel("normed_mid", l, {t.buf[residual]})) EXCEPT !.ffn_normed = TRUE]
             ELSE t

(* After an accumulating projection the norm and its quantization run in   *)
(* one kernel.                                                             *)
FfnNormQuantEpilogue(s, l) ==
    IF job.half /\ s.accumulated /\ ~s.ffn_normed /\ job.norm_quant_epilogue
    THEN LET act == Kernel("normed_mid", l, {s.buf[residual]})
         IN  [Put(Put(s, "norm_out", act), "act_q8_1", act) EXCEPT !.ffn_normed = TRUE, !.ffn_q81 = TRUE]
    ELSE s

-----------------------------------------------------------------------------
(* Gate and up.                                                            *)
FfnPreNorm(s, l) ==
    IF job.fp32 /\ ~s.ffn_normed
    THEN [Put(s, "norm_out", NormedFromF32(s, "normed_mid", l)) EXCEPT !.ffn_normed = TRUE]
    ELSE s

PrefillGateUpQ81(s, l) ==
    OrElse(MmaGroup(s, GateUp, "normed_mid", l, s.ffn_normed),
           LAMBDA t : TryQ8_1ProjectionGroup(t, GateUp, "normed_mid", l, s.ffn_normed, FALSE))

(* Once the shared quantization succeeded, a refusal of the tensor-core    *)
(* kernels is final for this tier.                                         *)
DecodeGateUpQ81(s, l) ==
    LET group(t) == TryQ8_1ProjectionGroup(t, GateUp, "normed_mid", l, s.ffn_normed, s.ffn_q81)
    IN  IF job.half /\ job.wide
        THEN MmaGroup(s, GateUp, "normed_mid", l, s.ffn_normed) \cup
             group(EnsureNormed(s, "normed_mid", l, s.ffn_normed))
        ELSE group(s)

GateUpPacked(s, l) == TryPackedProjectionGroup(s, GateUp, "normed_mid", l, s.ffn_normed)

PrefillGateUpFallback(s, l) ==
    InTurn([s EXCEPT !.norm_computed = s.ffn_normed], "normed_mid", l, <<"gate", "up">>,
           LAMBDA w, x : TryQuantizedProjection(w, x, l), LAMBDA w, x : RunDenseProjection(w, x, l))

DecodeGateUpFallback(s, l) ==
    InTurn([s EXCEPT !.norm_computed = s.ffn_normed], "normed_mid", l, <<"gate", "up">>,
           LAMBDA w, x : try_quantized_projection(w, x, l), LAMBDA w, x : run_dense_projection(w, x, l))

GateUpTry(s, l, op) ==
    IF op = "packed_group" THEN Ran(GateUpPacked(s, l), "packed")
    ELSE Ran(IF Decoding THEN DecodeGateUpQ81(s, l) ELSE PrefillGateUpQ81(s, l), "q81")

PrefillGateUp(s, l, op) ==
    ExecuteStage(FfnPreNorm(s, l), FfnOrder(op), LAMBDA t, o : GateUpTry(t, l, o),
                 LAMBDA t : PrefillGateUpFallback(t, l))

(* Gate, up and SiLU in one kernel, whose epilogue can leave the quantized *)
(* result in ffn_act_q8_1.  The grouped MMQ3 and row-quad kernels have     *)
(* precedence over it.                                                     *)
GateUpSiluInOne(s, l, op) ==
    LET act == IF s.ffn_q81 THEN s.buf["act_q8_1"] ELSE Input(s, "normed_mid", l, s.ffn_normed)
        out == Kernel("swiglu", l, {Kernel("gate", l, {act}), Kernel("up", l, {act})})
        with_epilogue == Marked(Attempt(s, "act_q8_1", act, [x \in {"gate", "ffn_act_q8_1"} |-> out]),
                                LAMBDA t : [t EXCEPT !.silu = TRUE, !.epilogue = TRUE])
        plain(t) == Marked(Attempt(t, "act_q8_1", act, Into("gate", out)), LAMBDA u : [u EXCEPT !.silu = TRUE])
    IN  IF ~(job.half /\ job.gate_up_silu) \/ op = "q81_group_mmq3" THEN {Not(s)}
        ELSE IF job.silu_epilogue THEN OrElse(with_epilogue, plain) ELSE plain(s)

DecodeGateUp(s, l, op) ==
    OrElse(GateUpSiluInOne(FfnPreNorm(s, l), l, op),
           LAMBDA t : ExecuteStage(t, FfnOrder(op), LAMBDA u, o : GateUpTry(u, l, o),
                                   LAMBDA u : DecodeGateUpFallback(u, l)))

-----------------------------------------------------------------------------
(* Down.                                                                   *)
DownQ81(s, l) ==
    OrElse(OrElse(TryQ8_1SiluMulGemvAccumF32(s, l), LAMBDA t : TryQ8_1SiluMulGemvAccum(t, l)),
           LAMBDA t : TryQ8_1SiluMulGemv(t, l))

(* SwiGLU on its own, in place in gate; then whatever still accepts.       *)
DownFallback(s, l, op, dense(_)) ==
    LET t == Put(s, "gate", SwiGlu(s, l))
        q81(u) == TryQ8_1Gemv(u, "gate", "down", "down", l)
        mmq(u) == TryMmqGemv(u, l)
        fused == IF TierOf(op) = "mmq" THEN OrElse(mmq(t), q81) ELSE OrElse(q81(t), mmq)
    IN  OrElse(OrElse(fused, LAMBDA u : TryPackedGemv(u, "gate", "down", "down", l)), dense)

DownTry(s, l, op) ==
    CASE op = "mmq_mma" -> Ran(TryMmqMmaSiluMul(s, l), "mmq")
      [] op = "mmq" -> Ran(TryMmqSiluMulGemv(s, l), "mmq")
      [] op = "q81_gemv" -> Ran(DownQ81(s, l), "q81")
      [] op = "packed_gemv" -> Ran(TryPackedSiluMulGemv(s, l), "packed")

PrefillDown(s, l, op) ==
    ExecuteStage(s, DownOrder(op), LAMBDA t, o : DownTry(t, l, o),
        LAMBDA t : DownFallback(t, l, op,
            LAMBDA u : {Not(u), Done(DenseOrAccum(u, "gate", "down", "down", "resid_out", l))}))

DecodeDownDense(s, l) ==
    IF job.cublas_barred THEN {Not([s EXCEPT !.capture_abort = TRUE])}
    ELSE {Done(DenseOrAccum(s, "gate", "down", "down", "resid_out", l))}

(* After the fused kernel gate holds the SwiGLU result; what the epilogue  *)
(* quantized is tried before gate is quantized again.                      *)
IfEpilogue(s, F(_)) == IF s.epilogue THEN F(s) ELSE {Not(s)}

DownAfterSilu(s, l) ==
    LET pre_accum(t) == OrElse(TryQ8_1GemvPrequantizedAccumF32(t, l), LAMBDA u : TryQ8_1GemvPrequantizedAccum(u, l))
        accum(t) == OrElse(TryQ8_1GemvAccumF32(t, "gate", "down", "resid_out", l),
                           LAMBDA u : TryQ8_1GemvAccum(u, "gate", "down", "resid_out", l))
    IN  OrElse(OrElse(OrElse(OrElse(OrElse(OrElse(OrElse(
            TryMmqMmaGemv(s, "gate", "down", "down", l),
            LAMBDA t : IfEpilogue(t, pre_accum)), accum),
            LAMBDA t : IfEpilogue(t, LAMBDA u : TryQ8_1GemvPrequantized(u, l))),
            LAMBDA t : TryQ8_1Gemv(t, "gate", "down", "down", l)),
            LAMBDA t : IfEpilogue(t, LAMBDA u : TryMmqGemvPrequantized(u, l))),
            LAMBDA t : TryMmqGemv(t, l)),
            LAMBDA t : DecodeDownDense(t, l))

DecodeDown(s, l, op) ==
    IF s.silu THEN DownAfterSilu(s, l)
    ELSE ExecuteStage(s, DownOrder(op), LAMBDA t, o : DownTry(t, l, o),
                      LAMBDA t : DownFallback(t, l, op, LAMBDA u : DecodeDownDense(u, l)))

-----------------------------------------------------------------------------
(* The end of a layer.                                                     *)
LastLayer == job.layers - 1

AddFfn(s, l) ==
    IF s.accumulated THEN s
    ELSE LET t == ResidualAdd(s, "down", "resid_out", l)
         IN  IF job.residual_norm /\ l < LastLayer
             THEN [Put(t, "norm_out", Kernel("normed_in", l + 1, {t.buf[residual]})) EXCEPT !.normed = TRUE]
             ELSE t

NextNormQuantEpilogue(s, l) ==
    IF job.half /\ s.accumulated /\ ~s.normed /\ job.norm_quant_epilogue /\ l < LastLayer
    THEN LET act == Kernel("normed_in", l + 1, {s.buf[residual]})
         IN  [Put(Put(s, "norm_out", act), "act_q8_1", act) EXCEPT !.normed = TRUE, !.q81 = TRUE]
    ELSE s

(* The flags declared inside the loop body.                                *)
FreshLocals(s) ==
    [s EXCEPT !.accumulated = FALSE, !.ffn_normed = FALSE, !.ffn_q81 = FALSE, !.silu = FALSE, !.epilogue = FALSE,
              !.norm_computed = FALSE, !.actual = "fallback", !.ran = "fallback"]

-----------------------------------------------------------------------------
(* Final norm and LM head.                                                 *)
FinalNorm(s, l) == Kernel("normed_out", l, {s.buf[residual]})

HeadGemvQ8_1(s, l) == {Not(s), Done(Put(s, "logits", Kernel("logits", l, {s.buf["act_q8_1"]})))}

HeadFallback(s, l, dense(_)) ==
    LET normed(t) == Put(t, "norm_out", FinalNorm(t, l))
        gemv(t) == TryQ8_1Gemv(normed(t), "norm_out", "logits", "logits", l)
    IN  IF job.fp32 THEN OrElse(gemv(s), dense)
        ELSE OrElse(OrElse(TryPackedRmsNormGemv(s, l), gemv), dense)

(* Prefill: the last row only; the fast path may decline before it starts. *)
PrefillHead(s, l) ==
    OrElse({Not(s)} \cup (IF job.half THEN HeadGemvQ8_1(Put(s, "act_q8_1", FinalNorm(s, l)), l) ELSE {}),
           LAMBDA t : HeadFallback(t, l, LAMBDA u : {Not(u), Done(Dense(u, "norm_out", "logits", "logits", l))}))

(* Decode: with an fp32 residual one kernel writes the norm for the tensor *)
(* cores and its quantization for the GEMV they fall back to.              *)
DecodeHead(s, l) ==
    LET act == FinalNorm(s, l)
        both == Put(Put(s, "norm_out", act), "act_q8_1", act)
        fast == IF ~job.half THEN {}
                ELSE IF job.fp32 THEN OrElse(TryMmqMmaGemv(both, "norm_out", "logits", "logits", l), LAMBDA t : HeadGemvQ8_1(t, l))
                ELSE HeadGemvQ8_1(Put(s, "act_q8_1", act), l)
        dense(u) == IF job.cublas_barred THEN {Not([u EXCEPT !.capture_abort = TRUE])}
                    ELSE {Done(Dense(u, "norm_out", "logits", "logits", l))}
    IN  OrElse({Not(s)} \cup fast, LAMBDA t : HeadFallback(t, l, dense))

(* EmbedForward pools the normalized rows after the pass.                  *)
Pool(s, l) ==
    LET t == Put(s, "norm_out", FinalNorm(s, l))
    IN  Put(t, "pooled", Kernel("pooled", l, {t.buf["norm_out"]}))

-----------------------------------------------------------------------------
(* The pass, stage by stage.  Every launch of Forward is checked, and of   *)
(* the decode step those of the embedding, RoPE, append and attention.     *)
Checked(R) == R \cup {Not(st)}
CheckedInPrefill(R) == IF Decoding THEN R ELSE Checked(R)

Take(from, R, next) ==
    /\ stage = from
    /\ \E r \in R :
         /\ st' = r.s
         /\ stage' = IF r.ok THEN next ELSE "done"
         /\ outcome' = IF r.ok THEN (IF next = "done" THEN "ok" ELSE outcome)
                       ELSE IF r.s.capture_abort THEN "aborted" ELSE "failed"
    /\ UNCHANGED job

Embedded(s) == {Done(Put(s, residual, <<"resid_out", -1>>))}

(* The guards on the length, the upload of the tokens and the lookup.      *)
PrefillEmbeds == ~Decoding /\ Take("embed", Checked(Embedded(st)), "qkv") /\ UNCHANGED layer

DecodeEmbeds == Decoding /\ Take("embed", Checked(Embedded(st)), "qkv") /\ UNCHANGED layer

PrefillQkv(s0, l) ==
    LET n == PrefillPreNorm(s0, l).normed
        s == [PrefillPreNorm(s0, l) EXCEPT !.normed = FALSE]
    IN  Marked(OrElse(OrElse(PrefillQkvQ81(s, l, n), LAMBDA t : QkvPacked(t, l, n)),
                      LAMBDA t : PrefillQkvFallback(t, l, n)),
               LAMBDA t : BiasAdd(t, l))

DecodeQkv(s0, l) ==
    LET n == DecodePreNorm(s0, l).normed
        s == [DecodePreNorm(s0, l) EXCEPT !.normed = FALSE]
    IN  Marked(OrElse(OrElse(DecodeQkvQ81(s, l, n), LAMBDA t : QkvPacked(t, l, n)),
                      LAMBDA t : DecodeQkvFallback(t, l, n)),
               LAMBDA t : DecodeBias(t, l))

ForwardProjects ==
    /\ Take("qkv", CheckedInPrefill(IF Decoding THEN DecodeQkv(st, layer) ELSE PrefillQkv(st, layer)), "attend")
    /\ UNCHANGED layer

ForwardAttends ==
    /\ Take("attend", Checked({Done(Attend(IF Decoding THEN DecodeRope(st, layer) ELSE PrefillRope(st, layer), layer))}),
            "oproj")
    /\ UNCHANGED layer

ForwardProjectsO ==
    LET after(s) == IF Decoding THEN FfnNormQuantEpilogue(AddAttention(s, layer), layer) ELSE AddAttention(s, layer)
    IN  /\ Take("oproj", CheckedInPrefill(Marked(IF Decoding THEN DecodeOProj(st, layer) ELSE PrefillOProj(st, layer),
                                                 LAMBDA s : [after(s) EXCEPT !.accumulated = FALSE])), "gateup")
        /\ UNCHANGED layer

(* The operators are selected from the weights, the shape and the policy.  *)
ForwardGateUp ==
    /\ \E op \in FfnOps :
         Take("gateup", CheckedInPrefill(IF Decoding THEN DecodeGateUp(st, layer, op) ELSE PrefillGateUp(st, layer, op)), "down")
    /\ UNCHANGED layer

ForwardDown ==
    /\ \E op \in DownOps :
         Take("down", CheckedInPrefill(IF Decoding THEN DecodeDown([st EXCEPT !.actual = "fallback", !.ran = "fallback"], layer, op)
                                       ELSE PrefillDown([st EXCEPT !.actual = "fallback", !.ran = "fallback"], layer, op)), "boundary")
    /\ UNCHANGED layer

ForwardNextLayer ==
    LET s == IF Decoding THEN NextNormQuantEpilogue(AddFfn(st, layer), layer) ELSE AddFfn(st, layer)
    IN  /\ Take("boundary", CheckedInPrefill({Done(FreshLocals(s))}), IF layer < LastLayer THEN "qkv" ELSE "head")
        /\ layer' = IF layer < LastLayer /\ stage' = "qkv" THEN layer + 1 ELSE layer

ForwardHead ==
    /\ Take("head", CheckedInPrefill(IF Decoding THEN DecodeHead(st, layer) ELSE PrefillHead(st, layer)),
            IF job.path = "embed" THEN "pool" ELSE "done")
    /\ UNCHANGED layer

ForwardPools == Take("pool", Checked({Done(Pool(st, layer))}), "done") /\ UNCHANGED layer

ForwardInit ==
    /\ job \in ForwardJobs
    /\ stage = "embed"
    /\ layer = 0
    /\ outcome = "running"
    /\ st = [buf |-> [x \in Buffers |-> Junk], normed |-> FALSE, q81 |-> FALSE, ffn_normed |-> FALSE, ffn_q81 |-> FALSE,
             accumulated |-> FALSE, silu |-> FALSE, epilogue |-> FALSE, norm_computed |-> FALSE, misshapen |-> FALSE,
             capture_abort |-> FALSE, actual |-> "fallback", ran |-> "fallback"]

ForwardNext ==
    \/ PrefillEmbeds \/ DecodeEmbeds \/ ForwardProjects \/ ForwardAttends \/ ForwardProjectsO \/ ForwardGateUp
    \/ ForwardDown \/ ForwardNextLayer \/ ForwardHead \/ ForwardPools

ForwardSpec == ForwardInit /\ [][ForwardNext]_forwardVars

-----------------------------------------------------------------------------
(* Properties.                                                             *)

(* A pass that returns true wrote the logits the model's equations define  *)
(* (and EmbedForward the pooled rows), whichever mixture of fused, packed, *)
(* tensor-core and dense kernels ran, whatever refused attempts left in    *)
(* the scratch buffers, and although q, k, v, attn_out and down may live   *)
(* inside other buffers.  Passes in which the decode fallback gave a       *)
(* non-square projection its dimensions in the wrong order are excepted.   *)
ResultIsModel ==
    outcome = "ok" /\ ~st.misshapen =>
        /\ st.buf["logits"] = <<"logits", LastLayer>>
        /\ job.path = "embed" => st.buf["pooled"] = <<"pooled", LastLayer>>

(* When a stage is told that its input is already normalized or already    *)
(* quantized (input_norm_precomputed, input_q81_precomputed and their FFN  *)
(* counterparts), the buffer it will read holds the input of this layer.   *)
PrecomputedIsCurrent ==
    outcome = "running" /\ ~st.misshapen =>
        /\ stage = "qkv" /\ st.normed => st.buf["norm_out"] = <<"normed_in", layer>>
        /\ stage = "qkv" /\ st.q81 => st.buf["act_q8_1"] = <<"normed_in", layer>>
        /\ stage = "gateup" /\ st.ffn_normed => st.buf["norm_out"] = <<"normed_mid", layer>>
        /\ stage = "gateup" /\ st.ffn_q81 => st.buf["act_q8_1"] = <<"normed_mid", layer>>
        /\ stage = "down" /\ st.epilogue => st.buf["ffn_act_q8_1"] = st.buf["gate"]

(* The operator the executors report, for the counters and the divergence  *)
(* warnings, is one of the tier that computed the projection, unless they  *)
(* report the fallback.                                                    *)
ReportIsTrue == st.actual # "fallback" => TierOf(st.actual) = st.ran

ForwardSafe == ResultIsModel /\ PrecomputedIsCurrent /\ ReportIsTrue
=============================================================================
