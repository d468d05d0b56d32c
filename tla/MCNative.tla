------------------------------ MODULE MCNative ------------------------------
(* The native CUDA backend, one part at a time: `focus` says which of them    *)
(* runs, and the others stay in an initial state.  The lanes are the only     *)
(* part with threads of its own; the others are what one thread does with     *)
(* the device.                                                                *)
EXTENDS LaneOverlap, DispatchSelection, AttentionKernels, ForwardPass, DecodeGraphs, TLC

VARIABLE focus

---------------------------------------------------------------------------
(* LaneOverlap.  slow: a lane may miss its deadline; chunks: prompts are     *)
(* prefilled in chunks; replicas: what initialising the lanes meets; cleans: *)
(* the dequantised cache is dropped after every batch.                       *)

MCLaneConfigs ==
  {[slow |-> TRUE, chunks |-> FALSE, replicas |-> "made", cleans |-> TRUE],
   [slow |-> FALSE, chunks |-> TRUE, replicas |-> "made", cleans |-> FALSE],
   [slow |-> FALSE, chunks |-> FALSE, replicas |-> "lacking", cleans |-> FALSE],
   [slow |-> FALSE, chunks |-> FALSE, replicas |-> "unallocated", cleans |-> FALSE]}

---------------------------------------------------------------------------
(* GemvDispatch: every entry point, quantisation, kernel and tile tail. *)

Device(major, minor, sms) ==
    [major |-> major, minor |-> minor, sms |-> sms, shared |-> 49152, rows |-> 64,
     hidden |-> 896, inter |-> 4864]

Policy == [disable_fused_gemv |-> FALSE, disable_q6k_vectorized |-> FALSE, enable_q6k_vectorized |-> FALSE,
           wide_accum |-> TRUE, wide_gate_up |-> TRUE, enable_downproj_mmq |-> TRUE,
           downproj_mmq_min_batch_override |-> -1, downproj_mmq_min_splits |-> 6,
           enable_mmq_mma |-> TRUE, mmq_mma_min_batch |-> 4, mmq_mma_max_batch |-> 16,
           mmq_mma_force_split_fat |-> TRUE, mmq_mma_split_min_segment |-> 0]

Ada == Device(8, 9, 8)
Ampere == Device(8, 6, 8)
Maxwell == Device(5, 2, 8)

GemvCall(api, types, m, n, k) ==
    [api |-> api, types |-> types, m |-> m, n |-> n, kdim |-> k, op |-> "fallback", cap |-> -1,
     dev |-> Ada, pol |-> Policy]

Kdim(type, blocks) == blocks * BlockSize(type)

Singles ==
    {GemvCall(a, <<q>>, m, <<n>>, Kdim(q, k)) :
        a \in {"packed", "q81", "q81_accum", "q81_accum_f32", "q81_bias", "downproj_mmq"},
        q \in Q81Types, m \in {1, 3, 9}, n \in {9}, k \in {1, 9, 33}}
    \cup {GemvCall(a, <<q>>, 17, <<9>>, Kdim(q, 2)) :
        a \in {"packed", "q81", "q81_accum", "downproj_mmq"}, q \in Q81Types}
Wide ==
    {GemvCall(a, <<q>>, m, <<n>>, Kdim(q, k)) :
        a \in {"packed", "q81", "q81_accum"}, q \in Q81Types, m \in {65}, n \in {3}, k \in {2}}
Narrow == {[c EXCEPT !.pol.wide_accum = FALSE, !.dev = Ampere] : c \in {d \in Singles : d.m = 3}}
Off == {[c EXCEPT !.dev = Maxwell] : c \in {d \in Singles : d.m = 1 /\ d.kdim <= 256}}
Pairs ==
    {GemvCall(a, <<q, r>>, m, <<n, 9>>, Kdim(q, k)) :
        a \in {"packed_pair", "q81_pair", "gate_up_silu"},
        q \in Q81Types, r \in {"Q4_K", "Q6_K"}, m \in {1, 4, 10}, n \in {9}, k \in {2, 17}}
Ops == {[c EXCEPT !.op = o, !.n = <<16, 8>>] :
          o \in {"q81_group_mmq3", "q81_group_row_quad_m4"}, c \in {d \in Pairs : d.api = "q81_pair"}}
Triples ==
    {GemvCall(a, <<q, q, q>>, m, <<9, 2, 1>>, Kdim(q, k)) :
        a \in {"packed_triple", "q81_triple"}, q \in Q81Types, m \in {1, 5, 9}, k \in {2}}
MmaCalls ==
    {GemvCall(a, <<q>>, m, <<n>>, 256 * k) :
        a \in {"mma", "mma_pre", "downproj_q4k", "downproj_q6k"}, q \in {"Q4_K", "Q6_K"},
        m \in {1, 4, 9}, n \in {129}, k \in {3}}
Prefill == {[c EXCEPT !.m = 17, !.n = <<20>>, !.cap = 512] : c \in {d \in MmaCalls : d.m = 4}}
Cut == {[c EXCEPT !.n = <<20>>, !.pol.mmq_mma_split_min_segment = 512] : c \in {d \in MmaCalls : d.m = 4}}
Duals == {GemvCall("mma_dual", t, m, n, 512) :
            t \in {<<"Q4_K", "Q4_K">>, <<"Q4_K", "Q6_K">>}, m \in {2, 17}, n \in {<<130, 130>>, <<128, 256>>}}
TriplesMma == {[GemvCall("mma_triple", <<"Q4_K", "Q4_K", "Q4_K">>, m, n, 512) EXCEPT !.dev.sms = s] :
            m \in {2, 17}, n \in {<<128, 128, 128>>, <<256, 128, 128>>}, s \in {3, 8}}

MCGemvCalls == Singles \cup Narrow \cup Off \cup Pairs \cup Ops \cup Triples \cup Wide
               \cup MmaCalls \cup Prefill \cup Cut \cup Duals \cup TriplesMma

---------------------------------------------------------------------------
(* AttentionKernels: every kernel, head layout and workspace case. *)

AttnPolicy(mma, packed, split_kv, wph, q, chunk) ==
    [mma |-> mma, packed |-> packed, split_kv |-> split_kv, warp_per_head |-> wph,
     qsplit_override |-> q, chunk |-> chunk]

DecodeCall(pol, heads, kv_heads, head_dim, hint, lens) ==
    [query_len |-> 0, batch |-> Len(lens), kv_lens |-> lens, heads |-> heads,
     kv_heads |-> kv_heads, head_dim |-> head_dim, hint |-> hint, pol |-> pol,
     contiguous |-> TRUE, split_allocated |-> TRUE, smem_configured |-> TRUE, pending |-> FALSE,
     smem |-> 101376,
     type |-> "half", max_batch |-> 4]

PrefillCall(heads, kv_heads, head_dim, query_len, kv_len) ==
    [DecodeCall(AttnPolicy(TRUE, TRUE, FALSE, FALSE, -1, 512), heads, kv_heads, head_dim, 1024, <<kv_len>>)
        EXCEPT !.query_len = query_len]

AttnShapes == {<<16, 2, 128>>, <<8, 1, 128>>, <<8, 2, 64>>, <<4, 2, 128>>, <<14, 2, 64>>, <<4, 4, 64>>}

AttnPolicies ==
    {AttnPolicy(TRUE, TRUE, FALSE, FALSE, -1, 512), AttnPolicy(FALSE, TRUE, FALSE, FALSE, -1, 512),
     AttnPolicy(FALSE, FALSE, FALSE, FALSE, -1, 512), AttnPolicy(FALSE, FALSE, FALSE, TRUE, -1, 512),
     AttnPolicy(FALSE, FALSE, TRUE, FALSE, -1, 512), AttnPolicy(FALSE, FALSE, TRUE, FALSE, 3, 128)}

AttnDecodes ==
    {DecodeCall(pol, s[1], s[2], s[3], hint, lens) :
        pol \in AttnPolicies, s \in AttnShapes, hint \in {256, 512, 4096},
        lens \in {<<1>>, <<9, 250>>, <<200, 65, 1>>}}
    \cup {DecodeCall(pol, 16, 2, 128, 4096, <<4096, 700>>) : pol \in AttnPolicies}

AttnPrefills ==
    {PrefillCall(s[1], s[2], s[3], q, q + past) :
        s \in AttnShapes, q \in {1, 15, 16, 17, 33}, past \in {0, 70}}

(* Other head sizes, on a device with 99 KB and one with 163 KB to a block. *)
OddShapes == {<<8, 1, 80>>, <<4, 2, 96>>, <<8, 1, 112>>, <<4, 4, 192>>, <<4, 2, 192>>, <<4, 1, 256>>,
              <<4, 2, 32>>}
OddHeads ==
    {[c EXCEPT !.smem = m] : m \in {101376, 166912},
        c \in {DecodeCall(pol, s[1], s[2], s[3], hint, <<9, 70>>) :
                  pol \in AttnPolicies, s \in OddShapes, hint \in {512, 4096}}
             \cup {PrefillCall(s[1], s[2], s[3], q, q + 70) : s \in OddShapes, q \in {1, 17}}}

MCAttnCalls ==
    AttnPrefills \cup AttnDecodes \cup OddHeads
    \cup {[c EXCEPT !.split_allocated = FALSE] : c \in AttnDecodes}
    \cup {[c EXCEPT !.smem_configured = FALSE, !.pending = d] : c \in AttnDecodes, d \in BOOLEAN}
    \cup {[c EXCEPT !.contiguous = FALSE] : c \in AttnDecodes}
    \cup {[c EXCEPT !.type = "bf16"] : c \in AttnDecodes}
    \cup {[c EXCEPT !.split_allocated = FALSE, !.contiguous = FALSE] : c \in AttnDecodes}

---------------------------------------------------------------------------
(* ForwardPass: decode, prefill and embedding passes over two layers. *)

DecodeJob ==
  [path |-> "decode", layers |-> 2, half |-> TRUE, wide |-> TRUE, fp32 |-> TRUE, aliased |-> TRUE,
   biases |-> {"q", "k", "v"}, square |-> {"q"}, cublas_barred |-> FALSE, fold_bias |-> TRUE,
   contiguous |-> TRUE, fused_rope |-> TRUE, residual_norm |-> TRUE,
   norm_quant_epilogue |-> FALSE, gate_up_silu |-> FALSE, silu_epilogue |-> FALSE]
HalfJob == [DecodeJob EXCEPT !.fp32 = FALSE, !.fold_bias = FALSE, !.norm_quant_epilogue = TRUE]
PrefillJob == [DecodeJob EXCEPT !.path = "prefill"]
MCForwardJobs ==
  {DecodeJob,
   [DecodeJob EXCEPT !.contiguous = FALSE, !.residual_norm = FALSE, !.norm_quant_epilogue = TRUE],
   [DecodeJob EXCEPT !.biases = {}, !.gate_up_silu = TRUE, !.silu_epilogue = TRUE, !.wide = FALSE],
   HalfJob,
   [HalfJob EXCEPT !.gate_up_silu = TRUE, !.cublas_barred = TRUE, !.wide = FALSE,
                   !.residual_norm = FALSE],
   [DecodeJob EXCEPT !.half = FALSE, !.square = {}],
   PrefillJob, [PrefillJob EXCEPT !.path = "embed", !.fp32 = FALSE],
   [PrefillJob EXCEPT !.half = FALSE, !.aliased = FALSE, !.fp32 = FALSE, !.residual_norm = FALSE]}

---------------------------------------------------------------------------
(* DispatchSelection: three devices, policies that turn tiers off, models    *)
(* of two shapes and four quantisations, and kernels that do not launch.     *)

Selector ==
  [Policy EXCEPT !.enable_downproj_mmq = FALSE]
  @@ [force_cublas |-> FALSE, disable_q81 |-> FALSE, disable_packed |-> FALSE, hot_q4k |-> TRUE,
      rowpair_w4 |-> TRUE, rowquad_m4 |-> FALSE, mmq3 |-> TRUE, packed_tier_max_batch |-> -1,
      gate_up_silu |-> TRUE, gate_up_silu_max |-> -1]
Selectors ==
  {Selector, [Selector EXCEPT !.rowquad_m4 = TRUE, !.mmq3 = FALSE, !.enable_mmq_mma = FALSE],
   [Selector EXCEPT !.mmq3 = FALSE, !.gate_up_silu_max = 8], [Selector EXCEPT !.disable_q81 = TRUE],
   [Selector EXCEPT !.disable_q81 = TRUE, !.disable_packed = TRUE],
   [Selector EXCEPT !.packed_tier_max_batch = 2], [Selector EXCEPT !.enable_downproj_mmq = TRUE],
   [Selector EXCEPT !.force_cublas = TRUE], [Selector EXCEPT !.disable_fused_gemv = TRUE]}

Machine(v, selector, shape, t, broken) ==
  [dev |-> [Device(v[1], v[2], 8) EXCEPT !.hidden = 2048, !.inter = 11008], pol |-> selector,
   hidden |-> shape[1], inter |-> shape[2], gate |-> t[1], up |-> t[2], down |-> t[3],
   mmq_layout |-> TRUE, allow_fused |-> TRUE, broken |-> broken]
MCMachines ==
  {Machine(v, s, shape, t, b) :
     v \in {<<8, 9>>, <<7, 0>>, <<6, 0>>}, s \in Selectors,
     shape \in {<<2048, 11008>>, <<896, 4864>>},
     t \in {<<"Q4_K", "Q4_K", "Q6_K">>, <<"Q4_K", "Q6_K", "Q4_K">>,
            <<"Q8_0", "Q8_0", "Q8_0">>, <<"Q5_K", "Q5_K", "Q4_K">>},
     b \in {{}, {"q81"}, {"mma"}, {"q81", "packed", "mma", "mmq"}}}

---------------------------------------------------------------------------
\* What a part that does not run has in its variables.
GemvIdle ==
  /\ gemvCall = [GemvCall("q81", <<"Q4_K">>, 1, <<9>>, 256) EXCEPT !.dev = Maxwell]
  /\ gemvPc = "declined" /\ gemvRun = Declined
AttnIdle ==
  /\ attnCall = PrefillCall(4, 4, 64, 1, 1)
  /\ attnPc = "call" /\ attnRun = AttnError /\ workspace = <<>> /\ attended = <<>>
DispatchIdle ==
  /\ machine = Machine(<<6, 0>>, [Selector EXCEPT !.force_cublas = TRUE], <<896, 4864>>,
                       <<"Q8_0", "Q8_0", "Q8_0">>, {"q81"})
  /\ unhealthy = {} /\ probed = -1 /\ before = {}

MCInit ==
  /\ focus \in {"lanes", "gemv", "attention", "forward", "graphs", "dispatch"}
  /\ GraphsInit
  /\ LaneInit /\ (focus = "lanes" \/ laneConfig = CHOOSE c \in LaneConfigs : TRUE)
  /\ ForwardInit /\ (focus = "forward" \/ job = DecodeJob)
  /\ \/ focus = "gemv" /\ GemvInit
     \/ focus # "gemv" /\ GemvIdle
  /\ \/ focus = "attention" /\ AttnInit
     \/ focus # "attention" /\ AttnIdle
  /\ \/ focus = "dispatch" /\ DispatchInit
     \/ focus # "dispatch" /\ DispatchIdle

MCNext ==
  /\ UNCHANGED focus
  /\ \/ /\ focus = "lanes" /\ LaneNext
        /\ UNCHANGED <<gemvVars, attnVars, forwardVars, graphVars, dispatchVars>>
     \/ /\ focus = "gemv" /\ GemvNext
        /\ UNCHANGED <<laneVars, attnVars, forwardVars, graphVars, dispatchVars>>
     \/ /\ focus = "attention" /\ AttnNext
        /\ UNCHANGED <<laneVars, gemvVars, forwardVars, graphVars, dispatchVars>>
     \/ /\ focus = "forward" /\ ForwardNext
        /\ UNCHANGED <<laneVars, gemvVars, attnVars, graphVars, dispatchVars>>
     \/ /\ focus = "graphs" /\ GraphsNext
        /\ UNCHANGED <<laneVars, gemvVars, attnVars, forwardVars, dispatchVars>>
     \/ /\ focus = "dispatch" /\ DispatchNext
        /\ UNCHANGED <<laneVars, gemvVars, attnVars, forwardVars, graphVars>>

mcVars == <<focus, laneVars, gemvVars, attnVars, forwardVars, graphVars, dispatchVars>>

MCSpec ==
  /\ MCInit /\ [][MCNext]_mcVars
  /\ WF_laneVars(focus = "lanes" /\ CallSteps)
  /\ WF_laneVars(focus = "lanes" /\ LanesStopped)
  /\ \A l \in Lanes : WF_laneVars(focus = "lanes" /\ WorkerSteps(l))
  /\ \A s \in Streams : WF_laneVars(focus = "lanes" /\ StreamStep(s))
=============================================================================
