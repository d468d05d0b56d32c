-------------------------- MODULE DispatchSelection --------------------------
(* Which kernel the FFN and the down projection of a layer use: the ordered  *)
(* rules of native_dispatch_registry.cpp under the conditions of             *)
(* native_dispatch_policy.cpp, the record of operators that do not work      *)
(* (dispatch_operator_health.cpp), and the probe that fills it when a model  *)
(* is loaded (LlamaForwardTyped::ProbeDispatchPaths), which runs what is     *)
(* selected through the executors of native_linear_executor.h and the entry  *)
(* points of GemvDispatch.                                                   *)
EXTENDS GemvDispatch

CONSTANTS
  Machines,   \* devices with a model and a policy, see MCNative
  Forced,     \* operators that the environment may declare unhealthy
  Widths      \* the batch widths the properties look at

VARIABLES
  machine,    \* where the process runs
  unhealthy,  \* the operators down-ranked so far
  probed,     \* how many of the probe's widths are done
  before      \* unhealthy, before the last step

dispatchVars == <<machine, unhealthy, probed, before>>

DispatchInit ==
  machine \in Machines /\ unhealthy = {} /\ probed = -1 /\ before = {}

---------------------------------------------------------------------------
(* The catalog: the operators of the two projections with their tiers.       *)

FfnTier(op) ==
  CASE op = "fallback" -> "fallback" [] op = "packed_group" -> "packed" [] OTHER -> "q81"

DownTier(op) ==
  CASE op = "fallback" -> "fallback" [] op = "packed_gemv" -> "packed"
    [] op \in {"mmq", "mmq_mma"} -> "mmq" [] OTHER -> "q81"

(* The projection as a call of GemvDispatch. *)
Projection(pol, api, types, m, n, k, op) ==
  [api |-> api, types |-> types, m |-> m, n |-> n, kdim |-> k, op |-> op, cap |-> -1,
   dev |-> machine.dev, pol |-> pol]

Fused(type, m, n, k) ==
  ShouldUseFusedPath(machine.dev, type, [m |-> m, n |-> n, k |-> k, grouped |-> 1])

---------------------------------------------------------------------------
(* The rules.  An operator is chosen by the first rule that is healthy,      *)
(* whose inputs are ready and which matches.                                 *)

FirstRuleStops(rules, ill) ==
  LET apt == {i \in DOMAIN rules : rules[i][2] \/ rules[i][1] \in ill}
  IN IF apt = {} THEN "fallback"
     ELSE LET op == rules[CHOOSE i \in apt : \A j \in apt : i <= j][1]
          IN IF op \in ill THEN "fallback" ELSE op

FirstRule(rules, ill) ==
  LET apt == {i \in DOMAIN rules : rules[i][1] \notin ill /\ rules[i][2]}
  IN IF apt = {} THEN "fallback"
     ELSE rules[CHOOSE i \in apt : \A j \in apt : i <= j][1]

HotPair == machine.inter >= 8192 /\ machine.hidden = 2048

FfnRules(pol, m) ==
  LET q4k == machine.gate = "Q4_K" /\ machine.up = "Q4_K"
      fused == \A t \in {machine.gate, machine.up} : Fused(t, m, machine.inter, machine.hidden)
      q81 == ~pol.disable_q81 /\ fused
  IN <<<<"q81_group_hot_q4k", q81 /\ pol.hot_q4k /\ q4k /\ m = 1 /\ HotPair>>,
       <<"q81_group_row_quad_m4", q81 /\ pol.rowquad_m4 /\ q4k /\ m = 4 /\ HotPair>>,
       <<"q81_group_mmq3", q81 /\ pol.mmq3 /\ q4k /\ m >= 2>>,
       <<"q81_group_row_pair_w4", q81 /\ pol.rowpair_w4 /\ q4k /\ m = 2 /\ HotPair>>,
       <<"q81_group", q81>>,
       <<"packed_group", ~pol.disable_packed /\ fused>>>>

SelectFfnProjOperator(pol, ill, m) ==
  IF pol.force_cublas \/ ~machine.allow_fused THEN "fallback" ELSE FirstRule(FfnRules(pol, m), ill)

MmaReady(pol, m) ==
  /\ pol.enable_mmq_mma /\ SupportsMmqMmaArchitecture(machine.dev)
  /\ machine.down \in {"Q4_K", "Q6_K"}
  /\ m \in pol.mmq_mma_min_batch .. pol.mmq_mma_max_batch /\ machine.inter % 256 = 0

DownSingle(pol, api, m) ==
  Projection(pol, api, <<machine.down>>, m, <<machine.hidden>>, machine.inter, "fallback")

MmqReady(pol, m) ==
  \/ MmaReady(pol, m)
  \/ /\ machine.mmq_layout /\ pol.enable_downproj_mmq /\ machine.down \in {"Q4_K", "Q6_K"}
     /\ m >= GetDownProjMmqThreshold(DownSingle(pol, "downproj_mmq", m))

DownRules(pol, m) ==
  LET fused == Fused(machine.down, m, machine.hidden, machine.inter)
      q81 == ~pol.disable_q81 /\ fused
      k46 == machine.down \in {"Q4_K", "Q6_K"}
      hot == k46 /\ machine.hidden = 2048 /\ machine.inter = 11008
  IN <<<<"mmq_mma", MmaReady(pol, m)>>,
       <<"mmq", MmqReady(pol, m)>>,
       <<"q81_gemv_hot_fixed", q81 /\ hot /\ m = 1>>,
       <<"q81_gemv_row_pair_hot_fixed", q81 /\ hot /\ m = 2>>,
       <<"q81_gemv_row_quad", q81 /\ k46 /\ m >= 4>>,
       <<"q81_gemv_row_pair", q81 /\ k46 /\ m > 1>>,
       <<"q81_gemv", q81>>,
       <<"packed_gemv", ~pol.disable_packed /\ fused>>>>

SelectDownProjOperator(pol, ill, m) ==
  IF pol.force_cublas \/ ~machine.allow_fused THEN "fallback" ELSE FirstRule(DownRules(pol, m), ill)

---------------------------------------------------------------------------
(* What the attempts of the executors do.  machine.broken are the tiers      *)
(* whose kernels the device refuses to launch.                               *)

Works(tier, call) == tier \notin machine.broken /\ Dispatch(call) # Declined

(* Two projections in one launch when their types agree and the pair's own   *)
(* threshold allows it, and one at a time when it does not or declines.      *)
GateUpTypes == <<machine.gate, machine.up>>

Pair(pol, api, m, op) ==
  Projection(pol, api, GateUpTypes, m, <<machine.inter, machine.inter>>, machine.hidden, op)

Single(pol, api, i, m, op) ==
  Projection(pol, api, <<GateUpTypes[i]>>, m, <<machine.inter>>, machine.hidden, op)

FusedTogether(m) ==
  /\ machine.gate = machine.up
  /\ ShouldUseFusedPath(machine.dev, machine.gate,
       [m |-> m, n |-> machine.inter, k |-> machine.hidden, grouped |-> 2])

Grouped(tier, pol, pair, single, m, op) ==
  \/ FusedTogether(m) /\ Works(tier, Pair(pol, pair, m, op))
  \/ \A i \in 1 .. 2 : Works(tier, Single(pol, single, i, m, op))

Q8_1ProjectionGroupRuns(pol, m, op) ==
  /\ ~pol.disable_q81
  /\ \A t \in {machine.gate, machine.up} :
       GetQ8_1DispatchEntry(machine.dev, t) /\ Fused(t, m, machine.inter, machine.hidden)
  /\ Grouped("q81", pol, "q81_pair", "q81", m, op)

PackedProjectionGroupRuns(pol, m) ==
  /\ ~pol.disable_packed
  /\ \A t \in {machine.gate, machine.up} : Fused(t, m, machine.inter, machine.hidden)
  /\ Grouped("packed", pol, "packed_pair", "packed", m, "fallback")

(* The operator the FFN stage reports, given what its two attempts answer.   *)
FfnStage(op, q81, packed) ==
  CASE op = "fallback"            -> "fallback"
    [] FfnTier(op) = "q81" /\ q81 -> op
    [] OTHER                      -> IF packed THEN "packed_group" ELSE "fallback"

(* The stage as the probe runs it. *)
FfnActual(op, m) ==
  FfnStage(op, Q8_1ProjectionGroupRuns(machine.pol, m, op), PackedProjectionGroupRuns(machine.pol, m))

(* The policy of a decode step: narrow batches run without the Q8_1 tier.    *)
StepPolicy(m) ==
  [machine.pol EXCEPT !.disable_q81 = @ \/ m <= machine.pol.packed_tier_max_batch]

(* Decode's Q8_1 attempt.  From two rows on the activations are quantized    *)
(* for the tensor cores; once that is done only the two Q4_K kernels are     *)
(* tried, and the group is not.                                              *)
MmaQuantized(pol, m) == m >= 2 /\ QuantizeForMmqMma(Single(pol, "mma_pre", 1, m, "fallback"))

DecodeQ8_1Runs(pol, m, op) ==
  IF MmaQuantized(pol, m)
    THEN \/ Works("mma", Pair(pol, "mma_dual", m, "fallback"))
         \/ \A i \in 1 .. 2 : Works("mma", Single(pol, "mma_pre", i, m, "fallback"))
    ELSE Q8_1ProjectionGroupRuns(pol, m, op)

(* Before the stage, decode tries gate, up and SiLU in one kernel; the stage *)
(* is left out when that works.                                              *)
GateUpSiluRuns(pol, m, op) ==
  /\ pol.gate_up_silu /\ (pol.gate_up_silu_max < 0 \/ m <= pol.gate_up_silu_max)
  /\ op \notin {"q81_group_mmq3", "q81_group_row_quad_m4"} /\ ~pol.disable_q81
  /\ GetQ8_1DispatchEntry(machine.dev, machine.gate) /\ FusedTogether(m)
  /\ Works("q81", Pair(pol, "gate_up_silu", m, op))

(* The stage as decode runs it. *)
FfnDecodeActual(op, m) ==
  LET pol == StepPolicy(m)
  IN FfnStage(op, DecodeQ8_1Runs(pol, m, op), PackedProjectionGroupRuns(pol, m))

MmqMmaSiluMulRuns(pol, ill, m) ==
  /\ "mmq_mma" \notin ill
  /\ machine.down \in {"Q4_K", "Q6_K"}
  /\ Works("mma", DownSingle(pol, IF machine.down = "Q6_K" THEN "downproj_q6k" ELSE "downproj_q4k", m))

MmqSiluMulGemvRuns(pol, m) == machine.mmq_layout /\ Works("mmq", DownSingle(pol, "downproj_mmq", m))

(* Accumulating into the residual when the policy allows it, else a plain    *)
(* product: the same guards.                                                 *)
Q8_1SiluMulGemvRuns(pol, m) ==
  /\ ~pol.disable_q81 /\ Fused(machine.down, m, machine.hidden, machine.inter)
  /\ \E api \in {"q81", "q81_accum", "q81_accum_f32"} : Works("q81", DownSingle(pol, api, m))

PackedSiluMulGemvRuns(pol, m) ==
  /\ ~pol.disable_packed /\ Fused(machine.down, m, machine.hidden, machine.inter)
  /\ Works("packed", DownSingle(pol, "packed", m))

FirstThat(attempts) ==
  LET ok == {i \in DOMAIN attempts : attempts[i][2]}
  IN IF ok = {} THEN "fallback" ELSE attempts[CHOOSE i \in ok : \A j \in ok : i <= j][1]

(* The operator the down stage reports as executed. *)
DownActual(pol, ill, op, m) ==
  LET mma == <<"mmq_mma", MmqMmaSiluMulRuns(pol, ill, m)>>
      mmq == <<"mmq", MmqSiluMulGemvRuns(pol, m)>>
      q81(name) == <<name, Q8_1SiluMulGemvRuns(pol, m)>>
      packed == <<"packed_gemv", PackedSiluMulGemvRuns(pol, m)>>
  IN CASE op = "fallback"    -> "fallback"
       [] op = "mmq_mma"     -> FirstThat(<<mma, mmq, q81("q81_gemv"), packed>>)
       [] op = "mmq"         -> FirstThat(<<mmq, q81("q81_gemv"), packed>>)
       [] op = "packed_gemv" -> FirstThat(<<packed>>)
       [] OTHER              -> FirstThat(<<q81(op), mma, mmq, packed>>)

FfnDiverges(op, m) == FfnTier(op) # FfnTier(FfnActual(op, m))

DownDiverges(pol, ill, op, m) == DownTier(op) # DownTier(DownActual(pol, ill, op, m))

---------------------------------------------------------------------------
(* MarkUnhealthy: a bit is set once and never cleared; the fallback has none. *)
MarkUnhealthy(ops) == unhealthy' = unhealthy \cup (ops \ {"fallback"}) /\ before' = unhealthy

ProbeWidths == <<1, 2, 4, 8, 16>>

(* INFERFLUX_CUDA_DISPATCH_PROBE_FORCE_UNHEALTHY. *)
ApplyForceList ==
  /\ probed = -1 /\ probed' = 0
  /\ \E ops \in SUBSET Forced : MarkUnhealthy(ops)
  /\ UNCHANGED machine

(* One width: first the FFN, then the down projection.                       *)
ProbeWidth ==
  /\ probed \in 0 .. Len(ProbeWidths) - 1
  /\ LET m == ProbeWidths[probed + 1]
         ffn == SelectFfnProjOperator(machine.pol, unhealthy, m)
         down == SelectDownProjOperator(machine.pol, unhealthy, m)
     IN MarkUnhealthy({x \in {ffn} : FfnDiverges(x, m)} \cup {x \in {down} : DownDiverges(machine.pol, unhealthy, x, m)})
  /\ probed' = probed + 1
  /\ UNCHANGED machine

DispatchNext == ApplyForceList \/ ProbeWidth

DispatchSpec == DispatchInit /\ [][DispatchNext]_dispatchVars

---------------------------------------------------------------------------
(* DecodeGraphCaptureSafe, for the projections of this module. *)
ProjectionHasGraphSafeKernel(type, m, n, k) ==
  /\ ~machine.pol.force_cublas /\ machine.allow_fused
  /\ Fused(type, m, n, k)
  /\ ~machine.pol.disable_q81 \/ ~machine.pol.disable_packed

CaptureSafeFor(m) ==
  /\ \A t \in {machine.gate, machine.up} : ProjectionHasGraphSafeKernel(t, m, machine.inter, machine.hidden)
  /\ ProjectionHasGraphSafeKernel(machine.down, m, machine.hidden, machine.inter)

---------------------------------------------------------------------------
(* Selector, executor and kernels agree: on a device that launches every     *)
(* kernel, with the tiled dp4a tier off and single GEMVs allowed, what is    *)
(* selected is what the probe runs, at every width: at first, so that the    *)
(* probe has nothing of its own to down-rank, and again after the probe      *)
(* whatever was forced (with mmq_mma forced the rule of mmq, which accepts   *)
(* what is ready for mmq_mma, has to be down-ranked on the way).  Decode,    *)
(* with its own Q8_1 attempt and under the policy of the step, runs the tier *)
(* it selects too, but for gate and up that are not both Q4_K at the widths  *)
(* whose activations are quantized for the tensor cores: they run packed or  *)
(* dense where Q8_1 is selected.  Nothing is said of the steps in which one  *)
(* kernel stands in for the FFN stage.                                       *)
Settled ==
  /\ machine.broken = {} /\ ~machine.pol.enable_downproj_mmq /\ ~machine.pol.disable_fused_gemv
  /\ probed \in {-1, Len(ProbeWidths)}

FfnRunsSelected(m) ==
  LET op == SelectFfnProjOperator(StepPolicy(m), unhealthy, m)
      mixed == MmaQuantized(StepPolicy(m), m) /\ GateUpTypes # <<"Q4_K", "Q4_K">>
      actual == FfnTier(FfnDecodeActual(op, m))
  IN \/ GateUpSiluRuns(StepPolicy(m), m, op)
     \/ mixed /\ FfnTier(op) = "q81"
     \/ actual = FfnTier(op)

SelectedIsExecuted ==
  Settled => \A m \in Widths :
    LET ffn == SelectFfnProjOperator(machine.pol, unhealthy, m)
        down == SelectDownProjOperator(machine.pol, unhealthy, m)
        step == SelectDownProjOperator(StepPolicy(m), unhealthy, m)
    IN /\ ~FfnDiverges(ffn, m) /\ ~DownDiverges(machine.pol, unhealthy, down, m)
       /\ FfnRunsSelected(m) /\ ~DownDiverges(StepPolicy(m), unhealthy, step, m)

(* Down-ranking an operator changes the choice only where that operator was  *)
(* the choice; every other width keeps its kernel.                           *)
DownRankingIsLocal ==
  before # unhealthy => \A m \in Widths :
    LET f == SelectFfnProjOperator(machine.pol, before, m)
        d == SelectDownProjOperator(machine.pol, before, m)
    IN /\ f \in unhealthy \/ SelectFfnProjOperator(machine.pol, unhealthy, m) = f
       /\ d \in unhealthy \/ SelectDownProjOperator(machine.pol, unhealthy, m) = d

(* A step whose projections were found safe to capture selects a fused       *)
(* operator for each of them, as long as no operator is down-ranked and the  *)
(* step keeps the policy of the process.                                     *)
CaptureSafeIsFused ==
  \A m \in Widths :
    (unhealthy = {} /\ StepPolicy(m) = machine.pol /\ CaptureSafeFor(m)) =>
      /\ SelectFfnProjOperator(machine.pol, unhealthy, m) # "fallback"
      /\ SelectDownProjOperator(machine.pol, unhealthy, m) # "fallback"

(* What the rules choose, what the executors run and what the probe marks.   *)
DispatchSafe == SelectedIsExecuted /\ DownRankingIsLocal /\ CaptureSafeIsFused

(* inferflux_cuda_executor.cpp:1974: the probe "verifies every selectable    *)
(* operator can actually execute and down-ranks divergent ones".             *)
ProbeFindsDivergence ==
  probed = Len(ProbeWidths) =>
    \A m \in Widths :
      LET ffn == SelectFfnProjOperator(machine.pol, unhealthy, m)
          down == SelectDownProjOperator(machine.pol, unhealthy, m)
      IN ~FfnDiverges(ffn, m) /\ ~DownDiverges(machine.pol, unhealthy, down, m)

(* transformer_forward.cu:2786, "the probe exercises exactly the dispatch    *)
(* that decode will take, so it cannot drift from reality": at the widths it *)
(* tries, decode's stage reports what the probe's did.                       *)
ProbeRunsWhatDecodeRuns ==
  \A i \in DOMAIN ProbeWidths :
    LET m == ProbeWidths[i]
        op == SelectFfnProjOperator(machine.pol, unhealthy, m)
    IN StepPolicy(m) = machine.pol => FfnDecodeActual(op, m) = FfnActual(op, m)

(* transformer_forward.cu:2990, "consistent tier decision (operator          *)
(* selection, dispatch guards, fused path checks)": the kernel that stands   *)
(* in for the FFN stage runs where the Q8_1 tier is selected.                *)
StandInFollowsSelection ==
  \A m \in Widths :
    LET op == SelectFfnProjOperator(StepPolicy(m), unhealthy, m)
    IN GateUpSiluRuns(StepPolicy(m), m, op) => FfnTier(op) = "q81"

=============================================================================
