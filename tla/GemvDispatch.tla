---------------------------- MODULE GemvDispatch ----------------------------
(***************************************************************************)
(* fused_quant_gemm.cu: the host entry points of the quantized GEMV        *)
(* kernels.  One call is a record: the entry point (api), the quantization *)
(* of the weights of each projection (types), the activation rows m, the   *)
(* output columns n of each projection, the inner dimension kdim, the      *)
(* operator the caller selected (op), the caller's limit on m (cap, or -1) *)
(* the device and the execution policy.  The call is declined (returns     *)
(* false before anything is written) or launches one kernel of GemvKernels *)
(* and, when K is cut in slices, the kernel that adds the slices.          *)
(***************************************************************************)
EXTENDS GemvKernels

CONSTANT GemvCalls   (* the calls that are made *)

VARIABLES gemvCall,  (* the call *)
          gemvPc,    (* "entered", "declined", "launched", "done" *)
          gemvRun    (* the launch, when there is one *)

gemvVars == <<gemvCall, gemvPc, gemvRun>>

MaxOf(s) == CHOOSE x \in {s[i] : i \in DOMAIN s} : \A i \in DOMAIN s : s[i] <= x

Declined == [kernel |-> "none"]

BlockSize(type) == IF type = "Q8_0" THEN 32 ELSE 256

Launch(kernel, grid, warps, tile, c) ==
    [kernel |-> kernel, gx |-> grid[1], gy |-> grid[2], gz |-> grid[3], warps |-> warps,
     m |-> c.m, n |-> c.n, k |-> c.kdim \div BlockSize(c.types[1]),
     tile |-> tile, n1 |-> 0, n2 |-> 0]

(***************************************************************************)
(* Which entry points exist, and up to which m they are used.              *)
(***************************************************************************)
HasDp4a(d) == d.major > 6 \/ (d.major = 6 /\ d.minor >= 1)

base_threshold(d) ==
    CASE d.major < 7 -> 16
      [] d.major = 7 /\ d.minor < 5 -> 8
      [] d.major = 7 /\ d.minor >= 5 -> 6
      [] d.major = 8 /\ d.minor = 0 -> 4
      [] d.major = 8 /\ d.minor # 0 -> 5
      [] d.major >= 9 -> 3

Q81Types == {"Q8_0", "Q4_K", "Q6_K", "Q8_K"}

GetPackedDispatchEntry(d, type) == HasDp4a(d) /\ type \in Q81Types
GetQ8_1DispatchEntry(d, type) == HasDp4a(d) /\ type \in Q81Types

(* Twice the bits per weight, as a fraction: the threshold is the base     *)
(* times 16 / bits, rounded.                                               *)
BitsPerWeight(type) ==
    CASE type = "Q4_K" -> <<9, 1>>
      [] type = "Q6_K" -> <<105, 8>>
      [] type \in {"Q8_0", "Q8_K"} -> <<17, 1>>
      [] OTHER -> <<32, 1>>

Rounded(a, b) == (2 * a + b) \div (2 * b)

kFusedGemmMaxM == 64

ClampThreshold(x) == Greatest(4, Least(kFusedGemmMaxM, x))

ComputeThreshold(base, bpw) == ClampThreshold(Rounded(base * 32 * bpw[2], bpw[1]))

GetAdaptiveThreshold(d, type) ==
    LET base == base_threshold(d)
    IN ComputeThreshold(IF HasDp4a(d) /\ type \in Q81Types THEN Greatest(2 * base, 14) ELSE base,
                        BitsPerWeight(type))

(* g: m, n, k, grouped outputs, packed activations (all callers below use  *)
(* packed or Q8_1 activations, which count as packed).                     *)
GetGeometryAwareThreshold(d, type, g) ==
    ClampThreshold(GetAdaptiveThreshold(d, type) + 8 + 4 * (g.grouped - 1)
                   + (IF g.k >= 2048 THEN 4 ELSE 0) + (IF g.k >= 4096 THEN 4 ELSE 0)
                   - (IF g.grouped = 1 /\ g.n >= 32768 THEN 8
                      ELSE IF g.grouped = 1 /\ g.n >= 8192 THEN 2 ELSE 0))

ShouldUseFusedPath(d, type, g) ==
    /\ g.m > 0
    /\ GetPackedDispatchEntry(d, type)
    /\ g.m <= GetGeometryAwareThreshold(d, type, g)

Geometry(c) == [m |-> c.m, n |-> MaxOf(c.n), k |-> c.kdim, grouped |-> Len(c.n)]

SameType(c) == \A i \in DOMAIN c.types : c.types[i] = c.types[1]

(***************************************************************************)
(* Packed activations.                                                     *)
(***************************************************************************)
PackedKernel(type) ==
    CASE type = "Q4_K" -> "q4k_packed" [] type = "Q6_K" -> "q6k_packed"
      [] type = "Q8_0" -> "q8_0_packed" [] type = "Q8_K" -> "q8k_packed"

PackedGroupKernel(type) ==
    CASE type = "Q4_K" -> "q4k_packed_group" [] type = "Q6_K" -> "q6k_packed_group"
      [] type = "Q8_0" -> "q8_0_packed_group" [] type = "Q8_K" -> "q8k_packed_group"

kGemvWarpsPerBlock == 8

(* One warp per output column, one block row per activation row.           *)
DispatchPacked(kernel, c) ==
    Launch(kernel, <<CeilDiv(MaxOf(c.n), kGemvWarpsPerBlock), c.m, 1>>, kGemvWarpsPerBlock, 1, c)

GemvPacked(c) ==
    IF c.pol.disable_fused_gemv \/ ~ShouldUseFusedPath(c.dev, c.types[1], Geometry(c))
    THEN Declined ELSE DispatchPacked(PackedKernel(c.types[1]), c)

ValidatePackedProjectionSpecs(c) ==
    ShouldUseFusedPath(c.dev, c.types[1], Geometry(c)) /\ SameType(c)

GemvPackedPair(c) ==
    IF ValidatePackedProjectionSpecs(c) THEN DispatchPacked(PackedGroupKernel(c.types[1]), c)
    ELSE Declined

GemvPackedTriple(c) ==
    IF ValidatePackedProjectionSpecs(c) THEN DispatchPacked(PackedGroupKernel(c.types[1]), c)
    ELSE Declined

(***************************************************************************)
(* Q8_1 activations, up to eight rows: one block per column (MMVQ).        *)
(***************************************************************************)
DispatchMmvqByM(m) == CASE m <= 1 -> 1 [] m = 2 -> 2 [] m \in 3..4 -> 4 [] m > 4 -> 8

MmvqLaunch(kernel, columns, c) ==
    LET ncols == DispatchMmvqByM(c.m)
    IN Launch(kernel, <<columns, CeilDiv(c.m, ncols), 1>>, kMmvqWarps, ncols, c)

DispatchMmvq(kernel, c) == MmvqLaunch(kernel, c.n[1], c)
DispatchMmvqBias(kernel, c) == MmvqLaunch(kernel, c.n[1], c)
DispatchMmvqAccum(kernel, c) == MmvqLaunch(kernel, c.n[1], c)
DispatchMmvqAccumF32(kernel, c) == MmvqLaunch(kernel, c.n[1], c)
DispatchMmvqGroup(kernel, c) == MmvqLaunch(kernel, MaxOf(c.n), c)
DispatchMmvqFusedGateUpSilu(kernel, c) == MmvqLaunch(kernel, c.n[1], c)

ShouldUseQ6KVectorizedDecode(c) ==
    /\ c.m \in 1..8
    /\ ~c.pol.disable_q6k_vectorized
    /\ c.pol.enable_q6k_vectorized \/ (c.dev.major = 8 /\ c.dev.minor = 9)

MmvqKernel(c) ==
    CASE c.types[1] = "Q4_K" -> "mmvq_q4k"
      [] c.types[1] = "Q6_K" -> IF ShouldUseQ6KVectorizedDecode(c) THEN "mmvq_q6k_vec" ELSE "mmvq_q6k"
      [] c.types[1] = "Q8_0" -> "mmvq_q8_0"
      [] c.types[1] = "Q8_K" -> "mmvq_q8k"

MmvqAccumKernel(c) ==
    IF c.types[1] = "Q6_K" /\ ShouldUseQ6KVectorizedDecode(c) THEN "mmvq_q6k_accum_vec"
    ELSE IF c.types[1] = "Q6_K" THEN "mmvq_q6k" ELSE MmvqKernel(c)

(* Mutant: warps that would only have part of a quartet are not launched.  *)
AccumWideWarpsFloor(k) == Greatest(2, Least(kMmvqWarps, k \div 4))

(* Four super-blocks per warp and pass: as many warps as the row needs.    *)
AccumWideWarps(k) == Greatest(2, Least(kMmvqWarps, (k + 3) \div 4))

DispatchQ8_1MmvqAccumF32Q4K(c) ==
    IF c.pol.wide_accum
    THEN LET ncols == DispatchMmvqByM(c.m)
         IN Launch("mmvq_q4k_wide", <<c.n[1], CeilDiv(c.m, ncols), 1>>,
                   AccumWideWarps(c.kdim \div 256), ncols, c)
    ELSE DispatchMmvqAccumF32("mmvq_q4k", c)

(***************************************************************************)
(* Up to 64 rows: tiles of activation rows in shared memory (MMQ).         *)
(***************************************************************************)
MmqKernel(type) ==
    CASE type = "Q4_K" -> "mmq_q4k" [] type = "Q6_K" -> "mmq_q6k"
      [] type = "Q8_0" -> "mmq_q8_0" [] type = "Q8_K" -> "mmq_q8k"

MmqAccumKernel(type) ==
    CASE type = "Q4_K" -> "mmq_q4k_accum" [] type = "Q6_K" -> "mmq_q6k_accum"
      [] type = "Q8_0" -> "mmq_q8_0_accum" [] type = "Q8_K" -> "mmq_q8k_accum"

DispatchMmq(kernel, c) ==
    LET tile == IF c.m <= 16 THEN 16 ELSE 32
    IN Launch(kernel, <<CeilDiv(c.n[1], 8), CeilDiv(c.m, tile), 1>>, 8, tile, c)

DispatchMmqAccum(kernel, c) == DispatchMmq(kernel, c)

(* The ladder of a single projection, storing or accumulating.             *)
DispatchQ8_1Gemv(c) ==
    CASE c.m <= 8 -> DispatchMmvq(MmvqKernel(c), c)
      [] c.m \in 9..64 -> DispatchMmq(MmqKernel(c.types[1]), c)
      [] c.m > 64 -> Declined

DispatchQ8_1GemvAccum(c) ==
    CASE c.m <= 8 -> DispatchMmvqAccum(MmvqAccumKernel(c), c)
      [] c.m \in 9..64 -> DispatchMmqAccum(MmqAccumKernel(c.types[1]), c)
      [] c.m > 64 -> Declined

DispatchQ8_1GemvAccumF32(c) ==
    CASE c.m > 8 -> Declined
      [] c.m <= 8 /\ c.types[1] = "Q4_K" -> DispatchQ8_1MmvqAccumF32Q4K(c)
      [] c.m <= 8 /\ c.types[1] # "Q4_K" -> DispatchMmvqAccumF32(MmvqAccumKernel(c), c)

Refused(c) ==
    c.pol.disable_fused_gemv \/ ~ShouldUseFusedPath(c.dev, c.types[1], Geometry(c))

GemvQ8_1(c) == IF Refused(c) THEN Declined ELSE DispatchQ8_1Gemv(c)

GemvQ8_1Accum(c) == IF Refused(c) THEN Declined ELSE DispatchQ8_1GemvAccum(c)

GemvQ8_1AccumF32(c) == IF Refused(c) THEN Declined ELSE DispatchQ8_1GemvAccumF32(c)

GemvQ8_1WithBias(c) ==
    IF Refused(c) \/ c.types[1] # "Q4_K" \/ c.m > 8 THEN Declined ELSE DispatchMmvqBias("mmvq_q4k", c)

(***************************************************************************)
(* Several projections of one activation.                                  *)
(***************************************************************************)
GroupKernel(type) ==
    CASE type = "Q4_K" -> "q4k_group" [] type = "Q6_K" -> "q6k_group"
      [] type = "Q8_0" -> "q8_0_group" [] type = "Q8_K" -> "q8k_group"

(* Q4_K and Q6_K use the MMVQ group kernel up to eight rows.               *)
DispatchQ8_1GemvGroup(c) ==
    IF c.types[1] \in {"Q4_K", "Q6_K"} /\ c.m <= 8
    THEN DispatchMmvqGroup(IF c.types[1] = "Q4_K" THEN "mmvq_q4k_group" ELSE "mmvq_q6k_group", c)
    ELSE DispatchPacked(GroupKernel(c.types[1]), c)

GemvQ8_1PairMmq3(c) ==
    LET kRows == IF c.m >= 9 THEN 8 ELSE 4
    IN IF c.m < 2 \/ c.types[1] # "Q4_K" THEN Declined
       ELSE Launch("mmq3_q4k", <<CeilDiv(MaxOf(c.n), 8), CeilDiv(c.m, kRows), 1>>, 8, kRows, c)

GemvQ8_1PairRowQuadCandidate(c) ==
    IF c.m \notin 3..4 \/ c.types[1] # "Q4_K" THEN Declined
    ELSE Launch("q4k_rowquad", <<CeilDiv(MaxOf(c.n), 8), CeilDiv(c.m, 4), 1>>, 8, 4, c)

GemvQ8_1Pair(c) ==
    CASE c.m <= 0 \/ ~SameType(c) \/ ~GetQ8_1DispatchEntry(c.dev, c.types[1]) -> Declined
      [] OTHER -> CASE c.op = "q81_group_mmq3" -> GemvQ8_1PairMmq3(c)
                    [] c.op = "q81_group_row_quad_m4" -> GemvQ8_1PairRowQuadCandidate(c)
                    [] OTHER -> DispatchQ8_1GemvGroup(c)

GemvQ8_1Triple(c) ==
    IF c.m <= 0 \/ ~SameType(c) \/ ~GetQ8_1DispatchEntry(c.dev, c.types[1]) THEN Declined
    ELSE DispatchQ8_1GemvGroup(c)

(* Gate, up and the activation function in one kernel; no limit on m.      *)
FusedGateUpSiluGemvQ8_1(c) ==
    IF c.m <= 0 \/ \E i \in 1..2 : c.types[i] # "Q4_K" THEN Declined
    ELSE DispatchMmvqFusedGateUpSilu(
             IF c.pol.wide_gate_up /\ c.m <= 8 THEN "gate_up_wide" ELSE "gate_up", c)

(***************************************************************************)
(* The down projection with regrouped weights (tile_cols columns a tile).  *)
(***************************************************************************)
kDownProjMmqTileCols == 8

GetDownProjMmqThreshold(c) ==
    IF c.pol.downproj_mmq_min_batch_override >= 0 THEN c.pol.downproj_mmq_min_batch_override
    ELSE ClampThreshold(GetGeometryAwareThreshold(c.dev, c.types[1], Geometry(c)) + 12)

(* The activation row in shared memory: 36 bytes per 32 values.            *)
FitsShared(c) == (c.kdim \div 32) * 36 <= c.dev.shared

BuildDownProjMmqLayout(c) ==
    c.kdim % 256 = 0 /\ c.types[1] \in {"Q4_K", "Q6_K"}

DownProjMmq(c) ==
    IF \/ ~c.pol.enable_downproj_mmq \/ c.m <= 0
       \/ ~BuildDownProjMmqLayout(c)
       \/ c.m > GetDownProjMmqThreshold(c)
       \/ c.n[1] < kDownProjMmqTileCols
       \/ ~FitsShared(c)
    THEN Declined
    ELSE Launch(IF c.types[1] = "Q4_K" THEN "tile_q4k" ELSE "tile_q6k",
                <<CeilDiv(c.n[1], kDownProjMmqTileCols), c.m, 1>>,
                kDownProjMmqTileCols, kDownProjMmqTileCols, c)

(***************************************************************************)
(* Tensor-core tiles.  Splits cuts K in slices when the tiles alone leave  *)
(* processors idle.                                                        *)
(***************************************************************************)
kMmqMmaMaxSplits == 8

SupportsMmqMmaArchitecture(d) == d.major > 7 \/ (d.major = 7 /\ d.minor >= 5)

Cap(c) == IF c.cap > 0 THEN c.cap ELSE c.pol.mmq_mma_max_batch

Tiles(c) == CeilDiv(c.n[1], kMmqY) * CeilDiv(c.m, kMmqX)

Underfill(c, tiles, least) ==
    IF tiles < c.dev.sms THEN Least(Greatest(CeilDiv(c.dev.sms, tiles), least), kMmqMmaMaxSplits)
    ELSE 1

(* mmq_mma_split_min_segment bounds how short a slice of K may be.         *)
Segmented(c, splits) ==
    IF c.pol.mmq_mma_split_min_segment > 0
    THEN Least(splits, Greatest(1, c.kdim \div c.pol.mmq_mma_split_min_segment)) ELSE splits

GemvSplits(c) ==
    LET fat == /\ c.m > 8 /\ c.m <= c.pol.mmq_mma_max_batch
               /\ c.pol.mmq_mma_force_split_fat \/ Tiles(c) < c.dev.sms
        s == Underfill(c, Tiles(c), 1)
    IN Segmented(c, IF fat THEN Greatest(s, 2) ELSE s)

DownProjSplits(c) == Segmented(c, Underfill(c, Tiles(c), c.pol.downproj_mmq_min_splits))

MmaLaunch(kernel, c, gx, splits, n1, n2) ==
    [Launch(kernel, <<gx, CeilDiv(c.m, kMmqX), splits>>, 8, kMmqX, c)
        EXCEPT !.n1 = n1, !.n2 = n2]

QuantizeForMmqMma(c) == c.pol.enable_mmq_mma /\ c.m \in 2..Cap(c) /\ c.kdim % 256 = 0

GemvMmqMmaPrequantized(c) ==
    IF ~QuantizeForMmqMma(c) \/ c.types[1] # "Q4_K" THEN Declined
    ELSE MmaLaunch("mma_q4k", c, CeilDiv(c.n[1], kMmqY), GemvSplits(c), 0, 0)

GemvMmqMma(c) ==
    IF ~QuantizeForMmqMma(c) \/ c.types[1] # "Q4_K" THEN Declined
    ELSE MmaLaunch("mma_q4k", c, CeilDiv(c.n[1], kMmqY), GemvSplits(c), 0, 0)

(* Gate and up in one launch: never cut, no upper limit on m of its own.   *)
GemvMmqMmaGateUpDualPrequantized(c) ==
    LET n1_tiles == CeilDiv(c.n[1], kMmqY)
    IN IF \/ ~c.pol.enable_mmq_mma \/ c.m < 2 \/ c.kdim % 256 # 0
          \/ c.n[1] # c.n[2] \/ c.types # <<"Q4_K", "Q4_K">>
       THEN Declined ELSE MmaLaunch("mma_q4k", c, 2 * n1_tiles, 1, n1_tiles, 0)

(* Query, key and value in one launch, only of equal width.                *)
GemvMmqMmaTriplePrequantized(c) ==
    LET t == c.n[1] \div kMmqY
        n_tiles == 3 * t
    IN IF \/ ~c.pol.enable_mmq_mma \/ c.m < 2 \/ c.kdim % 256 # 0
          \/ c.types # <<"Q4_K", "Q4_K", "Q4_K">>
          \/ \E i \in 1..3 : c.n[i] % kMmqY # 0 \/ c.n[i] # c.n[1]
          \/ Underfill(c, n_tiles * CeilDiv(c.m, kMmqX), 1) > 1
       THEN Declined ELSE MmaLaunch("mma_q4k", c, n_tiles, 1, t, t)

DownProjRefused(c, type) ==
    \/ ~c.pol.enable_mmq_mma \/ ~SupportsMmqMmaArchitecture(c.dev)
    \/ c.types[1] # type \/ c.kdim % 256 # 0
    \/ c.m < c.pol.mmq_mma_min_batch \/ c.m > Cap(c)

DownProjMmqMmaQ4K(c) ==
    IF c.m <= 0 \/ DownProjRefused(c, "Q4_K") THEN Declined
    ELSE MmaLaunch("mma_q4k", c, CeilDiv(c.n[1], kMmqY), DownProjSplits(c), 0, 0)

DownProjMmqMma(c) ==
    IF c.m <= 0 \/ DownProjRefused(c, "Q6_K") THEN Declined
    ELSE MmaLaunch("mma_q6k", c, CeilDiv(c.n[1], kMmqY), DownProjSplits(c), 0, 0)

(* The scratch the slices are written to, in values: AllocateScratch sizes *)
(* it for the batches of decode and for the widest projection.             *)
MmaPartials(c) ==
    kMmqMmaMaxSplits * Least(c.dev.rows, c.pol.mmq_mma_max_batch) * Greatest(c.dev.hidden, c.dev.inter)

(***************************************************************************)
(* A call.                                                                 *)
(***************************************************************************)
Dispatch(c) ==
    CASE c.api = "packed"        -> GemvPacked(c)
      [] c.api = "packed_pair"   -> GemvPackedPair(c)
      [] c.api = "packed_triple" -> GemvPackedTriple(c)
      [] c.api = "q81"           -> GemvQ8_1(c)
      [] c.api = "q81_accum"     -> GemvQ8_1Accum(c)
      [] c.api = "q81_accum_f32" -> GemvQ8_1AccumF32(c)
      [] c.api = "q81_bias"      -> GemvQ8_1WithBias(c)
      [] c.api = "q81_pair"      -> GemvQ8_1Pair(c)
      [] c.api = "q81_triple"    -> GemvQ8_1Triple(c)
      [] c.api = "gate_up_silu"  -> FusedGateUpSiluGemvQ8_1(c)
      [] c.api = "downproj_mmq"  -> DownProjMmq(c)
      [] c.api = "mma"           -> GemvMmqMma(c)
      [] c.api = "mma_pre"       -> GemvMmqMmaPrequantized(c)
      [] c.api = "mma_dual"      -> GemvMmqMmaGateUpDualPrequantized(c)
      [] c.api = "mma_triple"    -> GemvMmqMmaTriplePrequantized(c)
      [] c.api = "downproj_q4k"  -> DownProjMmqMmaQ4K(c)
      [] c.api = "downproj_q6k"  -> DownProjMmqMma(c)

GemvInit ==
    /\ gemvCall \in GemvCalls
    /\ gemvPc = "entered"
    /\ gemvRun = Declined

GemvDecline ==
    /\ gemvPc = "entered"
    /\ Dispatch(gemvCall) = Declined
    /\ gemvPc' = "declined"
    /\ UNCHANGED <<gemvCall, gemvRun>>

GemvLaunch ==
    /\ gemvPc = "entered"
    /\ Dispatch(gemvCall) # Declined
    /\ gemvRun' = Dispatch(gemvCall)
    /\ gemvPc' = IF Dispatch(gemvCall).gz > 1 THEN "launched" ELSE "done"
    /\ UNCHANGED gemvCall

(* ReduceMmqKSplit: element i of the output is the sum of element i of     *)
(* every slice.                                                            *)
GemvReduce ==
    /\ gemvPc = "launched"
    /\ gemvPc' = "done"
    /\ UNCHANGED <<gemvCall, gemvRun>>

GemvNext == GemvDecline \/ GemvLaunch \/ GemvReduce

GemvSpec == GemvInit /\ [][GemvNext]_gemvVars

(***************************************************************************)
(* Properties.                                                             *)
(***************************************************************************)
GemvDone == gemvPc = "done"

Mma(l) == l.kernel \in {"mma_q4k", "mma_q6k"}

(* The kernels whose lanes all compute the whole weight block.             *)
MmqQ8 == {"mmq_q8_0", "mmq_q8k", "mmq_q8_0_accum", "mmq_q8k_accum"}

Ends(k) == {0, k - 1}

(* The elements and weight blocks looked at: the corners, and a diagonal   *)
(* that meets every row, every column and every block of every projection. *)
Elements(l) ==
    {[out |-> i, row |-> r, col |-> c, blk |-> b] :
        i \in DOMAIN l.n, r \in Ends(l.m), c \in {0, l.n[1] - 1, l.n[Len(l.n)] - 1}, b \in Ends(l.k)}
    \cup UNION {{[out |-> i, row |-> j % l.m, col |-> j % l.n[i], blk |-> j % l.k] :
                    j \in 0..(Greatest(l.m, Greatest(l.n[i], l.k)) - 1)} : i \in DOMAIN l.n}

Exists(l, p) == p.row < l.m /\ p.col < l.n[p.out]

(* Everything the live threads add to element p for weight block p.blk.    *)
Added(l, p) ==
    LET live == Least(l.warps, SlotsRead(l))
    IN UNION {{<<t, c>> : c \in Work(l, t, p)} : t \in Threads([l EXCEPT !.warps = live])}

(* Every weight of the block is multiplied once, as the decoder reads it.  *)
DotsRight(type, added) ==
    LET dots == {x \in added : x[2][2].kind = "dot"}
    IN {x[2][2] : x \in dots} = DotsOf[type] /\ Cardinality(dots) = Cardinality(DotsOf[type])

(* The offsets of a Q4_K block are subtracted once for every activation.   *)
OffsetsRight(type, added) ==
    LET mins == {x \in added : x[2][2].kind = "min"}
    IN /\ \A x \in mins : \A u \in DotsOf[type] :
             u.over \subseteq x[2][2].over => u.bits.sc = x[2][2].sc
       /\ UNION {x[2][2].over : x \in mins} = (IF type = "Q4_K" THEN WordsOf(type) ELSE {})
       /\ Cardinality(UNION {{<<x, w>> : w \in x[2][2].over} : x \in mins})
            = (IF type = "Q4_K" THEN 64 ELSE 0)

ElementRight(l, type, p) ==
    LET added == Added(l, p)
    IN IF Exists(l, p)
       THEN /\ \A x \in added : x[2][1] = p.row
            /\ DotsRight(type, added)
            /\ OffsetsRight(type, added)
       ELSE added = {}

(* An accepted GEMV call computes the product of the activation row with   *)
(* the weight column: each weight of each block is used once, with the     *)
(* bits and the scale the dequantize kernel would read for it, and nothing *)
(* else is added (the Q8_0 and Q8_K tile kernels aside, see                *)
(* DotCountedOnce).  Every row, column and weight block of every           *)
(* projection is looked at, though not in every combination (Elements).    *)
ProductsRight ==
    GemvDone /\ gemvRun.kernel \notin MmqQ8 =>
        \A p \in Elements(gemvRun) : ElementRight(gemvRun, gemvCall.types[p.out], p)

(* What the accumulating tile kernels' comment promises of every kernel:   *)
(* "output[i] += result[i]" with each product counted once.                *)
DotCountedOnce ==
    GemvDone /\ gemvRun.kernel \in MmqQ8 =>
        \A p \in Elements(gemvRun) : ElementRight(gemvRun, gemvCall.types[p.out], p)

(* The sum over the warps of a block reads only slots a warp has written.  *)
NoIdleSlot == GemvDone => SlotsRead(gemvRun) <= gemvRun.warps

(* The slices of K fit the scratch they are written to.                    *)
SlicesFit ==
    gemvPc \in {"launched", "done"} /\ gemvRun.gz > 1 =>
        gemvRun.gz * gemvRun.m * gemvRun.n[1] <= MmaPartials(gemvCall)

DecodeSlicesFit == gemvCall.m <= gemvCall.pol.mmq_mma_max_batch => SlicesFit

(* A quantizer launch writes every group of every row once, at the place   *)
(* the kernels read it from (row-major for Q8_1, group-major for the       *)
(* tensor-core tiles).                                                     *)
QuantizersCover ==
    LET rows == gemvCall.m
        groups == gemvCall.kdim \div 32
        wide == gemvCall.kdim \div 128
        whole == {[at |-> r * groups + g, row |-> r, grp |-> g] : r \in 0..(rows - 1), g \in 0..(groups - 1)}
        wholeMma == {[at |-> g * rows + r, row |-> r, grp |-> g] : r \in 0..(rows - 1), g \in 0..(wide - 1)}
        byRow == {<<b, w>> : b \in 0..(rows - 1), w \in 0..7}
        byGroup == {<<b, r, w>> : b \in 0..(CeilDiv(wide, 4) - 1), r \in 0..(rows - 1), w \in 0..3}
        writes == UNION {{<<x, y>> : y \in quantize_row_q8_1(rows, groups, x[1], 0, x[2])} : x \in byRow}
        writesMma == UNION {{<<x, y>> : y \in QuantizeRowQ8_1MmqDs(rows, wide, x[1], x[2], x[3])} : x \in byGroup}
    IN gemvPc = "entered" =>
         /\ {x[2] : x \in writes} = whole /\ Cardinality(writes) = rows * groups
         /\ {x[2] : x \in writesMma} = wholeMma /\ Cardinality(writesMma) = rows * wide

(* The dequantize kernels, the path the GEMV kernels replace, write every  *)
(* word of the matrix once, from the block it belongs to, and no two words *)
(* of a block are decoded from the same bits.                              *)
DequantizeCovers ==
    gemvPc = "entered" /\ gemvCall.api = "packed" /\ gemvCall.m = 1 /\ gemvCall.kdim <= 512 =>
        \A type \in {"Q4_K", "Q5_K", "Q6_K", "Q8_0", "Q8_K"} :
            LET n == gemvCall.kdim
                writes == DequantizeAll(type, n)
            IN /\ {x[2].at : x \in writes} = 0..(n \div 4 - 1)
               /\ Cardinality(writes) = n \div 4
               /\ \A x \in writes : x[2].blk = x[2].at \div Cardinality(WordsOf(type))
               /\ Cardinality({<<x[2].blk, x[2].bits>> : x \in writes}) = n \div 4

(* An embedding row gathered straight from the quantized table is, word    *)
(* for word, the row that dequantising the whole table would give, whose   *)
(* rows are then two super-blocks apart.                                   *)
EmbeddingAgrees ==
    gemvPc = "entered" /\ gemvCall.api = "packed" /\ gemvCall.m = 1 /\ gemvCall.kdim = 256 =>
        \A type \in {"Q4_K", "Q6_K"} :
            LET words == gemvCall.kdim \div 2
                table == {x[2] : x \in DequantizeAll(type, 6 * gemvCall.kdim)}
            IN \A id \in 0..2, w \in 0..(words - 1) :
                 LET y == EmbeddingLookupDequant(type, 2, id, w)
                 IN [at |-> id * words + w, blk |-> y.blk, bits |-> y.bits] \in table

(* The tensor-core tiles unpack the 6-bit scales of a Q4_K block to the    *)
(* same bits as the element decoder.                                       *)
ScalesAgree == \A j \in 0..7 : MmaScaleMin(j) = get_scale_min_k4(j)

GemvSafe ==
    /\ ProductsRight /\ NoIdleSlot /\ DecodeSlicesFit /\ QuantizersCover /\ DequantizeCovers
    /\ EmbeddingAgrees /\ ScalesAgree
=============================================================================
