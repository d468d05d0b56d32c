--------------------------- MODULE AttentionKernels ---------------------------
(***************************************************************************)
(* The attention kernels of the native CUDA backend                        *)
(* (kernels/flash_attention.cu, kernels/flash_attention_mma.cuh) and the   *)
(* places that choose between them: LlamaForwardTyped::Forward for prefill *)
(* and BatchForwardDevice for a batch of decode rows.                      *)
(*                                                                         *)
(* The numbers are left out.  What is kept is who computes what: the grid  *)
(* of blocks, the query heads a block owns, the KV head and the range of   *)
(* KV positions it walks, and the cell (of the output or of the partial    *)
(* workspace) its result goes to.  A block's result is a `part`.  The      *)
(* workspace is reused by every layer and every step, so a cell no block   *)
(* of this launch wrote holds a part of an earlier launch (Stale).         *)
(*                                                                         *)
(* A call carries the shared memory a block may have on the device (smem,  *)
(* in bytes).  The device is sm_80 or later: the decode kernel's mma       *)
(* instruction is not guarded by the architecture, so there is no build of *)
(* these kernels for an earlier one.                                       *)
(***************************************************************************)
EXTENDS Integers, Sequences, FiniteSets

CONSTANT AttnCalls      \* the calls considered

VARIABLES attnCall, attnPc, attnRun, workspace, attended

attnVars == <<attnCall, attnPc, attnRun, workspace, attended>>

LOCAL Ceil(a, b) == (a + b - 1) \div b
LOCAL Low(a, b) == IF a < b THEN a ELSE b
LOCAL High(a, b) == IF a > b THEN a ELSE b

FA2_TILE_KV == 64
kFlashDecodeSplits == 8
kMaxAttnKSplits == 8
kFlashDecodeWarpsPerBlock == 4
kMmaDecodeChunk == 128
MMA_FA2_BR == 16
MMA_FA2_BC == 64
MMA_FA2_THREADS == 128

(* num_heads / num_kv_heads, the query heads that share a KV head.         *)
gqa_ratio(c) == IF c.kv_heads > 0 /\ c.heads > c.kv_heads THEN c.heads \div c.kv_heads ELSE 1

(* The smallest power of two that covers head_dim, at most 1024.           *)
BlockThreads(c) ==
    CHOOSE t \in {1, 2, 4, 8, 16, 32, 64, 128, 256, 512, 1024} :
        /\ t >= c.head_dim \/ t = 1024
        /\ \A u \in {1, 2, 4, 8, 16, 32, 64, 128, 256, 512} : u < t => u < c.head_dim

Grid(l) == (0..(l.grid[1] - 1)) \X (0..(l.grid[2] - 1)) \X (0..(l.grid[3] - 1))

(* How many positions prefill query q may see.                             *)
causal_limit(c, q) == c.kv_lens[1] - c.query_len + q + 1

(* A block's result for one query head: KV positions from..to-1, walked in *)
(* tiles of which `width` positions are scored, for `dims` dimensions.     *)
Part(k, at, row, q, head, kv, from, to, width, dims) ==
    [blk |-> k, at |-> at, row |-> row, q |-> q, head |-> head, kv |-> kv,
     from |-> from, to |-> to, width |-> width, dims |-> dims]

(* Straight to the output row.                                             *)
Final(l, k, row, q, head, kv, to, width, dims) ==
    Part(k, <<row, q, head>>, row, q, head, kv, 0, to, width, dims)

Stale == Part(<<0, 0, 0>>, <<0>>, -1, 0, -1, -1, 0, 0, 0, 0)

GroupHeads(c, l, kv) == {h \in (kv * l.ratio)..(kv * l.ratio + l.ratio - 1) : h < c.heads}

(***************************************************************************)
(* Tensor-core fragments.  The instruction m16n8k16 fixes which element of *)
(* its operands each lane's registers hold: A is 16 x 16 and B is 16 x 8,  *)
(* two neighbouring halves to a register, and the 16 x 8 result holds one  *)
(* float to a register.                                                    *)
(***************************************************************************)
LOCAL Lanes == 0..31
MmaA(lane, r) == <<lane \div 4 + 8 * (r % 2), (lane % 4) * 2 + 8 * (r \div 2)>>
MmaB(lane, r) == <<(lane % 4) * 2 + 8 * r, lane \div 4>>
MmaD(lane, r) == <<lane \div 4 + 8 * (r \div 2), (lane % 4) * 2 + (r % 2)>>

mma_frag_row(r, lane) == (r \div 2) * 8 + lane \div 4
mma_frag_col(r, lane) == (lane % 4) * 2 + (r % 2)

(* Registers 1 and 2 differ by row first.                                  *)
load_mma_a_16x16(lane, r) ==
    LET row_lo == lane \div 4
        col == (lane % 4) * 2
    IN <<<<row_lo, col>>, <<row_lo + 8, col>>, <<row_lo, col + 8>>, <<row_lo + 8, col + 8>>>>[r + 1]

(* B[k, n] is K[n, k]: the KV position is the column.                      *)
load_mma_b_transposed_16x8(lane, r) ==
    LET n == lane \div 4
        k_lo == (lane % 4) * 2
    IN <<<<k_lo, n>>, <<k_lo + 8, n>>>>[r + 1]

MmaDecodeLoadKFrag(lane, r) ==
    LET g == lane \div 4
        b == (lane % 4) * 2
    IN <<<<g, b>>, <<g + 8, b>>, <<g, b + 8>>, <<g + 8, b + 8>>>>[r + 1]

(* A is V transposed: the row is a dimension, the column a KV position.    *)
MmaDecodeLoadVTFrag(lane, r) ==
    LET g == lane \div 4
        b == lane % 4
    IN <<<<g, 2 * b>>, <<g + 8, 2 * b>>, <<g, 2 * b + 8>>, <<g + 8, 2 * b + 8>>>>[r + 1]

(* KV positions of a tile whose scores the four warps store, and query     *)
(* rows they store them for.                                               *)
MmaScoredColumns == {w * 16 + nt * 8 + mma_frag_col(r, lane) : w \in 0..3, nt \in 0..1, r \in 0..3, lane \in Lanes}
MmaScoredRows == {mma_frag_row(r, lane) : r \in 0..3, lane \in Lanes}

(* Rows of a chunk the decode kernel's warps weigh, and the dimensions and *)
(* heads their accumulators are merged into.                               *)
MmaDecodeRows == {w * 32 + rg * 16 + lane \div 4 + 8 * (r \div 2) : w \in 0..3, rg \in 0..1, r \in 0..3, lane \in Lanes}
MmaDecodeMerged ==
    {<<(lane % 4) * 2 + (i % 2), v * 16 + lane \div 4 + 8 * (i \div 2)>> : v \in 0..7, i \in 0..3, lane \in Lanes}

(***************************************************************************)
(* Prefill: one block per query position (16 positions with tensor cores). *)
(***************************************************************************)
FlashAttention2TypedKernel(c, l, k) ==
    {Final(l, k, k[3], k[1], k[2], k[2] \div gqa_ratio(c), causal_limit(c, k[1]), l.threads,
           Low(l.threads, c.head_dim))}

FlashAttention2TypedGQAKernel(c, l, k) ==
    {Final(l, k, k[3], k[1], h, k[2], causal_limit(c, k[1]), l.threads,
           Low(l.threads, c.head_dim)) : h \in GroupHeads(c, l, k[2])}

(* Four warps score 16 positions of a tile each; every query row masks the *)
(* positions beyond its own limit out of the block's range.                *)
FlashAttention2MMAGQAKernel(c, l, k) ==
    LET q_start == k[1] * MMA_FA2_BR
        q_end == Low(q_start + MMA_FA2_BR, c.query_len)
        block_causal_limit == c.kv_lens[1] - c.query_len + q_end
    IN {Final(l, k, k[3], qh[1], qh[2], k[2], Low(block_causal_limit, causal_limit(c, qh[1])),
              Cardinality(MmaScoredColumns), Low(MMA_FA2_THREADS, c.head_dim))
           : qh \in {q \in q_start..(q_end - 1) : q - q_start \in MmaScoredRows}
                    \X GroupHeads(c, l, k[2])}

(***************************************************************************)
(* Decode, one query per row of the batch, the whole KV range in a block.  *)
(***************************************************************************)
FlashDecodeMultiSeqKernel(c, l, k) ==
    IF c.kv_lens[k[1] + 1] <= 0 THEN {}
    ELSE {Final(l, k, k[1], 0, k[2], k[2] \div gqa_ratio(c), c.kv_lens[k[1] + 1], l.threads,
                Low(l.threads, c.head_dim))}

FlashDecodeMultiSeqStridedKernel(c, l, k) ==
    IF c.kv_lens[k[1] + 1] <= 0 THEN {}
    ELSE {Final(l, k, k[1], 0, k[2], k[2] \div gqa_ratio(c), c.kv_lens[k[1] + 1], l.threads,
                Low(l.threads, c.head_dim))}

FlashDecodeMultiSeqStridedGQAKernel(c, l, k) ==
    IF c.kv_lens[k[1] + 1] <= 0 THEN {}
    ELSE {Final(l, k, k[1], 0, h, k[2], c.kv_lens[k[1] + 1], l.threads,
                Low(l.threads, c.head_dim)) : h \in GroupHeads(c, l, k[2])}

(* A warp owns a head and takes the positions one at a time.               *)
FlashDecodeGQAWarpPerHeadKernel(c, l, k) ==
    {Final(l, k, k[2], 0, h, h \div l.ratio, High(c.kv_lens[k[2] + 1], 0), FA2_TILE_KV,
           (c.head_dim \div 32) * 32)
       : h \in {w \in (k[1] * kFlashDecodeWarpsPerBlock)..(k[1] * kFlashDecodeWarpsPerBlock
                        + kFlashDecodeWarpsPerBlock - 1) : w < c.heads}}

(***************************************************************************)
(* Decode with the KV range cut into splits.  A split is ceil(kv_len /     *)
(* splits) long; the last ones may be empty, and an empty one only marks   *)
(* its maximum as minus infinity (a part with from = to).                  *)
(***************************************************************************)
SplitLen(kv_len, splits) == Ceil(kv_len, splits)

SplitRange(kv_len, splits, s) ==
    LET begin == s * SplitLen(kv_len, splits)
    IN IF begin >= kv_len THEN <<0, 0>>
       ELSE <<begin, Low(begin + SplitLen(kv_len, splits), kv_len)>>

(* [batch][kv_head][split][head of the group]                              *)
SplitCell(c, l, k, g) == ((k[1] * c.kv_heads + k[2]) * l.splits + k[3]) * l.ratio + g

SplitParts(c, l, k, width, dims) ==
    LET r == SplitRange(c.kv_lens[k[1] + 1], l.splits, k[3])
    IN {Part(k, <<SplitCell(c, l, k, g)>>, k[1], 0, k[2] * l.ratio + g, k[2], r[1], r[2], width, dims)
           : g \in 0..(l.ratio - 1)}

FlashDecodeGQASplitKernel(c, l, k) == SplitParts(c, l, k, l.threads, Low(l.threads, c.head_dim))

(* Four warps, ratio / 4 heads each; one split writes the output itself.   *)
FlashDecodePackedKernel(c, l, k) ==
    LET each == l.ratio \div 4
        heads == {k[2] * l.ratio + w * each + hh : w \in 0..3, hh \in 0..(each - 1)}
    IN IF l.splits > 1 THEN SplitParts(c, l, k, FA2_TILE_KV, 4 * 32)
       ELSE {Final(l, k, k[1], 0, h, k[2], c.kv_lens[k[1] + 1], FA2_TILE_KV, 4 * 32)
                : h \in {h \in heads : h < c.heads}}

(* Each of four warps scores 32 rows of a 128-row chunk; rows past the end *)
(* of the range weigh nothing.                                             *)
FlashDecodeMmaGqaKernel(c, l, k) ==
    SplitParts(c, l, k, Cardinality(MmaDecodeRows), Cardinality({hd[2] : hd \in MmaDecodeMerged}))

(* The reduction finds a head's parts by num_heads / num_kv_heads.         *)
FlashDecodeReduceSplitsKernel(c, l, b, head) ==
    LET kv_head == head \div (c.heads \div c.kv_heads)
        h == head % (c.heads \div c.kv_heads)
    IN {((b * c.kv_heads + kv_head) * l.splits + s) * (c.heads \div c.kv_heads) + h
           : s \in 0..(l.splits - 1)}

(* Split by groups of query heads as well as by chunks of KV: the query    *)
(* heads of block k, and the chunk it walks.                               *)
ChunkHeads(c, l, k) ==
    LET heads_per_cta == l.ratio \div l.qsplit
        head_base == k[2] * l.ratio + (k[3] % l.qsplit) * heads_per_cta
    IN {h \in head_base..(head_base + heads_per_cta - 1) : h < c.heads}

(* One chunk writes the output, several write parts.                       *)
ChunkResult(c, l, k, h, from, to) ==
    IF l.splits = 1
    THEN Final(l, k, k[1], 0, h, k[2], to, l.threads, Low(l.threads, c.head_dim))
    ELSE Part(k, <<(k[1] * c.heads + h) * l.splits + k[3] \div l.qsplit>>, k[1], 0, h, k[2],
              from, to, l.threads, Low(l.threads, c.head_dim))

(* A chunk past the row's end is an identity part, if parts are merged.    *)
FlashDecodeSplitStridedGQAKernel(c, l, k) ==
    LET kv_len == c.kv_lens[k[1] + 1]
        kv_start == (k[3] \div l.qsplit) * l.chunk
    IN IF kv_start >= kv_len
       THEN IF l.splits = 1 THEN {} ELSE {ChunkResult(c, l, k, h, 0, 0) : h \in ChunkHeads(c, l, k)}
       ELSE {ChunkResult(c, l, k, h, kv_start, Low(kv_len, kv_start + l.chunk))
                : h \in ChunkHeads(c, l, k)}

FlashDecodeSplitCombineKernel(c, l, b, head) ==
    {(b * c.heads + head) * l.splits + s : s \in 0..(l.splits - 1)}

(***************************************************************************)
(* The two workspaces, in floats, sized once for the largest batch.  A     *)
(* failed allocation of the split one is not fatal.                        *)
(***************************************************************************)
SplitWorkspace(c) ==
    IF c.split_allocated THEN c.max_batch * c.kv_heads * 8 * gqa_ratio(c) * (c.head_dim + 2) ELSE 0

AttnPartials(c) == c.max_batch * c.heads * kMaxAttnKSplits * (2 + c.head_dim)

(***************************************************************************)
(* The dynamic shared memory of a launch, in bytes.  ConfigureFA2Smem asks *)
(* for it and does not look at the answer: a device that has less refuses  *)
(* the launch.                                                             *)
(***************************************************************************)
ComputeFA2Smem(c, warps) == 4 * (2 * FA2_TILE_KV * c.head_dim + warps * FA2_TILE_KV + FA2_TILE_KV)

ComputeFA2SmemGQA(c, warps, ratio) ==
    ComputeFA2Smem(c, warps) + 4 * (ratio - 1) * (warps * FA2_TILE_KV + FA2_TILE_KV)

ComputeMMAFA2Smem(c) ==
    2 * MMA_FA2_BR * c.head_dim + 2 * MMA_FA2_BC * c.head_dim + 4 * MMA_FA2_BC * c.head_dim
    + 4 * MMA_FA2_BR * MMA_FA2_BC

kMmaDecodeSmem == 2 * 2 * kMmaDecodeChunk * 136 + 2 * 4 * 32 * 9 + 4 * 4192

Smem(c, l) ==
    LET warps == l.threads \div 32
    IN CASE l.kernel \in {"prefill_heads", "decode_heads", "decode_ptrs"} -> ComputeFA2Smem(c, warps)
         [] l.kernel \in {"prefill_gqa", "decode_gqa", "decode_split", "decode_chunks"} ->
              ComputeFA2SmemGQA(c, warps, l.ratio)
         [] l.kernel = "prefill_mma" -> ComputeMMAFA2Smem(c)
         [] l.kernel = "decode_mma" -> kMmaDecodeSmem
         [] l.kernel \in {"decode_warp", "decode_packed"} -> 0

(***************************************************************************)
(* Launchers.  `merge` is the kernel that follows, `floats` the workspace  *)
(* the launch addresses.                                                   *)
(***************************************************************************)
AttnLaunch(kernel, grid, ratio, c) ==
    [kernel |-> kernel, grid |-> grid, ratio |-> ratio, splits |-> 1, qsplit |-> 1, chunk |-> 0,
     threads |-> BlockThreads(c), merge |-> "none", floats |-> 0]

(* cudaErrorInvalidValue                                                   *)
AttnError == [kernel |-> "error", grid |-> <<0, 0, 0>>, ratio |-> 1, splits |-> 1, qsplit |-> 1,
              chunk |-> 0, threads |-> 0, merge |-> "none", floats |-> 0]

LaunchMMAGQAPrefill(c, ratio) ==
    AttnLaunch("prefill_mma", <<Ceil(c.query_len, MMA_FA2_BR), c.kv_heads, c.batch>>, ratio, c)

LaunchGQAPrefill(c, ratio) ==
    IF c.query_len >= MMA_FA2_BR /\ c.head_dim <= MMA_FA2_THREADS /\ c.head_dim % 16 = 0
    THEN LaunchMMAGQAPrefill(c, ratio)
    ELSE AttnLaunch("prefill_gqa", <<c.query_len, c.kv_heads, c.batch>>, ratio, c)

(* Only the ratios 2, 4 and 8 have grouped kernels.                        *)
DispatchGqaRatio(c) == gqa_ratio(c) \in {2, 4, 8}

FlashAttention2Typed(c) ==
    IF DispatchGqaRatio(c) THEN LaunchGQAPrefill(c, gqa_ratio(c))
    ELSE AttnLaunch("prefill_heads", <<c.query_len, c.heads, c.batch>>, 1, c)

FlashDecodeMultiSeq(c) == AttnLaunch("decode_ptrs", <<c.batch, c.heads, 1>>, 1, c)

(* The pointer tables live in the split workspace, which may be missing.   *)
FlashDecodeMultiSeqIndirect(c) ==
    IF SplitWorkspace(c) < c.batch * 4 THEN AttnError ELSE FlashDecodeMultiSeq(c)

SplitFloats(c, splits, ratio) == c.batch * c.kv_heads * splits * ratio * (c.head_dim + 2)

SplitLaunch(kernel, splits, ratio, c) ==
    [AttnLaunch(kernel, <<c.batch, c.kv_heads, splits>>, ratio, c)
        EXCEPT !.splits = splits, !.merge = "reduce", !.floats = SplitFloats(c, splits, ratio)]

(* A missing or short workspace falls back to the unsplit kernel.          *)
LaunchGQADecode(c, ratio) ==
    LET splits == IF c.hint \in 1..512 THEN 1 ELSE kFlashDecodeSplits
    IN IF splits > 1 /\ SplitWorkspace(c) >= SplitFloats(c, splits, ratio)
       THEN SplitLaunch("decode_split", splits, ratio, c)
       ELSE AttnLaunch("decode_gqa", <<c.batch, c.kv_heads, 1>>, ratio, c)

LaunchGQADecodePacked(c, ratio) ==
    LET splits == IF c.hint \in 1..512 THEN 1 ELSE kFlashDecodeSplits
    IN IF splits > 1 /\ SplitWorkspace(c) < SplitFloats(c, splits, ratio)
       THEN LaunchGQADecode(c, ratio)
       ELSE [SplitLaunch("decode_packed", splits, ratio, c) EXCEPT
                !.merge = IF splits > 1 THEN "reduce" ELSE "none",
                !.floats = IF splits > 1 THEN SplitFloats(c, splits, ratio) ELSE 0]

FlashDecodePacked(c) ==
    CASE c.head_dim # 128 -> LaunchGQADecode(c, 8)
      [] c.head_dim = 128 /\ gqa_ratio(c) = 8 -> LaunchGQADecodePacked(c, 8)
      [] c.head_dim = 128 /\ gqa_ratio(c) # 8 -> LaunchGQADecode(c, 4)

(* Always writes parts, one split included; needs the larger shared memory *)
(* limit the driver may refuse.                                            *)
MmaSplits(c) == IF c.hint \in 1..256 THEN 1 ELSE 4

MmaFits(c) == SplitWorkspace(c) >= SplitFloats(c, MmaSplits(c), 8)

LaunchGQADecodeMma(c) ==
    IF ~MmaFits(c) \/ ~c.smem_configured THEN LaunchGQADecode(c, 8)
    ELSE SplitLaunch("decode_mma", MmaSplits(c), 8, c)

FlashDecodeMmaGqa(c) ==
    IF c.type # "half" \/ c.head_dim # 128 \/ gqa_ratio(c) # 8 THEN FlashDecodePacked(c)
    ELSE LaunchGQADecodeMma(c)

FlashDecodeMultiSeqStrided(c) ==
    IF DispatchGqaRatio(c) THEN LaunchGQADecode(c, gqa_ratio(c))
    ELSE AttnLaunch("decode_heads", <<c.batch, c.heads, 1>>, 1, c)

FlashDecodeWarpPerHead(c) ==
    AttnLaunch("decode_warp", <<Ceil(c.heads, kFlashDecodeWarpsPerBlock), c.batch, 1>>,
               IF gqa_ratio(c) \in {2, 4, 8} THEN gqa_ratio(c) ELSE 1, c)

(* A group count that need not divide the ratio.                           *)
HeadGroupsUneven(qsplit, ratio) == High(1, Low(qsplit, ratio))

(* The nearest divisor of the ratio at or below qsplit.                    *)
HeadGroups(qsplit, ratio) ==
    LET most == High(1, Low(qsplit, ratio))
    IN CHOOSE d \in 1..most : ratio % d = 0 /\ \A e \in (d + 1)..most : ratio % e # 0

LaunchSplitGQADecode(c, ratio, qsplit, chunk, ksplits) ==
    LET groups == HeadGroups(qsplit, ratio)
    IN [AttnLaunch("decode_chunks", <<c.batch, c.kv_heads, groups * ksplits>>, ratio, c)
           EXCEPT !.splits = ksplits, !.qsplit = groups, !.chunk = chunk,
                  !.merge = IF ksplits > 1 THEN "combine" ELSE "none",
                  !.floats = IF ksplits > 1 THEN c.batch * c.heads * ksplits * (2 + c.head_dim) ELSE 0]

FlashDecodeMultiSeqStridedSplit(c, qsplit, chunk, ksplits) ==
    IF DispatchGqaRatio(c) THEN LaunchSplitGQADecode(c, gqa_ratio(c), qsplit, chunk, ksplits)
    ELSE FlashDecodeMultiSeqStrided([c EXCEPT !.split_allocated = FALSE, !.hint = 0])

(***************************************************************************)
(* The call sites.  c.hint is max_seq_len_.                                *)
(***************************************************************************)
SplitQ(c) ==
    IF c.pol.qsplit_override > 0 THEN c.pol.qsplit_override
    ELSE LET q == High(1, Low(96 \div High(1, c.batch * c.kv_heads), 8))
         IN IF c.hint > 2048 THEN Low(q, 2) ELSE q

SplitChunk(c) ==
    High(64, IF c.pol.qsplit_override <= 0 /\ c.hint <= 2048 THEN High(c.pol.chunk, c.hint)
             ELSE c.pol.chunk)

gqa8(c) == c.head_dim = 128 /\ c.kv_heads > 0 /\ c.heads = c.kv_heads * 8

DecodeAttention(c) ==
    LET ksplits == Low(kMaxAttnKSplits, High(1, Ceil(c.hint, SplitChunk(c))))
    IN CASE ~c.contiguous -> FlashDecodeMultiSeqIndirect(c)
         [] c.contiguous /\ c.pol.mma /\ gqa8(c) -> FlashDecodeMmaGqa(c)
         [] c.contiguous /\ c.pol.packed /\ gqa8(c) /\ ~c.pol.mma -> FlashDecodePacked(c)
         [] OTHER ->
              IF c.pol.split_kv
              THEN FlashDecodeMultiSeqStridedSplit(c, SplitQ(c), SplitChunk(c), ksplits)
              ELSE IF c.pol.warp_per_head THEN FlashDecodeWarpPerHead(c)
                   ELSE FlashDecodeMultiSeqStrided(c)

AttnDispatch(c) == IF c.query_len > 0 THEN FlashAttention2Typed(c) ELSE DecodeAttention(c)

KernelParts(c, l, k) ==
    CASE l.kernel = "prefill_heads" -> FlashAttention2TypedKernel(c, l, k)
      [] l.kernel = "prefill_gqa" -> FlashAttention2TypedGQAKernel(c, l, k)
      [] l.kernel = "prefill_mma" -> FlashAttention2MMAGQAKernel(c, l, k)
      [] l.kernel = "decode_ptrs" -> FlashDecodeMultiSeqKernel(c, l, k)
      [] l.kernel = "decode_heads" -> FlashDecodeMultiSeqStridedKernel(c, l, k)
      [] l.kernel = "decode_gqa" -> FlashDecodeMultiSeqStridedGQAKernel(c, l, k)
      [] l.kernel = "decode_warp" -> FlashDecodeGQAWarpPerHeadKernel(c, l, k)
      [] l.kernel = "decode_split" -> FlashDecodeGQASplitKernel(c, l, k)
      [] l.kernel = "decode_packed" -> FlashDecodePackedKernel(c, l, k)
      [] l.kernel = "decode_mma" -> FlashDecodeMmaGqaKernel(c, l, k)
      [] l.kernel = "decode_chunks" -> FlashDecodeSplitStridedGQAKernel(c, l, k)

Outputs(c) ==
    IF c.query_len > 0 THEN (0..(c.batch - 1)) \X (0..(c.query_len - 1)) \X (0..(c.heads - 1))
    ELSE (0..(c.batch - 1)) \X {0} \X (0..(c.heads - 1))

(* What a set of parts leaves in each place it writes.                     *)
Written(parts) == [a \in {p.at : p \in parts} |-> {p \in parts : p.at = a}]

(***************************************************************************)
(* One layer's attention: the kernel, then the kernel that merges parts.   *)
(***************************************************************************)
AttnInit ==
    /\ attnCall \in AttnCalls
    /\ attnPc = "call"
    /\ attnRun = AttnError
    /\ workspace = <<>>
    /\ attended = <<>>

(* The limit for the tensor-core decode kernel is raised once, in the      *)
(* first call (pending).  When that is denied the error stays behind, and  *)
(* cudaGetLastError of the kernel that is launched instead reports it.     *)
ErrorPending(c) ==
    /\ c.pending /\ ~c.smem_configured
    /\ c.query_len = 0 /\ c.contiguous /\ c.pol.mma /\ gqa8(c) /\ c.type = "half"
    /\ MmaFits(c)

(* What the launchers return an error for without a fault of the device.   *)
Refusal(c, l) == IF l.kernel = "error" THEN TRUE ELSE Smem(c, l) > c.smem \/ ErrorPending(c)

AttnRefused ==
    /\ attnPc = "call"
    /\ Refusal(attnCall, AttnDispatch(attnCall))
    /\ attnPc' = "refused"
    /\ UNCHANGED <<attnCall, attnRun, workspace, attended>>

(* A launch fails on the device.  Only the chunked kernel's error is read  *)
(* after the parts were merged, whatever they are.                         *)
AttnLaunchFails ==
    LET l == AttnDispatch(attnCall)
    IN /\ attnPc \in {"call", "merge"}
       /\ l.kernel # "error"
       /\ attnPc' = "failed"
       /\ attended' = IF attnPc = "call" /\ l.merge = "combine"
                       THEN [o \in Outputs(attnCall) |-> {Stale}] ELSE attended
       /\ UNCHANGED <<attnCall, attnRun, workspace>>

AttnKernel ==
    LET l == AttnDispatch(attnCall)
        parts == UNION {KernelParts(attnCall, l, k) : k \in Grid(l)}
    IN /\ attnPc = "call"
       /\ ~Refusal(attnCall, l)
       /\ attnRun' = l
       /\ workspace' = Written({p \in parts : Len(p.at) = 1})
       /\ attended' = Written({p \in parts : Len(p.at) = 3})
       /\ attnPc' = IF l.merge = "none" THEN "done" ELSE "merge"
       /\ UNCHANGED attnCall

(* A part of an empty split weighs nothing, and its values are not read.   *)
AttnMerge ==
    LET cells(o) == IF attnRun.merge = "reduce"
                    THEN FlashDecodeReduceSplitsKernel(attnCall, attnRun, o[1], o[3])
                    ELSE FlashDecodeSplitCombineKernel(attnCall, attnRun, o[1], o[3])
        held(i) == IF <<i>> \in DOMAIN workspace THEN workspace[<<i>>] ELSE {Stale}
    IN /\ attnPc = "merge"
       /\ attended' = [o \in Outputs(attnCall) |->
                          {p \in UNION {held(i) : i \in cells(o)} : p = Stale \/ p.from < p.to}]
       /\ attnPc' = "done"
       /\ UNCHANGED <<attnCall, attnRun, workspace>>

AttnNext == AttnRefused \/ AttnLaunchFails \/ AttnKernel \/ AttnMerge

AttnSpec == AttnInit /\ [][AttnNext]_attnVars

(***************************************************************************)
(* Properties                                                              *)
(***************************************************************************)
Limit(c, o) == IF c.query_len > 0 THEN causal_limit(c, o[2]) ELSE c.kv_lens[o[1] + 1]

Length(p) == p.to - p.from

(* The ranges partition the positions before `limit`.                      *)
Partition(parts, limit) ==
    /\ \A p \in parts : 0 <= p.from /\ p.to <= limit
    /\ \A p, r \in parts : p # r => p.to <= r.from \/ r.to <= p.from
    /\ LET ends == {p.to : p \in parts} \cup {0}
       IN /\ {p.from : p \in parts} \cup {limit} = ends
          /\ limit \in ends

(* The grid of KV chunks reaches the end of the longest row.               *)
ChunksReach ==
    attnRun.kernel = "decode_chunks" =>
        \A b \in 1..attnCall.batch : attnCall.kv_lens[b] <= attnRun.splits * attnRun.chunk

(* Warp-per-head has kernels for the ratios 1, 2, 4 and 8 only.            *)
WarpRatioKnown == attnRun.kernel = "decode_warp" => attnRun.ratio = gqa_ratio(attnCall)

(* The scores of a tile are summed by one thread each, so the kernels that *)
(* have a thread per dimension need as many as a tile has positions.       *)
TileHasThreads ==
    attnRun.kernel \notin {"prefill_mma", "decode_mma", "decode_packed", "decode_warp"} =>
        attnRun.threads >= FA2_TILE_KV

(* Warp-per-head gives each lane head_dim / 32 dimensions.                 *)
WarpDimsWhole == attnRun.kernel = "decode_warp" => attnCall.head_dim % 32 = 0

(* When an attention call is done, every query head of every row holds     *)
(* exactly its own KV positions, each once, read from the KV head its      *)
(* group shares, with every position of a tile scored and every dimension  *)
(* written; no part of an earlier launch is merged                         *)
(* (flash_attention.cu, all kernels and launchers).  A context beyond the  *)
(* capped chunks and the heads TileHasThreads and WarpDimsWhole leave out  *)
(* are excepted, see WholeContextAttended and EveryHeadAttended.           *)
AttentionRight ==
    attnPc = "done" /\ ChunksReach /\ WarpRatioKnown /\ TileHasThreads /\ WarpDimsWhole =>
        \A o \in Outputs(attnCall) :
            /\ o \in DOMAIN attended
            /\ Partition(attended[o], Limit(attnCall, o))
            /\ \A p \in attended[o] :
                  /\ <<p.row, p.q, p.head>> = o
                  /\ p.kv = o[3] \div gqa_ratio(attnCall)
                  /\ p.width >= Low(FA2_TILE_KV, Length(p))
                  /\ p.dims = attnCall.head_dim

(* No two blocks write the same output row or the same part of the         *)
(* workspace, and a launch stays inside the workspace AllocateScratch      *)
(* sized for it (transformer_forward.cu 1272-1282, 1378-1401).             *)
PartsDisjoint ==
    attnPc \in {"merge", "done"} =>
        /\ \A i \in DOMAIN workspace : Cardinality(workspace[i]) = 1
        /\ attnRun.merge = "none" => \A o \in DOMAIN attended : Cardinality(attended[o]) = 1
        /\ attnRun.floats <= IF attnRun.merge = "combine" THEN AttnPartials(attnCall)
                              ELSE SplitWorkspace(attnCall)
        /\ \A i \in DOMAIN workspace : (i[1] + 1) * (attnCall.head_dim + 2) <= attnRun.floats

(* Without a fault of the device a layer's attention is refused only where *)
(* the slots are not contiguous and the split workspace is missing, where  *)
(* the tensor-core decode kernel was just denied its shared memory, or for *)
(* heads beyond 128 dimensions: the tiles of every kernel, for every       *)
(* group of query heads, fit the 99 KB that the smallest device gives      *)
(* (flash_attention.cu 322-344; transformer_forward.cu 3630).              *)
RefusedSeldom ==
    attnPc = "refused" => \/ ~attnCall.contiguous /\ ~attnCall.split_allocated
                          \/ attnCall.pending /\ ~attnCall.smem_configured
                          \/ attnCall.head_dim > 128

(* The fragments the kernels load and store are the ones the instruction   *)
(* multiplies: row and column swapped in one register exchanges halves of  *)
(* neighbouring rows without an error (flash_attention_mma.cuh 81-145,     *)
(* flash_attention.cu 1573-1610).                                          *)
FragmentsAgree ==
    /\ \A lane \in Lanes, r \in 0..3 :
          /\ load_mma_a_16x16(lane, r) = MmaA(lane, r)
          /\ MmaDecodeLoadKFrag(lane, r) = MmaA(lane, r)
          /\ MmaDecodeLoadVTFrag(lane, r) = MmaA(lane, r)
          /\ <<mma_frag_row(r, lane), mma_frag_col(r, lane)>> = MmaD(lane, r)
    /\ \A lane \in Lanes, r \in 0..1 : load_mma_b_transposed_16x8(lane, r) = MmaB(lane, r)
    /\ MmaScoredColumns = 0..(MMA_FA2_BC - 1) /\ MmaScoredRows = 0..(MMA_FA2_BR - 1)
    /\ MmaDecodeRows = 0..(kMmaDecodeChunk - 1) /\ MmaDecodeMerged = (0..7) \X (0..127)

AttentionSafe == AttentionRight /\ PartsDisjoint /\ RefusedSeldom /\ FragmentsAgree

(* Every position of every row is attended also when the context is longer *)
(* than kMaxAttnKSplits chunks.  The code caps ksplits at 8 and leaves the *)
(* chunk as it is, so this fails for rows beyond 8 chunks.                 *)
WholeContextAttended == attnPc = "done" => ChunksReach

(* Every head size and head group a model may have is attended correctly.  *)
(* Heads of at most 32 dimensions leave half of a tile without scores, and *)
(* warp-per-head drops the dimensions beyond a multiple of 32 and treats   *)
(* other group sizes than 2, 4 and 8 as ungrouped, so this fails.          *)
EveryHeadAttended == attnPc = "done" => WarpRatioKnown /\ TileHasThreads /\ WarpDimsWhole
=============================================================================
