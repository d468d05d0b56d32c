---------------------------- MODULE GemvKernels ----------------------------
(***************************************************************************)
(* The quantized matrix-vector kernels of the native CUDA backend: what    *)
(* each thread of a launch adds to one element of the output.              *)
(*                                                                         *)
(* A launch l has the grid gx * gy * gz of thread blocks of l.warps warps, *)
(* m activation rows, n[i] output columns of projection i, k weight blocks *)
(* per output column and the template parameter l.tile (rows per block).   *)
(* A thread t is [bx, by, bz, warp, lane].  A probe p names an element of  *)
(* the output (projection out, row, col) and a weight block blk of that    *)
(* column.  A kernel is an operator K(l, t, p): the set of <<a, u>> such   *)
(* that t adds term u, computed from activation row a and block p.blk, to  *)
(* the element p.  The sum over the lanes and warps (shuffles, then shared *)
(* memory) adds up what all threads computed; the arithmetic itself is     *)
(* left out.                                                               *)
(***************************************************************************)
EXTENDS QuantLayout, Sequences

CeilDiv(a, b) == (a + b - 1) \div b
Least(a, b) == IF a < b THEN a ELSE b
Greatest(a, b) == IF a > b THEN a ELSE b

Threads(l) == [bx : 0..(l.gx - 1), by : 0..(l.gy - 1), bz : 0..(l.gz - 1),
               warp : 0..(l.warps - 1), lane : 0..31]

(* Block b is visited by a loop that starts at `first` and adds `step`.    *)
Strided(b, first, step) == b >= first /\ (b - first) % step = 0

From(row, terms) == {<<row, u>> : u \in terms}

(***************************************************************************)
(* What one lane computes of a super-block.                                *)
(***************************************************************************)
Q4KDots(lane) ==
    LET pair == lane \div 8
        offs == lane % 8
        q    == pair * 8 + offs
    IN {Nibble(pair * 16 + offs, q, 0, 2 * pair),
        Nibble(pair * 16 + 8 + offs, q, 1, 2 * pair + 1)}

(* The packed kernels subtract the offset of each lane's own eight values. *)
Q4KPackedLane(lane) == Q4KDots(lane) \cup {Offset(u.over, u.bits.sc) : u \in Q4KDots(lane)}

SubBlock(j) == (8 * j)..(8 * j + 7)

(* With Q8_1 activations the first lane of eight subtracts the offset of   *)
(* the whole sub-block, from the sum the quantizer stored.                 *)
PairOffsets(pair) == {Offset(SubBlock(2 * pair), 2 * pair),
                      Offset(SubBlock(2 * pair + 1), 2 * pair + 1)}

Q4KLane(lane) ==
    Q4KDots(lane) \cup (IF lane % 8 = 0 THEN PairOffsets(lane \div 8) ELSE {})

(* Sixteen bytes per lane; eight lanes cover a super-block.                *)
Q4KWideLane(lane) ==
    LET s    == lane % 8
        pair == s \div 2
        x    == pair * 16 + (s % 2) * 4
    IN UNION {{Nibble(x + i, s * 4 + i, 0, 2 * pair),
               Nibble(x + 8 + i, s * 4 + i, 1, 2 * pair + 1)} : i \in 0..3}
       \cup (IF s % 2 = 0 THEN PairOffsets(pair) ELSE {})

Q6KLane(lane) ==
    LET sub_pair == lane \div 8
        e    == lane % 8
        g    == sub_pair \div 2
        sub  == sub_pair % 2
        q    == g * 16 + sub * 8 + e
    IN {Six(g * 32 + sub * 8 + e, q, 0, g * 8 + e, 2 * sub, g * 8 + sub * 2 + e \div 4),
        Six(g * 32 + (sub + 2) * 8 + e, q, 1, g * 8 + e, 2 * sub + 4,
            g * 8 + (sub + 2) * 2 + e \div 4)}

WholeBlock(type) == {Byte(w, w) : w \in WordsOf(type)}

(***************************************************************************)
(* fused_dequant_gemv.cuh: one warp per output column, one block row per   *)
(* activation row; the grouped kernels walk several projections.           *)
(***************************************************************************)
WarpColumn(t) == t.bx * 8 + t.warp

RowColumn(l, t, p) == p.col = WarpColumn(t) /\ p.row = t.by /\ p.col < l.n[1] /\ p.out = 1

RowGroup(l, t, p) ==
    /\ p.col = WarpColumn(t)
    /\ p.row = t.by
    /\ \E i \in DOMAIN l.n : WarpColumn(t) < l.n[i]
    /\ p.col < l.n[p.out]

Q6KPacked(l, t, p) == IF RowColumn(l, t, p) THEN From(t.by, Q6KLane(t.lane)) ELSE {}
Q6KPackedGroup(l, t, p) == IF RowGroup(l, t, p) THEN From(t.by, Q6KLane(t.lane)) ELSE {}
Q4KPacked(l, t, p) == IF RowColumn(l, t, p) THEN From(t.by, Q4KPackedLane(t.lane)) ELSE {}
Q4KPackedGroup(l, t, p) == IF RowGroup(l, t, p) THEN From(t.by, Q4KPackedLane(t.lane)) ELSE {}

Q8_0Packed(l, t, p) ==
    IF RowColumn(l, t, p) /\ Strided(p.blk, t.lane, 32) THEN From(t.by, WholeBlock("Q8_0")) ELSE {}
Q8_0PackedGroup(l, t, p) ==
    IF RowGroup(l, t, p) /\ Strided(p.blk, t.lane, 32) THEN From(t.by, WholeBlock("Q8_0")) ELSE {}
Q8KPacked(l, t, p) ==
    IF RowColumn(l, t, p) /\ Strided(p.blk, t.lane, 32) THEN From(t.by, WholeBlock("Q8_K")) ELSE {}
Q8KPackedGroup(l, t, p) ==
    IF RowGroup(l, t, p) /\ Strided(p.blk, t.lane, 32) THEN From(t.by, WholeBlock("Q8_K")) ELSE {}

Q4KGroup(l, t, p) == IF RowGroup(l, t, p) THEN From(t.by, Q4KLane(t.lane)) ELSE {}
Q6KGroup(l, t, p) == IF RowGroup(l, t, p) THEN From(t.by, Q6KLane(t.lane)) ELSE {}
Q8_0Group(l, t, p) ==
    IF RowGroup(l, t, p) /\ Strided(p.blk, t.lane, 32) THEN From(t.by, WholeBlock("Q8_0")) ELSE {}
Q8KGroup(l, t, p) ==
    IF RowGroup(l, t, p) /\ Strided(p.blk, t.lane, 32) THEN From(t.by, WholeBlock("Q8_K")) ELSE {}

(* Rows t.by * tile .. of this thread block that exist.                    *)
InRowTile(l, t, p) == t.by * l.tile <= p.row /\ p.row < Least(t.by * l.tile + l.tile, l.m)

Q4KGroupRowQuad(l, t, p) ==
    IF /\ p.col = WarpColumn(t)
       /\ \E i \in DOMAIN l.n : WarpColumn(t) < l.n[i]
       /\ p.col < l.n[p.out]
       /\ InRowTile(l, t, p)
    THEN From(p.row, Q4KLane(t.lane)) ELSE {}

(***************************************************************************)
(* mmvq.cuh: one thread block per output column; its four warps share the  *)
(* weight blocks, l.tile activation rows are computed together.            *)
(***************************************************************************)
kMmvqWarps == 4

BlockColumn(l, t, p) == p.col = t.bx /\ p.col < l.n[1] /\ p.out = 1 /\ InRowTile(l, t, p)

BlockGroup(l, t, p) ==
    /\ p.col = t.bx
    /\ \E i \in DOMAIN l.n : t.bx < l.n[i]
    /\ p.col < l.n[p.out]
    /\ InRowTile(l, t, p)

(* Both projections of the fused gate/up kernels have the same width.      *)
BlockBoth(l, t, p) == p.col = t.bx /\ p.col < l.n[1] /\ InRowTile(l, t, p)

ByWarp(t, p) == Strided(p.blk, t.warp, kMmvqWarps)

(* Four super-blocks per warp and iteration, eight lanes each.             *)
ByQuarterWarp(t, p) == Strided(p.blk, t.warp * 4 + t.lane \div 8, 4 * kMmvqWarps)

MmvqQ4K(l, t, p) ==
    IF BlockColumn(l, t, p) /\ ByWarp(t, p) THEN From(p.row, Q4KLane(t.lane)) ELSE {}
MmvqQ4KAccumWide(l, t, p) ==
    IF BlockColumn(l, t, p) /\ ByQuarterWarp(t, p) THEN From(p.row, Q4KWideLane(t.lane)) ELSE {}
MmvqQ6K(l, t, p) ==
    IF BlockColumn(l, t, p) /\ ByWarp(t, p) THEN From(p.row, Q6KLane(t.lane)) ELSE {}
MmvqQ6KVec(l, t, p) ==
    IF BlockColumn(l, t, p) /\ ByWarp(t, p) THEN From(p.row, Q6KLane(t.lane)) ELSE {}
MmvqQ6KAccumVec(l, t, p) ==
    IF BlockColumn(l, t, p) /\ ByWarp(t, p) THEN From(p.row, Q6KLane(t.lane)) ELSE {}
MmvqQ8_0(l, t, p) ==
    IF BlockColumn(l, t, p) /\ Strided(p.blk, t.warp * 32 + t.lane, 32 * kMmvqWarps)
    THEN From(p.row, WholeBlock("Q8_0")) ELSE {}
MmvqQ8K(l, t, p) ==
    IF BlockColumn(l, t, p) /\ Strided(p.blk, t.warp * 32 + t.lane, 32 * kMmvqWarps)
    THEN From(p.row, WholeBlock("Q8_K")) ELSE {}
MmvqQ4KGroup(l, t, p) ==
    IF BlockGroup(l, t, p) /\ ByWarp(t, p) THEN From(p.row, Q4KLane(t.lane)) ELSE {}
MmvqQ6KGroup(l, t, p) ==
    IF BlockGroup(l, t, p) /\ ByWarp(t, p) THEN From(p.row, Q6KLane(t.lane)) ELSE {}
FusedGateUpSiluWide(l, t, p) ==
    IF BlockBoth(l, t, p) /\ ByQuarterWarp(t, p) THEN From(p.row, Q4KWideLane(t.lane)) ELSE {}
FusedGateUpSilu(l, t, p) ==
    IF BlockBoth(l, t, p) /\ ByWarp(t, p) THEN From(p.row, Q4KLane(t.lane)) ELSE {}

(***************************************************************************)
(* mmq.cuh: eight warps share a tile of activation rows staged in shared   *)
(* memory.  Every thread stages, so the tile is complete; row r of it is   *)
(* activation row by * tile + r.  The Q8 kernels do not divide the block   *)
(* between the lanes of a warp: each lane computes all of it.              *)
(***************************************************************************)
TileColumn(l, t, p) == p.col = WarpColumn(t) /\ p.col < l.n[1] /\ p.out = 1 /\ InRowTile(l, t, p)

MmqQ4K(l, t, p) == IF TileColumn(l, t, p) THEN From(p.row, Q4KLane(t.lane)) ELSE {}
MmqQ6K(l, t, p) == IF TileColumn(l, t, p) THEN From(p.row, Q6KLane(t.lane)) ELSE {}
MmqQ8_0(l, t, p) == IF TileColumn(l, t, p) THEN From(p.row, WholeBlock("Q8_0")) ELSE {}
MmqQ8K(l, t, p) == IF TileColumn(l, t, p) THEN From(p.row, WholeBlock("Q8_K")) ELSE {}
MmqQ4KAccum(l, t, p) == MmqQ4K(l, t, p)
MmqQ6KAccum(l, t, p) == MmqQ6K(l, t, p)
MmqQ8_0Accum(l, t, p) == MmqQ8_0(l, t, p)
MmqQ8KAccum(l, t, p) == MmqQ8K(l, t, p)

(***************************************************************************)
(* mmq_grouped_ffn.cuh: warps without an output column leave before the    *)
(* tile is staged, so block x \div 8 of tile row r is filled only if the   *)
(* warp that would copy it (r * 8 + x \div 8 is its thread) is still there *)
(***************************************************************************)
Unstaged == -1

Mmq3Active(l, bx, warp) == \E i \in DOMAIN l.n : bx * 8 + warp < l.n[i]

Mmq3Staged(l, t, r, x) ==
    IF Mmq3Active(l, t.bx, (r * 8 + x \div 8) \div 32) THEN t.by * l.tile + r ELSE Unstaged

Mmq3Owns(l, t, p) ==
    p.col = WarpColumn(t) /\ Mmq3Active(l, t.bx, t.warp) /\ p.col < l.n[p.out] /\ InRowTile(l, t, p)

Mmq3Q4K(l, t, p) ==
    IF Mmq3Owns(l, t, p)
    THEN {<<Mmq3Staged(l, t, p.row - t.by * l.tile, CHOOSE x \in u.over : TRUE), u>> :
             u \in Q4KLane(t.lane)}
    ELSE {}

(***************************************************************************)
(* The tiled down-projection of fused_quant_gemm.cu: the weights were      *)
(* regrouped so that the columns of a tile are adjacent.  SourceOf is the  *)
(* <<column, block>> copied to position idx of the regrouped matrix.       *)
(***************************************************************************)
TiledBlocks(l) == CeilDiv(l.n[1], l.tile) * l.k * l.tile

SourceOf(l, idx) ==
    LET tile == idx \div (l.k * l.tile)
        rem  == idx % (l.k * l.tile)
    IN <<tile * l.tile + (rem % l.tile), rem \div l.tile>>

TileOwns(l, t, p) ==
    /\ p.col = t.bx * l.tile + t.warp
    /\ p.col < l.n[1]
    /\ p.out = 1
    /\ p.row = t.by

(* The loop reads position blk * tile + warp of the tile at iteration blk: *)
(* the weight block it finds there is the one the probe asks for.          *)
TileReads(l, t, p) ==
    SourceOf(l, t.bx * l.k * l.tile + p.blk * l.tile + t.warp) = <<p.col, p.blk>>

DownProjTileQ4K(l, t, p) ==
    IF TileOwns(l, t, p) /\ TileReads(l, t, p) THEN From(t.by, Q4KLane(t.lane)) ELSE {}
DownProjTileQ6K(l, t, p) ==
    IF TileOwns(l, t, p) /\ TileReads(l, t, p) THEN From(t.by, Q6KLane(t.lane)) ELSE {}

(***************************************************************************)
(* mmq_mma.cuh: tensor-core tiles of 128 weight columns by 16 activation   *)
(* rows; grid z cuts K in l.gz slices.  The fragment of C a lane holds and *)
(* stores is given by mma_tile.cuh; the mma instruction multiplies what    *)
(* the fragments hold.  tile_x column c is multiplied with activation word *)
(* c of the super-block (chunk c \div 32, then c % 32).                    *)
(***************************************************************************)
kMmqY == 128
kMmqX == 16

FragmentOf(t) ==
    {<<16 * t.warp + (e \div 2) * 8 + t.lane \div 4, j0 + (t.lane % 4) * 2 + (e % 2)>> :
        e \in 0..3, j0 \in {0, 8}}

LoadTilesQ4KMma ==
    UNION {{[col |-> 16 * (txi \div 8) + (txi % 8), q |-> txi, hi |-> 0],
            [col |-> 16 * (txi \div 8) + (txi % 8) + 8, q |-> txi, hi |-> 1]} : txi \in 0..31}

(* One scale pair per step of eight columns, its offset added once.        *)
VecDotQ4KMma ==
    UNION {LET k0 == 32 * chunk + k01
               js == {s \in LoadTilesQ4KMma : s.col \in k0..(k0 + 7)}
           IN {Nibble(s.col, s.q, s.hi, k0 \div 8) : s \in js} \cup {Offset(k0..(k0 + 7), k0 \div 8)} :
           chunk \in {0, 1}, k01 \in {0, 8, 16, 24}}

LoadTilesQ6KMma ==
    UNION {LET kq == 2 * txi - (txi % 16)
               h  == 8 * (txi \div 16) + (txi % 8)
               sh == 2 * ((txi \div 8) % 2)
           IN {[col |-> kq, q |-> txi, hi |-> 0, h |-> h, sh |-> sh],
               [col |-> kq + 16, q |-> txi, hi |-> 1, h |-> h, sh |-> sh + 4]} : txi \in 0..31}

(* Two instructions of four columns per step; sc_a holds the four bytes of *)
(* one scale word per sixteen columns.                                     *)
VecDotQ6KMma ==
    UNION {LET base == 16 * (k01 \div 16)
               k0   == 32 * chunk + k01 + 4 * half
               sc   == 4 * ((32 * chunk + base) \div 16) + (k01 \div 4 + half - base \div 4)
           IN {Six(s.col, s.q, s.hi, s.h, s.sh, sc) : s \in {v \in LoadTilesQ6KMma : v.col \in k0..(k0 + 3)}} :
           chunk \in {0, 1}, k01 \in {0, 8, 16, 24}, half \in {0, 1}}

(* Which of up to three weight matrices tile bx belongs to, its place in   *)
(* it, and the width the kernel takes for a row of that output.            *)
Segment(l, bx) ==
    IF l.n2 > 0 /\ bx >= l.n1 + l.n2
    THEN [out |-> 3, at |-> bx - l.n1 - l.n2, width |-> (l.gx - l.n1 - l.n2) * kMmqY]
    ELSE IF l.n1 > 0 /\ bx >= l.n1
         THEN [out |-> 2, at |-> bx - l.n1, width |-> l.n[1]]
         ELSE [out |-> 1, at |-> bx, width |-> l.n[1]]

(* Both staging loops walk the tile's 128 rows up to the last that exists. *)
StagedRow(i, last) ==
    /\ i <= last
    /\ \E w \in 0..7 : Strided(i, w, 8)
    /\ \E w \in 0..7, lane \in 0..31 : i = w * 16 + lane \div 2

(* The activations are stored group-major: rows of one 128-group together. *)
StagedActivation(l, t, chunk, p, j) ==
    LET at == (p.blk * 2 + chunk) * l.m + t.by * kMmqX + j
    IN IF at \div l.m = p.blk * 2 + chunk THEN at % l.m ELSE Unstaged

InSlice(l, t, p) ==
    LET per == CeilDiv(l.k, l.gz)
    IN t.bz * per <= p.blk /\ p.blk < Least(t.bz * per + per, l.k)

(* The elements <<i, j>> of its fragment that t stores at the address of p *)
MmaRow(t, j) == t.by * kMmqX + j

MmaStores(l, t, p) ==
    LET s == Segment(l, t.bx)
    IN IF p.out # s.out THEN {} ELSE
       {ij \in FragmentOf(t) :
          /\ ij[1] <= s.width - s.at * kMmqY - 1
          /\ ij[2] <= l.m - t.by * kMmqX - 1
          /\ MmaRow(t, ij[2]) * s.width + s.at * kMmqY + ij[1] = p.row * l.n[p.out] + p.col}

MmaTerms(l, t, p, terms) ==
    LET s == Segment(l, t.bx)
        last == s.width - s.at * kMmqY - 1
    IN IF InSlice(l, t, p)
       THEN UNION {{<<IF s.at * kMmqY + ij[1] = p.col /\ StagedRow(ij[1], last)
                      THEN StagedActivation(l, t, (CHOOSE x \in u.over : TRUE) \div 32, p, ij[2])
                      ELSE Unstaged, u>> : u \in terms} : ij \in MmaStores(l, t, p)}
       ELSE {}

MmqQ4KMma(l, t, p) == MmaTerms(l, t, p, VecDotQ4KMma)
MmqQ6KMma(l, t, p) == MmaTerms(l, t, p, VecDotQ6KMma)

(***************************************************************************)
(* The quantizers of the activations.  What warp `warp` of block <<bx, by>>*)
(* writes: position `at` of the scratch holds 32 (Q8_1) or 128 (tensor     *)
(* cores) values of activation row `row`, the group `grp` of that row.     *)
(***************************************************************************)
DualBlocks(groups, warp) ==
    {b \in 0..(groups - 1) : \E b0 \in {b, b - 1} : Strided(b0, 2 * warp, 16)}

quantize_row_q8_1(rows, groups, bx, by, warp) ==
    {[at |-> bx * groups + b, row |-> bx, grp |-> b] : b \in DualBlocks(groups, warp)}

silu_mul_quantize_q8_1(rows, groups, bx, by, warp) ==
    {[at |-> bx * groups + b, row |-> bx, grp |-> b] : b \in DualBlocks(groups, warp)}

fused_rmsnorm_quantize_q8_1(rows, groups, bx, by, warp) ==
    {[at |-> bx * groups + b, row |-> bx, grp |-> b] : b \in DualBlocks(groups, warp)}

QuantizeRowQ8_1Mmq(rows, groups, bx, by, warp) ==
    LET g == bx * 4 + warp
    IN IF by >= rows \/ g >= groups THEN {} ELSE {[at |-> g * rows + by, row |-> by, grp |-> g]}

QuantizeRowQ8_1MmqDs(rows, groups, bx, by, warp) ==
    LET g == bx * 4 + warp
    IN IF by >= rows \/ g >= groups THEN {} ELSE {[at |-> g * rows + by, row |-> by, grp |-> g]}

(***************************************************************************)
(* A launch as a whole.                                                    *)
(***************************************************************************)
Work(l, t, p) ==
    CASE l.kernel = "mma_q4k"          -> MmqQ4KMma(l, t, p)
      [] l.kernel = "mma_q6k"          -> MmqQ6KMma(l, t, p)
      [] l.kernel = "q6k_packed"       -> Q6KPacked(l, t, p)
      [] l.kernel = "q6k_packed_group" -> Q6KPackedGroup(l, t, p)
      [] l.kernel = "q4k_packed"       -> Q4KPacked(l, t, p)
      [] l.kernel = "q4k_packed_group" -> Q4KPackedGroup(l, t, p)
      [] l.kernel = "q8_0_packed"      -> Q8_0Packed(l, t, p)
      [] l.kernel = "q8_0_packed_group" -> Q8_0PackedGroup(l, t, p)
      [] l.kernel = "q8k_packed"       -> Q8KPacked(l, t, p)
      [] l.kernel = "q8k_packed_group" -> Q8KPackedGroup(l, t, p)
      [] l.kernel = "q4k_group"        -> Q4KGroup(l, t, p)
      [] l.kernel = "q6k_group"        -> Q6KGroup(l, t, p)
      [] l.kernel = "q8_0_group"       -> Q8_0Group(l, t, p)
      [] l.kernel = "q8k_group"        -> Q8KGroup(l, t, p)
      [] l.kernel = "q4k_rowquad"      -> Q4KGroupRowQuad(l, t, p)
      [] l.kernel = "mmvq_q4k"         -> MmvqQ4K(l, t, p)
      [] l.kernel = "mmvq_q4k_wide"    -> MmvqQ4KAccumWide(l, t, p)
      [] l.kernel = "mmvq_q6k"         -> MmvqQ6K(l, t, p)
      [] l.kernel = "mmvq_q6k_vec"     -> MmvqQ6KVec(l, t, p)
      [] l.kernel = "mmvq_q6k_accum_vec" -> MmvqQ6KAccumVec(l, t, p)
      [] l.kernel = "mmvq_q8_0"        -> MmvqQ8_0(l, t, p)
      [] l.kernel = "mmvq_q8k"         -> MmvqQ8K(l, t, p)
      [] l.kernel = "mmvq_q4k_group"   -> MmvqQ4KGroup(l, t, p)
      [] l.kernel = "mmvq_q6k_group"   -> MmvqQ6KGroup(l, t, p)
      [] l.kernel = "gate_up_wide"     -> FusedGateUpSiluWide(l, t, p)
      [] l.kernel = "gate_up"          -> FusedGateUpSilu(l, t, p)
      [] l.kernel = "mmq_q4k"          -> MmqQ4K(l, t, p)
      [] l.kernel = "mmq_q6k"          -> MmqQ6K(l, t, p)
      [] l.kernel = "mmq_q8_0"         -> MmqQ8_0(l, t, p)
      [] l.kernel = "mmq_q8k"          -> MmqQ8K(l, t, p)
      [] l.kernel = "mmq_q4k_accum"    -> MmqQ4KAccum(l, t, p)
      [] l.kernel = "mmq_q6k_accum"    -> MmqQ6KAccum(l, t, p)
      [] l.kernel = "mmq_q8_0_accum"   -> MmqQ8_0Accum(l, t, p)
      [] l.kernel = "mmq_q8k_accum"    -> MmqQ8KAccum(l, t, p)
      [] l.kernel = "mmq3_q4k"         -> Mmq3Q4K(l, t, p)
      [] l.kernel = "tile_q4k"         -> DownProjTileQ4K(l, t, p)
      [] l.kernel = "tile_q6k"         -> DownProjTileQ6K(l, t, p)

(* How many warps' partial sums the sum over a thread block reads: the     *)
(* MMVQ epilogues read kMmvqWarps, the wide accumulating one as many as    *)
(* were launched; elsewhere a warp stores its own sum.                     *)
SlotsRead(l) ==
    IF l.kernel \in {"mmvq_q4k", "mmvq_q6k", "mmvq_q6k_vec", "mmvq_q6k_accum_vec", "mmvq_q8_0",
                     "mmvq_q8k", "mmvq_q4k_group", "mmvq_q6k_group", "gate_up", "gate_up_wide"}
    THEN kMmvqWarps ELSE l.warps
=============================================================================
