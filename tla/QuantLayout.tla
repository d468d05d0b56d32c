---------------------------- MODULE QuantLayout ----------------------------
(***************************************************************************)
(* How the GGUF block formats are laid out, as the element decoders of     *)
(* quant_common.cuh and the kernels of dequantization.cu read them.  The   *)
(* unit is the word: four consecutive weights of one block, which every    *)
(* kernel loads and multiplies together (dp4a).  A super-block (QK_K =     *)
(* 256) has 64 words, a Q8_0 block (32) has 8.                             *)
(*                                                                         *)
(* A term is one product a kernel adds to an output: `over` is the set of  *)
(* activation words it multiplies, `bits` says which bits of the weight    *)
(* block it multiplies them with.  A "min" term is the offset       *)
(* dmin * m of a sub-block, which multiplies the sum of its activations.   *)
(***************************************************************************)
EXTENDS Integers, FiniteSets

WordsOf(type) == IF type = "Q8_0" THEN 0..7 ELSE 0..63

(* Word w of the activation times a word of the weight block.              *)
Dot(w, bits) == [kind |-> "dot", over |-> {w}, bits |-> bits]

(* Q4_K and Q5_K: q is the word of qs, hi the nibble, sc the 6-bit scale.  *)
Nibble(w, q, hi, sc) == Dot(w, [q |-> q, hi |-> hi, sc |-> sc])

(* Q6_K: two more bits, from word h of qh, sh bits up.                     *)
Six(w, q, hi, h, sh, sc) == Dot(w, [q |-> q, hi |-> hi, h |-> h, sh |-> sh, sc |-> sc])

(* Q8_0 and Q8_K: a whole byte and the scale of the block.                 *)
Byte(w, q) == Dot(w, [q |-> q])

Offset(ws, sc) == [kind |-> "min", over |-> ws, sc |-> sc]

(***************************************************************************)
(* The element decoders: which bits of the block the elements of one word  *)
(* are made of.  The caller says where in the block the word is, by        *)
(* sub-block (and group) and the word e within it.  Q5_K adds one bit from *)
(* word h of qh, at position bit.                                          *)
(***************************************************************************)
dequant_q4k_element(sb, e) == [q |-> (sb \div 2) * 8 + e, hi |-> sb % 2, sc |-> sb]

dequant_q5k_element(sb, e) ==
    [q |-> (sb \div 2) * 8 + e, hi |-> sb % 2, h |-> e, bit |-> sb, sc |-> sb]

dequant_q6k_element(g, sub, e) ==
    [q |-> g * 16 + (IF sub % 2 = 1 THEN 8 ELSE 0) + e, hi |-> IF sub >= 2 THEN 1 ELSE 0,
     h |-> g * 8 + e, sh |-> sub * 2, sc |-> g * 8 + sub * 2 + e \div 4]

dequant_q8_0_element(e) == [q |-> e]

dequant_q8k_element(e) == [q |-> e]

(***************************************************************************)
(* The 6-bit scales of a Q4_K block are packed in 12 bytes; a scale is the *)
(* sequence of the (byte, bit) pairs it is made of, lowest bit first.      *)
(***************************************************************************)
Bits(byte, from, n) == [i \in 1..n |-> <<byte, from + i - 1>>]

get_scale_min_k4(j) ==
    IF j < 4 THEN [d |-> Bits(j, 0, 6), m |-> Bits(j + 4, 0, 6)]
    ELSE [d |-> [i \in 1..6 |-> IF i <= 4 THEN <<j + 4, i - 1>> ELSE <<j - 4, i + 1>>],
          m |-> [i \in 1..6 |-> IF i <= 4 THEN <<j + 4, i + 3>> ELSE <<j, i + 1>>]]

(* Byte lane l of the unpacked word: its low four bits come from one of    *)
(* the three scale words, shifted by a nibble or not, its next two from    *)
(* bits 4 and 5 of the other operand.  ksc & (ksc / 2) is 1 only for 3.    *)
UnpackScalesQ45K(ksc, l) ==
    LET low  == (ksc % 2) + (IF ksc # 0 THEN 1 ELSE 0)
        down == IF ksc = 3 THEN 4 ELSE 0
        up   == ksc \div 2
        by   == 2 * (ksc % 2)
    IN [i \in 1..6 |-> IF i <= 4 THEN <<4 * low + l, i - 1 + down>>
                                 ELSE <<4 * up + l, i - 1 + by>>]

(* The scale and the min the tensor-core kernel stores for sub-block j.    *)
MmaScaleMin(j) == [d |-> UnpackScalesQ45K(j \div 4, j % 4),
                   m |-> UnpackScalesQ45K(j \div 4 + 2, j % 4)]

(***************************************************************************)
(* dequantization.cu: one thread decodes one block, word by word, in the   *)
(* loops of its kernel.  A write is the word `at` of the output, the block *)
(* it was read from and the bits it was decoded from.  n is the number of  *)
(* elements, a multiple of 4; the guard on it is per element.              *)
(***************************************************************************)
DequantBlocks(type, n) ==
    LET per == IF type = "Q8_0" THEN 32 ELSE 256 IN (n + per - 1) \div per

DequantGrid(type, n) == (DequantBlocks(type, n) + 255) \div 256

Inside(n, writes) == {x \in writes : 4 * x.at < n}

dequantize_q4_k(n, idx) ==
    Inside(n, {[at |-> idx * 64 + sb * 8 + e, blk |-> idx, bits |-> dequant_q4k_element(sb, e)] :
                  sb \in 0..7, e \in 0..7})

dequantize_q5_k(n, idx) ==
    Inside(n, {[at |-> idx * 64 + sb * 8 + e, blk |-> idx, bits |-> dequant_q5k_element(sb, e)] :
                  sb \in 0..7, e \in 0..7})

dequantize_q6_k(n, idx) ==
    Inside(n, {LET g == step \div 4
                   sub == step % 4
               IN [at |-> idx * 64 + g * 32 + sub * 8 + e, blk |-> idx,
                   bits |-> dequant_q6k_element(g, sub, e)] : step \in 0..7, e \in 0..7})

dequantize_q8_0(n, idx) ==
    Inside(n, {[at |-> idx * 8 + i, blk |-> idx, bits |-> dequant_q8_0_element(i)] : i \in 0..7})

dequantize_q8_k(n, idx) ==
    Inside(n, {[at |-> idx * 64 + i, blk |-> idx, bits |-> dequant_q8k_element(i)] : i \in 0..63})

(* What thread tid of thread block bx writes.                              *)
Dequantize(type, n, bx, tid) ==
    LET idx == bx * 256 + tid
    IN CASE idx >= DequantBlocks(type, n) -> {}
         [] idx < DequantBlocks(type, n) /\ type = "Q4_K" -> dequantize_q4_k(n, idx)
         [] idx < DequantBlocks(type, n) /\ type = "Q5_K" -> dequantize_q5_k(n, idx)
         [] idx < DequantBlocks(type, n) /\ type = "Q6_K" -> dequantize_q6_k(n, idx)
         [] idx < DequantBlocks(type, n) /\ type = "Q8_0" -> dequantize_q8_0(n, idx)
         [] idx < DequantBlocks(type, n) /\ type = "Q8_K" -> dequantize_q8_k(n, idx)

(* A whole matrix of n elements, with the thread that made each write.     *)
DequantizeAll(type, n) ==
    UNION {{<<x, y>> : y \in Dequantize(type, n, x[1], x[2])} :
              x \in (0..(DequantGrid(type, n) - 1)) \X (0..255)}

(* A block dequantised, as the products with the activation words at the   *)
(* same places.                                                            *)
DotsOf ==
    [type \in {"Q4_K", "Q5_K", "Q6_K", "Q8_0", "Q8_K"} |->
        LET elements == IF type = "Q8_0" THEN 32 ELSE 256
        IN {Dot(x.at, x.bits) : x \in Dequantize(type, elements, 0, 0)}]

(***************************************************************************)
(* cuda_kernels.cu: an embedding row gathered from a Q4_K or Q6_K table    *)
(* without dequantising the table.  What is read for word w of the row of  *)
(* token id, rows of `blocks` super-blocks.                                *)
(***************************************************************************)
EmbeddingLookupDequant(type, blocks, id, w) ==
    LET sb == (w % 64) \div 8
        e  == w % 8
    IN [blk |-> id * blocks + w \div 64,
        bits |-> IF type = "Q4_K" THEN dequant_q4k_element(sb, e)
                 ELSE dequant_q6k_element((w % 64) \div 32, ((w % 64) \div 8) % 4, e)]
=============================================================================
