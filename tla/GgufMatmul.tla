----------------------------- MODULE GgufMatmul -----------------------------
(***************************************************************************)
(* kernels/cpu/matmul/gguf_k.cpp and stq1_0.cpp: weights in the blocks of  *)
(* GGUF files.  A value is kept in pieces, the low and the high bits of    *)
(* one, a grid and a sign of another; its code is the list of the places   *)
(* where the pieces are.  Sizes are those of a Block of 32: 16 of them are *)
(* Half16 and 8 are Eight.  c.format is the type of the block; c.exact     *)
(* says that the activation has values out of the range q8_block_scale and *)
(* the faster of the two STQ kernels are for.                              *)
(***************************************************************************)
EXTENDS MatmulLayouts

GgufFormats == {"q4_k", "q5_k", "q6_k", "q8_0", "iq2_xxs", "iq3_xxs", "iq4_xs", "stq1_0"}
Gguf(c) == c.format \in GgufFormats

Half16 == Block \div 2
Eight == Block \div 4
BlockValues(c) == IF c.format = "q8_0" THEN Block ELSE 8 * Block

\* What a scale is for: the values from a multiple of Span on.
Span(c) == CASE c.format = "q6_k" -> Half16
             [] c.format = "stq1_0" -> 8 * Block
             [] OTHER -> Block
HasMinimum(c) == c.format \in {"q4_k", "q5_k"}

\* stq1_0_element_index
StqElement(g, p) == (g \div Half16) * (4 * Half16) + (g % Half16) + p * Half16

\* stq1_0_quantize_block puts group g in nibble g of qs and bit g of sign.
StqGroups(code) == {2 * code[1] + code[2], Eight * code[3] + code[4]}

\* The value of a block whose pieces are at `code', if they are of the same one.
Same(positions) == IF Cardinality(positions) = 1 THEN CHOOSE p \in positions : TRUE ELSE -1
ValueAt(c, code) ==
    LET by(size, byte) == byte \div size
        of(size, byte) == byte % size
    IN  CASE c.format = "q4_k" -> (2 * by(Block, code[1]) + code[2]) * Block + of(Block, code[1])
          [] c.format = "q5_k" ->
               Same({(2 * by(Block, code[1]) + code[2]) * Block + of(Block, code[1]),
                     code[4] * Block + code[3]})
          [] c.format = "q6_k" ->
               Same({by(2 * Block, code[1]) * 4 * Block + of(Block, code[1])
                       + (2 * code[2] + by(Block, of(2 * Block, code[1]))) * Block,
                     (by(Block, code[3]) * 4 + code[4]) * Block + of(Block, code[3])})
          [] c.format = "q8_0" -> code[1]
          [] c.format = "iq2_xxs" ->
               Same({code[1] * Eight + code[2], (4 * code[3] + code[4]) * Eight + code[2]})
          [] c.format = "iq3_xxs" ->
               Same({code[1] * (Eight \div 2) + code[2], (4 * code[3] + code[4]) * Eight + code[5]})
          [] c.format = "iq4_xs" ->
               by(Half16, code[1]) * Block + code[2] * Half16 + of(Half16, code[1])
          [] c.format = "stq1_0" ->
               Same({StqElement(g, code[5]) : g \in StqGroups(code)})
GgufValue(c, t, n, block, code) == <<t, n, block * BlockValues(c) + ValueAt(c, code)>>
GgufScale(c, t, n, block, scale) ==
    LET first == block * (BlockValues(c) \div Span(c))
    IN  <<t, n, first + scale>> \o (IF HasMinimum(c) THEN <<first + scale>> ELSE <<>>)
-----------------------------------------------------------------------------
(* decode_native_block: where each of the values of a block comes from *)

DecodeQ4OrQ5(c) ==
    {[at |-> v[1] * 2 * Block + v[2] * Block + v[3],
      code |-> <<v[1] * Block + v[3], v[2]>>
                 \o (IF c.format = "q5_k" THEN <<v[3], 2 * v[1] + v[2]>> ELSE <<>>),
      scale |-> 2 * v[1] + v[2]] : v \in (0..3) \X Nibble \X (0..(Block - 1))}
DecodeQ6 ==
    {[at |-> v[1] * 4 * Block + v[2] * Block + v[3],
      code |-> <<v[1] * 2 * Block + (v[2] % 2) * Block + v[3], v[2] \div 2, v[1] * Block + v[3], v[2]>>,
      scale |-> v[1] * 8 + v[3] \div Half16 + 2 * v[2]] : v \in {0, 1} \X (0..3) \X (0..(Block - 1))}
DecodeIq2 ==
    {[at |-> v[1] * Block + v[2] * Eight + v[3], code |-> <<v[1] * 4 + v[2], v[3], v[1], v[2]>>,
      scale |-> v[1]] : v \in (0..7) \X (0..3) \X (0..(Eight - 1))}
DecodeIq3 ==
    LET four == Eight \div 2
    IN  {[at |-> v[1] * Block + v[2] * Eight + v[3] * four + v[4],
          code |-> <<v[1] * 8 + v[2] * 2 + v[3], v[4], v[1], v[2], v[3] * four + v[4]>>,
          scale |-> v[1]] : v \in (0..7) \X (0..3) \X {0, 1} \X (0..(four - 1))}
DecodeIq4 ==
    {[at |-> v[1] * Block + v[2] * Half16 + v[3], code |-> <<v[1] * Half16 + v[3], v[2]>>,
      scale |-> v[1]] : v \in (0..7) \X Nibble \X (0..(Half16 - 1))}
\* stq1_0_dequantize_block
DecodeStq ==
    {[at |-> StqElement(v[1], v[2]),
      code |-> <<v[1] \div 2, v[1] % 2, v[1] \div Eight, v[1] % Eight, v[2]>>,
      scale |-> 0] : v \in (0..(4 * Half16 - 1)) \X (0..3)}
DecodeQ8 == {[at |-> i, code |-> <<i>>, scale |-> 0] : i \in 0..(Block - 1)}

DecodeNativeBlock(c) ==
    CASE c.format \in {"q4_k", "q5_k"} -> DecodeQ4OrQ5(c)
      [] c.format = "q6_k" -> DecodeQ6
      [] c.format = "iq2_xxs" -> DecodeIq2
      [] c.format = "iq3_xxs" -> DecodeIq3
      [] c.format = "iq4_xs" -> DecodeIq4
      [] c.format = "stq1_0" -> DecodeStq
      [] c.format = "q8_0" -> DecodeQ8
-----------------------------------------------------------------------------
(* Kernels *)

KBlocks(c) == 0..(c.k \div BlockValues(c) - 1)
At(c, block, i) == block * BlockValues(c) + i

NativeRow(c, A, t, m, n) ==
    {<<<<b, v.at>>, A[m, At(c, b, v.at)], Exact,
       GgufValue(c, t, n, b, v.code), GgufScale(c, t, n, b, v.scale)>> :
        b \in KBlocks(c), v \in DecodeNativeBlock(c)}

\* Without decoding the block first.
Q5Gemv(c, A, t, n) ==
    {<<v, A[0, At(c, v[1], v[2] * Block + v[3])], Exact,
       GgufValue(c, t, n, v[1], <<(v[2] \div 2) * Block + v[3], v[2] % 2, v[3], v[2]>>),
       GgufScale(c, t, n, v[1], v[2])>> : v \in KBlocks(c) \X (0..7) \X (0..(Block - 1))}
IqGemv(c, A, t, n) ==
    LET four == Eight \div 2
        code(g, part, lane) ==
            IF c.format = "iq2_xxs" THEN <<g * 4 + part, lane, g, part>>
            ELSE <<g * 8 + part * 2 + lane \div four, lane % four, g, part, lane>>
    IN  {<<v, A[0, At(c, v[1], v[2] * Block + v[3] * Eight + v[4])], Exact,
           GgufValue(c, t, n, v[1], code(v[2], v[3], v[4])), GgufScale(c, t, n, v[1], v[2])>> :
            v \in KBlocks(c) \X (0..7) \X (0..3) \X (0..(Eight - 1))}
StqGemv(c, A, t, n) ==
    {<<v, A[0, At(c, v[1], v[2] * 4 * Half16 + v[3] * Half16 + v[4])], Exact,
       GgufValue(c, t, n, v[1],
           <<v[2] * Eight + v[4] \div 2, v[4] % 2, 2 * v[2] + v[4] \div Eight, v[4] % Eight, v[3]>>),
       GgufScale(c, t, n, v[1], 0)>> : v \in KBlocks(c) \X (0..3) \X (0..3) \X (0..(Half16 - 1))}
Q8BlockScale(c, A, t, n) ==
    {<<v, A[0, v[1] * Block + v[2]], Exact, GgufValue(c, t, n, v[1], <<v[2]>>),
       GgufScale(c, t, n, v[1], 0)>> : v \in KBlocks(c) \X (0..(Block - 1))}

\* Rows mb..me-1 with the tokens beside each other, four to a vector.
TokenStride(rows) == Chunks(rows, Quad) * Quad
TokenMajor(A, mb, rows, k) ==
    [i \in 0..(k * TokenStride(rows) - 1) |->
        IF i % TokenStride(rows) < rows THEN A[mb + (i % TokenStride(rows)), i \div TokenStride(rows)]
        ELSE Pad]
\* Sum m of a weight's row is lane m % 4 of vector m / 4.
TokenRows(c, x, rows, t, m, n) ==
    {<<<<b, v.at>>, x[(b * BlockValues(c) + v.at) * TokenStride(rows) + (m \div Quad) * Quad + (m % Quad)],
       Exact, GgufValue(c, t, n, b, v.code), GgufScale(c, t, n, b, v.scale)>> :
        b \in KBlocks(c), v \in DecodeNativeBlock(c)}
-----------------------------------------------------------------------------
(* matmul_native_blocks: on Apple's processors a few rows of A at a time, of *)
(* which the last may be left alone; the pool takes them one after the other. *)

Apple(c) == c.platform = "apple"
GgufRowTile(c) == IF Apple(c) /\ c.m > Few THEN Few ELSE c.m
GgufPlan(c) ==
    [kernel |-> "gguf", act |-> "call",
     jobs |-> ByTiles(c, GgufRowTile(c), IF c.threads > 1 THEN GemvChunk ELSE c.n)]
GgufProducts(c, j, A, t, m, n) ==
    LET rows == j.me - j.mb
    IN  CASE Apple(c) /\ rows > 1 ->
               TokenRows(c, TokenMajor(A, j.mb, rows, c.k), rows, t, m - j.mb, n)
          [] Apple(c) /\ rows = 1 /\ c.format = "q5_k" ->
               Q5Gemv(c, [r \in {0}, i \in 0..(c.k - 1) |-> A[m, i]], t, n)
          [] Apple(c) /\ rows = 1 /\ c.format \in {"iq2_xxs", "iq3_xxs"} ->
               IqGemv(c, [r \in {0}, i \in 0..(c.k - 1) |-> A[m, i]], t, n)
          [] Apple(c) /\ rows = 1 /\ c.format = "stq1_0" ->
               StqGemv(c, [r \in {0}, i \in 0..(c.k - 1) |-> A[m, i]], t, n)
          [] Apple(c) /\ rows = 1 /\ c.format = "q8_0" /\ ~c.exact ->
               Q8BlockScale(c, [r \in {0}, i \in 0..(c.k - 1) |-> A[m, i]], t, n)
          [] OTHER -> NativeRow(c, A, t, m, n)

\* kernel_matmul_gguf_k_gemv_batch, of the experts of a layer and no other.
GgufBatch(c) == Gguf(c) /\ c.package = "experts" /\ c.batch >= 2
=============================================================================
