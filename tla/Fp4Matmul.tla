------------------------------ MODULE Fp4Matmul ------------------------------
(***************************************************************************)
(* kernels/cpu/matmul/matmul_mxfp4.cpp: MXFP4 weights, rows of nibbles     *)
(* with a scale for each block, and FP8 weights, rows of bytes with a      *)
(* scale for each block of Group x Group.  Both take the activation        *)
(* rounded to FP8.  c.exact is the debugging override                      *)
(* g_mollm_force_fp32_acc.                                                 *)
(***************************************************************************)
EXTENDS Int8Matmul

CONSTANT RowwiseRows    \* 128: the rows up to which an MXFP4 GEMM is done row by row

ASSUME Fp4Assumption == RowwiseRows \in Nat \ {0}

BalancedGrain(c, least, alignment) ==
    Chunks(Most(least, Chunks(c.n, c.threads)), alignment) * alignment
\* Columns, if there are several threads and enough of them.
BalancedColumns(c, alignment) ==
    IF c.threads > 1 /\ c.n > GemvChunk
    THEN ByColumns(c, BalancedGrain(c, GemvChunk, alignment)) ELSE Whole(c)
-----------------------------------------------------------------------------
(* FP8 *)

Fp8Weight(c, t) ==
    LET rows == RowMajor(t, c.n, c.k)
        scales == BlockScales(t, c.n, c.k)
        q8 == PackFp8Q8Dot(rows, scales, c.n, c.k)
    IN [rows |-> rows, e8m0 |-> scales, packed |-> q8.q, scales |-> q8.scales]

\* Positions by the block of K whose scale they have, and those in whole blocks.
ByScale(k) ==
    UNION {{b} \X ((b * Group)..(Least((b + 1) * Group, k) - 1)) : b \in 0..(Chunks(k, Group) - 1)}
ByDot(k) ==
    {<<b, g, i>> \in (0..(Chunks(k, Group) - 1)) \X (0..(k \div Block - 1)) \X (0..(Block - 1)) :
        g \in (b * (Group \div Block))..((b + 1) * (Group \div Block) - 1)}

Fp8Reference(c, A, B, S, m, n) ==
    {<<i, A[m, i], Exact, B[n, i], S[n \div Group, i \div Group]>> : i \in 0..(c.k - 1)}
Fp8Gemv(c, A, B, S, n) ==
    {<<p, A[0, p[2]], Exact, B[n, p[2]], S[n \div Group, p[1]]>> : p \in ByScale(c.k)}
Fp8Gemm(c, A, B, S, m, n) ==
    {<<p, A[m, p[2]], Exact, B[n, p[2]], S[n \div Group, p[1]]>> : p \in ByScale(c.k)}
Fp8Q8Gemv(c, x, B, S, n) ==
    {<<d, x.q[0, d[2] * Block + d[3]], x.s[0, d[2]], B[n, d[2] * Block + d[3]],
       S[n \div Group, d[1]]>> : d \in ByDot(c.k)}
Fp8Q8Gemm(c, x, B, S, m, n) ==
    {<<d, x.q[m, d[2] * Block + d[3]], x.s[m, d[2]], B[n, d[2] * Block + d[3]],
       S[n \div Group, d[1]]>> : d \in ByDot(c.k)}
\* kernel_matmul_fp8_weight_f32_activation: the weight rounded to BF16 instead.
Fp8WeightF32(c, A, B, S, m, n) ==
    {<<i, A[m, i], Exact, B[n, i], S[n \div Group, i \div Group]>> : i \in 0..(c.k - 1)}

\* The weight packed at load is handed to matmul_dispatch_int8.
Fp8Sidecar(c) == DotProd(c) /\ c.package = "rows" /\ c.k % Block = 0
AsInt8(c) == [c EXCEPT !.group = Block, !.groups = c.k \div Block]

Fp8Plan(c) ==
    LET plan(kernel) == [kernel |-> kernel, jobs |-> BalancedColumns(c, 1), act |-> "call"]
        whole == c.k >= Block /\ c.k % Block = 0
    IN  CASE c.format = "fp8_f32" -> plan("fp8_weight_f32")
          [] c.format = "fp8" /\ c.exact -> plan("fp8_fp8_exact")
          [] c.format = "fp8" /\ ~c.exact /\ Fp8Sidecar(c) -> Int8Plan(AsInt8(c))
          [] c.format = "fp8" /\ ~c.exact /\ ~Fp8Sidecar(c) /\ whole ->
               plan(IF c.m = 1 THEN "fp8_q8_gemv" ELSE "fp8_q8_gemm")
          [] OTHER -> plan(IF c.m = 1 THEN "fp8_e4m3_gemv" ELSE "fp8_e4m3_gemm")

Fp8Products(c, kernel, j, A, W, m, n) ==
    LET x == QuantizeFp8Blocks(A, c.m, c.k, c.k)
    IN  CASE kernel = "fp8_weight_f32" -> Fp8WeightF32(c, A, W.rows, W.e8m0, m, n)
          [] kernel = "fp8_fp8_exact" ->
               Fp8Reference(c, Fp8Dequant(A, c.m, c.k), W.rows, W.e8m0, m, n)
          [] kernel = "fp8_q8_gemv" -> Fp8Q8Gemv(c, x, W.rows, W.e8m0, n)
          [] kernel = "fp8_q8_gemm" -> Fp8Q8Gemm(c, x, W.rows, W.e8m0, m, n)
          [] kernel = "fp8_e4m3_gemv" -> Fp8Gemv(c, A, W.rows, W.e8m0, n)
          [] kernel = "fp8_e4m3_gemm" -> Fp8Gemm(c, A, W.rows, W.e8m0, m, n)
          [] OTHER -> Int8Products(AsInt8(c), kernel, j, A, W, m, n)
-----------------------------------------------------------------------------
(* MXFP4 *)

Mxfp4Weight(c, t) ==
    [rows |-> RowMajorNibbles(t, c.n, c.k), e8m0 |-> RowMajorScales(t, c.n, c.k \div Block)]

\* quantize_mxfp4_activation_dual: the row, and what its rounding lost.
Dual(A, row, k) == [primary |-> Fp8EvenOdd(A, row, k), residual |-> ResidualEvenOdd(A, row, k)]

Mxfp4Reference(c, A, B, S, m, n) ==
    {<<i, A[m, i], Exact, B[n, i \div 2, i % 2], S[n, i \div Block]>> : i \in 0..(c.k - 1)}

\* Each nibble of a group times the even or odd values, of both quantisations.
Nibbles(c) == (0..(c.k \div Block - 1)) \X Half \X Nibble
Value(x, g, i, h) == IF h = 0 THEN x.even[g, i] ELSE x.odd[g, i]
DotsOf(c, x, B, S, n) ==
    {<<b, Value(x, b[1], b[2], b[3]), x.s[b[1]],
       B[n, b[1] * (Block \div 2) + b[2], b[3]], S[n, b[1]]>> : b \in Nibbles(c)}
Mxfp4Q8Gemv(c, dual, B, S, n) ==
    DotsOf(c, dual.primary, B, S, n) \cup DotsOf(c, dual.residual, B, S, n)
Mxfp4Q8Gemm(c, dual, B, S, m, n) ==
    DotsOf(c, dual[m].primary, B, S, n) \cup DotsOf(c, dual[m].residual, B, S, n)

Mxfp4Plan(c) ==
    LET plan(kernel, jobs) == [kernel |-> kernel, jobs |-> jobs, act |-> "call"]
        columns == BalancedColumns(c, 2)
    IN  CASE c.exact ->
               plan("mxfp4_fp8_exact",
                    IF c.threads > 1 /\ c.n > c.m * Tile THEN ByColumns(c, BalancedGrain(c, 1, 1))
                    ELSE IF c.threads > 1 /\ c.m > 1 THEN ByRows(c, 1) ELSE Whole(c))
          [] ~c.exact /\ c.m > 1 /\ c.m <= RowwiseRows ->
               plan("mxfp4_q8_small_gemm",
                    {[j EXCEPT !.mb = m, !.me = m + 1] : j \in columns, m \in 0..(c.m - 1)})
          [] ~c.exact /\ c.m > RowwiseRows -> plan("mxfp4_q8_gemm", columns)
          [] OTHER ->
               plan("mxfp4_q8_gemv",
                    IF c.threads > 1 /\ c.n > GemvChunk THEN ByTiles(c, 1, GemvChunk) ELSE Whole(c))

Mxfp4Products(c, kernel, j, A, W, m, n) ==
    CASE kernel = "mxfp4_fp8_exact" ->
           Mxfp4Reference(c, Fp8Dequant(A, c.m, c.k), W.rows, W.e8m0, m, n)
      [] kernel \in {"mxfp4_q8_small_gemm", "mxfp4_q8_gemv"} ->
           Mxfp4Q8Gemv(c, Dual(A, m, c.k), W.rows, W.e8m0, n)
      [] kernel = "mxfp4_q8_gemm" ->
           Mxfp4Q8Gemm(c, [r \in 0..(c.m - 1) |-> Dual(A, r, c.k)], W.rows, W.e8m0, m, n)
=============================================================================
