---------------------------- MODULE DenseMatmul ----------------------------
(***************************************************************************)
(* kernels/cpu/matmul/matmul_dense.cpp: the FP32 and FP16 kernels, and how *)
(* matmul_dispatch_dense chooses among them and divides the output.        *)
(*                                                                         *)
(* A kernel is the set of products it adds up for cell (m, n), which count *)
(* from the pointers it is given: A and B are the memory they point into,  *)
(* b0 the row, or tile, of B the pointer is at.  A product is              *)
(* <<step, a, scale of a, b, scale of b>>.                                 *)
(***************************************************************************)
EXTENDS MatmulLayouts

CONSTANTS
    KBlock,         \* g_matmul_config.k_block, 0 if K is not divided
    ColumnBlock,    \* the columns of a parallel_for_2d job: 128 or 256
    AccelRows,      \* 96: the rows from which Accelerate is faster
    AccelSize       \* 32: the least N and K it is used for

ASSUME DenseAssumption ==
    /\ KBlock \in Nat
    /\ {ColumnBlock, AccelRows, AccelSize} \subseteq Nat \ {0}
    /\ ColumnBlock % Tile = 0

KBlockOf(k) == IF KBlock > 0 THEN KBlock ELSE k

\* The blocks of K and, in each, the positions it adds to what C holds.
FirstOfBlocks(k, size) == {o * size : o \in 0..(Chunks(k, size) - 1)}
Passes(k, size) == UNION {{o} \X (o..(Least(o + size, k) - 1)) : o \in FirstOfBlocks(k, size)}

\* A vector loop and the scalar loop that takes what is left.
Vectors(k) == {<<Tile, i>> : i \in 0..((k \div Tile) * Tile - 1)}
                \cup {<<1, i>> : i \in ((k \div Tile) * Tile)..(k - 1)}
-----------------------------------------------------------------------------
(* Kernels *)

Fp32Scalar(A, B, b0, k, m, n) ==
    {<<i, A[m, i], Exact, B[b0 + n, i], Exact>> : i \in 0..(k - 1)}
Fp16Scalar(A, B, b0, k, m, n) ==     \* B is interleaved on ARM alone
    {<<i, A[m, i], Exact, B[b0 + n, i], Exact>> : i \in 0..(k - 1)}

Fp32Avx2(A, B, b0, k, m, n) == {<<v, A[m, v[2]], Exact, B[b0 + n, v[2]], Exact>> : v \in Vectors(k)}
Fp16Avx2(A, B, b0, k, m, n) == {<<v, A[m, v[2]], Exact, B[b0 + n, v[2]], Exact>> : v \in Vectors(k)}
Fp32Avx512(A, B, b0, k, m, n) == {<<v, A[m, v[2]], Exact, B[b0 + n, v[2]], Exact>> : v \in Vectors(k)}
Fp16Avx512(A, B, b0, k, m, n) == {<<v, A[m, v[2]], Exact, B[b0 + n, v[2]], Exact>> : v \in Vectors(k)}

Fp32Neon(A, B, b0, k, m, n) ==
    {<<p, A[m, p[2]], Exact, B[b0 + n, p[2]], Exact>> : p \in Passes(k, KBlockOf(k))}
Fp16Neon(A, B, b0, k, m, n) ==
    {<<p, A[m, p[2]], Exact, B[b0 + n, p[2]], Exact>> : p \in Passes(k, 2 * KBlockOf(k))}

\* B is packed.  These count columns from 0, those of a GEMV from n_begin.
Fp16Packed(A, B, b0, k, m, n) ==
    {<<p, A[m, p[2]], Exact, B[b0 + n \div Tile, p[2], n % Tile], Exact>> :
        p \in Passes(k, 2 * KBlockOf(k))}
Fp16Gemv(A, B, k, n_begin, n) ==
    LET tile == TileFrom(n_begin, n)
    IN {<<i, A[0, i], Exact, B[tile \div Tile, i, n - tile], Exact>> : i \in 0..(k - 1)}
Bf16Gemv(A, B, k, n_begin, n) ==
    LET tile == TileFrom(n_begin, n)
    IN {<<i, A[0, i], Exact, B[tile \div Tile, i, n - tile], Exact>> : i \in 0..(k - 1)}
Bf16Gemm(A, B, k, n_begin, m, n) ==
    LET tile == TileFrom(n_begin, n)
    IN {<<i, A[m, i], Exact, B[tile \div Tile, i, n - tile], Exact>> : i \in 0..(k - 1)}
Fp16GemvAcc16(A, B, k, n_begin, n) ==
    LET tile == TileFrom(n_begin, n)
    IN {<<p, A[0, p[2]], Exact, B[tile \div Tile, p[2], n - tile], Exact>> :
          p \in Passes(k, 2 * KBlockOf(k))}

\* A is packed too: tiles of its rows from m0 on.
PackA(A, m0, rows, k) ==
    [t \in Tiles(rows), i \in 0..(k - 1), j \in Lane |->
        IF t * Tile + j < rows THEN A[m0 + t * Tile + j, i] ELSE Pad]
Fp16PackedA(A, B, b0, k, m, n) ==
    {<<p, A[m \div Tile, p[2], m % Tile], Exact, B[b0 + n \div Tile, p[2], n % Tile], Exact>> :
        p \in Passes(k, 2 * KBlockOf(k))}
Fp16PackedAAcc16(A, B, b0, k, m, n) ==
    {<<p, A[m \div Tile, p[2], m % Tile], Exact, B[b0 + n \div Tile, p[2], n % Tile], Exact>> :
        p \in Passes(k, 2 * KBlockOf(k))}

\* How often the two that accumulate in FP16 apply the activation as they store.
LastBlocks(k) == {o \in FirstOfBlocks(k, 2 * KBlockOf(k)) : o + 2 * KBlockOf(k) >= k}
GemvActs(act, k, n) == IF AppliesAt(act, n) THEN Cardinality(LastBlocks(k)) ELSE 0
PackedAActs(act, width, k, n) ==
    LET tile == (n \div Tile) * Tile
        full == act.len < 0 \/ (act.begin = 0 /\ act.len >= width)
    IN IF /\ act.len # 0
          /\ \/ full
             \/ AppliesAt(act, tile) /\ AppliesAt(act, tile + Tile - 1)
             \/ AppliesAt(act, n)
       THEN Cardinality(LastBlocks(k)) ELSE 0
-----------------------------------------------------------------------------
(* matmul_dispatch_dense: the kernel, its jobs, and who applies the        *)
(* activation: the kernel ("fused"), each job or, at the end, the call.    *)

\* FP16 linears are interleaved when ARM loads them, the weights of experts are not.
Interleaved(c) == Neon(c) /\ c.format = "fp16" /\ c.package = "rows"

DensePlan(c) ==
    LET parallel == UseParallel(c)
        plan(kernel, jobs, act) == [kernel |-> kernel, jobs |-> jobs, act |-> act]
        block == IF ColumnBlock > c.n THEN RoundUp(c.n) ELSE ColumnBlock
    IN  CASE Neon(c) /\ c.format = "bf16" ->
               IF c.m = 1
               THEN plan("bf16_gemv",
                         IF c.threads > 1 /\ c.n > GemvChunk THEN ByColumns(c, GemvGrain(c))
                         ELSE Whole(c), "job")
               ELSE plan("bf16_gemm",
                         IF c.threads > 1 THEN ByTiles(c, Tile, ColumnBlock) ELSE Whole(c), "job")
          [] /\ c.platform = "apple" /\ Interleaved(c)
             /\ c.m >= AccelRows /\ c.n >= AccelSize /\ c.k >= AccelSize ->
               plan("sgemm", Whole(c), "call")
          [] Interleaved(c) /\ c.m = 1 ->
               plan(IF c.acc16 THEN "fp16_gemv_acc16" ELSE "fp16_gemv",
                    IF parallel THEN ByColumns(c, GemvGrain(c)) ELSE Whole(c),
                    IF c.acc16 THEN "fused" ELSE "job")
          [] Interleaved(c) /\ c.m # 1 ->
               plan(IF c.m < Tile THEN "fp16_packed"
                    ELSE IF c.acc16 THEN "fp16_packed_a_acc16" ELSE "fp16_packed_a",
                    IF parallel THEN ByTiles(c, Tile, block) ELSE Whole(c),
                    IF c.m >= Tile /\ c.acc16 THEN "fused" ELSE "job")
          [] OTHER ->
               plan(IF c.format = "fp16" THEN "fp16" ELSE "fp32",
                    IF ~parallel THEN Whole(c)
                    ELSE IF ShardByN(c) THEN ByColumns(c, ChunkSize(c)) ELSE ByRows(c, ChunkSize(c)),
                    IF parallel /\ ShardByN(c) THEN "job" ELSE "call")

\* matmul_fp32_range and matmul_fp16_range: the kernel of the platform.
Fp32Range(c, A, B, b0, m, n) ==
    CASE Neon(c) -> Fp32Neon(A, B, b0, c.k, m, n)
      [] c.platform = "avx2" -> Fp32Avx2(A, B, b0, c.k, m, n)
      [] Avx512(c) -> Fp32Avx512(A, B, b0, c.k, m, n)
      [] OTHER -> Fp32Scalar(A, B, b0, c.k, m, n)
Fp16Range(c, A, B, b0, m, n) ==
    CASE Neon(c) -> Fp16Neon(A, B, b0, c.k, m, n)
      [] c.platform = "avx2" -> Fp16Avx2(A, B, b0, c.k, m, n)
      [] Avx512(c) -> Fp16Avx512(A, B, b0, c.k, m, n)
      [] OTHER -> Fp16Scalar(A, B, b0, c.k, m, n)

\* What job j adds up for the output (m, n) of the call, from A and the weight W.
DenseProducts(c, kernel, j, A, W, m, n) ==
    LET column == n - j.nb
        tile == j.nb \div Tile
    IN  CASE kernel = "bf16_gemv" -> Bf16Gemv(A, W.packed, c.k, j.nb, n)
          [] kernel = "bf16_gemm" -> Bf16Gemm(A, W.packed, c.k, j.nb, m, n)
          [] kernel = "sgemm" -> Fp32Scalar(A, W.rows, 0, c.k, m, n)
          [] kernel = "fp16_gemv" -> Fp16Gemv(A, W.packed, c.k, j.nb, n)
          [] kernel = "fp16_gemv_acc16" -> Fp16GemvAcc16(A, W.packed, c.k, j.nb, n)
          [] kernel = "fp16_packed" -> Fp16Packed(A, W.packed, 0, c.k, m, n)
          [] kernel = "fp16_packed_a" ->
               Fp16PackedA(PackA(A, j.mb, j.me - j.mb, c.k), W.packed, tile, c.k, m - j.mb, column)
          [] kernel = "fp16_packed_a_acc16" ->
               Fp16PackedAAcc16(PackA(A, j.mb, j.me - j.mb, c.k), W.packed, tile, c.k,
                                m - j.mb, column)
          [] kernel = "fp16" -> Fp16Range(c, A, W.rows, j.nb, m, column)
          [] kernel = "fp32" -> Fp32Range(c, A, W.rows, j.nb, m, column)

\* How often job j applies the activation to its column n.
DenseFusedActs(c, kernel, j, n) ==
    LET local == LocalActivation(c.act, j)
    IN IF kernel = "fp16_gemv_acc16"
       THEN GemvActs([local EXCEPT !.begin = j.nb + @], c.k, n)
       ELSE PackedAActs(local, j.ne - j.nb, c.k, n - j.nb)
=============================================================================
