----------------------------- MODULE Int8Matmul -----------------------------
(***************************************************************************)
(* kernels/cpu/matmul/matmul_w8.cpp: the INT8 kernels, and how             *)
(* matmul_dispatch_int8 and kernel_matmul_int8_gemv_batch choose among     *)
(* them.  c.group positions share a scale of the weight, c.groups of them  *)
(* make a row; S are those scales and x the quantised activation.          *)
(***************************************************************************)
EXTENDS MatmulLayouts

CONSTANT QuantColumnBlock   \* the columns of a parallel_for_2d job: 1024

ASSUME Int8Assumption ==
    QuantColumnBlock \in Nat \ {0} /\ QuantColumnBlock % Tile = 0

\* int8_q8dot_repack_supported: otherwise ARM interleaves the weight.
Q8Repacked(c) == DotProd(c) /\ c.package = "rows" /\ c.group % Block = 0
InterleavedInt8(c) == Neon(c) /\ c.package = "rows" /\ ~Q8Repacked(c)

\* The positions of a row by the group that scales them.
ByGroup(c) ==
    UNION {{g} \X ((g * c.group)..(Least((g + 1) * c.group, c.k) - 1)) : g \in 0..(c.groups - 1)}
BlockSteps(c) == Blocks(c.k) \X (0..(Block - 1))
-----------------------------------------------------------------------------
(* Kernels on the activation as it is *)

Int8Scalar(c, A, B, S, m, n) ==
    {<<i, A[m, i], Exact, B[n, i], S[n, i \div c.group]>> : i \in 0..(c.k - 1)}
Int8Avx2(c, A, B, S, m, n) ==
    {<<g, A[m, g[2]], Exact, B[n, g[2]], S[n, g[1]]>> : g \in ByGroup(c)}
Int8Avx512(c, A, B, S, m, n) ==
    {<<g, A[m, g[2]], Exact, B[n, g[2]], S[n, g[1]]>> : g \in ByGroup(c)}
Int8Neon4x8(c, A, B, S, m, n) ==
    {<<g, A[m, g[2]], Exact, B[n \div Tile, g[2], n % Tile], S[n, g[1]]>> : g \in ByGroup(c)}

(* Kernels on the quantised activation *)

\* Sums up to the end of the block or of the group, whichever comes first.
Q8DotGemv(c, x, B, S, n_begin, n) ==
    LET tile == TileFrom(n_begin, n)
        from(i) == Most((i \div Block) * Block, (i \div c.group) * c.group)
    IN {<<i, x.q[0, i], x.s[0, from(i) \div Block],
          B[tile \div Tile, i, n - tile], S[n, from(i) \div c.group]>> : i \in 0..(c.k - 1)}
Q8DotGemvRepacked(c, x, B, S, n_begin, n) ==
    LET tile == TileFrom(n_begin, n)
    IN {<<b, x.q[0, b[1] * Block + b[2]], x.s[0, b[1]],
          B[tile \div Tile, b[1], n - tile, b[2]], S[n, ScaleGroup(c, b[1])]>> : b \in BlockSteps(c)}
Q8Dot4x8Repacked(c, x, B, S, n_begin, m, n) ==
    LET tile == TileFrom(n_begin, n)
    IN {<<b, x.q[m, b[1] * Block + b[2]], x.s[m, b[1]],
          B[tile \div Tile, b[1], n - tile, b[2]], S[n, ScaleGroup(c, b[1])]>> : b \in BlockSteps(c)}
Q8Dot4x8I8mm(c, x, B, S, n_begin, m, n) ==
    LET tile == TileFrom(n_begin, n)
    IN {<<b, x.q[m, b[1] * Block + b[2]], x.s[m, b[1]],
          B[tile \div Tile, b[1], n - tile, b[2]], S[n, ScaleGroup(c, b[1])]>> : b \in BlockSteps(c)}
\* Whole tiles of rows; the rest is left to the 4x8 kernel.
Q8Dot8x8I8mm(c, x, B, S, j, m, n) ==
    LET rows == TileFrom(j.mb, m)
        tile == TileFrom(j.nb, n)
    IN IF rows + Tile > j.me
       THEN Q8Dot4x8I8mm(c, x, B, S, j.nb, m, n)
       ELSE {<<b, x.q[rows + (m - rows), b[1] * Block + b[2]], x.s[rows + (m - rows), b[1]],
               B[tile \div Tile, b[1], n - tile, b[2]], S[n, ScaleGroup(c, b[1])]>> :
                 b \in BlockSteps(c)}
-----------------------------------------------------------------------------
(* matmul_dispatch_int8: the activation is applied by the call at the end. *)

Int8Plan(c) ==
    LET plan(kernel, jobs) == [kernel |-> kernel, jobs |-> jobs, act |-> "call"]
        spread(jobs) == IF UseParallel(c) THEN jobs ELSE Whole(c)
        block == IF QuantColumnBlock > c.n THEN RoundUp(c.n) ELSE QuantColumnBlock
    IN  CASE c.m = 1 /\ (Q8Repacked(c) \/ InterleavedInt8(c)) ->
               plan(IF Q8Repacked(c) THEN "q8dot_gemv_repack" ELSE "q8dot_gemv",
                    spread(ByColumns(c, GemvGrain(c))))
          [] c.m # 1 /\ Q8Repacked(c) ->
               plan(IF I8mm(c) THEN "q8dot_gemm_repack_i8mm_8x8" ELSE "q8dot_gemm_repack",
                    spread(ByTiles(c, Tile, block)))
          [] c.m # 1 /\ InterleavedInt8(c) ->
               plan("native_w8_gemm", spread(ByRows(c, Tile)))
          [] OTHER ->
               plan("int8_range",
                    spread(IF ShardByN(c) THEN ByColumns(c, ChunkSize(c))
                           ELSE ByRows(c, ChunkSize(c))))

\* The activation as the dispatcher hands it on; a GEMV on the interleaved
\* weight takes it without the padding of the last block.
Int8Activation(c, kernel, A) ==
    LET storage == IF kernel = "q8dot_gemv" THEN c.k ELSE Chunks(c.k, Block) * Block
    IN IF c.format = "fp8" THEN QuantizeFp8Blocks(A, c.m, c.k, storage)
       ELSE QuantizeBlocks(A, c.m, c.k, storage)

Int8Products(c, kernel, j, A, W, m, n) ==
    LET x == Int8Activation(c, kernel, A)
    IN  CASE kernel = "q8dot_gemv" -> Q8DotGemv(c, x, W.packed, W.scales, j.nb, n)
          [] kernel = "q8dot_gemv_repack" -> Q8DotGemvRepacked(c, x, W.packed, W.scales, j.nb, n)
          [] kernel = "q8dot_gemm_repack" -> Q8Dot4x8Repacked(c, x, W.packed, W.scales, j.nb, m, n)
          [] kernel = "q8dot_gemm_repack_i8mm_8x8" ->
               Q8Dot8x8I8mm(c, x, W.packed, W.scales, j, m, n)
          [] kernel = "native_w8_gemm" -> Int8Neon4x8(c, A, W.packed, W.scales, m, n)
          [] kernel = "int8_range" ->
               CASE c.platform = "avx2" -> Int8Avx2(c, A, W.rows, W.scales, m, n)
                 [] Avx512(c) -> Int8Avx512(c, A, W.rows, W.scales, m, n)
                 [] OTHER -> Int8Scalar(c, A, W.rows, W.scales, m, n)
=============================================================================
