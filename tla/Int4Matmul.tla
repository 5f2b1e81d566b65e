----------------------------- MODULE Int4Matmul -----------------------------
(***************************************************************************)
(* kernels/cpu/matmul/matmul_w4.cpp, with the i8mm kernels beside it and   *)
(* the kernels and the dispatch of backends/cpu/platform for x86: the INT4 *)
(* weights.  c.package says how the package holds them: "rows", packed     *)
(* when they are loaded; "experts", rows that are not, being part of a     *)
(* larger tensor; or already in the blocks of "g32" or of "g128".          *)
(***************************************************************************)
EXTENDS MatmulLayouts

\* A weight as the loader leaves it: what the code has no pointer to is not read.
Int4Weight(c, t) ==
    LET rows == RowMajorNibbles(t, c.n, c.k)
        scales == RowMajorScales(t, c.n, c.groups)
        q4dot == PackQ4Dot(rows, c.n, c.k)
        g32 == PackG32(q4dot, scales, c.n, c.k)
    IN [rows |-> rows, scales |-> scales, q4dot |-> q4dot, g32 |-> g32,
        g128 |-> PackG128(q4dot, scales, c.n, c.k), vnni |-> PackVnni(g32, c.n, c.k)]

Q4Dot(c) == DotProd(c) /\ c.k % Block = 0 /\ c.group % Block = 0
HasG32(c) == Q4Dot(c) /\ c.package # "experts" /\ c.group = Block
HasG128(c) == Q4Dot(c) /\ c.package # "experts" /\ c.group = Group /\ c.k % Group = 0
Direct(c) == c.package \in {"g32", "g128"}
Int4I8mm(c) == I8mm(c) /\ c.m > 1 /\ (HasG32(c) \/ HasG128(c))

\* The bytes of a row, or of its blocks, two values each.
Bytes(blocks) == (0..(blocks - 1)) \X Half \X Nibble
GroupBytes(groups) ==
    (0..(groups - 1)) \X (0..(Group \div Block - 1)) \X Half \X Nibble
EvenOrOdd(x, qb, i, h) == IF h = 0 THEN x.even[qb, i] ELSE x.odd[qb, i]
-----------------------------------------------------------------------------
(* ARM kernels *)

\* The block of column n, in tiles or still in its row.
Q4Source(c, W, tile, n, qb, i, h) ==
    IF c.package = "rows" THEN W.q4dot[tile \div Tile, qb, n - tile, i, h]
    ELSE W.rows[n, (qb * Block) \div 2 + i, h]

Q4DotGemv(c, x, W, n_begin, n) ==
    {<<b, EvenOrOdd(x, b[1], b[2], b[3]), x.s[b[1]],
       Q4Source(c, W, TileFrom(n_begin, n), n, b[1], b[2], b[3]),
       W.scales[n, ScaleGroup(c, b[1])]>> : b \in Bytes(c.k \div Block)}
Q4DotGemvG128(c, x, B, n_begin, n) ==
    LET tile == TileFrom(n_begin, n)
    IN {<<b, EvenOrOdd(x, b[1] * (Group \div Block) + b[2], b[3], b[4]), x.s[b[1]],
          B.q[tile \div Tile, b[1], b[2], n - tile, b[3], b[4]],
          B.scales[tile \div Tile, b[1], n - tile]>> : b \in GroupBytes(c.k \div Group)}
Q4DotGemvG32(c, x, B, n_begin, n) ==
    LET tile == TileFrom(n_begin, n)
    IN {<<b, EvenOrOdd(x, b[1], b[2], b[3]), x.s[b[1]],
          B.q[tile \div Tile, b[1], n - tile, b[2], b[3]],
          B.scales[tile \div Tile, b[1], n - tile]>> : b \in Bytes(c.k \div Block)}

\* Rows quantised four at a time.
A4(x, m, qb, i, h) ==
    IF h = 0 THEN x.even[m \div Rows4, qb, m % Rows4, i] ELSE x.odd[m \div Rows4, qb, m % Rows4, i]
Q4Dot8x8(c, x, W, m, n) ==
    {<<b, A4(x, m, b[1], b[2], b[3]), x.s[m \div Rows4, b[1], m % Rows4],
       Q4Source(c, W, (n \div Tile) * Tile, n, b[1], b[2], b[3]),
       W.scales[n, ScaleGroup(c, b[1])]>> : b \in Bytes(c.k \div Block)}
Q4Dot8x8G128(c, x, B, m, n) ==
    LET qb(b) == b[1] * (Group \div Block) + b[2]
    IN {<<b, A4(x, m, qb(b), b[3], b[4]), x.s[m \div Rows4, qb(b), m % Rows4],
          B.q[n \div Tile, b[1], b[2], n % Tile, b[3], b[4]],
          B.scales[n \div Tile, b[1], n % Tile]>> : b \in GroupBytes(c.k \div Group)}

\* The four quarters of a block of A against the halves of a block of B, by nibble.
Quarters(blocks) == (0..(blocks - 1)) \X (0..3) \X (0..(Block \div 4 - 1))
QuarterOf(x, m, qb, part, i) == x.q[m \div Tile, qb, part, m % Tile, i]
ScalePair(x, m, qb, column) ==
    x.s[m \div Tile, qb, (m % Tile) \div 2, 2 * (m % 2) + (column % 2)]
Int4I8mmG32(c, x, B, n_begin, m, n) ==
    LET tile == TileFrom(n_begin, n)
        column == n - tile
    IN {<<b, QuarterOf(x, m, b[1], b[2], b[3]), ScalePair(x, m, b[1], column),
          B.q[tile \div Tile, b[1], column, (b[2] % 2) * (Block \div 4) + b[3], b[2] \div 2],
          B.scales[tile \div Tile, b[1], column]>> : b \in Quarters(c.k \div Block)}
Int4I8mmG128(c, x, B, n_begin, m, n) ==
    LET each == Group \div Block
        tile == TileFrom(n_begin, n)
        column == n - tile
    IN {<<b, QuarterOf(x, m, b[1], b[2], b[3]), ScalePair(x, m, b[1], column),
          B.q[tile \div Tile, b[1] \div each, b[1] % each, column,
              (b[2] % 2) * (Block \div 4) + b[3], b[2] \div 2],
          B.scales[tile \div Tile, b[1] \div each, column]>> :
            b \in Quarters((c.k \div Group) * each)}
-----------------------------------------------------------------------------
(* The others, on the activation as it is *)

Int4Scalar(c, A, W, m, n) ==
    {<<i, A[m, i], Exact, W.rows[n, i \div 2, i % 2], W.scales[n, i \div c.group]>> :
        i \in 0..(c.k - 1)}

\* A position of K at a time, from either package.
DecodeG32(c, A, B, m, n) ==
    {<<i, A[m, i], Exact,
       B.q[n \div Tile, i \div Block, n % Tile, (i % Block) \div 2, i % 2],
       B.scales[n \div Tile, i \div Block, n % Tile]>> : i \in 0..(c.k - 1)}
DecodeG128(c, A, B, m, n) ==
    {<<i, A[m, i], Exact,
       B.q[n \div Tile, i \div Group, (i % Group) \div Block, n % Tile, (i % Block) \div 2, i % 2],
       B.scales[n \div Tile, i \div Group, n % Tile]>> : i \in 0..(c.k - 1)}

\* A block at a time.
BlockG32(c, A, B, m, n) ==
    {<<b, A[m, b[1] * Block + 2 * b[2] + b[3]], Exact,
       B.q[n \div Tile, b[1], n % Tile, b[2], b[3]], B.scales[n \div Tile, b[1], n % Tile]>> :
        b \in Bytes(c.groups)}
BlockG128(c, A, B, m, n) ==
    {<<b, A[m, b[1] * Group + b[2] * Block + 2 * b[3] + b[4]], Exact,
       B.q[n \div Tile, b[1], b[2], n % Tile, b[3], b[4]],
       B.scales[n \div Tile, b[1], n % Tile]>> : b \in GroupBytes(c.groups)}
Int4Avx2(c, A, W, m, n) ==
    IF c.package = "g32" THEN BlockG32(c, A, W.g32, m, n) ELSE BlockG128(c, A, W.g128, m, n)
Int4Avx512(c, A, W, m, n) ==
    IF c.package = "g32" THEN BlockG32(c, A, W.g32, m, n) ELSE BlockG128(c, A, W.g128, m, n)

Int4Vnni(c, x, W, n_begin, m, n) ==
    LET tile == TileFrom(n_begin, n)
        steps == (0..(c.k \div Block - 1)) \X (0..(Block \div 4 - 1)) \X (0..3)
    IN {<<b, x.q[m, b[1] * Block + b[2] * 4 + b[3]], x.s[m, b[1]],
          W.vnni.q[tile \div Tile, b[1], b[2], 2 * (n - tile) + (b[3] \div 2), b[3] % 2],
          W.g32.scales[tile \div Tile, b[1], n - tile]>> : b \in steps}
-----------------------------------------------------------------------------
(* matmul_dispatch_int4: the activation is applied by the call at the end. *)

\* matmul_int4_packed, for the platforms that are not ARM.
PackedJobs(c) ==
    IF c.threads = 1 \/ c.platform = "scalar" THEN Whole(c)
    ELSE IF c.m > 1 THEN ByRows(c, 1)
    ELSE IF c.n >= GemvChunk THEN ByColumns(c, Most(GemvChunk, Chunks(c.n, c.threads)))
    ELSE Whole(c)
PackedPlan(c) ==
    IF c.platform = "vnni" /\ c.package = "g32" /\ c.m >= Rows4 /\ c.k % Block = 0
    THEN [kernel |-> "int4_vnni",
          jobs |-> IF c.threads > 1 THEN ByRows(c, Rows4) ELSE Whole(c)]
    ELSE [kernel |-> IF c.platform # "scalar" /\ c.k % c.group = 0
                     THEN "int4_packed_simd" ELSE "int4_packed_scalar",
          jobs |-> PackedJobs(c)]

Q4GemvKernel(c) ==
    CASE HasG128(c) -> "q4dot_gemv_bg128"
      [] HasG32(c) -> "q4dot_gemv_bg32"
      [] OTHER -> "q4dot_gemv"
Q4GemmKernel(c) ==
    CASE Int4I8mm(c) /\ HasG128(c) -> "q4_i8mm_g128_a8"
      [] Int4I8mm(c) /\ ~HasG128(c) -> "q4_i8mm_g32_a8"
      [] ~Int4I8mm(c) /\ HasG128(c) -> "q4dot_gemm_bg128_a4"
      [] OTHER -> "q4dot_gemm_a4"
GemmJobs(c) ==
    IF Int4I8mm(c) /\ c.threads > 1 /\ c.n > Tile
    THEN ByColumns(c, RoundUp(Chunks(c.n, c.threads)))
    ELSE IF UseParallel(c) THEN ByRows(c, Tile) ELSE Whole(c)

Int4Plan(c) ==
    LET plan(kernel, jobs) == [kernel |-> kernel, jobs |-> jobs, act |-> "call"]
        spread(jobs) == IF UseParallel(c) THEN jobs ELSE Whole(c)
    IN  CASE ~Neon(c) /\ Direct(c) -> plan(PackedPlan(c).kernel, PackedPlan(c).jobs)
          [] c.m > 1 /\ c.package = "g32" /\ HasG32(c) /\ ~Int4I8mm(c) ->
               plan("q4dot_gemm_bg32_rowwise", spread(ByRows(c, 1)))
          [] c.m = 1 /\ Q4Dot(c) ->
               plan(Q4GemvKernel(c), spread(ByColumns(c, GemvGrain(c))))
          [] /\ c.m # 1 /\ Q4Dot(c)
             /\ ~(c.package = "g32" /\ HasG32(c) /\ ~Int4I8mm(c)) ->
               plan(Q4GemmKernel(c), GemmJobs(c))
          [] OTHER ->
               plan("int4_scalar",
                    spread(IF ShardByN(c) THEN ByColumns(c, ChunkSize(c))
                           ELSE ByRows(c, ChunkSize(c))))

Int4Products(c, kernel, j, A, W, m, n) ==
    CASE kernel = "int4_vnni" -> Int4Vnni(c, QuantizeVnni(A, c.m, c.k), W, j.nb, m, n)
      [] kernel = "int4_packed_simd" ->
           IF Avx512(c) THEN Int4Avx512(c, A, W, m, n) ELSE Int4Avx2(c, A, W, m, n)
      [] kernel = "int4_packed_scalar" ->
           IF c.package = "g32" THEN DecodeG32(c, A, W.g32, m, n) ELSE DecodeG128(c, A, W.g128, m, n)
      [] kernel = "q4dot_gemm_bg32_rowwise" ->
           Q4DotGemvG32(c, EvenOdd(A, m, c.k), W.g32, 0, n)
      [] kernel = "q4dot_gemv_bg128" -> Q4DotGemvG128(c, EvenOddG128(A, 0, c.k), W.g128, j.nb, n)
      [] kernel = "q4dot_gemv_bg32" -> Q4DotGemvG32(c, EvenOdd(A, 0, c.k), W.g32, j.nb, n)
      [] kernel = "q4dot_gemv" -> Q4DotGemv(c, EvenOdd(A, 0, c.k), W, j.nb, n)
      [] kernel = "q4_i8mm_g128_a8" ->
           Int4I8mmG128(c, QuantizeA8(A, c.m, c.k), W.g128, j.nb, m, n)
      [] kernel = "q4_i8mm_g32_a8" -> Int4I8mmG32(c, QuantizeA8(A, c.m, c.k), W.g32, j.nb, m, n)
      [] kernel = "q4dot_gemm_bg128_a4" -> Q4Dot8x8G128(c, QuantizeA4(A, c.m, c.k), W.g128, m, n)
      [] kernel = "q4dot_gemm_a4" -> Q4Dot8x8(c, QuantizeA4(A, c.m, c.k), W, m, n)
      [] kernel = "int4_scalar" -> Int4Scalar(c, A, W, m, n)
=============================================================================
