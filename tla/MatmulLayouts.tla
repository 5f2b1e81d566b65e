--------------------------- MODULE MatmulLayouts ---------------------------
(***************************************************************************)
(* Where the packers of the CPU matmul put the elements of a weight, and   *)
(* the quantisers those of an activation: a layout is a function from the  *)
(* address a kernel reads to the element found there.                      *)
(*                                                                         *)
(* Element <<t, r, k>> is at row r and position k of the row-major tensor  *)
(* t; an int4 row has two elements a byte, the even one in the low nibble  *)
(* (0).  The scale of group g of a weight's row r is <<t, r, g>>.  An      *)
(* activation rounded by a scale for every `size' positions is             *)
(* <<t, r, k, size>>, and scale g of its row <<r, size, g>>; rounded to    *)
(* FP8 first it is <<t, r, k, 0, size>>, and <<t, r, k, 0, size, 1>> is     *)
(* what that left over, with scale <<r, size, g, 1>>.                      *)
(*                                                                         *)
(* Then how the dispatchers divide an output among the threads of the      *)
(* pool, and where a fused activation reaches.  A call is a record with,   *)
(* among others, m, n, k and threads; a job is the rectangle of rows       *)
(* mb..me-1 and columns nb..ne-1.                                          *)
(***************************************************************************)
EXTENDS Integers, Sequences, FiniteSetsExt, Sharding

CONSTANTS
    Tile,               \* rows of a packed tile: 8 in the code
    Block,              \* MATMUL_Q8_BLOCK: 32 in the code
    Group,              \* 128 in the code
    GemvChunk,          \* 64: the least grain of a GEMV
    ChunksPerThread,    \* 8: the chunks a GEMV aims at for each thread
    Few                 \* 32: rows a kernel holds sums for, and columns not worth dividing

ASSUME LayoutAssumption ==
    /\ {Tile, Block, Group} \subseteq Nat \ {0}
    /\ Tile % 4 = 0 /\ Block % 8 = 0 /\ Group % Block = 0

ASSUME JobsAssumption ==
    {GemvChunk, ChunksPerThread, Few} \subseteq Nat \ {0} /\ GemvChunk % Tile = 0

Most(a, b) == IF a > b THEN a ELSE b

Pad == <<>>             \* zero: contributes nothing
Stale == <<-1>>         \* memory no one wrote for this call
Exact == <<0>>          \* the scale of what is not quantised

Tiles(rows) == 0..(Chunks(rows, Tile) - 1)
Blocks(k) == 0..(Chunks(k, Block) - 1)
Half == 0..(Block \div 2 - 1)
Nibble == {0, 1}
Lane == 0..(Tile - 1)

RowMajor(t, rows, k) == [r \in 0..(rows - 1), i \in 0..(k - 1) |-> <<t, r, i>>]
RowMajorNibbles(t, rows, k) ==
    [r \in 0..(rows - 1), byte \in 0..(Chunks(k, 2) - 1), h \in Nibble |->
        IF 2 * byte + h < k THEN <<t, r, 2 * byte + h>> ELSE Pad]
RowMajorScales(t, rows, groups) ==
    [r \in 0..(rows - 1), g \in 0..(groups - 1) |-> <<t, r, g>>]

-----------------------------------------------------------------------------
(* Weights *)

\* [N/8, K, 8], of FP16, of INT8 or of the upper halves of FP32.
PackInterleaved(B, n, k) ==
    [t \in Tiles(n), i \in 0..(k - 1), j \in Lane |->
        IF t * Tile + j < n THEN B[t * Tile + j, i] ELSE Pad]
PackInterleavedInt8(B, n, k) ==
    [t \in Tiles(n), i \in 0..(k - 1), j \in Lane |->
        IF t * Tile + j < n THEN B[t * Tile + j, i] ELSE Pad]
PackUpperHalves(B, n, k) ==
    [t \in Tiles(n), i \in 0..(k - 1), lane \in Lane |->
        IF t * Tile + lane < n THEN B[t * Tile + lane, i] ELSE Pad]

\* [N/8, K/32, 8, 32]: rows past N and positions past K are zero.
PackQ8Dot(B, n, k) ==
    [t \in Tiles(n), qb \in Blocks(k), j \in Lane, i \in 0..(Block - 1) |->
        IF t * Tile + j < n /\ qb * Block + i < k
        THEN B[t * Tile + j, qb * Block + i] ELSE Pad]

\* The same for FP8, with the scale of its block of 128 x 128 beside each group.
BlockScales(t, n, k) ==
    [r \in 0..((n - 1) \div Group), g \in 0..(Chunks(k, Group) - 1) |-> <<t, r, g>>]
PackFp8Q8Dot(B, scales, n, k) ==
    [q |-> PackQ8Dot(B, n, k),
     scales |-> [r \in 0..(n - 1), g \in 0..(k \div Block - 1) |->
                   scales[r \div Group, (g * Block) \div Group]]]

\* [N/8, K/32, 8, 16 bytes]: whole bytes are copied, up to the one with K.
PackQ4Dot(B, n, k) ==
    [t \in Tiles(n), qb \in Blocks(k), j \in Lane, byte \in Half, h \in Nibble |->
        IF /\ t * Tile + j < n
           /\ byte < Chunks(Least(Block, k - qb * Block), 2)
        THEN B[t * Tile + j, (qb * Block) \div 2 + byte, h] ELSE Pad]

\* The same tiles with the scales of their group in front.
TileScales(scales, n, groups) ==
    [t \in Tiles(n), g \in 0..(groups - 1), c \in Lane |->
        IF t * Tile + c < n THEN scales[t * Tile + c, g] ELSE Pad]
PackG32(q4dot, scales, n, k) ==
    [scales |-> TileScales(scales, n, k \div Block),
     q |-> [t \in Tiles(n), g \in 0..(k \div Block - 1), c \in Lane, byte \in Half, h \in Nibble |->
              q4dot[t, g, c, byte, h]]]
PackG128(q4dot, scales, n, k) ==
    LET each == Group \div Block
    IN [scales |-> TileScales(scales, n, k \div Group),
        q |-> [t \in Tiles(n), g \in 0..(k \div Group - 1), qgi \in 0..(each - 1),
               c \in Lane, byte \in Half, h \in Nibble |->
                 q4dot[t, g * each + qgi, c, byte, h]]]

\* Four positions a chunk, two bytes a column: [chunk][n * 2 + pair].
PackVnni(g32, n, k) ==
    [scales |-> g32.scales,
     q |-> [t \in Tiles(n), g \in 0..(k \div Block - 1), chunk \in 0..(Block \div 4 - 1),
            byte \in 0..(2 * Tile - 1), h \in Nibble |->
              g32.q[t, g, byte \div 2, (chunk * 4 + (byte % 2) * 2) \div 2, h]]]
-----------------------------------------------------------------------------
(* Quantised activations: the values and the scales they were rounded with *)

Rounded(a, size) == IF a = Pad THEN Pad ELSE a \o <<size>>
Fp8(a) == IF a = Pad THEN Pad ELSE a \o <<0>>

\* A row of blocks, padded with zeros up to the rows of the packed weight.
QuantizeBlocks(A, m, k, storage) ==
    [q |-> [r \in 0..(m - 1), i \in 0..(Most(storage, k) - 1) |->
              IF i < k THEN Rounded(A[r, i], Block) ELSE Pad],
     s |-> [r \in 0..(m - 1), qb \in Blocks(k) |-> <<r, Block, qb>>]]

QuantizeFp8Blocks(A, m, k, storage) ==
    [q |-> [r \in 0..(m - 1), i \in 0..(Most(storage, k) - 1) |->
              IF i < k THEN Rounded(Fp8(A[r, i]), Block) ELSE Pad],
     s |-> [r \in 0..(m - 1), qb \in Blocks(k) |-> <<r, Block, qb>>]]
Fp8Dequant(A, m, k) == [r \in 0..(m - 1), i \in 0..(k - 1) |-> Fp8(A[r, i])]

\* Values of the even and of the odd positions of each block, of one row.
EvenOdd(A, row, k) ==
    LET at(qb, i, h) == IF qb * Block + 2 * i + h < k
                        THEN Rounded(A[row, qb * Block + 2 * i + h], Block) ELSE Pad
    IN [even |-> [qb \in Blocks(k), i \in Half |-> at(qb, i, 0)],
        odd |-> [qb \in Blocks(k), i \in Half |-> at(qb, i, 1)],
        s |-> [qb \in Blocks(k) |-> <<row, Block, qb>>]]
Fp8EvenOdd(A, row, k) == EvenOdd(Fp8Dequant(A, row + 1, k), row, k)

\* What the rounding of Fp8EvenOdd lost, rounded in turn.
Residual(a) == IF a = Pad THEN Pad ELSE a \o <<1>>
ResidualEvenOdd(A, row, k) ==
    LET x == Fp8EvenOdd(A, row, k)
    IN [even |-> [qb \in Blocks(k), i \in Half |-> Residual(x.even[qb, i])],
        odd |-> [qb \in Blocks(k), i \in Half |-> Residual(x.odd[qb, i])],
        s |-> [qb \in Blocks(k) |-> <<row, Block, qb, 1>>]]
\* The same with one scale for a whole group.
EvenOddG128(A, row, k) ==
    LET each == Group \div Block
        at(qb, i, h) == Rounded(A[row, (qb \div each) * Group + (qb % each) * Block + 2 * i + h],
                                Group)
        blocks == 0..((k \div Group) * each - 1)
    IN [even |-> [qb \in blocks, i \in Half |-> at(qb, i, 0)],
        odd |-> [qb \in blocks, i \in Half |-> at(qb, i, 1)],
        s |-> [g \in 0..(k \div Group - 1) |-> <<row, Group, g>>]]

\* Half a tile of rows a block; rows past M keep what the memory held.
Rows4 == Tile \div 2
QuantizeA4(A, m, k) ==
    LET at(t, qb, ar, i, h) ==
            IF t * Rows4 + ar >= m THEN Stale
            ELSE IF qb * Block + 2 * i + h < k
                 THEN Rounded(A[t * Rows4 + ar, qb * Block + 2 * i + h], Block) ELSE Pad
        tiles == 0..(Chunks(m, Rows4) - 1)
        rows == 0..(Rows4 - 1)
    IN [even |-> [t \in tiles, qb \in Blocks(k), ar \in rows, i \in Half |-> at(t, qb, ar, i, 0)],
        odd |-> [t \in tiles, qb \in Blocks(k), ar \in rows, i \in Half |-> at(t, qb, ar, i, 1)],
        s |-> [t \in tiles, qb \in Blocks(k), ar \in rows |->
                 IF t * Rows4 + ar < m THEN <<t * Rows4 + ar, Block, qb>> ELSE Stale]]

\* A tile of rows a block, in quarters: even low, even high, odd low, odd high;
\* the scale of a row is stored twice, beside that of the other row of its pair.
QuantizeA8(A, m, k) ==
    LET quarter == Block \div 4
        row(t, ar) == t * Tile + ar
    IN [q |-> [t \in Tiles(m), qb \in 0..(k \div Block - 1), part \in 0..3,
               ar \in Lane, i \in 0..(quarter - 1) |->
                 IF row(t, ar) < m
                 THEN Rounded(A[row(t, ar), qb * Block + 2 * ((part % 2) * quarter + i) + part \div 2],
                              Block)
                 ELSE Pad],
        s |-> [t \in Tiles(m), qb \in 0..(k \div Block - 1),
               pair \in 0..(Tile \div 2 - 1), lane \in 0..3 |->
                 IF row(t, 2 * pair + lane \div 2) < m
                 THEN <<row(t, 2 * pair + lane \div 2), Block, qb>> ELSE Pad]]

\* Rows rounded with the scale of each block, and the sum of each block.
QuantizeVnni(A, m, k) ==
    [q |-> [r \in 0..(m - 1), i \in 0..(k - 1) |-> Rounded(A[r, i], Block)],
     s |-> [r \in 0..(m - 1), g \in 0..(k \div Block - 1) |-> <<r, Block, g>>]]
-----------------------------------------------------------------------------
(* Jobs: a call is divided among the threads of the pool *)

(* What the processor has; MOLLM_ARM_I8MM_KERNELS and the like are the same here. *)
Neon(c) == c.platform \in {"neon", "dot", "i8mm", "apple"}
DotProd(c) == c.platform \in {"dot", "i8mm", "apple"}
I8mm(c) == c.platform \in {"i8mm", "apple"}
Avx512(c) == c.platform \in {"avx512", "vnni"}

Quad == Tile \div 2     \* four lanes
RoundUp(x) == Chunks(x, Tile) * Tile

\* One thread does it all.
Whole(c) == {[mb |-> 0, me |-> c.m, nb |-> 0, ne |-> c.n]}

\* parallel_for: one range for each thread with something to do.
Ranges(total, grain, threads) ==
    LET active == Least(threads, Chunks(total, grain))
    IN {<<Min(S), Max(S) + 1>> : S \in {Shard(total, grain, active, t) : t \in 0..(active - 1)} \ {{}}}
ByColumns(c, grain) ==
    {[mb |-> 0, me |-> c.m, nb |-> r[1], ne |-> r[2]] : r \in Ranges(c.n, grain, c.threads)}
ByRows(c, grain) ==
    {[mb |-> r[1], me |-> r[2], nb |-> 0, ne |-> c.n] : r \in Ranges(c.m, grain, c.threads)}

\* parallel_for_2d: every tile is a job of its own.
ByTiles(c, rows, columns) ==
    {[mb |-> i * rows, me |-> Least((i + 1) * rows, c.m),
      nb |-> j * columns, ne |-> Least((j + 1) * columns, c.n)] :
        i \in 0..(Chunks(c.m, rows) - 1), j \in 0..(Chunks(c.n, columns) - 1)}

\* Which dimension the standard paths divide, and whether it is worth it.
ShardByN(c) == c.n > c.m * Tile /\ c.m = 1
ChunkSize(c) == IF c.m = 1 \/ c.n = 1 THEN GemvChunk ELSE IF Neon(c) THEN Tile ELSE 1
UseParallel(c) ==
    c.threads > 1 /\ Chunks(IF ShardByN(c) THEN c.n ELSE c.m, ChunkSize(c)) > 1

\* The grain of a GEMV, a multiple of the tile.
GemvGrain(c) == RoundUp(Most(c.n \div (c.threads * ChunksPerThread), GemvChunk))

\* Where the tile of column n starts in a range the loop steps through from `begin'.
TileFrom(begin, n) == begin + ((n - begin) \div Tile) * Tile
\* w8_scale_group: which scale of its row a block has.
ScaleGroup(c, qb) ==
    IF c.groups = 1 THEN 0 ELSE IF c.group = Block THEN qb ELSE (qb * Block) \div c.group
-----------------------------------------------------------------------------
(* Activations: applied to `len' columns from `begin', to all if len < 0 *)

\* activation_applies_at, of the kernels that apply it as they store.
AppliesAt(act, n) == act.len < 0 \/ (n >= act.begin /\ n < act.begin + act.len)

\* matmul_apply_activation, over `width' columns.
AppliedTo(act, width) ==
    IF act.len < 0 \/ (act.begin = 0 /\ act.len >= width)
    THEN 0..(width - 1)
    ELSE act.begin..(Least(act.begin + act.len, width) - 1)

\* Faulty: cut to the job but not counted from its first column.
LocalActivationUnmoved(act, j) ==
    LET begin == Most(j.nb, act.begin)
        end == Least(j.ne, act.begin + act.len)
    IN [begin |-> begin, len |-> IF act.len < 0 THEN -1 ELSE Most(0, end - begin)]

\* local_activation_range: the part within a job, counted from its first column.
LocalActivation(act, j) ==
    LET begin == Most(0, act.begin - j.nb)
        end == Least(j.ne - j.nb, act.begin + act.len - j.nb)
    IN [begin |-> begin, len |-> IF act.len < 0 THEN -1 ELSE Most(0, end - begin)]
=============================================================================
