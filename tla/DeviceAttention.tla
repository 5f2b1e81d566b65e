--------------------------- MODULE DeviceAttention ---------------------------
(***************************************************************************)
(* The attention kernels of CUDA: kernels/cuda/attention.cu and qsa.cu.    *)
(*                                                                         *)
(* A launch is a record [kernel, a, first, blocks]: what it runs, for      *)
(* which call, the query it begins with, and the blocks of its grid, which *)
(* run in any order.  Memory is a record: K and V, the rows of the cache;  *)
(* S, the scores, each of them x and, once it is divided, the maximum m    *)
(* and the denominator den it has been divided by; E, the values in FP32;  *)
(* P, what the GEMM has written; O, the output, by head, query and part of *)
(* the dimensions; length, that of the cache; valid, the flag of the       *)
(* validation; and raw, pooled, index, groups and ids, the state of the    *)
(* sparse indexer and what it finds.                                       *)
(***************************************************************************)
EXTENDS FlashAttention

CONSTANTS
    Threads,        \* 256: threads of a block
    HeadDim,        \* 128: the narrow head; the wide one has twice that
    KeyLanes,       \* 4: threads that share a key of a narrow head
    ValuePairs,     \* 8: pairs of dimensions of a block of values
    Warp,           \* 32
    DecodeThreads,  \* 512: threads, and keys, of a short decode
    SharedKeys,     \* 1024: scores that are kept on the chip
    MidKeys,        \* 2048: past rows from which a GEMM makes the values
    LongKeys,       \* 4096: keys up to which queries are grouped
    PairedKeys,     \* 16384: keys up to which heads are paired
    FarKeys,        \* 32768: keys up to which a GEMM makes the values
    GroupQueries,   \* 16: queries from which they are grouped
    GemmQueries,    \* 32: queries from which a GEMM, or a group of heads, pays
    GemmHeads,      \* 24: the heads the GEMM is qualified for, with two of the cache
    ExactQueries,   \* 8: queries MOLLM_CUDA_SDPA_SMALL_BATCH_EXACT does one by one
    SplitSlots,     \* 128: slots from which a selection is partitioned
    Partitions,     \* 16
    SelectTile,     \* 16: slots that are staged at a time
    FeatureTile     \* 64: dimensions of a block of selected values

ASSUME DeviceAssumption ==
    /\ {Threads, HeadDim, KeyLanes, ValuePairs, Warp, DecodeThreads, SharedKeys, GroupQueries,
        GemmQueries, Partitions, SelectTile, FeatureTile} \subseteq Nat \ {0}
    /\ Threads = 2 * HeadDim /\ Threads % Warp = 0 /\ Warp = 4 * ValuePairs
    /\ (HeadDim \div 2) % ValuePairs = 0

Wide == 2 * HeadDim
Pairs(d) == d \div 2
Stride(first, n, by) == {j \in first..(n - 1) : (j - first) % by = 0}
Void == [m |-> NegInf, num |-> {}, den |-> {}]      \* no row

\* The products of a key the lanes that share it add up, two dimensions at a time.
PairDot(dk, lanes) ==
    {t \in (0..(lanes - 1)) \X (0..(2 * Pairs(dk) - 1)) : t[2] \div 2 \in Stride(t[1], Pairs(dk), lanes)}
QueryKeyDot(a) == Steps(a.dk, IF a.cache = "fp16" /\ a.dk % 2 = 0 THEN <<2>> ELSE <<1>>)

\* The explicit mask, or what the kernels compare themselves.
DeviceMask(a) == IF a.mask # "none" THEN a.mask ELSE IF a.causal THEN "causal" ELSE "none"
DeviceScore(l, row, h, i, j, dot) ==
    Score(l.a, [h |-> h, i |-> l.first + i], DeviceMask(l.a), i * Keys(l.a) + j, row, dot)

Raw(s) == [x |-> s, m |-> 0, den |-> {}]
Normalized(row) ==
    LET m == Max({row[j].x : j \in DOMAIN row})
        den == {<<j, row[j].x - m>> : j \in {j \in DOMAIN row : row[j].x > Lowest}}
    IN [j \in DOMAIN row |-> [x |-> row[j].x - m, m |-> m, den |-> den]]

\* The weighted values of a row: group g takes every groups-th position from its own.
Weighted(row, V, n, groups) ==
    {<<t, V[t[2]], row[t[2]].x>> :
        t \in {t \in (0..(groups - 1)) \X (0..(n - 1)) :
                 t[2] \in Stride(t[1], n, groups) /\ row[t[2]].x > Lowest}}
\* All of them divided by the same denominator, or it is no row.
RowOf(row, num) ==
    IF Cardinality({<<row[j].m, row[j].den>> : j \in DOMAIN row}) # 1 THEN Void
    ELSE LET one == row[CHOOSE j \in DOMAIN row : TRUE] IN [m |-> one.m, num |-> num, den |-> one.den]
SetRow(M, h, i, r) ==
    [M EXCEPT !.O = [o \in DOMAIN @ |-> IF o[1] = h /\ o[2] = i THEN r ELSE @[o]]]
SetPart(M, h, i, part, r) == [M EXCEPT !.O[h, i, part] = r]
ScoreRow(M, h, i, n) == [j \in 0..(n - 1) |-> M.S[h, i, j]]
-----------------------------------------------------------------------------
(* The generic kernels *)

\* append_kv_cuda: the threads of a new row, one for each of its dimensions.
AppendKvRow(l, M, b) ==
    LET at == b[1] * l.a.capacity + l.a.past + b[2]
        row == <<b[1], l.a.past + b[2]>>
    IN [M EXCEPT !.K[at] = row, !.V[at] = row]

\* A thread for each score.
SdpaScores(l, M, b) ==
    LET N == Keys(l.a)
        count == l.a.heads * l.a.queries * N
        mine == (b * Threads)..(Least((b + 1) * Threads, count) - 1)
        cell(x) == <<x \div (N * l.a.queries), (x \div N) % l.a.queries, x % N>>
        dot == QueryKeyDot(l.a)
    IN [M EXCEPT !.S = [c \in DOMAIN @ |->
          IF \E x \in mine : cell(x) = c
          THEN Raw(DeviceScore(l, CacheRow(l.a, M.K, c[1], c[3]), c[1], c[2], c[3], dot))
          ELSE @[c]]]

SdpaOutput(l, M, b) ==
    LET N == Keys(l.a)
        row == Normalized(ScoreRow(M, b[1], b[2], N))
        V == HeadRows(l.a, M.V, b[1])
    IN SetRow(M, b[1], b[2], RowOf(row, Weighted(row, V, N, 1)))

\* One query: a block does all of a head.
DecodeGroups(a, threads) ==
    IF a.cache = "fp16" /\ a.dv % 2 = 0 /\ Pairs(a.dv) <= threads
    THEN Least(IF threads = DecodeThreads THEN 8 ELSE 16, threads \div Pairs(a.dv))
    ELSE Most(1, Least(8, threads \div a.dv))
SdpaDecode(l, M, h) ==
    LET N == Keys(l.a)
        threads == IF N <= DecodeThreads THEN DecodeThreads ELSE 2 * DecodeThreads
        cooperative == /\ l.a.cache = "fp16"
                       /\ l.a.dk = IF threads = DecodeThreads THEN Wide ELSE HeadDim
        lanes == IF ~cooperative THEN 1 ELSE IF threads = DecodeThreads THEN 2 ELSE 4
        dot == IF cooperative THEN PairDot(l.a.dk, lanes) ELSE QueryKeyDot(l.a)
        \* Every threads / lanes keys are those of the same threads.
        done == UNION {Stride(first, N, threads \div lanes) : first \in 0..(threads \div lanes - 1)}
        row == Normalized([j \in done |-> Raw(DeviceScore(l, CacheRow(l.a, M.K, h, j), h, 0, j, dot))])
    IN SetRow(M, h, l.first, RowOf(row,
         Weighted(row, HeadRows(l.a, M.V, h), N, DecodeGroups(l.a, threads))))
-----------------------------------------------------------------------------
(* A narrow head in FP16, one query, in three launches *)

\* Faulty: the key of the new token is read from the cache, like the others.
StagedScoresFromCache(l, M, b) ==
    LET a == l.a
        per == Threads \div KeyLanes
        dot == PairDot(a.dk, KeyLanes)
        mine == (b[2] * per)..(Least((b[2] + 1) * per, Keys(a)) - 1)
        row(j) == CacheRow(a, M.K, b[1], j)
        scored == [M EXCEPT !.S = [c \in DOMAIN @ |->
            IF c[1] = b[1] /\ c[2] = 0 /\ c[3] \in mine
            THEN Raw(DeviceScore(l, row(c[3]), c[1], 0, c[3], dot)) ELSE @[c]]]
    IN IF l.kernel = "fused_scores" /\ b[2] = 0 /\ b[1] % (a.heads \div a.kv) = 0
       THEN AppendKvRow(l, scored, <<HeadOf(a, b[1]), 0>>) ELSE scored

\* The first block of each head of the cache appends the new row, the others
\* do not wait for it: every block reads that row where it comes from.
StagedScores(l, M, b) ==
    LET a == l.a
        per == Threads \div KeyLanes
        dot == PairDot(a.dk, KeyLanes)
        mine == (b[2] * per)..(Least((b[2] + 1) * per, Keys(a)) - 1)
        row(j) == IF l.kernel = "fused_scores" /\ j = a.past THEN <<HeadOf(a, b[1]), j>>
                  ELSE CacheRow(a, M.K, b[1], j)
        scored == [M EXCEPT !.S = [c \in DOMAIN @ |->
            IF c[1] = b[1] /\ c[2] = 0 /\ c[3] \in mine
            THEN Raw(DeviceScore(l, row(c[3]), c[1], 0, c[3], dot)) ELSE @[c]]]
    IN IF l.kernel = "fused_scores" /\ b[2] = 0 /\ b[1] % (a.heads \div a.kv) = 0
       THEN AppendKvRow(l, scored, <<HeadOf(a, b[1]), 0>>) ELSE scored

StagedSoftmax(l, M, h) ==
    LET row == Normalized(ScoreRow(M, h, 0, Keys(l.a)))
    IN [M EXCEPT !.S = [c \in DOMAIN @ |->
          IF c[1] = h /\ c[2] = 0 /\ c[3] < Keys(l.a) THEN row[c[3]] ELSE @[c]]]

\* The sums of the threads of a pair: a warp folds its own by two shuffles.
Folded(sums, offset) ==
    [t \in DOMAIN sums |-> IF (t % Warp) + offset < Warp THEN sums[t] \cup sums[t + offset] ELSE sums[t]]
StagedValues(l, M, b) ==
    LET N == Keys(l.a)
        row == ScoreRow(M, b[1], 0, N)
        V == HeadRows(l.a, M.V, b[1])
        taken == [t \in 0..(Threads - 1) |->
                    {<<t, j>> : j \in Stride(t \div ValuePairs, N, Threads \div ValuePairs)}]
        folded == Folded(Folded(taken, Warp \div 2), Warp \div 4)
        \* The threads of the first pair; those of the others do the same.
        all == UNION {folded[w * Warp] : w \in 0..(Threads \div Warp - 1)}
    IN SetPart(M, b[1], l.first, b[2], RowOf(row,
         {<<t, V[t[2]], row[t[2]].x>> : t \in {t \in all : row[t[2]].x > Lowest}}))
-----------------------------------------------------------------------------
(* Several queries in FP16.  A validation shows that the mask is causal and *)
(* what is multiplied finite; then the hidden keys need not be looked at.   *)

\* What the dispatcher chooses for a wide head: dispatch.cu names it.
PrefixPolicy(a) ==
    LET N == Keys(a)
        gemmable == /\ a.heads = GemmHeads /\ a.kv = 2 /\ a.queries >= GemmQueries
        mid == gemmable /\ a.paired /\ N > MidKeys /\ N <= LongKeys /\ a.past >= MidKeys
        grouped == ~mid /\ a.queries >= GroupQueries /\ N <= LongKeys
        heads == grouped /\ N > SharedKeys /\ (a.heads \div a.kv) % 4 = 0
        pv == ~heads /\ N > SharedKeys
        far == N > LongKeys /\ N <= IF a.paired THEN FarKeys ELSE PairedKeys
        gemm == gemmable /\ pv /\ ~grouped /\ (mid \/ far)
    IN [grouped |-> grouped, heads |-> heads, pair |-> pv, gemm |-> gemm,
        lanes |-> IF gemm /\ ~mid /\ N <= PairedKeys /\ a.paired THEN 2 ELSE 1]

\* Each element: is it finite, is the mask exactly what a causal one is?
Checked(a) ==
    {<<"query", r>> : r \in 0..(a.heads * a.queries - 1)} \cup
    {<<"key", r>> : r \in 0..(a.kv * Keys(a) - 1)} \cup
    {<<"value", r>> : r \in 0..(a.kv * Keys(a) - 1)} \cup
    {<<"mask", r>> : r \in 0..(a.queries * Keys(a) - 1)}
Sound(a, x) ==
    IF x[1] = "mask" THEN MaskHides(a, a.mask, x[2]) <=> MaskHides(a, "causal", x[2])
    ELSE a.infinite # x
ValidateBlocks(a) == 0..(Least(Threads, Chunks(Cardinality(Checked(a)), Threads)) - 1)
ValidatePrefix(l, M, b) ==
    LET before(x) == CASE x[1] = "query" -> 0
                       [] x[1] = "key" -> l.a.heads * l.a.queries
                       [] x[1] = "mask" -> l.a.heads * l.a.queries + l.a.kv * Keys(l.a)
                       [] x[1] = "value" -> l.a.heads * l.a.queries + (l.a.kv + l.a.queries) * Keys(l.a)
        mine == {x \in Checked(l.a) : ((before(x) + x[2]) \div Threads) % Cardinality(l.blocks) = b}
    IN [M EXCEPT !.valid = @ /\ \A x \in mine : Sound(l.a, x)]

\* The probabilities of a row of a wide head, or of a narrow one.
PrefillLanes(a) == IF a.dk = Wide THEN 2 * KeyLanes ELSE KeyLanes
PrefillRow(l, validated, M, h, i) ==
    LET N == Keys(l.a)
        dotted == IF validated THEN Least(N, l.a.past + i + 1) ELSE N
        lanes == PrefillLanes(l.a)
        dot == PairDot(l.a.dk, lanes)
        done == UNION {Stride(first, dotted, Threads \div lanes) : first \in 0..(Threads \div lanes - 1)}
    IN Normalized([j \in 0..(N - 1) |->
         Raw(IF j \in done
             THEN DeviceScore(l, CacheRow(l.a, M.K, h, j), h, i, j, dot)
             ELSE NegInf)])

\* A block does a query of a head, or of two: it stores the probabilities for
\* the GEMM, and the values itself unless the GEMM will.
Prefill(l, M, b) ==
    LET a == l.a
        p == IF l.kernel = "prefix" THEN PrefixPolicy(a) ELSE [gemm |-> FALSE, lanes |-> 1]
        validated == l.kernel = "prefix" /\ M.valid
        N == Keys(a)
        i == b[1]
        heads == {b[2] * p.lanes + s : s \in 0..(p.lanes - 1)}
        row == [h \in heads |-> PrefillRow(l, validated, M, h, i)]
        groups == IF a.dk = Wide THEN 1 ELSE Threads \div Pairs(a.dk)
        length == IF validated THEN Least(N, a.past + i + 1) ELSE N
        out == [h \in heads |-> RowOf(row[h], Weighted(row[h], HeadRows(a, M.V, h), length, groups))]
    IN [M EXCEPT
          !.S = IF p.gemm THEN [c \in DOMAIN @ |-> IF c[1] \in heads /\ c[2] = i THEN row[c[1]][c[3]] ELSE @[c]]
                ELSE @,
          !.O = [o \in DOMAIN @ |-> IF o[1] \in heads /\ o[2] = i /\ ~(p.gemm /\ validated)
                                    THEN out[o[1]] ELSE @[o]]]

\* A block does four queries of a head, or a query of four heads: the values
\* are read once, and each query stops at its own last key.
PairQueries(l, M, b) ==
    LET a == l.a
        N == Keys(a)
        byHead == PrefixPolicy(a).heads
        slots == IF byHead THEN {<<b[2] * 4 + s, b[1]>> : s \in 0..3}
                 ELSE {<<b[2], b[1] * 4 + s>> : s \in 0..(Least(4, a.queries - b[1] * 4) - 1)}
        end(i) == IF M.valid THEN Least(N, a.past + i + 1) ELSE N
        row == [q \in slots |-> PrefillRow(l, M.valid, M, q[1], q[2])]
        first == Min({end(q[2]) : q \in slots})
        last == Max({end(q[2]) : q \in slots})
        read(q) == (0..(first - 1)) \cup {j \in first..(last - 1) : j < end(q[2])}
        out == [q \in slots |-> RowOf(row[q],
                  {<<j, CacheRow(a, M.V, q[1], j), row[q][j].x>> : j \in {j \in read(q) : row[q][j].x > Lowest}})]
    IN [M EXCEPT !.O = [o \in DOMAIN @ |-> IF <<o[1], o[2]>> \in slots THEN out[<<o[1], o[2]>>] ELSE @[o]]]

\* The values in FP32, head after head without the room of the cache; the
\* product of the probabilities with them; and its copy if all was valid.
PvExpand(l, M, r) ==
    LET N == Keys(l.a) IN [M EXCEPT !.E[r] = M.V[(r \div N) * l.a.capacity + (r % N)]]
PvGemm(l, M, h) ==
    LET N == Keys(l.a)
        values == [j \in 0..(N - 1) |-> M.E[HeadOf(l.a, h) * N + j]]
        row(i) == ScoreRow(M, h, i, N)
    IN [M EXCEPT !.P = [o \in DOMAIN @ |->
          IF o[1] = h THEN RowOf(row(o[2]), Weighted(row(o[2]), values, N, 1)) ELSE @[o]]]
PvCopy(l, M, h) ==
    [M EXCEPT !.O = [o \in DOMAIN @ |-> IF o[1] = h /\ M.valid THEN M.P[<<o[1], o[2]>>] ELSE @[o]]]
=============================================================================
