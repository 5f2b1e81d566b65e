--------------------------- MODULE FlashAttention ---------------------------
(***************************************************************************)
(* The attention kernels of the CPU: kernels/cpu/attention.cpp and         *)
(* kernels/cpu/x86/attention_x86_avx512.cpp.                               *)
(*                                                                         *)
(* A call is a record: device, cache ("none", "fp32", "fp16"), heads, kv   *)
(* (heads of the cache), dk and dv (dimensions of a key and a value), past *)
(* (rows in the cache), queries (new rows), capacity, causal, mask ("none" *)
(* or the shape of the explicit one), sink, selection (empty, or for each  *)
(* query the positions it may see) and threads.                            *)
(*                                                                         *)
(* The row of head g at a position is <<g, position>>.  Scores are small   *)
(* integers, and exp(x) is kept as x: what a query has added up is m, the  *)
(* maximum so far, and two sets of terms, num <<tag, value row, exponent>> *)
(* and den <<tag, exponent>>.  A tag tells apart what is added twice.      *)
(***************************************************************************)
EXTENDS MatmulLayouts
LOCAL INSTANCE SequencesExt

CONSTANTS
    KeyBlock,           \* keys of a block: 32 in FP32, twice that in FP16
    Window,             \* the keys a window mask shows
    Logit(_, _, _),     \* the score of a query head, a query and a key row
    SinkLogit(_)        \* the sink of a query head

ASSUME AttentionAssumption ==
    /\ KeyBlock \in Nat \ {0} /\ Window \in Nat \ {0}
    /\ \A h, i, g, j \in 0..3 : Logit(h, i, <<g, j>>) \in -50..50 /\ SinkLogit(h) \in -50..50

Unwritten == <<>>       \* a row nobody wrote
NegInf == -1000         \* a masked score
Lowest == -900          \* -FLT_MAX, where a maximum begins
Sink == -1              \* the tag of what a sink adds
Garbage == 500          \* the score of what is not the product of two rows

Keys(a) == a.past + a.queries
Selected(a) == a.selection # <<>>
HeadOf(a, h) == h \div (a.heads \div a.kv)    \* the cache head of a query head

\* Loops of falling width over the dimensions: which one takes which.
Steps(n, widths) ==
    LET loop(s, w) == LET end == s.from + ((n - s.from) \div w) * w
                      IN [from |-> end, done |-> s.done \cup {<<w, d>> : d \in s.from..(end - 1)}]
    IN FoldLeft(loop, [from |-> 0, done |-> {}], widths).done
Complete(steps, n) == Cardinality(steps) = n /\ {t[2] : t \in steps} = 0..(n - 1)

(* Masks: one row for each query, one column for each key *)

\* An explicit mask or, for a chunk of a causal attention, the one kernel_sdpa builds.
MaskOf(a) == IF a.mask # "none" THEN a.mask ELSE IF a.causal /\ a.queries > 1 THEN "causal" ELSE "none"
MaskHides(a, mask, index) ==
    LET own == a.past + index \div Keys(a)      \* the position of the query
        key == index % Keys(a)
    IN CASE mask = "causal" -> key > own
         [] mask = "window" -> key > own \/ key <= own - Window
         [] mask = "wide" -> key > own + 1
         [] mask = "none" -> FALSE

\* The score of a key row: `steps' are the products its dot adds up.
Score(a, q, mask, index, row, steps) ==
    CASE MaskHides(a, mask, index) -> NegInf
      [] ~MaskHides(a, mask, index) /\ row # Unwritten /\ Complete(steps, a.dk) -> Logit(q.h, q.i, row)
      [] OTHER -> Garbage
-----------------------------------------------------------------------------
(* Online softmax *)

Scaled(terms, by) == {[t EXCEPT ![Len(t)] = @ + by] : t \in terms}
Rescaled(terms, from, to) == IF from <= Lowest THEN {} ELSE IF from = to THEN terms ELSE Scaled(terms, from - to)

\* A sink is a key without a value: it begins the maximum and the denominator.
StartOf(a, h) ==
    IF a.sink THEN [m |-> SinkLogit(h), num |-> {}, den |-> {<<Sink, 0>>}]
    ELSE [m |-> Lowest, num |-> {}, den |-> {}]

\* Faulty: what was added up for the old maximum is kept as it is.
OnlineBlockUnscaled(acc, slots, S, V) ==
    LET m == Max({acc.m} \cup {S[j] : j \in slots})
        live == {j \in slots \cap DOMAIN V : S[j] > Lowest}
    IN  [m |-> m,
         num |-> acc.num \cup {<<j, V[j], S[j] - m>> : j \in live},
         den |-> Rescaled(acc.den, acc.m, m) \cup {<<j, S[j] - m>> : j \in live}]

\* A block of slots: S has the scores, V the value rows of those not passed over.
OnlineBlock(acc, slots, S, V) ==
    LET m == Max({acc.m} \cup {S[j] : j \in slots})
        live == {j \in slots \cap DOMAIN V : S[j] > Lowest}
    IN  [m |-> m,
         num |-> Rescaled(acc.num, acc.m, m) \cup {<<j, V[j], S[j] - m>> : j \in live},
         den |-> Rescaled(acc.den, acc.m, m) \cup {<<j, S[j] - m>> : j \in live}]

InBlocks(n, size) == [b \in 1..Chunks(n, size) |-> ((b - 1) * size)..(Least(n, b * size) - 1)]
Online(a, h, blocks, S, V) ==
    FoldLeft(LAMBDA acc, slots : OnlineBlock(acc, slots, S, V), StartOf(a, h), blocks)

\* The row once it is divided by the denominator; passes are the loops over its dimensions.
Divided(a, acc, passes) ==
    IF \A widths \in passes : Complete(Steps(a.dv, widths), a.dv) THEN acc ELSE [acc EXCEPT !.num = {}]
-----------------------------------------------------------------------------
(* Dot products *)

DotFp32(dk) == Steps(dk, <<8, 4, 1>>)
DotFp16(dk) == Steps(dk, <<16, 8, 1>>)
\* Four and eight keys at a time: out[r] is that of row K_r.
DotFp16x4(dk) == [r \in 0..3 |-> Steps(dk, <<16, 8, 1>>)]
DotFp16x8(dk) == [r \in 0..7 |-> Steps(dk, <<16, 8, 1>>)]
DotAvx512(dk) == Steps(dk, <<32, 16, 1>>)

\* Which dot makes the score of slot j of a block of n: eight or four at a time, then one.
BatchedDot(a, n, j, sizes) ==
    LET taken == {t \in Steps(n, sizes) : t[2] = j}
        size == (CHOOSE t \in taken : TRUE)[1]
        r == (j - (CHOOSE t \in Steps(n, sizes) : t[1] = size
                     /\ \A u \in Steps(n, sizes) : u[1] = size => t[2] <= u[2])[2]) % size
    IN  CASE size = 8 -> DotFp16x8(a.dk)[r]
          [] size = 4 -> DotFp16x4(a.dk)[r]
          [] size = 1 -> DotFp16(a.dk)
-----------------------------------------------------------------------------
(* The kernels of ARM.  q is a row of the query: its head h, its number i, *)
(* K and V, the rows of the head's cache, and at, where its mask begins.   *)

FlashAttnFp32Decode(a, q, N, mask) ==
    LET S == [j \in 0..(N - 1) |-> Score(a, q, mask, q.at + j, q.K[j], DotFp32(a.dk))]
    IN  Divided(a, Online(a, q.h, InBlocks(N, KeyBlock), S, q.V), {<<8, 4, 1>>, <<4, 1>>})

\* Its rows are done four at a time, block of keys by block of keys.
FlashAttnFp32Prefill(a, q, N, mask) ==
    LET S == [j \in 0..(N - 1) |-> Score(a, q, mask, q.i * N + j, q.K[j], DotFp32(a.dk))]
    IN  Divided(a, Online(a, q.h, InBlocks(N, KeyBlock), S, q.V), {<<8, 4, 1>>, <<4, 1>>})

Fp16Scores(a, q, N, mask, at, sizes) ==
    LET size == 2 * KeyBlock
    IN [j \in 0..(N - 1) |->
          LET jb == (j \div size) * size
          IN Score(a, q, mask, at + j, q.K[j],
                   BatchedDot(a, Least(size, N - jb), j - jb, sizes))]
\* O is held in registers for 64 dimensions, then 8, 4 and 1.
Fp16Passes == {<<64, 8, 4, 1>>, <<8, 4, 1>>}
FlashAttnFp16Decode(a, q, N, mask) ==
    LET S == Fp16Scores(a, q, N, mask, q.at, <<4, 1>>)
    IN  Divided(a, Online(a, q.h, InBlocks(N, 2 * KeyBlock), S, q.V), Fp16Passes)
FlashAttnFp16Prefill(a, q, N, mask) ==
    LET S == Fp16Scores(a, q, N, mask, q.i * N, <<8, 4, 1>>)
    IN  Divided(a, Online(a, q.h, InBlocks(N, 2 * KeyBlock), S, q.V), Fp16Passes \cup {<<4, 1>>})

(* The same for rows that name their keys: q.named is the selection, and    *)
(* what it names beyond limit is passed over.                               *)
KeyPos(q, limit, slot) == IF q.named[slot + 1] \in 0..limit THEN q.named[slot + 1] ELSE -1
SelectedScores(a, q, limit, mask, dot) ==
    [j \in 0..(Len(q.named) - 1) |->
        LET pos == KeyPos(q, limit, j)
        IN IF pos < 0 THEN NegInf ELSE Score(a, q, mask, q.at + pos, q.K[pos], dot)]
SelectedValues(q, limit) ==
    [j \in {j \in 0..(Len(q.named) - 1) : KeyPos(q, limit, j) >= 0} |-> q.V[KeyPos(q, limit, j)]]

FlashAttnFp32DecodeSelected(a, q, limit, mask) ==
    LET S == SelectedScores(a, q, limit, mask, DotFp32(a.dk))
        blocks == InBlocks(Len(q.named), KeyBlock)
    IN  Divided(a, Online(a, q.h, blocks, S, SelectedValues(q, limit)), {<<8, 4, 1>>, <<4, 1>>})
\* One key after the other.
FlashAttnFp32PrefillSelected(a, q, limit, mask) ==
    LET S == SelectedScores(a, q, limit, mask, DotFp32(a.dk))
        blocks == InBlocks(Len(q.named), 1)
    IN  Divided(a, Online(a, q.h, blocks, S, SelectedValues(q, limit)), {<<8, 4, 1>>, <<4, 1>>})
FlashAttnFp16Selected(a, q, limit, mask) ==
    LET S == SelectedScores(a, q, limit, mask, DotFp16(a.dk))
        blocks == InBlocks(Len(q.named), 2 * KeyBlock)
    IN  Divided(a, Online(a, q.h, blocks, S, SelectedValues(q, limit)), Fp16Passes)
NaiveSdpaSelected(a, q, limit, mask) ==
    LET S == SelectedScores(a, q, limit, mask, Steps(a.dk, <<1>>))
        blocks == InBlocks(Len(q.named), 1)
    IN  Divided(a, Online(a, q.h, blocks, S, SelectedValues(q, limit)), {<<1>>})
-----------------------------------------------------------------------------
(* Those of other processors: all scores, their softmax, all values *)

SoftmaxRow(a, h, S, V) ==
    LET m == Max({IF a.sink THEN SinkLogit(h) ELSE NegInf} \cup {S[j] : j \in DOMAIN S})
        live == {j \in DOMAIN S : S[j] > Lowest}
    IN IF m = NegInf THEN [m |-> m, num |-> {}, den |-> {}]
       ELSE [m |-> m,
             num |-> {<<j, V[j], S[j] - m>> : j \in live},
             den |-> {<<j, S[j] - m>> : j \in live}
                       \cup (IF a.sink THEN {<<Sink, SinkLogit(h) - m>>} ELSE {})]
NaiveSdpaHead(a, q, N, mask) ==
    LET S == [j \in 0..(N - 1) |-> Score(a, q, mask, q.i * N + j, q.K[j], Steps(a.dk, <<1>>))]
    IN  Divided(a, SoftmaxRow(a, q.h, S, q.V), {<<1>>})
NaiveSdpaHeadFp16Cache(a, q, N, mask) ==
    LET S == [j \in 0..(N - 1) |-> Score(a, q, mask, q.i * N + j, q.K[j], Steps(a.dk, <<1>>))]
    IN  Divided(a, SoftmaxRow(a, q.h, S, q.V), {<<1>>})

\* The keys before the hidden ones at the end of the row.
VisibleKeys(a, q, N, mask) ==
    Max({0} \cup {n \in 1..N : ~MaskHides(a, mask, q.i * N + n - 1)})
SdpaAvx512Head(a, q, N, mask) ==
    LET visible == VisibleKeys(a, q, N, mask)
        S == [j \in 0..(visible - 1) |-> Score(a, q, mask, q.i * N + j, q.K[j], DotAvx512(a.dk))]
    IN  IF visible = 0 THEN [m |-> NegInf, num |-> {}, den |-> {}]
        ELSE Divided(a, SoftmaxRow(a, q.h, S, q.V), {<<16, 1>>})
-----------------------------------------------------------------------------
(* kernel_sdpa and kernel_sdpa_sparse *)

\* The heads of a cache lie capacity rows apart, those of the new rows queries.
CacheRow(a, M, h, j) == M[HeadOf(a, h) * (IF a.cache = "none" THEN a.queries ELSE a.capacity) + j]
HeadRows(a, M, h) == [j \in 0..(Keys(a) - 1) |-> CacheRow(a, M, h, j)]
Query(a, h, i, K, V) ==
    [h |-> h, i |-> i, at |-> i * Keys(a), K |-> HeadRows(a, K, h), V |-> HeadRows(a, V, h),
     named |-> IF Selected(a) THEN a.selection[i + 1] ELSE <<>>]

SdpaRow(a, q) ==
    LET N == Keys(a)
        mask == MaskOf(a)
    IN CASE a.device = "neon" /\ a.cache = "fp16" /\ a.queries = 1 -> FlashAttnFp16Decode(a, q, N, mask)
         [] a.device = "neon" /\ a.cache = "fp16" /\ a.queries # 1 -> FlashAttnFp16Prefill(a, q, N, mask)
         [] a.device = "neon" /\ a.cache # "fp16" /\ a.queries = 1 -> FlashAttnFp32Decode(a, q, N, mask)
         [] a.device = "neon" /\ a.cache # "fp16" /\ a.queries # 1 -> FlashAttnFp32Prefill(a, q, N, mask)
         [] a.device # "neon" /\ a.cache = "fp16" -> NaiveSdpaHeadFp16Cache(a, q, N, mask)
         [] a.device = "avx512" /\ a.cache # "fp16" /\ ~a.sink -> SdpaAvx512Head(a, q, N, mask)
         [] OTHER -> NaiveSdpaHead(a, q, N, mask)

\* A selection as wide as what is there is not looked at.
Sparse(a) == Selected(a) /\ Len(a.selection[1]) < Keys(a)
VisibleLimit(a, i) == IF a.causal THEN Least(a.past + i, Keys(a) - 1) ELSE Keys(a) - 1
SdpaSparseRow(a, q) ==
    LET limit == VisibleLimit(a, q.i)
    IN CASE a.device = "neon" /\ a.cache = "fp16" -> FlashAttnFp16Selected(a, q, limit, a.mask)
         [] a.device = "neon" /\ a.cache # "fp16" /\ a.queries = 1 ->
              FlashAttnFp32DecodeSelected(a, q, limit, a.mask)
         [] a.device = "neon" /\ a.cache # "fp16" /\ a.queries # 1 ->
              FlashAttnFp32PrefillSelected(a, q, limit, a.mask)
         [] a.device # "neon" -> NaiveSdpaSelected(a, q, limit, a.mask)

\* The heads first..last-1 of the job a thread runs.
RunHead(a, job, K, V) ==
    [o \in (job[1]..(job[2] - 1)) \X (0..(a.queries - 1)) |->
        LET q == Query(a, o[1], o[2], K, V)
        IN IF Sparse(a) THEN SdpaSparseRow(a, q) ELSE SdpaRow(a, q)]
HeadJobs(a) ==
    IF a.threads > 1 /\ a.heads >= 2 THEN Ranges(a.heads, 1, a.threads) ELSE {<<0, a.heads>>}

\* Before them, the new rows go behind the old ones, head by head.
AppendKv(a, M) ==
    IF a.cache = "none" THEN M
    ELSE [x \in DOMAIN M |->
            LET g == x \div a.capacity
                s == (x % a.capacity) - a.past
            IN IF s \in 0..(a.queries - 1) THEN <<g, a.past + s>> ELSE M[x]]
=============================================================================
