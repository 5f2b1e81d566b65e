------------------------------ MODULE Attention ------------------------------
(***************************************************************************)
(* A call of the attention: kernel_sdpa and kernel_sdpa_sparse on the CPU, *)
(* and CudaBackend's dispatch of SDPA, QSA_INDEXER and QSA_SDPA, which     *)
(* chooses the launches of a call for its shape.  The launches follow one  *)
(* another; the blocks of a launch, and the jobs of the pool, run in any   *)
(* order.  A call on CUDA also has op ("sdpa" or "qsa"), exact and batch   *)
(* (MOLLM_CUDA_SDPA_SMALL_BATCH_EXACT, logical_prefill_batch_active_),     *)
(* aligned (its strides allow pairs), paired (the device of SM121),        *)
(* infinite (what of its operands is not finite) and, for "qsa", ratio,    *)
(* budget and indexHeads.                                                  *)
(***************************************************************************)
EXTENDS SparseIndexer
LOCAL INSTANCE SequencesExt

CONSTANT AttentionCalls

VARIABLES
    acall,      \* the call, and how it stands
    launches,   \* those not yet over: the first is running
    blocks,     \* its blocks that have not run
    memory      \* what the launches read and write

attention == <<acall, launches, blocks, memory>>
-----------------------------------------------------------------------------
(* CudaBackend::dispatch *)

Launch(kernel, a, grid) == [kernel |-> kernel, a |-> a, first |-> 0, blocks |-> grid]
Once(kernel, a) == Launch(kernel, a, {0})
Grid(n) == 0..(n - 1)

Narrow(a) == a.cache = "fp16" /\ a.dk = HeadDim /\ a.dv = HeadDim
AppendCache(a) ==
    IF a.cache = "none" THEN <<>> ELSE <<Launch("append", a, Grid(a.kv) \X Grid(a.queries))>>

\* try_launch_sdpa_decode_fp16_cached and launch_sdpa_decode.
StagedDecode(scores, a, t) ==
    LET at(l) == [l EXCEPT !.first = t]
    IN <<at(Launch(scores, a, Grid(a.heads) \X Grid(Chunks(Keys(a), Threads \div KeyLanes)))),
         at(Launch("softmax", a, Grid(a.heads))),
         at(Launch("values", a, Grid(a.heads) \X Grid(Pairs(HeadDim) \div ValuePairs)))>>
LaunchDecode(a, t) ==
    IF Narrow(a) THEN StagedDecode("scores", a, t)
    ELSE <<[Launch("decode", a, Grid(a.heads)) EXCEPT !.first = t]>>
DecodePlan(a) ==
    IF Narrow(a) /\ a.aligned THEN StagedDecode("fused_scores", a, 0)
    ELSE AppendCache(a) \o LaunchDecode(a, 0)

\* Each token on its own, after all of them have been appended.
OneByOne(a) == a.exact /\ a.cache # "none" /\ a.causal /\ a.queries \in 2..ExactQueries
Token(a, t) == [a EXCEPT !.past = @ + t, !.queries = 1]
ExactPlan(a) ==
    FoldLeft(LAMBDA plan, t : plan \o
               IF Narrow(a) /\ a.aligned THEN StagedDecode("fused_scores", Token(a, t), t)
               ELSE LaunchDecode(Token(a, t), t),
             <<>>, [n \in 1..a.queries |-> n - 1])

\* A wide head whose mask may prove to be causal.
Prefixed(a) == a.batch /\ a.cache = "fp16" /\ a.dk = Wide /\ a.dv = Wide /\ a.mask # "none"
PrefixPlan(a) ==
    LET p == PrefixPolicy(a)
        validate == <<Once("reset", a), Launch("validate", a, ValidateBlocks(a))>>
        grouped == Launch("pair_queries", a,
            IF p.heads THEN Grid(a.queries) \X Grid(a.heads \div 4)
            ELSE Grid(Chunks(a.queries, 4)) \X Grid(a.heads))
        prefix == Launch("prefix", a, Grid(a.queries) \X Grid(a.heads \div p.lanes))
        product == <<Launch("pv_expand", a, Grid(a.kv * Keys(a))), Launch("pv_gemm", a, Grid(a.heads)),
                     Launch("pv_copy", a, Grid(a.heads))>>
    IN validate \o <<IF p.grouped THEN grouped ELSE prefix>> \o (IF p.gemm THEN product ELSE <<>>)

\* try_launch_sdpa_prefill, or what takes any shape.
PrefillPlan(a) ==
    IF a.cache = "fp16" /\ a.dk \in {HeadDim, Wide} /\ a.dv = a.dk /\ a.aligned
    THEN <<Launch("prefill", a, Grid(a.queries) \X Grid(a.heads))>>
    ELSE <<Launch("sdpa_scores", a, Grid(Chunks(a.heads * a.queries * Keys(a), Threads))),
           Launch("sdpa_output", a, Grid(a.heads) \X Grid(a.queries))>>

SdpaPlan(a) ==
    IF a.queries = 1 THEN DecodePlan(a)
    ELSE AppendCache(a) \o (IF OneByOne(a) THEN ExactPlan(a)
                            ELSE IF Prefixed(a) THEN PrefixPlan(a) ELSE PrefillPlan(a))

\* QSA_INDEXER: launch_qsa_indexer_update and launch_qsa_causal_block_topk.
IndexerPlan(a) ==
    <<Launch("append_query_raw", a, Grid(a.queries) \X (0..a.indexHeads))>>
    \o (IF NewGroups(a) > 0 THEN <<Launch("pool_complete", a, Grid(NewGroups(a)))>> ELSE <<>>)
    \o (IF Keys(a) \div a.ratio > 0
        THEN <<Launch("index_scores", a, Grid(a.queries) \X Grid(Chunks(Keys(a) \div a.ratio, IndexGroups)))>>
        ELSE <<>>)
    \o <<Launch("topk", a, Grid(a.queries))>>

\* QSA_SDPA: launch_qsa_selected_attention.
ReuseGqa(a) ==
    /\ a.queries >= GemmQueries /\ a.dk = Wide /\ a.dv = Wide
    /\ a.heads \div a.kv \in 2..16
SplitDecode(a) == a.queries = 1 /\ Slots(a) >= SplitSlots
SelectedPlan(a) ==
    LET rows == Grid(a.queries) \X Grid(a.heads)
        groups == Grid(a.queries) \X Grid(a.kv)
        parts(n) == Grid(a.queries) \X Grid(a.heads) \X Grid(n)
    IN CASE ReuseGqa(a) -> <<Launch("scores_gqa", a, groups), Launch("normalize", a, rows),
                             Launch("values_gqa", a, groups)>>
         [] SplitDecode(a) -> <<Launch("scores_partitioned", a, parts(Partitions)),
                                Launch("normalize", a, rows),
                                Launch("values_tiles", a, parts(Chunks(a.dv, FeatureTile)))>>
         [] OTHER -> <<Launch("selected", a, rows)>>

LaunchesOf(a) ==
    CASE a.device # "cuda" ->
           <<Once("cpu_append", a), Launch("cpu_heads", a, HeadJobs(a)), Once("cpu_length", a)>>
      [] a.device = "cuda" /\ a.op = "sdpa" -> SdpaPlan(a)
      [] a.device = "cuda" /\ a.op = "qsa" -> IndexerPlan(a) \o AppendCache(a) \o SelectedPlan(a)
-----------------------------------------------------------------------------
\* The parts of a row that are written by different blocks.
Parts(a) ==
    CASE a.device = "cuda" /\ Narrow(a) /\ a.op = "sdpa" -> Pairs(HeadDim) \div ValuePairs
      [] a.device = "cuda" /\ a.op = "qsa" -> Chunks(a.dv, FeatureTile)
      [] OTHER -> 1

\* The cache holds the past rows; the rest of the memory is what others left.
MemoryFor(a) ==
    LET rows == IF a.cache = "none" THEN a.queries ELSE a.capacity
        cache == [x \in 0..(a.kv * rows - 1) |->
                    IF a.cache = "none" \/ x % rows < a.past THEN <<x \div rows, x % rows>> ELSE Unwritten]
        sparse == a.device = "cuda" /\ a.op = "qsa"
        width == IF sparse THEN Slots(a) ELSE Keys(a)
        outputs == Grid(a.heads) \X Grid(a.queries) \X Grid(Parts(a))
        most == Keys(a) \div (IF sparse THEN a.ratio ELSE 1)
    IN [K |-> cache, V |-> cache, length |-> a.past, valid |-> FALSE,
        S |-> [c \in Grid(a.heads) \X Grid(a.queries) \X Grid(width) |-> Raw(Garbage)],
        E |-> [r \in Grid(a.kv * Keys(a)) |-> Unwritten],
        P |-> [o \in Grid(a.heads) \X Grid(a.queries) |-> Void],
        O |-> [o \in outputs |-> Void],
        raw |-> [j \in Grid(Keys(a)) |-> IF sparse /\ j < a.past THEN <<"raw", j>> ELSE Unwritten],
        pooled |-> [g \in Grid(most) |->
                      IF sparse /\ g < a.past \div a.ratio THEN PooledFrom(a, g) ELSE Unwritten],
        index |-> [c \in Grid(a.queries) \X Grid(IF sparse THEN a.indexHeads ELSE 0) |-> Unwritten],
        groups |-> [c \in Grid(a.queries) \X Grid(most) |-> Garbage],
        ids |-> [i \in Grid(a.queries) |-> <<>>]]

CpuHeads(l, M, job) ==
    LET rows == RunHead(l.a, job, M.K, M.V)
    IN [M EXCEPT !.O = [o \in DOMAIN @ |-> IF <<o[1], o[2]>> \in DOMAIN rows THEN rows[o[1], o[2]] ELSE @[o]]]

\* Only a sparse call tells the cache its new length; the engine sets the others.
CpuSparseCall(a) == Sparse(a) /\ a.cache # "none"
CpuLength(l, M) ==
    IF CpuSparseCall(l.a) THEN [M EXCEPT !.length = Keys(l.a)] ELSE M

\* What block b of launch l makes of memory M.
Effect(l, M, b) ==
    CASE l.kernel = "cpu_append" -> [M EXCEPT !.K = AppendKv(l.a, @), !.V = AppendKv(l.a, @)]
      [] l.kernel = "cpu_heads" -> CpuHeads(l, M, b)
      [] l.kernel = "cpu_length" -> CpuLength(l, M)
      [] l.kernel = "append" -> AppendKvRow(l, M, b)
      [] l.kernel = "sdpa_scores" -> SdpaScores(l, M, b)
      [] l.kernel = "sdpa_output" -> SdpaOutput(l, M, b)
      [] l.kernel = "decode" -> SdpaDecode(l, M, b)
      [] l.kernel \in {"scores", "fused_scores"} -> StagedScores(l, M, b)
      [] l.kernel = "softmax" -> StagedSoftmax(l, M, b)
      [] l.kernel = "values" -> StagedValues(l, M, b)
      [] l.kernel = "reset" -> [M EXCEPT !.valid = TRUE]
      [] l.kernel = "validate" -> ValidatePrefix(l, M, b)
      [] l.kernel = "pair_queries" -> PairQueries(l, M, b)
      [] l.kernel \in {"prefix", "prefill"} -> Prefill(l, M, b)
      [] l.kernel = "pv_expand" -> PvExpand(l, M, b)
      [] l.kernel = "pv_gemm" -> PvGemm(l, M, b)
      [] l.kernel = "pv_copy" -> PvCopy(l, M, b)
      [] l.kernel = "append_query_raw" -> AppendQueryRaw(l, M, b)
      [] l.kernel = "pool_complete" -> PoolComplete(l, M, b)
      [] l.kernel = "index_scores" -> IndexScores(l, M, b)
      [] l.kernel = "topk" -> BlockTopk(l, M, b)
      [] l.kernel = "scores_gqa" -> SelectedScoresGqa(l, M, b)
      [] l.kernel = "scores_partitioned" -> SelectedScoresPartitioned(l, M, b)
      [] l.kernel = "normalize" -> NormalizeSelected(l, M, b)
      [] l.kernel = "values_gqa" -> SelectedValuesGqa(l, M, b)
      [] l.kernel = "values_tiles" -> SelectedValuesFeatureTiles(l, M, b)
      [] l.kernel = "selected" -> SelectedAttention(l, M, b)
-----------------------------------------------------------------------------
NoAttention == [phase |-> "none"]

AttentionInit ==
    acall = NoAttention /\ launches = <<>> /\ blocks = {} /\ memory = <<>>

\* The call is dispatched: a sparse one is rejected before anything is changed
\* unless its mask is causal.
Attend(a) ==
    /\ acall = NoAttention
    /\ memory' = MemoryFor(a)
    /\ IF a.device = "cuda" /\ a.op = "qsa" /\ ~ValidateCausalMask(a)
       THEN /\ acall' = [phase |-> "rejected", a |-> a]
            /\ UNCHANGED <<launches, blocks>>
       ELSE /\ acall' = [phase |-> "running", a |-> a]
            /\ launches' = LaunchesOf(a)
            /\ blocks' = LaunchesOf(a)[1].blocks

\* A block of the launch that is running, or a job of the pool.
RunBlock(b) ==
    /\ blocks' = blocks \ {b}
    /\ memory' = Effect(Head(launches), memory, b)
    /\ UNCHANGED <<acall, launches>>

\* All of them have run: the next launch, or the end of the call.
NextLaunch ==
    /\ acall.phase = "running" /\ blocks = {}
    /\ launches' = Tail(launches)
    /\ blocks' = IF Len(launches) > 1 THEN launches[2].blocks ELSE {}
    /\ acall' = IF Len(launches) > 1 THEN acall ELSE [acall EXCEPT !.phase = "done"]
    /\ UNCHANGED memory

AttentionNext ==
    \/ \E a \in AttentionCalls : Attend(a)
    \/ \E b \in blocks : RunBlock(b)
    \/ NextLaunch
-----------------------------------------------------------------------------
\* The complete groups before position v that have the best scores, and their keys.
Better(i, g, f) == IndexLogit(i, g) > IndexLogit(i, f) \/ (IndexLogit(i, g) = IndexLogit(i, f) /\ g < f)
BestKeys(a, i, v) ==
    LET complete == 0..(v \div a.ratio - 1)
        best == {g \in complete :
                   Cardinality({f \in complete : Better(i, f, g)}) < a.budget \div a.ratio}
    IN {j \in 0..(v - 1) : j \div a.ratio \in best \/ j \div a.ratio = v \div a.ratio}

\* The keys that query i attends to.
Attended(a, i) ==
    LET mask == IF a.mask = "none" /\ a.causal THEN "causal" ELSE a.mask
        seen == {j \in 0..(Keys(a) - 1) : ~MaskHides(a, mask, i * Keys(a) + j)}
    IN CASE a.device = "cuda" /\ a.op = "qsa" -> BestKeys(a, i, Least(Keys(a), a.past + i + 1))
         [] a.device # "cuda" /\ Sparse(a) ->
              {j \in seen : \E s \in DOMAIN a.selection[i + 1] : a.selection[i + 1][s] = j}
         [] OTHER -> seen

\* r is the softmax of the scores of those keys, times their values: each once.
IsAttention(a, h, i, r) ==
    LET keys == Attended(a, i)
        row(j) == <<HeadOf(a, h), j>>
        exponent(j) == Logit(h, i, row(j)) - r.m
        sinks == IF a.sink THEN 1 ELSE 0
        exponents == {t[2] : t \in r.den}
    IN  /\ {<<t[2], t[3]>> : t \in r.num} = {<<row(j), exponent(j)>> : j \in keys}
        /\ Cardinality(r.num) = Cardinality(keys) /\ Cardinality(r.den) = Cardinality(keys) + sinks
        /\ \A x \in exponents :
             Cardinality({t \in r.den : t[2] = x}) =
               Cardinality({j \in keys : exponent(j) = x})
                 + (IF a.sink /\ SinkLogit(h) - r.m = x THEN 1 ELSE 0)

(* Once a call returns, on every device, for every shape and in whatever     *)
(* order its blocks ran: each part of each output row is the attention of    *)
(* its query to the rows it may see, those appended by the call among them;  *)
(* the cache then holds those rows too, and its length is still the old one  *)
(* unless the call was a sparse one of the CPU.  A call that was rejected    *)
(* has changed nothing.                                                      *)
AttentionIsExact ==
    /\ acall.phase = "done" =>
         /\ \A o \in DOMAIN memory.O : IsAttention(acall.a, o[1], o[2], memory.O[o])
         /\ acall.a.cache # "none" =>
              \A x \in DOMAIN memory.K :
                  LET row == <<x \div acall.a.capacity, x % acall.a.capacity>>
                      kept == IF row[2] < Keys(acall.a) THEN row ELSE Unwritten
                  IN memory.K[x] = kept /\ memory.V[x] = kept
         /\ memory.length = IF CpuSparseCall(acall.a) THEN Keys(acall.a) ELSE acall.a.past
    /\ acall.phase = "rejected" => memory = MemoryFor(acall.a)

(* The blocks of a launch do not disturb each other: two of them leave the   *)
(* same memory in either order.                                              *)
BlocksCommute ==
    launches # <<>> /\ blocks = Head(launches).blocks =>
        LET run(M, b) == Effect(Head(launches), M, b)
        IN \A b, c \in blocks : b # c => run(run(memory, b), c) = run(run(memory, c), b)
=============================================================================
