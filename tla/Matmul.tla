------------------------------- MODULE Matmul -------------------------------
(***************************************************************************)
(* The CPU matmul (kernels/cpu/matmul): kernel_matmul_fp32 and             *)
(* kernel_matmul_batch choose a kernel for the format of the weight and    *)
(* the processor, divide the output into jobs for the thread pool, and     *)
(* apply the fused activation.  A decode hands the same tensor to several  *)
(* FP8 weights, so matmul_w8.cpp keeps its quantisation for the rest of    *)
(* the execution of the graph.                                             *)
(*                                                                         *)
(* A call is a record: platform, format and package of the weight, m, n    *)
(* and k, threads, the activation act, the grouping of the scales, and     *)
(* batch: 0 for kernel_matmul_fp32, else the pairs of the batch.  An       *)
(* element of the activation is tagged with the version of its buffer, one *)
(* of weight w with -w.  Of a cell we keep whether it holds the sum that   *)
(* was asked for, and how often the activation was applied to it.          *)
(***************************************************************************)
EXTENDS DenseMatmul, Fp4Matmul, Nvfp4Matmul, GgufMatmul, Int4Matmul, TLC

CONSTANTS
    Calls,          \* the calls that may come first
    LaterCalls,     \* those that may follow, in the same execution or later
    Buffers,        \* the buffers activations are in
    External,       \* those of them the pool does not own: storage_id is 0
    ReuseWorkspace, \* every node has a buffer of its own (decode, execute.cpp:514)
    MaxVersion,     \* bound: the tensors a buffer holds, one after the other
    MaxGeneration   \* bound: the executions of the graph

ASSUME MatmulAssumption ==
    /\ LaterCalls \subseteq Calls /\ External \subseteq Buffers
    /\ ReuseWorkspace \in BOOLEAN /\ {MaxVersion, MaxGeneration} \subseteq Nat

VARIABLES
    version,        \* which tensor each buffer holds
    written,        \* the buffers written since the execution began
    generation,     \* g_activation_quant_generation
    cache,          \* g_activation_quant_cache
    call,           \* the call, its buffers, the versions it uses, and how far it is
    todo,           \* the jobs no thread has run yet: sets of pieces
    C               \* the outputs, by weight, row and column

vars == <<version, written, generation, cache, call, todo, C>>

-----------------------------------------------------------------------------
(* matmul_sparse.cpp: the product of a vector most of whose values are      *)
(* zero, c.zeros, and an FP16 or INT8 weight in tiles of columns.  c.sparse  *)
(* says that the node asks for it.                                           *)
NonZero(c) == (0..(c.k - 1)) \ c.zeros
\* From so many values on the dense kernels do it; INT4 has a limit of zero.
DensityLimit(c) ==
    CASE c.format = "fp16" -> (c.k * 4) \div 5
      [] c.format = "int8" -> (c.k * 9) \div 100
      [] OTHER -> 0
GemvSparseA(c) ==
    /\ c.sparse /\ c.m = 1 /\ Neon(c) /\ c.package = "rows"
    /\ c.format = "fp16" \/ (c.format = "int8" /\ InterleavedInt8(c))
    /\ Cardinality(NonZero(c)) < DensityLimit(c)

SparsePlan(c) ==
    [kernel |-> "gemv_sparse", act |-> "call",
     jobs |-> IF c.threads > 1 /\ c.n >= GemvChunk
              THEN ByColumns(c, Most(GemvChunk, Chunks(c.n, c.threads * ChunksPerThread) * Tile))
              ELSE Whole(c)]

\* A tile of columns, position by position of those that are not zero.
SparseProducts(c, A, W, j, n) ==
    LET tile == TileFrom(j.nb, n)
        lane == n - tile
        scale(i) == CASE c.format = "fp16" -> Exact
                      [] c.format = "int8" /\ c.groups = 1 /\ tile + Tile <= c.n -> W.scales[tile + lane, 0]
                      [] OTHER -> W.scales[tile + lane, Least(i \div c.group, c.groups - 1)]
    IN  {<<i, A[0, i], Exact, W.packed[tile \div Tile, i, lane], scale(i)>> : i \in NonZero(c)}
-----------------------------------------------------------------------------
Int8Weight(c, t) ==
    LET rows == RowMajor(t, c.n, c.k)
    IN [rows |-> rows, scales |-> RowMajorScales(t, c.n, c.groups),
        packed |-> IF Q8Repacked(c) THEN PackQ8Dot(rows, c.n, c.k)
                   ELSE PackInterleavedInt8(rows, c.n, c.k)]
DenseWeight(c, t) ==
    LET rows == RowMajor(t, c.n, c.k)
    IN [rows |-> rows,
        packed |-> IF c.format = "bf16" THEN PackUpperHalves(rows, c.n, c.k)
                   ELSE PackInterleaved(rows, c.n, c.k)]
Dense(c) == c.format \in {"fp32", "bf16", "fp16"}

\* kernel_gemv_sparse_a, and kernel_matmul_fp32: by the format of the weight.
Plan(c) ==
    CASE GemvSparseA(c) -> SparsePlan(c)
      [] c.format = "int4" -> Int4Plan(c)
      [] c.format = "int8" /\ ~GemvSparseA(c) -> Int8Plan(c)
      [] c.format = "mxfp4" -> Mxfp4Plan(c)
      [] c.format = "nvfp4" -> Nvfp4Plan(c)
      [] Gguf(c) -> GgufPlan(c)
      [] c.format \in {"fp8", "fp8_f32"} -> Fp8Plan(c)
      [] Dense(c) /\ ~GemvSparseA(c) -> DensePlan(c)
Products(c, kernel, j, A, w, m, n) ==
    CASE GemvSparseA(c) ->
           SparseProducts(c, A, IF Dense(c) THEN DenseWeight(c, -w) ELSE Int8Weight(c, -w), j, n)
      [] c.format = "int4" -> Int4Products(c, kernel, j, A, Int4Weight(c, -w), m, n)
      [] c.format = "int8" /\ ~GemvSparseA(c) -> Int8Products(c, kernel, j, A, Int8Weight(c, -w), m, n)
      [] c.format = "mxfp4" -> Mxfp4Products(c, kernel, j, A, Mxfp4Weight(c, -w), m, n)
      [] c.format = "nvfp4" -> Nvfp4Products(c, kernel, j, A, Nvfp4Weight(c, -w), m, n)
      [] Gguf(c) -> GgufProducts(c, j, A, -w, m, n)
      [] c.format \in {"fp8", "fp8_f32"} -> Fp8Products(c, kernel, j, A, Fp8Weight(c, -w), m, n)
      [] Dense(c) /\ ~GemvSparseA(c) -> DenseProducts(c, kernel, j, A, DenseWeight(c, -w), m, n)
-----------------------------------------------------------------------------
(* kernel_matmul_batch: one job for several vectors, where a format allows *)

Weights(c) == 1..Most(1, c.batch)
InputIndex(bs, w) == Min({v \in DOMAIN bs : bs[v] = bs[w]})

\* One range of columns, for every weight.
EveryWeight(c, jobs) == {{[w |-> w, r |-> r] : w \in Weights(c)} : r \in jobs}
\* The tiles of all outputs, one after the other.
FlatTiles(c) ==
    LET tiles == Chunks(c.n, Tile)
        piece(range, w) == [w |-> w, r |-> [mb |-> 0, me |-> 1,
            nb |-> (Most(range[1], (w - 1) * tiles) - (w - 1) * tiles) * Tile,
            ne |-> Least(c.n, (Least(range[2], w * tiles) - (w - 1) * tiles) * Tile)]]
        within(range) == {w \in Weights(c) : Most(range[1], (w - 1) * tiles) < Least(range[2], w * tiles)}
    IN {{piece(range, w) : w \in within(range)} :
          range \in Ranges(c.batch * tiles, Most(1, GemvChunk \div Tile), c.threads)}

Int4Batch(c) ==
    /\ c.format = "int4" /\ c.batch >= 2 /\ c.threads >= 2 /\ DotProd(c) /\ c.k % Block = 0
    /\ \/ c.group = Block /\ HasG32(c)
       \/ c.group = Group /\ c.package = "g128"
Int8Batch(c) ==
    \/ c.format = "int8" /\ Q8Repacked(c)
    \/ c.format = "fp8" /\ Fp8Sidecar(c)
Mxfp4Batch(c) == c.format = "mxfp4" /\ ~c.exact
Fp32Batch(c) == c.format \in {"fp32", "bf16"} /\ c.threads > 1 /\ c.batch >= 2

BatchPlan(c) ==
    LET plan(kernel, jobs) == [kernel |-> kernel, jobs |-> jobs, act |-> "call"]
        columns == EveryWeight(c, ByColumns(c, GemvGrain(c)))
    IN  CASE Int4Batch(c) -> plan(Q4GemvKernel(c), columns)
          [] Int8Batch(c) -> plan("q8dot_gemv_repack", columns)
          [] Mxfp4Batch(c) ->
               plan("mxfp4_q8_gemv",
                    {{[w |-> w, r |-> r]} : w \in Weights(c), r \in ByTiles(c, 1, GemvChunk)})
          [] Nvfp4Batch(c) -> plan(Nvfp4Q8Kernel(c), EveryWeight(c, Nvfp4BatchJobs(c)))
          [] GgufBatch(c) ->
               plan("gguf", {{[w |-> w, r |-> r]} : w \in Weights(c), r \in ByTiles(c, 1, GemvChunk)})
          [] Fp32Batch(c) ->
               plan(IF c.format = "bf16" /\ Neon(c) THEN "bf16_gemv" ELSE "fp32", FlatTiles(c))
Batched(c) ==
    /\ c.batch > 0 /\ c.m = 1
    /\ Int4Batch(c) \/ Int8Batch(c) \/ Mxfp4Batch(c) \/ Nvfp4Batch(c) \/ GgufBatch(c)
       \/ Fp32Batch(c)

\* The plan of what starts with weight w: all of the batch, or w alone.
PlanOf(c, w) ==
    IF Batched(c) THEN BatchPlan(c)
    ELSE [Plan(c) EXCEPT !.jobs = {{[w |-> w, r |-> r]} : r \in Plan(c).jobs}]
-----------------------------------------------------------------------------
(* cached_fp8_q8_activation *)

\* An entry is found by the tensor's memory and shape, not by what it holds.
Cached(c, b) ==
    /\ c.format = "fp8" /\ ~c.exact /\ Fp8Sidecar(c) /\ c.m = 1 /\ ~Batched(c) /\ b \notin External
Key(c, b) == <<b, c.k>>
Entry(c, b) == [key |-> Key(c, b), generation |-> generation, version |-> version[b]]
Found(c, b) == {i \in DOMAIN cache : cache[i].key = Key(c, b)}
Reusable == {i \in DOMAIN cache : cache[i].generation # generation}
CacheWith(c, b) ==
    IF Found(c, b) # {}
    THEN LET i == Min(Found(c, b))
         IN IF cache[i].generation = generation THEN cache ELSE [cache EXCEPT ![i] = Entry(c, b)]
    ELSE IF Reusable # {} THEN [cache EXCEPT ![Min(Reusable)] = Entry(c, b)]
    ELSE Append(cache, Entry(c, b))
-----------------------------------------------------------------------------
Idle == call.phase # "running"
Outputs(c) == Weights(c) \X (0..(c.m - 1)) \X (0..(c.n - 1))
NoCall == [phase |-> "none"]

Init ==
    /\ version = [b \in Buffers |-> 0] /\ written = Buffers
    /\ generation = 1 /\ cache = <<>>
    /\ call = NoCall /\ todo = {} /\ C = <<>>

\* CPUBackend::begin_execution: what was quantised before is out of date.
BeginExecution ==
    /\ Idle /\ generation < MaxGeneration
    /\ generation' = generation + 1 /\ written' = {}
    /\ call' = NoCall /\ C' = <<>>
    /\ UNCHANGED <<version, cache, todo>>

\* A node writes its output.
Write(b) ==
    /\ Idle /\ version[b] < MaxVersion
    /\ ReuseWorkspace => b \notin written
    /\ version' = [version EXCEPT ![b] = @ + 1] /\ written' = written \cup {b}
    /\ call' = NoCall /\ C' = <<>>
    /\ UNCHANGED <<generation, cache, todo>>

\* The call begins with weight w: its activation is quantised, its jobs queued.
Begin(c, bs, w, used) ==
    LET b == bs[w]
        cached == CacheWith(c, b)
        stored == cached[Min({i \in DOMAIN cached : cached[i].key = Key(c, b)})]
    IN  /\ todo' = PlanOf(c, w).jobs
        /\ IF Cached(c, b)
           THEN /\ cache' = cached
                /\ call' = [phase |-> "running", c |-> c, bs |-> bs, w |-> w,
                            used |-> [used EXCEPT ![w] = stored.version]]
           ELSE /\ cache' = cache
                /\ call' = [phase |-> "running", c |-> c, bs |-> bs, w |-> w, used |-> used]

\* A node reads what a node before it wrote, or an input of the graph.
Fresh == generation = 1 /\ call = NoCall /\ \A b \in Buffers : version[b] = 0
Dispatch(c, bs) ==
    /\ \A w \in Weights(c) : bs[w] \in written \cup External
    /\ Begin(c, bs, 1, [w \in Weights(c) |-> version[bs[InputIndex(bs, w)]]])
    /\ C' = [o \in Outputs(c) |-> [sum |-> "unset", acts |-> 0]]
    /\ UNCHANGED <<version, written, generation>>

\* Is P the product of row m of what the buffer of w holds now and of row n of w?
\* Each position once, with the scales of both; MXFP4 adds what its rounding lost.
Values(c, a) ==
    LET fp8 == a \o <<0>>
    IN  CASE c.format = "mxfp4" /\ ~c.exact -> {Rounded(fp8, Block), Residual(Rounded(fp8, Block))}
          [] c.format = "fp8" \/ (c.format = "mxfp4" /\ c.exact) -> {a, fp8, Rounded(fp8, Block)}
          [] OTHER -> {a, Rounded(a, Block), Rounded(a, Group)}
ScaleOf(a) ==
    LET tail == SubSeq(a, 4, Len(a))
        size == IF tail[1] = 0 THEN tail[2] ELSE tail[1]
    IN  IF tail \in {<<>>, <<0>>} THEN Exact
        ELSE <<a[2], size, a[3] \div size>> \o SubSeq(tail, 3, Len(tail))
WeightScale(c, b) ==
    CASE Dense(c) -> Exact
      [] c.format = "mxfp4" -> <<b[1], b[2], b[3] \div Block>>
      [] c.format = "nvfp4" -> <<b[1], b[2], b[3] \div Each, b[2]>>
      [] Gguf(c) -> <<b[1], b[2], b[3] \div Span(c)>>
                      \o (IF HasMinimum(c) THEN <<b[3] \div Span(c)>> ELSE <<>>)
      [] c.format \in {"fp8", "fp8_f32"} -> <<b[1], b[2] \div Group, b[3] \div Group>>
      [] OTHER -> <<b[1], b[2], b[3] \div c.group>>
IsProduct(c, P, w, m, n) ==
    LET live == {p \in P : p[2] # Pad /\ p[4] # Pad}
        source(i) == <<version[call.bs[w]], m, i>>
        parts == IF c.format = "mxfp4" /\ ~c.exact THEN {5, 6} ELSE {0}
        part(p) == IF parts = {0} THEN 0 ELSE Len(p[2])
    IN  /\ \A p \in live :
             /\ Len(p[4]) = 3 /\ p[4] = <<-w, n, p[4][3]>> /\ p[5] = WeightScale(c, p[4])
             /\ p[2] \in Values(c, source(p[4][3])) /\ p[3] = ScaleOf(p[2])
        /\ {<<p[4][3], part(p)>> : p \in live} = NonZero(c) \X parts
        /\ Cardinality(live) = Cardinality(NonZero(c)) * Cardinality(parts)

\* A thread of the pool runs a job.
RunJob(job) ==
    LET c == call.c
        plan == PlanOf(c, call.w)
        kept(piece, o) == o[1] = piece.w /\ o[2] \in piece.r.mb..(piece.r.me - 1)
                                         /\ o[3] \in piece.r.nb..(piece.r.ne - 1)
        acts(r, n) ==
            CASE plan.act = "fused" /\ c.format = "nvfp4" -> Nvfp4FusedActs(c, plan.kernel, r, n)
              [] plan.act = "fused" /\ c.format # "nvfp4" -> DenseFusedActs(c, plan.kernel, r, n)
              [] plan.act = "job" ->
                   IF n - r.nb \in AppliedTo(LocalActivation(c.act, r), r.ne - r.nb) THEN 1 ELSE 0
              [] plan.act = "call" -> 0
        cell(o, r) ==
            LET A == [x \in (0..(c.m - 1)) \X (0..(c.k - 1)) |->
                        IF x[2] \in c.zeros THEN Pad ELSE <<call.used[o[1]], x[1], x[2]>>]
            IN [sum |-> IF IsProduct(c, Products(c, plan.kernel, r, A, o[1], o[2], o[3]),
                                     o[1], o[2], o[3])
                        THEN "product" ELSE "garbage",
                acts |-> acts(r, o[3])]
    IN  /\ call.phase = "running"
        /\ todo' = todo \ {job}
        /\ C' = [o \in DOMAIN C |->
                   IF \E piece \in job : kept(piece, o)
                   THEN cell(o, (CHOOSE piece \in job : kept(piece, o)).r)
                   ELSE C[o]]
        /\ UNCHANGED <<version, written, generation, cache, call>>

\* The pool returns to the dispatcher, which applies what it has kept for itself
\* and, where kernel_matmul_batch goes weight by weight, takes the next one.
Finish ==
    LET c == call.c
        done == IF Batched(c) THEN Weights(c) ELSE {call.w}
        columns == IF PlanOf(c, call.w).act = "call" THEN AppliedTo(c.act, c.n) ELSE {}
    IN  /\ call.phase = "running" /\ todo = {}
        /\ C' = [o \in DOMAIN C |->
                   IF o[1] \in done /\ o[3] \in columns THEN [C[o] EXCEPT !.acts = @ + 1] ELSE C[o]]
        /\ IF Batched(c) \/ call.w = Most(1, c.batch)
           THEN /\ call' = [call EXCEPT !.phase = "done"]
                /\ UNCHANGED <<cache, todo>>
           ELSE Begin(c, call.bs, call.w + 1, call.used)
        /\ UNCHANGED <<version, written, generation>>

Next ==
    \/ BeginExecution
    \/ \E b \in Buffers : Write(b)
    \/ Idle /\ \E c \in (IF Fresh THEN Calls ELSE LaterCalls) : \E bs \in [Weights(c) -> Buffers] : Dispatch(c, bs)
    \/ \E job \in todo : RunJob(job)
    \/ Finish

Spec == Init /\ [][Next]_vars
-----------------------------------------------------------------------------
(* Once a call returns, whatever order the threads ran the jobs in: every    *)
(* output cell is the sum of the products of its row of the activation, as   *)
(* it is now, and its row of the weight, each position once and with its own *)
(* scales, and the fused activation was applied to it once if it is among    *)
(* the columns asked for, else never.                                        *)
OutputsAreProducts ==
    call.phase = "done" =>
        \A o \in DOMAIN C :
            /\ C[o].sum = "product"
            /\ C[o].acts = IF AppliesAt(call.c.act, o[3]) THEN 1 ELSE 0

(* What the linears of one execution share is exact: a call that takes the    *)
(* quantised activation from the cache takes that of the tensor it reads      *)
(* (matmul.h:154).                                                            *)
SharedActivationIsExact ==
    call # NoCall => \A w \in Weights(call.c) : call.used[w] = version[call.bs[w]]

(* Two threads never write the same output: the jobs not yet run have no cell *)
(* in common, nor one that a job has already written.                         *)
CellsHaveOneWriter ==
    LET cells(job) ==
            UNION {{piece.w} \X (piece.r.mb..(piece.r.me - 1)) \X (piece.r.nb..(piece.r.ne - 1)) :
                     piece \in job}
    IN  /\ \A job \in todo : \A o \in cells(job) : o \in DOMAIN C /\ C[o].sum = "unset"
        /\ \A a, b \in todo : a # b => cells(a) \cap cells(b) = {}
=============================================================================
