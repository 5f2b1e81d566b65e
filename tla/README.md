# Palm-Infra in TLA+

TLA+ models of the parts of this repository whose correctness rests on the order
of steps: the SSD expert cache, the MoE layer that computes over it, the compute
thread pool, the execution of a graph on pooled buffers, the state that kernels
keep from run to run, the CPU matmul in its weight formats and processors, the
attention kernels of CPU and CUDA, the
text state of the inference engine and the chat
server's prefix cache. TLC checks small
instances; TLAPS proves the safety properties of six of them for every size.

Definitions keep the names of the source (`request_many_impl` is `RequestMany`,
`pending_reads` is `pending_reads`), and `PROJECT.json` gives the source lines
of each one under `map`. Paths below are relative to `src/`.

| Component | Code | Modules | Checked | Proved |
|---|---|---|---|---|
| SSD expert cache: threads | `storage/ssd_expert_cache/` | `ExpertCache`, `MCExpertCache` | 2 runs | `ExpertCacheProofs` |
| its promise to the kernels | `runtime/expert_provider.h` | `ExpertProvider` | refinement | refinement |
| SSD expert cache: policy | `storage/ssd_expert_cache/cache.cpp` | `ExpertPolicy` | with the MoE layer | - |
| MoE layer, routing, prediction | `kernels/cpu/moe/`, `backends/cpu/ssd_prefetch.cpp` | `ExpertRouting`, `ExpertPolicy`, `MoeLayer`, `MCMoeLayer` | 1 run | `MoeLayerProofs` |
| compute thread pool | `runtime/threading.*` | `Sharding`, `ThreadPool`, `MCThreadPool` | 1 run | `ThreadPoolProofs` |
| its promise to the kernels | `runtime/threading.h` | `ForkJoin` | refinement | refinement |
| graph execution | `graph/execute.*`, `graph/graph.h` | `ReleasePlan`, `GraphExecution`, `MCGraphExecution` | 2 runs | `GraphExecutionProofs` |
| buffer pools | `runtime/host_buffer_pool.*`, `backends/` | `BufferPool` | with the graph | `GraphExecutionProofs` |
| kernels that keep state | `kernels/cpu/attention.cpp`, `kernels/cpu/models/`, `kernels/cpu/recurrent/` | `AttentionKernels`, `CompressedAttention`, `RecurrentKernels`, `TextStream`, `MCTextStream` | 2 runs | `TextStreamProofs` |
| CPU matmul | `kernels/cpu/matmul/`, `kernels/cpu/x86/`, `kernels/cpu/arm/` | `MatmulLayouts`, `DenseMatmul`, `Int8Matmul`, `Int4Matmul`, `Fp4Matmul`, `Nvfp4Matmul`, `GgufMatmul`, `Matmul`, `MCMatmul` | 2 runs | - |
| CPU attention | `kernels/cpu/attention.cpp`, `kernels/cpu/x86/` | `FlashAttention`, `Attention`, `Kernels`, `MCKernels` | with the matmul | - |
| CUDA attention | `kernels/cuda/attention.cu`, `kernels/cuda/qsa.cu`, `backends/cuda/dispatch.cu` | `DeviceAttention`, `SparseIndexer`, `Attention` | with the matmul | - |
| engine text state | `engine/engine.cpp` | `Engine`, `MCEngine` | 1 run | `EngineProofs` |
| its promise to callers | `engine/engine.h` | `Autoregressive` | refinement | refinement |
| chat server, prefix cache | `examples/server.cpp`, `examples/cli_common.cpp` | `ChatServer` | 1 run | `ChatServerProofs` |

To run one: `tlc -config MCEngine_safety.cfg MCEngine`; to check the proofs:
`tlapm ExpertCacheProofs.tla`.

## 1. The system

Palm-Infra runs large mixture-of-experts language models on one machine. A
package file holds the graph and the weights; the experts of a model that does
not fit in memory stay on the SSD and are read on demand.

**Inference engine** (`engine/engine.cpp`). State: the KV caches and the length
in their metadata, recurrent states (GDN, short convolution, RWKV), the cache
of an MTP draft head which is shifted by one against the target, the pending
hidden state, `past_len_`, `mtp_past_len_`, the sampler's history. Operations:
`load`, `reset`, `prefill` (in chunks), `decode`, `speculative_decode` (draft,
checkpoint, verify, accept, roll back, replay, resynchronize). Single-threaded;
hard because several pieces of state must tell the same text after any
sequence of calls, any pattern of accepted drafts and any failed step.

**Chat server and REPL** (`examples/server.cpp`, `main.cpp`, `cli_common.cpp`).
State: `cached_tokens`, what the server believes the engine has consumed.
Operations: one request at a time: prefix lookup, admission, `generate_tokens`,
cache update. Hard because its belief and the engine's state must never part,
also after divergence, failure, an end-of-text token inside a speculative reply.

**SSD expert cache** (`storage/ssd_expert_cache/`). State, under one `mutex_`:
the table of resident entries with `state`, `pending_reads`, `pins`; the demand
and advisory read queues; a queue of cross-layer predictions. Threads: compute
threads (`request_many`, `borrow`, leases, `release`), I/O workers, the
cross-layer predictor (`prefetch_many`), the owner (`clear_resident`, `open`,
`stop_io_workers`). Hard because reads and notifies happen outside the mutex,
raw `Entry` pointers survive the unlock, entries are evicted, recycled and
retried meanwhile, and one condition variable serves three kinds of waiters.

**MoE layer** (`kernels/cpu/moe/moe.cpp`, `moe_routing.cpp`,
`backends/cpu/ssd_prefetch.cpp`, scheduled by `graph/execute.cpp`). State: the
routes of a run, the experts computed ahead of their turn, the streaming window;
in the cache, what was used, predicted and retained by which layer. Operations:
route, retain, request, borrow in ready batches or in turn, compute, evict and ask
for the next, predict the next layer. Hard because the cache may hold fewer pairs
than a route has, reads end in any order, the predictor competes for the same
places, and the output must not depend on any of it.

**Compute thread pool** (`runtime/threading.*`). State: `job_` with its
generation, `pending_workers_`, one ready flag per worker, `parked_`, `stop_`.
Operations: `parallel_for`, `parallel_for_2d`, `park`, `resume`, `resize`.
Hard because almost all of it is lock-free handshakes on spinning flags.

**Buffer pools** (`runtime/host_buffer_pool.*`, the output pools of
`backends/cuda/device_runtime.cu` and of the Metal backend). State: free buffers
in size classes, the active allocations. Operations: acquire, release, clear.

**Graph execution** (`graph/execute.cpp`, with the cleanups in
`engine/engine.cpp`). State: the release plan, each tensor's storage, the
producers deferred to their consumers, the cursor of a segmented call, the shape
key of a workspace kept for the next pass. Operations: `prepare_execution`,
`execute_graph` (whole, up to a stop node, or in segments), the release of
temporaries, borrowed views and buffers. Sequential; hard because storage is
shared by chains of views, owners and views are told apart in three places, and
fusion delays the readers of a buffer.

**Kernels that keep state** (`kernels/cpu/`). State: KV and latent caches, the
key cache of a sparse indexer, the compressor's state and cache, a window ring,
recurrent, convolution, token-shift and n-gram states. Operations: one run of the
layer on a chunk of rows. Hard because a text reaches them in chunks of any
length, padded or not, and drafts are appended before they are rejected.

**CPU matmul** (`kernels/cpu/matmul/`, the kernels of `kernels/cpu/x86` and
`arm`). State: weights packed at load, a thread's cache of quantised activations.
Operations: `prepare_matmul_weight`, `kernel_matmul_fp32`, `kernel_matmul_batch`.
Hard because a dozen layouts, as many quantisations and some forty kernels must
agree on every tail, and because one call is divided among threads in six ways with
a fused activation applied in three places.

**Attention** (`kernels/cpu/attention.cpp`, `kernels/cuda/attention.cu`,
`kernels/cuda/qsa.cu`). State: the KV cache, the raw and pooled keys of the indexer,
scratch rows of scores, one flag that a mask was found to be causal. Operations: `SDPA`,
`SDPA_SPARSE`, `QSA_INDEXER`, `QSA_SDPA`. Hard because one result is computed by some
twenty kernels chosen by shape, precision and device; because a softmax is added up
block by block under a maximum that moves; and because the blocks of a CUDA launch run
in any order while one of them appends the row the others read.

**CUDA host memory** (`cuda_host_memory_budget.h`, `cuda_host_memory_watchdog.h`).
A saturating budget and a sampling thread. *Not modelled.*

**Packages** (`engine/model_loader.cpp`, `engine/package.cpp`,
`storage/byte_ranges.cpp`, `storage/mapped_file.cpp`). Parsing, validation, byte
ranges kept out of warm-up. *Not modelled.*

**Other stateless kernels, CUDA and Metal twins** (`kernels/`, `backends/`). *Not
modelled*: their correctness is about numbers.

**Tokenizers, sampling arithmetic, vision; converters and tools** (`engine/`,
`models/`, `tools/`). *Not modelled*: pure functions over large data, offline
scripts.

How they interact: the server calls the engine; the engine binds inputs, runs
graphs and cleans up after them; the executor takes buffers from the backend's
pool and calls the kernels; stateful kernels read the cache length the engine
wrote; the MoE kernel requests the experts of its routes from the cache,
borrows them as leases and dispatches the arithmetic to the thread pool; the
engine clears, reopens and destroys the cache between graph runs, and parks the
pool between replies.

## 2. What is hard

`PROJECT.json` lists the hazards at their lines. The main ones, and the
properties that stand against them:

- a worker writes buffers of an entry that was evicted, cleared or recycled
  while it read without the lock: `ReadsMatchEntries`,
  `LeasesHoldTheirWeights`;
- a pin is dropped twice or never when a read fails, a borrow waits, a slot is
  missing: `PinsAreHolders`;
- a sleeper on `ready_cv_`, `io_cv_` or `park_cv_` misses the only notify:
  `NoLostWakeup`, `NoWorkerIsForgotten`, and the liveness
  properties `BorrowReturns`, `StopCompletes`, `CallReturns`, `StopJoins`;
- a pair becomes resident twice, because a borrower that waited for a slot did not look
  again: `CapacityRespected`;
- several reservations in one critical section exceed the capacity or a layer's share:
  `MoeTypeOK`, where the room test of each reservation is `Full` (in `ExpertCache` the
  capacity is part of what a reservation may choose, so there the bound says little);
- experts are summed in the order their reads end, twice, not at all or from
  weights that are gone; a tie or the last group is routed otherwise: `OutputsAddUp`;
- a prediction evicts what the running layer is waiting for: `AdviceSparesRoute`;
- a streamed route ends up waiting for a place nobody frees: `PassesEnd`;
- a late worker runs the function of a call that has returned, a worker is
  counted twice or not at all, a flag is wiped: `NoLateWorker`,
  `PendingCountsUnfinished`, `NoWorkerIsForgotten`;
- a shard or a tile is left out or done twice: `ForkJoinSpec`;
- a buffer is freed while a view of it, a deferred producer or a stateful
  operator still reads it: `PlanSparesReaders`, `LiveValuesIntact`;
- a buffer is freed twice or lost because a view is taken for an owner:
  `OwnersAreExact`;
- a kept workspace is too small for the next pass: `LiveValuesIntact`;
- a producer is deferred past the end of its segment: `NothingLeftDeferred`;
- a row of a chunk attends to its own future, to padding, to a rejected draft
  or to what an earlier text left behind: `OutputsFollowText`;
- a kernel, a packer or a quantiser treats a tail otherwise than the others, takes the
  scale of another group, or applies an activation twice: `OutputsAreProducts`;
- two threads write the same output, a block of a launch reads what another writes:
  `JobsAreIndependent`;
- a block of scores is added under another maximum, a key is left out or taken twice, the
  sink is forgotten, a hidden key is skipped on the word of a validation that failed, a
  tie among the best groups is broken otherwise: `AttentionIsExact`;
- a linear multiplies the quantisation of another tensor: `SharedActivationIsExact`;
- a rejected draft stays in a recurrent state, the draft head slips by one,
  penalties see the wrong text: `StateTellsOneText`, `MtpFollowsText`,
  `SampledFromItsHistory`, `ImplementsPlain`;
- the server reuses a prefix the engine does not hold: `CacheIsEngineText`,
  `ReplyContinuesPrompt`.

One hazard has no property: a request only *touches* the members of its route it
finds, and a touched pair still ranks below another layer's retained history, so
the request may evict a member of its own route (`storage/ssd_expert_cache/cache.cpp:1246`
says "Protect every resident member"). It costs a read, nothing else; the policy is
in the model, so `OutputsAddUp` and `PassesEnd` hold in spite of it. The workspace
key, the padding near the end of the context and the cache of activations are
findings.

## 3. The models

### ExpertCache, ExpertProvider

One action is one critical section of `mutex_`, or one step outside it. A
compute thread in `borrow()` goes idle -> `kick` (notify the I/O workers after
the unlock) -> `load` (wait for its entry) -> idle, or through `slot` when every
entry of the pool is busy. `Kick`, `NotifyReady` and `WorkerNotify` are
separate steps because the code notifies after it unlocks. A worker takes a job,
reads (success or failure) and completes it in three steps. `Slot` is an `Entry`
object: eviction frees it, a later residency may get the same address.

`RequestMany` contains everything `request_many_impl` does under the lock: drop
failed residencies, promote advisory reads of demanded pairs, evict and
reserve, queue the reads. `Prefetch` is its advisory form: it may
be refused a place sooner, and never waits.

Abstractions: all pairs have one size, so a capacity counts pairs; *which* idle
entry is evicted is left open, so every result holds for any victim policy
(the one of the code is in `ExpertPolicy`); queues are sets, so the order within a priority is open; statistics, byte
accounting and the files are left out. Whole-model residency
(`load_resident`, `borrow_resident_layer`) is not modelled.

`ExpertProvider` is the promise to the kernels, seen through
`Held`: a lease is a handle, the pair, and the bytes now in its buffers; all that
ever happens to it is that it is borrowed with complete weights and given back.

### ExpertRouting, ExpertPolicy, MoeLayer

`ExpertRouting` is `select_moe_routes` (insertion into a sorted list, group scores,
masks) and the routes of each expert; `BestRoute` says what is
chosen without an order of evaluation, and `OutputsAddUp` compares the two.

`ExpertPolicy` is the policy that `ExpertCache` leaves open, one operator per
critical section: `Requested` (touch the residents, then reserve the missing),
`Reserved` with `VictimFor`, `Rank` and `VictimBefore` (stale, left or future layers,
shallow layers, retained pairs, predictions, recency), `Spare` for what an advisory
reservation may evict, `Retaining`, `Aged`. A cache is a record; the epochs are only
compared with the current one, so they are Booleans, and `used_at` is a place in
`recency`. How history is scored and how many predictions pay off are left open.

`MoeLayer` runs passes of the MoE layers over it. `BeginPass` is `run_graph` with the
request for the first hash-routed layer; `Route`, `Retain`, `Request`,
`CountResident` are the beginning of `kernel_qwen3_moe`; `Scan` to `Released` the waves
of ready experts, computed in one dispatch and kept aside; `Scatter` to `Compute` the
experts in the order of their ids; `Advance`, `Look`, `Refill` the streaming window;
`AddShared` the end. `Schedule` and `Predict` are the cross-layer prediction,
`Complete` the end of a read. Every call into the cache is a step of its own: between
two of them the predictor and the reads may do anything. A sum of floats is the
sequence of its terms. Left out: the arithmetic, the accelerated host FFN (which
computes the same batch), reads in several jobs and the queues (`ExpertCache` has
them), parking of the thread pool (`ThreadPool`).

### ThreadPool, ForkJoin

One action is one access to a shared atomic, or one critical section of
`park_mtx_`. The owner publishes `job_` (`Publish`), stores `pending_workers_`
(`SetPending`), raises flags one by one (`RaiseFlag`), does its own share and
spins (`WaitForWorkers`). A worker sees its flag, reads the generation, clears
the flag, works, counts down. `TestPredicate` and `Block` are two steps holding
`park_mtx_`; `WakeSpuriously` lets `park_cv_.wait` return for no reason. `todo`
and `piece` are history: the cells of the call not yet begun, and those a thread
is in. The cells come from the code's own arithmetic (`Shard`, `Tile`).

Abstractions: atomics are sequentially consistent; integers are unbounded;
`begin` is 0; calls with `end <= begin`, which return at once, are left out.

`ForkJoin` is the promise: cells are begun at most once each, and the call
returns when none is left and none is running.

### ReleasePlan, BufferPool, GraphExecution

`ReleasePlan` is `prepare_execution`: it finds what reads each node, passes
lifetimes and retention through every link of a chain of views, and sorts the
owners into batches to be released after a node. Each of its loops is a sequence
of actions, one iteration each, so that the proof can follow the code.
`BufferPool` has the three pools: power-of-two buckets with the last freed
buffer first (host), the smallest free buffer that is enough (CUDA), and releases
that wait for the end of the encoding (Metal).

`GraphExecution` is `execute_graph_impl` and what the engine does around it, one
action per node: `BindInputs`; `Begin` (whole, up to the first stateful node, or a
segment), which forgets the views and frees or keeps the workspace; `DeferNode`
for a producer that a later node will fuse; `RunNode`, which runs a node with
the producers deferred to it, all in one kernel or some of them one by one, and
releases what is due; `FailNode`, `EndPass`, `Resume`, `Abandon`; `Finish`, which
returns the inputs and cleans up as `finish_graph_temporaries`; and
`ReleaseBuffers`. A tensor is its storage, whether it is pooled, its rows and
whether it is dense; a row takes one unit. A buffer's content is the node and the
pass that wrote it, and `seen` records what a node had when it was computed.
`setup` gathers the switches of the backends and the engine (conservative
barriers, fusion, reuse of static or same-shape workspaces, own inputs).
Left out: the pairing of expert layers, trimmed rows, the deferred RMS norm, the
profiler, memory that the system refuses: a pass begins only when `NBuffers` hold its
inputs, and a node waits for a buffer that is never refused, or fails.

The loops over nodes that a step makes whole (binding the inputs, returning owners,
storing a chain) are recursive functions of the rounds done, and each round is an
operator with the body of the code's loop: `InputBound`, `AfterRelease`, `Allocated`.

### AttentionKernels, CompressedAttention, RecurrentKernels, TextStream

Each kernel keeps its indices, bounds and order of reads and writes; a number is
replaced by the tokens it was computed from. `AttentionKernels` has the KV cache
as one memory of `Heads * NCtx` rows, so that a row past the end of a head is the
first row of the next, the sparse indexer and the latent cache.
`CompressedAttention` has the compressor, which pools groups of rows (overlapping
or not) into entries, the selection of entries and the window ring.
`RecurrentKernels` has recurrences, the (dilated) convolution, the token shift
and the n-gram history, each of which must skip padding rows.

`TextStream` drives them as the engine does: `PrefillChunk` of any length up to
that of the graph, padded under `StaticPadded`; `Decode`; `Verify` of several
tokens with a checkpoint, then `AcceptAll`, `RewindLength` or `Restore` and
`Replay`; `Reset`, which clears the auxiliary states but leaves the payload of
the caches. `kind` is chosen at load among six kinds of layers: dense, sparse,
latent, compressed, recurrent, n-gram. `Expected` says what one run over the
whole text would compute; it is written from the text alone.

Left out: the values of attention scores (`KeyScore` and `EntryScore` are
parameters), the CUDA state prefixes. The kernels' arithmetic is in `Attention`.

### MatmulLayouts, Dense-, Int8-, Int4-, Fp4-, Nvfp4-, GgufMatmul, Matmul

A matmul is a sum of products, so a kernel is modelled as the *set* of the products
it adds for an output, each with the addresses it reads: `<<step, a, scale of a, b,
scale of b>>`, where `step` tells two additions of the same product apart. Addresses are
those of the code: `MatmulLayouts` has one function per packer and quantiser from the
index expression of the layout to the element stored there, so a kernel that steps
through a layout otherwise than its packer filled it finds another element, padding,
or memory no one wrote. Rounding is left out (an element of a quantised row is
the element and what it was rounded with), arithmetic too.

It also has the ways a call is divided (`Whole`, `ByColumns`, `ByRows`,
`ByTiles`, over `Shard` of `Sharding`, which the thread pool uses and
`ThreadPoolProofs` is about) and the three places an activation is applied. The format
modules follow one file each: its kernels, then the plan of the dispatcher
(`DensePlan`, `Int8Plan`, `Nvfp4Plan` and so on: kernel, jobs, who applies the
activation) and what a job passes to the kernel. Settings of the process are fields of a
call: `acc16` is `MOLLM_NVFP4_FP16_ACT`, `exact` the F32 path of GGUF weights. `sparse` is
the attribute of the node, and `zeros` the positions whose value is zero, which the sparse kernels skip;
for such a call the products a correct output has are those of the others.

`Matmul` runs them. `Dispatch` begins a call, `RunJob` is any thread running any job
that is left, `Finish` is the return to the dispatcher. `kernel_matmul_batch` is one
plan over all weights where a format has a batch kernel, else one call after the other.
Around the calls, `Write` is a node that writes a buffer and `BeginExecution` the
next run of the graph; `cache` is `g_activation_quant_cache`, searched and
replaced as in `cached_fp8_q8_activation`. The cache is `thread_local`; linears are
dispatched by one thread. `ReuseWorkspace` says that every node has a buffer of its own
for the whole execution, as in decode.

Left out: profiling, and paths no build or package reaches (the 4x8 range of INT4,
`PackedA4 = false`, packages written as `is_q4_repacked`, the 4x8 kernel on unpacked
INT8, the GEMV of interleaved INT8 without dot products on ARM, which the quantised GEMV
precedes, the sparse kernel of INT4, whose limit of density is zero,
`kernels/cpu/matmul/matmul_sparse.cpp:58`).

### FlashAttention, DeviceAttention, SparseIndexer, Attention, Kernels

An attention call appends rows to the cache and makes, for each query and head, a
softmax of the scores of the keys the query may see, times their values. A row of the
cache is the pair of its head and position, a score a small integer, and `exp(x)` is
kept as `x`: what a query has added up is its maximum `m`, a set of terms `num` (value
row and exponent) and a set `den` (exponents), each with a tag so that a term added twice
counts twice. Rescaling by `exp(m - m')` adds to the exponents. A dot product is the set
of the dimensions its loops of falling width take; if one is missing or double, the score
is `Garbage`.

`FlashAttention` has the CPU kernels: online softmax in FP32 and FP16, their
prefill twins, those that address keys through a selection, the naive ones and AVX-512,
then `SdpaRow` and `SdpaSparseRow` as the switches of `kernel_sdpa` and
`kernel_sdpa_sparse`, and the jobs by heads. `DeviceAttention` has the CUDA kernels, each
as what one block does to memory: the generic pair, the fused decode, the three staged
launches of a narrow head (the first appends the row its other blocks read), the prefill
kernels, the grouped and paired ones, the validation of the mask, and the product made
by a GEMM and copied if the flag allows. `SparseIndexer` has `qsa.cu`: the append, the pooled
groups, the best groups by one sort or merged tile by tile, and the four ways to attend
to them.

`Attention` is the dispatcher: `LaunchesOf` gives the launches of a call, `RunBlock` runs any
block that is left of the first, `NextLaunch` is the order of the stream. On a CPU the
launches are the append, the jobs of the pool and the length of the cache, which only
`kernel_sdpa_sparse` sets (its comment says the dense path does too,
`kernels/cpu/attention.cpp:1778`; for the dense one the engine does). `Attended` says
which keys a query sees, from the definition of the call alone. `Kernels` puts matmul
and attention side by side; they share the properties of a run, no state.

Left out: rounding, overflow and NaN, so the passes that exist to keep a signed zero; a
weight of `exp(-inf)`, which is dropped; reductions inside a block (`block_reduce_max`,
`warp_reduce_sum`) and shared memory; strides and alignment, which are one field
`aligned`; the upper limits on lengths that only select a slower path; the rope and norm
of the indexer; variants that only a diagnostic environment variable selects (one of
them, `MOLLM_CUDA_SDPA_SMALL_BATCH_EXACT`, is modelled as `exact`); latent attention (MLA).

### Engine, Autoregressive

Numbers are replaced by what they were computed from. A cell of the KV cache is
its token; a recurrent state is the sequence of tokens it has absorbed; a hidden
state is the record of the cells that were visible and the recurrent state it
was computed with. A cell behind the cache length is stale payload and stays
there, as in the code (`Overwrite`); `RewindLength` hides rejected cells by the
length only. If a rejected draft leaked anywhere, the hidden states of later
tokens would name it.

A call is a sequence of steps, because each may fail and return early (`Fault`):
`Prefill`, then `RunChunk`, `Sync`, `Commit` per chunk; `Decode`, `RunDecode`,
`Sync`, `Commit`; `Speculate`, `Draft`*, `Verify`, `Accept`*, then one of
`RewindLength`, `RestorePrefix`, `RestoreCheckpoint` + `Replay`, then `Sync`.
Which token is drafted or sampled, and whether a draft is accepted, is free:
this covers greedy decoding and rejection sampling. `Init` chooses whether the
loaded model has recurrent states and how many drafts are configured.

A step that fails changes nothing in the model, though a graph that fails half
way may have written cells or absorbed tokens. No difference: callers must reset
after a failure (both callers in `examples/` do, and `ChatServer` is shown to),
and `Reset` clears lengths and recurrent states; no property speaks of the
state between a failure and the reset except through `past_len_`, which a failed
graph does not move.

`Reset` and the draft head's length always succeed in the model. In the code both return
nothing to the caller: `LLMEngine::reset()` only prints when a backend write fails
(`engine/engine.cpp:301-332`), after `past_len_` is already 0, and so does
`set_cache_length` of the draft head's caches (`engine/engine.cpp:754-757`, called at 822,
897 and 943). A device may then keep old lengths or recurrent states while the engine
counts from 0 or from the new position; no property covers that branch, and what the
`Engine` and `ChatServer` runs and proofs say holds as long as these writes succeed. The
lengths of the text caches are checked by their callers and are covered by `Fault`.

Left out: image prompts, the entry points that return hidden states to tests,
admission of logical batches, switching between backends (it changes where a
graph runs, not the text state).

`Autoregressive` is the promise of `engine.h` ("Every returned token is sampled
by the target model"): each token of a reply was chosen with exactly the text
before it as context, and the text a call consumes is what was passed in
followed by all returned tokens but the last. `Text` and `Reply` map the engine
to it, with the sampler's history as the text; `StateTellsOneText` and
`SampledFromItsHistory` tie that history to the caches and the hidden states.

### ChatServer

`ChatServer` extends `Engine` and uses its actions: `StartPrefill` is `Prefill`,
`Continue` is `Speculate` or `Decode`, `Fail` and the failing branch of `Finish`
contain `Reset`. Its own state is `cached_tokens` and the locals of `handle()`
and `generate_tokens()`. Prompts are any sequence of tokens (the template and
the tokenizer are free), so they extend the cached text, diverge from it, or
repeat it. A rejected request (bad parameters, no room, a client that has gone)
leaves what the lookup has already done, as in the code. Left out: HTTP
parsing, streaming, sampling parameters, the text stop sequences of RWKV models. The REPL
(`run_turn_multi` in `examples/main.cpp`) follows the same rule with one
difference: an empty rest of the prompt is an error there, followed by a reset.

The property `EngineSpec` says that the server is one of the callers `Engine`
was checked for: it never calls an engine whose last call failed.

## 4. The runs

Every property of a passing run has a mutant in `PROJECT.json`: a named faulty
variant of one definition (it stands before the definition it would replace)
under which TLC finds the property violated.

| Run | Instance | Shows |
|---|---|---|
| `cache_safety` | 3 pairs in 2 layers, global pool of 2, 2 compute threads, 1 worker, predictor | `TypeOK`, `LeasesHoldTheirWeights`, `PinsAreHolders`, `NoLostWakeup`, `CapacityRespected` |
| `cache_liveness` | 1 layer of 2 pairs, pool of 1, 2 reads per pair, 2 workers, 1 compute thread, fair threads | `ReadsMatchEntries`, `BorrowReturns`, `StopCompletes`, `ProviderSpec` |
| `moe_layer` | 3 layers of 4 experts in 3 groups, routes of 2, a cache of 4 pairs; 5 setups of predictor, hash routes, threads, tokens, passes, failing reads | `MoeTypeOK`, `OutputsAddUp`, `AdviceSparesRoute`, `PassesEnd` |
| `pool` | owner + up to 2 workers, 5 call shapes, 2 dispatches between resizes, fair threads | `TypeOK`, `NoLateWorker`, `PendingCountsUnfinished`, `NoWorkerIsForgotten`, `CallReturns`, `StopJoins`, `ForkJoinSpec` |
| `engine_safety` | 2 tokens, 4 cells, chunks of 2, 0 or 2 drafts, both kinds of model | `TypeOK`, `StateTellsOneText`, `MtpFollowsText`, `SampledFromItsHistory`, `ImplementsPlain` |
| `server_safety` | 2 tokens of which one ends the text, 3 cells, prompts up to 3, fair | `ServerTypeOK`, `CacheIsEngineText`, `ReplyContinuesPrompt`, `EngineSpec`, `RequestsAreAnswered` |
| `graph_safety` | chains of 5 nodes, fused chains, stateful nodes; 16 setups of host, CUDA, Metal; 2 passes | `TypeOK`, `PlanSparesReaders`, `LiveValuesIntact`, `OwnersAreExact`, `NothingLeftDeferred` |
| `graph_workspace` | violation | finding 1 |
| `stream_safety` | texts of 5 tokens, chunks of 3 rows, padded, six kinds of layers | `StreamTypeOK`, `OutputsFollowText` |
| `stream_padding` | violation | finding 2 |
| `kernels` | some 700 calls of the matmul: every kernel, on 8 platforms, vectors and matrices with tails of rows, columns and positions, batches of 2, 1 or 2 threads; some 180 calls of an attention: three CPUs and CUDA, each cache, one query and several, sinks, windows, selections, masks that are causal or seem to be | `OutputsAreProducts`, `AttentionIsExact`, `JobsAreIndependent` |
| `matmul_stale` | violation | finding 3 |

**Why the bounds are enough.** Cache: the conflicts need two pairs for one
place, two threads for one entry, an entry object used twice and a read split in
two. Symmetry is used only in runs without liveness properties; the refinement
it is used with is itself symmetric. MoE: routes of two in a cache of four over three
layers leave one layer without room when another's pairs are retained or predicted;
the last group has two experts, and the scores have a tie of groups and of experts;
two tokens share an expert, two passes make the first one's pairs stale. Pool: two workers allow one to be late or
asleep while the other works (three were checked by hand); the shapes have
fewer, as many and more jobs than threads and short last tiles; two dispatches
in a row are what stale generations and flags need, and the resize resets both.
Graph: a release goes wrong on a chain of two views between an owner and a later
reader, fusion on chains of three; two passes show what one leaves to the next.
Stream: a group of the compressor and the window have two rows, the convolution
reaches two tokens back, so five tokens cross each boundary at every cut; heads
lie six rows apart. The variants of the compressor without overlap and without
indexer were checked by hand. Matmul: tiles of 4, blocks of 8, groups of 16 and dimensions that are, and are not,
multiples of them; a shape has a full tile and a tail, more jobs than one, and an
activation that begins and ends within a tile or spans two jobs. Each kernel was
emptied in turn and the run failed, so every one is reached. Attention: the thresholds of the
plans (`MidKeys`, `LongKeys`, `SplitSlots` and so on) and the widths of a block keep their order and
ratios at a hundredth of their size, so that calls of three to twenty-one keys take every
plan; the loops over dimensions keep their real widths, and some calls have the
dimensions to run all of them. Scores have ties, two cache heads and an indexer of more
groups than a sort takes. Engine: four cells hold a two-chunk prompt, two
drafts that are all, partly or not accepted, and the end of the context; two
tokens make a draft right or wrong. Server: three cells make room for a reused
prefix, a divergence and a speculative reply cut by end-of-text or limit.

**Bounds in the modules.** `MaxGenerations` (job generations between two
resizes), `MaxPrompt`, `MaxOut`, `MaxRequest` (what callers ask for), `MaxPasses` and
the `passes` and `tokens` of a setup (runs of one behaviour and their length), `NBuffers` and `MaxBytes` (what the system grants) `MaxVersion` and
`MaxGeneration` (tensors a buffer holds in turn and executions of one behaviour) and
`MaxText` (length of a text) exist only for the model checker. `MaxTasks`, `NCtx`,
`ChunkLimit`, `GraphLen`, capacities and `MaxThreads` are parameters of the
program. `CHECK_DEADLOCK` is off only in the graph, MoE and kernel runs,
which stop after their passes or calls. In `stream_safety` texts of layers that append padding leave room
for it (`RoomForPadding`); what happens without it is finding 2.

**Fairness.** Cache: every thread that can run is run (`WF` of each worker, the
predictor, the stopping owner); a compute thread is only obliged to finish the
call it is in, never to make one or to give a lease back. `BorrowReturns` is
checked with one compute thread, which is what the engine runs; with two it does
not hold, because a slot waiter has no place in a line and can be overtaken for
ever. MoE: the compute thread and the reads;
nothing waits for the predictor. `FairSpec` of `MoeLayer` is weak fairness of
`RunKernel` and `RunIo` with their `ENABLED` written out, because TLC would expand
the folds of the policy to evaluate it. Pool: `WF` of workers and owner; `SF` for the owner's lock of `park_mtx_`,
because workers waking spuriously for ever could hold it at every moment the
weak condition looks. Server: its thread and the engine's call keep running
while a request is answered; requests need not arrive.

## 5. What is proved

For every value of the constants that satisfies the stated assumption, with no
bound on threads, pairs, slots, calls or their sizes.

**Expert cache** (`ExpertCacheProofs`, from `CacheAssumption`: slots, components
and clients are finite, a pair has at least one component, the sentinels are
none of the values).

1. `Shape`: types, and where each thread can be with which locals (a blocked
   borrow has a pin exactly in `kick` and `load`, ...).
2. `ReadInv`, needed because neither half of `ReadsMatchEntries` is inductive alone: a read's target stays in the
   table because the entry is loading, it is loading because `pending_reads`
   is not zero, and that counts the outstanding reads, which are distinct; a
   component that is no longer being read holds its bytes (`BuffersFilled`).
3. `PinInv`: pins count leases and blocked borrows, and what is held is in the
   table under the pair that was asked for. Free entries are therefore unheld,
   which is what a new residency needs.
4. From these: `ReadsAndEntriesAgree`, `PinsCount`, `TypeCorrect`
   (the decrements of `pins` and `pending_reads` never pass zero),
   `LeasesAreSafe`, and `CapacityIsABound` by cardinality of the pool after
   each reservation.
5. `CacheImplementsProvider`: every step maps to a borrow, a return or a
   stutter of `ExpertProvider`.

**Thread pool** (`ThreadPoolProofs`, from `PoolAssumption`: positive sizes, at
least one thread).

1. `ShardsPartition`, `TilesPartition`: the truncating divisions of
   `compute_shard` and `decode_2d_job` give every element to exactly one thread,
   every cell to exactly one job.
2. `Control`: types, where owner and workers can be together (who may sleep
   while what is parked). `SleepersAreWokenAlways` follows.
3. `Handshake`: what each worker has been told and has acknowledged, with
   `pending_workers_` counting those who have not finished. It yields
   `PendingCounts`, `NoWorkerIsLate`, `FlagsAreNotLost` and, with 2,
   `NobodyIsForgotten`.
4. `WorkInv`: `todo` is the union of the parts not begun (shards not started,
   jobs not drawn) and the running pieces are disjoint parts. When the owner
   stops waiting both are empty.
5. `TypeCorrect`, `PoolImplementsForkJoin`.

**Release plan** (`GraphExecutionProofs`, from the assumptions that graphs are
well formed: a node reads only earlier nodes, views have a source). One invariant
per loop of `prepare_execution` says what the iterations done so far have
established and what is left: the last use of each node, the use passed through
views, the nodes retained through views of exposed nodes, the batches. When the
plan is ready, `PlanIsSafe`: no owner is released before the last node that reads
it, directly or through views, and no exposed one ever. `PlanTypeCorrect` is its
type invariant, and `ExecutionFollowsPlan` that the execution of the graph never
changes a plan, so that both hold in every pass.

Which producers wait for a consumer is the second invariant, `DeferInv`: at most one
chain waits (an up and its gate, a routed layer, an injection with the routed layer
before it), it is as long as the steps since its first node, its consumer lies within
the call, and every other node behind the cursor is computed. Hence
`NothingWaitsForever`: when a pass or a segment ends, all it deferred has run.

**Graph execution** (`GraphExecutionProofs`, under `CasesServed` besides the module's
assumptions). `CasesServed` says of the graphs and contexts, in the definition `Served`:

- `INPUT` and constants have no operands, views and `CONTIGUOUS` have one: what the
  transpilers emit (`models/transpile.py`); the loader does not check it;
- on a device, a graph with `CONTIGUOUS` in a dynamic context emits it after `PERMUTE` or
  `SLICE` and runs more than one row. The first half is how the transpilers use it
  (`models/transpile.py:950`, "Essential after zero-copy permute/reshape"); the second
  leaves out the lost buffer described in section 6;
- a context that stops early is not conservative: only the MTP context stops early
  (`engine/engine.cpp:798`), only the trunk's prefill is ever conservative
  (`engine/model_loader.cpp:1564`);
- where passes may fail no same-shape workspace is kept: prefill does keep one
  (`engine/model_loader.cpp:1564`), and when one of its passes fails finding 1 applies; the
  theorems cover it only as long as none does;
- a static workspace sees one shape, and if its passes may fail, one row: the only one
  is decode (`engine/model_loader.cpp:1602`).

TLC checks that every case of `graph_safety` is so (`SafetyCasesAreServed`), so the
hypothesis is met by each of its setups.

1. Loops. A loop is a recursive function of the rounds done; `LoopExists` and its users
   say it is defined, and a property of the start that each round keeps holds at the end.
2. The pools (`AcquireGrants`, `ReleaseReturns`, `FlushSettles`). With the books in order
   (`PoolBooks`: nothing free is out, nothing is free or pending twice), a buffer granted
   was not out and is large enough, a release gives back what was out and only that, and
   does not count as misuse when the size asked for falls into the bucket it was bought
   for. So it goes for all three disciplines.
3. `Storage`: the tensors and a pool together. Each tensor that owns a pooled buffer is its
   holder, no two own the same, nothing is out but what is held, and views lie on the
   storage of their source. Binding, allocating, returning a set of owners and emptying the
   pool preserve it (`GivenBack`, `RanHolders`, `RanFreed`).
4. Views. The code asks what is a view three times, in two files and at different
   moments. `DenseAt` and `ViewAt` say, from graph and setup alone, what the answer must be
   for a pass of so many rows; `ShapedTensors` and `KeptStorage` say that tensors of this
   pass and tensors kept from the pass before are as they say. All three classifications
   are then proved equal to `ViewAt` whenever they are asked, which is what
   `OwnersAreExact` comes down to.
5. Release. `Ahead`: nodes not yet reached hold nothing, or a buffer kept for the same
   shape. `FreedWhenDue`: once the nodes up to its last use are computed, what the plan
   releases holds nothing any more. What is due after a chain, fused or not, nobody who
   is still to run reads (`NeededNotDue`, from `PlanIsSafe` and from `LastUseComputed`).
6. `Values`: a computed tensor somebody needs has the storage it had then, and the
   content. Nobody overwrites it because a kernel writes where its node is the holder
   (`ComputedHolders`). `ChainBooks` says what a waiting producer already holds.
7. `Known` puts the parts together. It is inductive (`PlanKeeps`, `DeferKeeps`,
   `ExecKeeps`), and `ExecutionTypeCorrect`, `BuffersHaveOneOwner` and
   `NeededValuesSurvive` follow from it.

**Expert cache, wakes** (`ExpertCacheProofs`, in addition `Worker # {}`, which `open()`
insists on: `storage/ssd_expert_cache/cache.cpp:170` rejects `io_workers < 1`).
`WakeupsAreNotLost` is proved from `Shape` and `WakeInv`: only a thread in `slot` or
`load` sleeps, a worker leaves only after the stop, a sleeper's entry is loading or its
pool full of busy entries unless a notify is on its way, and a queued read has a worker
awake or somebody who still owes the notify.
Every reservation leaves a pool that is full and busy as it is
(`InstallKeepsFull`), which is what makes the last part inductive.

**Text stream** (`TextStreamProofs`). `StreamTypeCorrect` needs the modules'
assumptions only: every carried state keeps its type, room or not. `RowsFollowText`
is `OutputsFollowText` for all six kinds of layers, under `RoomForRows` (texts leave
room for padding; finding 2 is what happens without it). The invariant `StreamInv` says
that the state stands for the text (`TextInv`), that a checkpoint stands for the text it
was taken of and the caches agree with it up to its length (`DraftInv`), and that
the outputs are those of the text (`OutInv`). What it means to stand for a text differs
from state to state: a row for each token (`KeysFor`, `CellsFor`), the last rows
(`ConvFor`, for any number of taps and dilation), the last window (`RingFor`), the
tokens since an end of text (`HistoryAt`), and for the compressor the entries of
the groups that are complete with the rows of the group under way (`StateUpTo`).
The lemmas: rows of different heads never meet while there is room, writing a run keeps
what is before it, selection reads only visible keys or entries, a run that is longer
or shorter than a state leaves the last rows in it, and the recursive functions that
carry the n-gram history and the compressor along a run take one step per row
(`HistorySteps`, `CompressSteps`). The library's induction theorems cannot be
used (they take an operator), so these are proved by the least counterexample in a
set of naturals (`AllUpTo`, `RecursionExists`, from `WellFoundedInduction`).
`CompressedAssumption` says that a score of an entry is an integer, without which the
best entries are not defined.

**Engine** (`EngineProofs`, from `EngineAssumption`: a context and a chunk limit of at
least one). None of the properties is inductive: they speak of the engine between calls,
and a call changes one piece of state after the other. `EngineInv` says at each `pc`, in
terms of `CallText` (what was there and the inputs of the call), how far each piece has
come:

1. `IdleInv`: the caches hold the history, the draft head is that of the history.
2. `RunInv`, `SyncInv`: a prefill or decode has taken in the chunks before `past`, and
   between the run and the commit of a chunk, the hidden states still to be used are
   those of the text behind the position.
3. `DraftsInv`, `VerifyInv`: the draft head is ahead by the drafts, its older entries are
   those of the text; the caches have taken in all drafts until the rewind, the
   history only those accepted; the checkpoint is the state before them.
4. From these `OneText`, `DraftHeadFollowsText`, `SamplesFollowHistory`,
   `TypeCorrect` (nothing is written behind `n_ctx`), and `EngineImplementsPlain`: every
   step maps to one of `Autoregressive` or to a stutter.

**Chat server** (`ChatServerProofs`, from `ServerAssumption`; that a request is not
longer than `MaxPrompt` and a limit not above `MaxOut` relates bounds of the two modules,
not parameters of the program). `ServerInv` stands on `EngineInv`, since the server's
steps contain the engine's: at each place in a request it says what the history of
the engine is in terms of the rendered prompt, the reused prefix and the tokens received.
It gives `ServerTypeCorrect`, `CacheFollowsEngine`, `ReplyGivenWholePrompt`;
`ServerDrivesEngine` is the refinement of the engine's own specification, and with
`EngineImplementsPlain` yields `ServerImplementsPlain`.

**MoE layer** (`MoeLayerProofs`, from `RoutingAssumption`, `PolicyAssumption`,
`MoeAssumption` and `GroupsAreLargeEnough`: the groups a router keeps have `TopK` experts.
Every model with groups satisfies it and `select_moe_routes` does not check it: with fewer,
the short list would keep experts of masked groups).

1. `SelectIsBest`: the insertion into a short list, over masked scores, finds the best
   experts of the best groups, the lower id first among equals, and no expert twice. Its
   invariant is which expert stands at which place after n of them (`Holds`, `Standing`).
2. What an operation of the policy does, as relations of the cache before and after.
   `Shape`: `arrival` and `recency` list the residents, once each, and no more than the
   capacity, or the layer's share, allows. `Follows`: pins and the ready weights of what is
   pinned stay, whatever is requested, reserved or evicted. `Spared`: what an advisory
   reservation does to a pair the active layer demanded, nothing. `RequestedIs`,
   `EvictedIs`, `RetainingIs` and the others prove them for each operation; requests are
   folds over a route, followed place by place.
3. `MoeInv`, with one conjunct per part of the state. The properties are not inductive:
   what is added is right at the end of a layer only if, at each expert, exactly the routes
   of the experts before it have been added (`OutputOK`), the batch holds the
   contributions of its experts (`BatchOK`), what is computed is pinned and ready (`HeldOK`),
   a batched expert has one route (`ReadyOK`), and the expert in turn is the next
   selected one (`TurnOK`). `AdviceOK`: the chosen pairs were marked by this layer's demand,
   which is why a prediction leaves them alone.
4. `MoeTypeCorrect`, `OutputIsRouterAlone` and `AdviceSparesDemand` follow.

**Only model-checked.** All liveness (fairness and `ENABLED` are out of the
prover's reach): `BorrowReturns`, `StopCompletes`, `CallReturns`, `StopJoins`,
`RequestsAreAnswered`, `PassesEnd`. The matmul and the attention, whose kernels are folds over small instances of layouts (`OutputsAreProducts`,
`AttentionIsExact`, `JobsAreIndependent`), that is, induction over data.

## 6. Findings

1. `graph_workspace`: the workspace of a dynamic graph is reused when the shape
   key matches (`graph/execute.cpp:506`), but a failed pass of another shape
   replaces the tensors and leaves the key. The next pass of the first shape
   writes into buffers that may be too small for it.
2. `stream_padding`: under `StaticPadded` the last chunk before a full context
   appends its padding rows past the rows of its head
   (`kernels/cpu/attention.cpp:1316`): the next head attends to padding, the last
   one writes past its cache.
3. `matmul_stale`: the shared quantisation of an FP8 linear is found by the address
   and shape of its tensor and an execution's number
   (`kernels/cpu/matmul/matmul_w8.cpp:31`). In a pass that releases its buffers the
   same address may hold a later tensor of the same width, which is then multiplied
   as the earlier one.

Two smaller ones are visible in the models and have no run. `examples/server.cpp:385`
computes the room for the reply before the prompt is prefilled, so an admitted
request may run into the full context and lose its reply. On a device a dynamic pass
of one row allocates the output of `CONTIGUOUS`, and the release code takes it for a
borrowed view (`graph/execute.cpp:550`), so its buffer is never returned; the setups of
`graph_safety` have no such node. A third shows where plans meet files: an `act_n_len` of -1
means the rest of the columns (`kernels/cpu/activations.h:124`), and all formats follow it but
NVFP4, whose kernels take it for no column (`kernels/cpu/matmul/matmul_nvfp4.cpp:353`); the calls
of `kernels` give NVFP4 explicit lengths.

## 7. Not modelled, and what could follow

- *CUDA matmul and MoE kernels, Metal kernels, other stateless CPU kernels*: the control of
  most is a launch; the CUDA matmul and MoE could be modelled as the attention is. The CUDA
  state prefixes keep state and could join `TextStream`.
- *Model loader, tokenizers, vision, converters*: parsing and conversion of large
  data, without interleaving or state that outlives a call.
- *Sampler*: its history is in `Engine`; its arithmetic is over reals.
- *Byte ranges*: a sort and merge of intervals, well covered by its unit test.
- *Host memory budget and watchdog*: saturating sums and one sampling thread with
  no effect on results.
- *Cache*: whole-model residency, byte accounting, statistics.

What the plan still has: the recurrence over instances of the matmul and attention modules
would need induction over data, which the prover lacks; a wider `graph_safety` (three
passes, longer graphs) would add nothing to the proofs.
