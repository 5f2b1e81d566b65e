------------------------------ MODULE MCKernels ------------------------------
(* Small instances of Kernels for TLC. *)
EXTENDS Kernels, MCMatmul

\* Scores with ties, other for other heads, queries and rows.
MCLogit(h, i, row) == ((7 * h + 5 * i + 3 * row[1] + 11 * row[2]) % 6) - 3
MCSinkLogit(h) == (h % 3) - 1
MCIndexLogit(i, g) == (5 * g + i) % 3

\* Rows in the cache, new rows.
Call(d, kept, past, queries) ==
    [device |-> d, cache |-> kept, heads |-> 2, kv |-> 1, dk |-> 5, dv |-> 3,
     past |-> past, queries |-> queries, capacity |-> past + queries + 1,
     causal |-> TRUE, mask |-> "none", sink |-> FALSE, selection |-> <<>>, threads |-> 2]
Cpus == {"neon", "scalar", "avx512"}
Caches == {"none", "fp32", "fp16"}
\* One query and several, a block of keys and more.
CpuCalls ==
    {[Call(d, c, IF c = "none" THEN 0 ELSE s[1], s[2]) EXCEPT !.heads = 4, !.kv = 2, !.mask = mask, !.sink = sink] :
        d \in Cpus, c \in Caches, s \in {<<20, 1>>, <<3, 1>>, <<4, 3>>, <<18, 3>>},
        mask \in {"none", "window"}, sink \in BOOLEAN}
    \union {[Call(d, "none", 0, 9) EXCEPT !.causal = FALSE] : d \in Cpus}
    \union {[Call(d, "fp16", 2, 2) EXCEPT !.dk = 27, !.dv = 79] : d \in Cpus}
    \union {[Call(d, "fp32", 2, 2) EXCEPT !.dk = 51, !.dv = 35] : d \in Cpus}
CpuSparse ==
    {[Call(d, c, 6, 1) EXCEPT !.selection = <<<<5, -1, 2, 6>>>>, !.sink = sink] :
        d \in Cpus, c \in {"fp32", "fp16"}, sink \in BOOLEAN}
    \union {[Call(d, c, 9, 2) EXCEPT !.selection = <<<<0, 9, -1, 4, 2, 10, 3, 1, 5, 7>>,
                                                     <<10, -1, 1, 0, 9, 3, 7, 6, 2, 8>>>>] :
              d \in Cpus, c \in {"fp32", "fp16"}}
    \union {[Call(d, "fp32", 2, 2) EXCEPT !.selection = <<<<3, 2, 1, 0>>, <<0, 1, 2, 3>>>>] : d \in Cpus}

Cuda(kept, past, queries) ==
    Call("cuda", kept, past, queries) @@
    [op |-> "sdpa", exact |-> FALSE, batch |-> FALSE, aligned |-> TRUE, paired |-> FALSE,
     infinite |-> <<>>, ratio |-> 1, budget |-> 0, indexHeads |-> 0]
Heads(c, heads, kv) == [c EXCEPT !.heads = heads, !.kv = kv]
Dims(c, dk, dv) == [c EXCEPT !.dk = dk, !.dv = dv]
DecodeCalls ==
    {Dims(Cuda(c, IF c = "none" THEN 0 ELSE past, 1), d[1], d[2]) :
        c \in Caches, past \in {2, 10}, d \in {<<5, 3>>, <<16, 6>>, <<8, 16>>, <<4, 8>>}}
    \union {[Dims(Heads(Cuda("fp16", 9, 1), 4, 2), 8, 8) EXCEPT !.aligned = b, !.mask = mask] :
              b \in BOOLEAN, mask \in {"none", "window"}}
PrefillCalls ==
    {[Cuda(c, IF c = "none" THEN 0 ELSE 2, 3) EXCEPT !.mask = mask] :
        c \in Caches, mask \in {"none", "window"}}
    \union {[Cuda("none", 0, 4) EXCEPT !.causal = FALSE]}
    \union {[Dims(Heads(Cuda("fp16", 3, 2), 4, 2), 8, 8) EXCEPT !.mask = mask] :
              mask \in {"none", "wide"}}
    \union {Dims(Cuda("fp16", 5, 2), 16, 16)}
    \union {[Dims(Cuda(c, 4, 2), d, d) EXCEPT !.exact = TRUE] : c \in {"fp16", "fp32"}, d \in {8, 6}}
\* Wide heads, with a mask that is causal or seems to be.
PrefixCall(past, heads) == [Dims(Heads(Cuda("fp16", past, 2), heads[1], heads[2]), 16, 16) EXCEPT !.batch = TRUE]
PrefixCalls ==
    {[PrefixCall(past, <<4, 2>>) EXCEPT !.mask = "causal", !.paired = paired] :
        past \in 1..4, paired \in BOOLEAN}
    \union {[PrefixCall(past, <<4, 2>>) EXCEPT !.mask = "wide", !.paired = TRUE] : past \in 0..2}
    \union {[PrefixCall(1, <<4, 1>>) EXCEPT !.mask = mask] : mask \in {"causal", "wide"}}
    \union {[PrefixCall(2, <<4, 2>>) EXCEPT !.mask = "causal", !.infinite = x] :
              x \in {<<"query", 7>>, <<"key", 7>>, <<"value", 6>>}}
    \union {[Dims(Cuda("fp16", 0, 5), 16, 16) EXCEPT !.batch = TRUE, !.mask = "causal"]}
QsaCalls ==
    {[Dims(Heads(Cuda("fp16", s[1], s[2]), 4, 2), d, d) EXCEPT
        !.op = "qsa", !.mask = mask, !.ratio = 2, !.budget = s[3], !.indexHeads = 1] :
        s \in {<<6, 1, 4>>, <<0, 1, 2>>, <<4, 2, 2>>}, d \in {6, 16}, mask \in {"causal"}}
    \union {[Dims(Heads(Cuda("fp16", s[1], s[2]), 2, 1), 16, 16) EXCEPT
        !.op = "qsa", !.mask = "causal", !.ratio = 1, !.budget = s[3], !.indexHeads = 2] :
        s \in {<<8, 2, 4>>, <<9, 1, 5>>}}
    \union {[Cuda("fp32", 3, 2) EXCEPT !.op = "qsa", !.mask = "wide", !.ratio = 2, !.budget = 2]}
EveryAttention ==
    CpuCalls \union CpuSparse \union DecodeCalls \union PrefillCalls \union PrefixCalls \union QsaCalls
=============================================================================
