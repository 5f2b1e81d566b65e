-------------------------- MODULE MCGraphExecution --------------------------
(* Small instances of GraphExecution for TLC. *)
EXTENDS GraphExecution

Layout == {"reshape", "permute", "contiguous"}

\* An input, two nodes of any kind, a join of two earlier nodes, and a last
\* view or operator: every short chain of views and owners.
ChainGraphs ==
    {[ops |-> <<"input", a, b, "op", c>>,
      ins |-> <<<<>>, <<1>>, <<s>>, <<3, t>>, <<u>>>>,
      outs |-> {5}] :
        a \in Layout \union {"op"}, b \in Layout, c \in Layout \union {"op", "slice"},
        s \in 1 .. 2, t \in 1 .. 2, u \in 2 .. 4}

\* MATMUL-SIGMOID-GR_REDUCE, MoE-inject-RMS, and both behind views.
FusedGraphs ==
    {[ops |-> <<"input", "op", "constant", "matmul", "sigmoid", "reduce", "op">>,
      ins |-> <<<<>>, <<1>>, <<>>, <<2, 3>>, <<4>>, <<2, 5>>, <<6, 1>>>>,
      outs |-> {7}],
     [ops |-> <<"input", "op", "slice", "matmul", "sigmoid", "reduce", "op">>,
      ins |-> <<<<>>, <<1>>, <<2>>, <<3, 1>>, <<4>>, <<1, 5>>, <<6>>>>,
      outs |-> {7}],
     [ops |-> <<"input", "op", "sigmoid", "reduce", "op">>,
      ins |-> <<<<>>, <<1>>, <<2>>, <<1, 3>>, <<4, 2>>>>,
      outs |-> {5}],
     [ops |-> <<"input", "op", "moe", "inject", "constant", "rms", "op">>,
      ins |-> <<<<>>, <<1>>, <<2, 2>>, <<3, 1, 2>>, <<>>, <<4, 5>>, <<6, 4>>>>,
      outs |-> {7}],
     [ops |-> <<"input", "op", "reshape", "inject", "constant", "rms", "op">>,
      ins |-> <<<<>>, <<1>>, <<2>>, <<3, 1, 1>>, <<>>, <<4, 5>>, <<6>>>>,
      outs |-> {7}]}

\* A stateful operator between views, and absorbed attention.
StateGraphs ==
    {[ops |-> <<"input", "cache", "op", v, "state", w, "op">>,
      ins |-> <<<<>>, <<>>, <<1>>, <<3>>, <<4, 2>>, <<5>>, <<6, 3>>>>,
      outs |-> {7}] : v \in {"permute", "reshape", "op"}, w \in {"reshape", "slice", "op"}}
    \union
    {[ops |-> <<"input", "cache", "op", "reshape", "mla", "op">>,
      ins |-> <<<<>>, <<>>, <<1>>, <<3>>, <<4, 2>>, <<5>>>>,
      outs |-> {6}]}

StridedGraphs ==
    {[ops |-> <<"input", "op", "slice", "reshape", "permute", v, "op">>,
      ins |-> <<<<>>, <<1>>, <<2>>, <<3>>, <<4>>, <<5>>, <<6, 2>>>>,
      outs |-> {7}] : v \in {"reshape", "op"}}

Host ==
    [backend |-> "host", conservative |-> FALSE, contracts |-> FALSE, dynamic |-> TRUE,
     rows |-> {1, 3}, reuseSame |-> FALSE, reuseStatic |-> FALSE, strided |-> FALSE,
     fusions |-> FALSE, segmentFusions |-> FALSE, modes |-> {"whole"},
     ownInputs |-> TRUE, vision |-> FALSE, mayFail |-> FALSE, passes |-> 2]
HostStrict == [Host EXCEPT !.mayFail = TRUE]
HostReuse == [Host EXCEPT !.reuseSame = TRUE, !.modes = {"whole", "stop"}]
HostVision == [Host EXCEPT !.vision = TRUE]
HostDecode == [Host EXCEPT !.dynamic = FALSE, !.rows = {1}, !.reuseStatic = TRUE,
                           !.ownInputs = FALSE, !.mayFail = TRUE]
Cuda == [Host EXCEPT !.backend = "cuda", !.ownInputs = FALSE, !.conservative = TRUE,
                     !.rows = {2, 3}, !.fusions = TRUE]
CudaReclaim == [Cuda EXCEPT !.mayFail = TRUE, !.contracts = TRUE]
CudaStrided == [Cuda EXCEPT !.strided = TRUE]
CudaReuse == [Cuda EXCEPT !.reuseSame = TRUE, !.conservative = FALSE]
CudaDecode == [HostDecode EXCEPT !.backend = "cuda", !.mayFail = FALSE]
CudaSegments == [Cuda EXCEPT !.modes = {"segment", "whole"}, !.rows = {3},
                             !.segmentFusions = TRUE, !.mayFail = TRUE]
CudaPlainSegments == [CudaSegments EXCEPT !.segmentFusions = FALSE]
Metal == [CudaReuse EXCEPT !.backend = "metal", !.fusions = FALSE]
MetalReclaim == [Metal EXCEPT !.reuseSame = FALSE, !.mayFail = TRUE]

Pairs(G, S) == {[graph |-> g, setup |-> s] : g \in G, s \in S}

\* Every CONTIGUOUS really has a strided source.
Strided(g) ==
    \A i \in DOMAIN g.ops :
        g.ops[i] = "contiguous" => g.ops[g.ins[i][1]] \in {"permute", "slice"}
StridedChains == {g \in ChainGraphs : Strided(g)}

SafetyCases ==
    Pairs(ChainGraphs, {Host, CudaDecode})
    \union Pairs(StridedChains, {CudaReuse})
    \union Pairs(StridedGraphs, {HostVision, HostStrict, CudaStrided, CudaReuse})
    \union Pairs(FusedGraphs, {HostReuse, CudaReclaim, CudaReuse, CudaSegments,
                               CudaPlainSegments, MetalReclaim})
    \union Pairs(StateGraphs, {HostReuse, HostDecode, CudaReclaim, Cuda, Metal})

\* What the proofs assume of a graph and its context holds of every one here.
ASSUME SafetyCasesAreServed == \A c \in SafetyCases : Served(c.graph, c.setup)

\* A pass of two rows may fail between passes of three.
WorkspaceCases ==
    Pairs({g \in FusedGraphs : Len(g.ops) = 5}, {[CudaReuse EXCEPT !.mayFail = TRUE, !.passes = 3]})
=============================================================================
