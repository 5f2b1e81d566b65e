---------------------------- MODULE ReleasePlan ----------------------------
(***************************************************************************)
(* prepare_execution (graph/execute.cpp): from a graph in topological      *)
(* order, the last node that uses each tensor and the tensors to keep, so  *)
(* that a pass frees every other intermediate as early as it may.  A node  *)
(* that may return a view of its first input hands its own lifetime, and   *)
(* its retention, to that input.  The loops run one node per step.         *)
(***************************************************************************)
EXTENDS Naturals, Sequences

CONSTANT Cases    \* [graph, setup]: what may be loaded, on which backend

ViewOps  == {"reshape", "permute", "slice"}
BoundOps == {"input", "constant", "cache"}          \* no storage of the pass
Backends == {"host", "cuda", "metal"}

\* What graph_load accepts: every input is an earlier node.
WellFormed(g) ==
    /\ g.ops \in Seq(STRING) /\ g.ops # <<>>
    /\ g.ins \in [DOMAIN g.ops -> Seq(Nat)]
    /\ \A i \in DOMAIN g.ops : \A p \in DOMAIN g.ins[i] : g.ins[i][p] \in 1 .. (i - 1)
    /\ g.outs \subseteq DOMAIN g.ops

ASSUME CasesAssumption ==
    \A c \in Cases :
        /\ WellFormed(c.graph)
        /\ c.setup.backend \in Backends
        /\ c.setup.conservative \in BOOLEAN
        /\ c.setup.contracts \in BOOLEAN

VARIABLES
    graph, setup,
    stage,      \* "inspect", "uses", "lifetimes", "protect", "retention", "ready"
    cursor,     \* the node of the running loop
    lastUse,    \* node -> the last node that needs its storage
    keep,       \* nodes retained for the whole call
    reclaims    \* whether the release queue is filled at all

planVars == <<graph, setup, stage, cursor, lastUse, keep, reclaims>>

Nodes == DOMAIN graph.ops
Op(i) == graph.ops[i]
Reads(i) == {graph.ins[i][p] : p \in DOMAIN graph.ins[i]}
OnDevice == setup.backend # "host"

\* Operators that update a cache or a recurrent state, and the absorbed MLA
\* attention, whose CPU kernel never lets its output alias the cache.
Stateful(i) == Op(i) = "state"
Absorbed(i) == Op(i) = "mla"

\* The plan is given up when a stateful node is met without the conservative
\* mode, or absorbed attention whose cache is not a persistent INPUT.
Unplannable ==
    \/ \E i \in Nodes : Stateful(i) /\ ~setup.conservative
    \/ \E i \in Nodes :
           /\ Absorbed(i)
           /\ \/ OnDevice
              \/ \A x \in Reads(i) : Op(x) # "cache"

\* A node whose output may borrow the storage of its first input.
ViewLike(i) ==
    \/ Op(i) \in ViewOps
    \/ Op(i) = "contiguous" /\ (setup.conservative \/ OnDevice)
Borrows(i) == ViewLike(i) /\ graph.ins[i] # <<>>
Source(i) == graph.ins[i][1]

\* Inputs a stateful node may still need after it returned: all of them, or
\* those its backend declares mutable.
HeldInputs(i) ==
    IF setup.contracts /\ setup.backend = "cuda"
    THEN {x \in Reads(i) : Op(x) = "cache"}
    ELSE Reads(i)
HeldOutput(i) == IF setup.contracts /\ setup.backend = "cuda" THEN {} ELSE {i}

Larger(a, b) == IF a < b THEN b ELSE a

PlanInit ==
    \E c \in Cases :
        /\ graph = c.graph
        /\ setup = c.setup
        /\ stage = "inspect"
        /\ cursor = 1
        /\ lastUse = [i \in DOMAIN c.graph.ops |-> 0]
        /\ keep = c.graph.outs
        /\ reclaims = FALSE

Inspect ==
    /\ stage = "inspect"
    /\ stage' = IF Unplannable THEN "ready" ELSE "uses"
    /\ reclaims' = ~Unplannable
    /\ UNCHANGED <<graph, setup, cursor, lastUse, keep>>

\* for (i = 0; i < N; ++i): i needs itself and its inputs.
UsesOf(i) == {i} \union Reads(i)
CountUses ==
    /\ stage = "uses"
    /\ lastUse' = [x \in Nodes |->
           IF x \in UsesOf(cursor) THEN Larger(lastUse[x], cursor) ELSE lastUse[x]]
    /\ IF cursor = Len(graph.ops)
       THEN stage' = "lifetimes" /\ cursor' = cursor
       ELSE cursor' = cursor + 1 /\ stage' = stage
    /\ UNCHANGED <<graph, setup, keep, reclaims>>

\* Faulty: only the first view of a chain hands its lifetime on.
LengthenedOnce(i) ==
    IF Borrows(i) /\ ~Borrows(Source(i))
    THEN [lastUse EXCEPT ![Source(i)] = Larger(@, lastUse[i])]
    ELSE lastUse
\* for (i = N; i-- > 0;): a view's source lives at least as long as the view.
Lengthened(i) ==
    IF Borrows(i)
    THEN [lastUse EXCEPT ![Source(i)] = Larger(@, lastUse[i])]
    ELSE lastUse
Lengthen ==
    /\ stage = "lifetimes"
    /\ lastUse' = Lengthened(cursor)
    /\ IF cursor = 1
       THEN stage' = "protect" /\ cursor' = Len(graph.ops)
       ELSE cursor' = cursor - 1 /\ stage' = stage
    /\ UNCHANGED <<graph, setup, keep, reclaims>>

Protect ==
    /\ stage = "protect"
    /\ keep' = keep \union
           UNION {HeldOutput(i) \union HeldInputs(i) : i \in {n \in Nodes : Stateful(n)}}
    /\ stage' = "retention"
    /\ UNCHANGED <<graph, setup, cursor, lastUse, reclaims>>

\* Faulty: a view of a view keeps nothing.
RetainedOnce(i) ==
    IF Borrows(i) /\ i \in keep /\ ~Borrows(Source(i)) THEN keep \union {Source(i)} ELSE keep
\* for (i = N; i-- > 0;): a kept view keeps its source.
Retained(i) == IF Borrows(i) /\ i \in keep THEN keep \union {Source(i)} ELSE keep
Retain ==
    /\ stage = "retention"
    /\ keep' = Retained(cursor)
    /\ IF cursor = 1
       THEN stage' = "ready" /\ cursor' = cursor
       ELSE cursor' = cursor - 1 /\ stage' = stage
    /\ UNCHANGED <<graph, setup, lastUse, reclaims>>

PlanNext == Inspect \/ CountUses \/ Lengthen \/ Protect \/ Retain

PlanSpec == PlanInit /\ [][PlanNext]_planVars

\* release_queue[k]: what a pass frees after node k.
Released(i) == reclaims /\ Op(i) \notin BoundOps /\ i \notin keep
Batch(k) == {i \in Nodes : Released(i) /\ lastUse[i] = k}

-----------------------------------------------------------------------------
PlanTypeOK ==
    /\ \E c \in Cases : graph = c.graph /\ setup = c.setup
    /\ stage \in {"inspect", "uses", "lifetimes", "protect", "retention", "ready"}
    /\ cursor \in Nodes
    /\ lastUse \in [Nodes -> 0 .. Len(graph.ops)]
    /\ keep \subseteq Nodes
    /\ reclaims \in BOOLEAN

(***************************************************************************)
(* The finished plan frees nothing early: a freed tensor is no output, all *)
(* its readers come no later than its release, and whatever may borrow its *)
(* storage is itself freed, no later than it.  What a stateful operator    *)
(* holds on to is not freed at all.                                        *)
(***************************************************************************)
PlanSparesReaders ==
    stage = "ready" =>
        \A i \in Nodes : Released(i) =>
            /\ i \notin graph.outs
            /\ lastUse[i] >= i
            /\ \A j \in Nodes :
                   /\ i \in Reads(j) => lastUse[i] >= j
                   /\ Borrows(j) /\ Source(j) = i =>
                          Released(j) /\ lastUse[i] >= lastUse[j]
                   /\ Stateful(j) => i \notin HeldInputs(j) \union HeldOutput(j)
=============================================================================
