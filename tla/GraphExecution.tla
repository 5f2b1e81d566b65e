--------------------------- MODULE GraphExecution ---------------------------
(***************************************************************************)
(* execute_graph (graph/execute.cpp) and what the engine does around it:   *)
(* inputs bound, one node per step - its storage acquired, its kernel run, *)
(* fused with its neighbours or deferred to them - the intermediates the   *)
(* release plan frees after it, the cleanup between passes, and the        *)
(* workspace kept for a pass of the same shape.  Passes may stop early,    *)
(* fail, or be suspended between segments.                                 *)
(*                                                                         *)
(* A tensor is [st, pooled, rows, dense]: its storage (0: null; a buffer   *)
(* of the pool; or storage the caller owns), whether it is MemoryType      *)
(* POOLED, its token rows, and is_contiguous().  One row takes one unit.   *)
(***************************************************************************)
EXTENDS ReleasePlan, BufferPool

CONSTANTS
    HcMinRows,    \* shortest pass the long fusions accept (16 in the code)
    MaxPasses     \* bound: passes of one behaviour; a setup may ask for fewer

\* A pass has at least one row, and no more than a buffer can hold.
ASSUME ExecutionAssumption ==
    /\ HcMinRows \in Nat /\ HcMinRows > 1
    /\ MaxPasses \in Nat
    /\ \A c \in Cases :
           /\ c.setup.rows \subseteq 1 .. MaxBytes
           /\ c.setup.passes \in 0 .. MaxPasses

VARIABLES
    phase,      \* "idle", "bound", "run", "suspended", "over"
    tensors,    \* node -> tensor
    pool,
    content,    \* buffer -> <<node, pass>> that last wrote it
    holder,     \* buffer -> node it was acquired for
    seen,       \* node -> storage and content when the node was computed
    computed,   \* nodes whose value exists in this pass
    pos, last,  \* next node, last node of this call
    waiting,    \* the deferred producers: [gate, up, inject, moe], 0 for none
    rows, pass, failed,
    key,        \* rows of the workspace key, 0: workspace_shape_valid is false
    mode        \* "whole", "stop" (at the first stateful node), "segment"

passVars == <<phase, tensors, pool, content, holder, seen, computed, pos, last,
              waiting, rows, pass, failed, key, mode>>
vars == <<planVars, passVars>>

Null == [st |-> 0, pooled |-> FALSE, rows |-> 0, dense |-> TRUE]
Clear(t) == [t EXCEPT !.st = 0, !.pooled = FALSE]
NoneWaiting == [gate |-> 0, up |-> 0, inject |-> 0, moe |-> 0]
External(i) == NBuffers + i        \* storage of node i that the caller owns
IsInput(i) == Op(i) = "input"
Bound(i) == Op(i) \in BoundOps
Kind == setup.backend

-----------------------------------------------------------------------------
(* Fusion plans of prepare_execution. *)

Uses(x) == UNION {{<<j, p>> : p \in {n \in DOMAIN graph.ins[j] : graph.ins[j][n] = x}} : j \in Nodes}
OnlyUse(x) == \E u \in Uses(x) : Uses(x) = {u}
Exposed(x) == x \in graph.outs

\* SIGMOID directly before the GR_REDUCE that is its only consumer.
GatePlanned(c) ==
    /\ c \in Nodes /\ c > 1
    /\ Op(c) = "reduce" /\ Op(c - 1) = "sigmoid"
    /\ <<c, 2>> \in Uses(c - 1)
    /\ OnlyUse(c - 1) /\ ~Exposed(c - 1)

\* MATMUL, SIGMOID, GR_REDUCE in a row; the reduction's other operand is older.
UpPlanned(c) ==
    /\ GatePlanned(c) /\ c > 2
    /\ Op(c - 2) = "matmul" /\ <<c - 1, 1>> \in Uses(c - 2)
    /\ OnlyUse(c - 2) /\ ~Exposed(c - 2)
    /\ graph.ins[c][1] < c - 2

\* The node after p that is neither input nor constant, 0 if none.
NextComputed(p) ==
    LET later == {c \in Nodes : c > p /\ ~Bound(c)} IN
    IF later = {} THEN 0 ELSE Least(later)

InjectPlanned(p, c) ==
    /\ p \in Nodes /\ Op(p) = "inject" /\ c = NextComputed(p) /\ c # 0
    /\ Op(c) = "rms" /\ <<c, 1>> \in Uses(p)

MoePlanned(m, c) ==
    /\ m \in Nodes /\ Op(m) = "moe" /\ InjectPlanned(m + 1, c)
    /\ <<m + 1, 1>> \in Uses(m)
    /\ OnlyUse(m) /\ ~Exposed(m)

\* Segments fuse only when asked to; the long MoE chain never.
FusionOn ==
    setup.fusions /\ (mode = "whole" \/ (mode = "segment" /\ setup.segmentFusions))
WithinAnything(c) == TRUE    \* faulty: the consumer may be in a later segment
Within(c) == mode # "segment" \/ c <= last

DefersUp(i) ==
    /\ FusionOn /\ rows >= HcMinRows
    /\ UpPlanned(i + 2) /\ Within(i + 2)
DefersGate(i) ==
    \/ waiting.up # 0 /\ i = waiting.up + 1
    \/ FusionOn /\ rows > 1 /\ GatePlanned(i + 1) /\ Within(i + 1)
DefersInject(i) ==
    \E c \in Nodes : InjectPlanned(i, c) /\ FusionOn /\ rows > 1 /\ Within(c)
DefersMoe(i) ==
    \E c \in Nodes : MoePlanned(i, c) /\ FusionOn /\ mode = "whole" /\ rows >= HcMinRows
Defers(i) == DefersUp(i) \/ DefersGate(i) \/ DefersInject(i) \/ DefersMoe(i)

\* The deferred producers node i completes, in order, and i itself.
Chain(i) ==
    IF waiting.up # 0 /\ i = waiting.up + 2 THEN <<waiting.up, i - 1, i>>
    ELSE IF waiting.inject # 0 /\ InjectPlanned(waiting.inject, i)
    THEN (IF waiting.moe # 0 THEN <<waiting.moe>> ELSE <<>>) \o <<waiting.inject, i>>
    ELSE IF waiting.gate # 0 /\ i = waiting.gate + 1 THEN <<i - 1, i>>
    ELSE <<i>>

-----------------------------------------------------------------------------
(* Views. *)

\* The reshapes of a sliced tensor that the CUDA backend may keep as views.
StridedTarget(i) ==
    /\ setup.strided
    /\ Op(i) = "reshape" /\ Op(Source(i)) = "slice"
    /\ OnlyUse(i) /\ ~Exposed(i)
    /\ \E u \in Uses(i) : Op(u[1]) \in {"permute", "reshape", "state"}

\* device_reshape_borrows, also the CPU kernel's rule.
ReshapeBorrows(i, source) == source.dense \/ (OnDevice /\ StridedTarget(i))

Same(s, t) == s.st = t.st          \* shares_storage_with
Operand(ts, i) == IF graph.ins[i] = <<>> THEN Null ELSE ts[Source(i)]

\* Faulty: by the operator alone, as if every RESHAPE borrowed.
BorrowedByKind(ts, i) == Op(i) \in ViewOps
\* execute_graph_impl's own classification, at the start and in a batch.
BorrowedView(ts, i) ==
    \/ Op(i) \in {"permute", "slice"}
    \/ Op(i) = "reshape" /\ ~OnDevice /\ Same(ts[i], Operand(ts, i))
    \/ Op(i) = "reshape" /\ OnDevice /\ ReshapeBorrows(i, Operand(ts, i))
    \/ Op(i) = "contiguous" /\ OnDevice /\ Operand(ts, i).dense

\* find_borrowed_views (engine/engine.cpp).
SharingView(i) ==
    \/ Op(i) \in {"permute", "slice"}
    \/ Op(i) \in {"reshape", "contiguous"} /\ Same(tensors[i], Operand(tensors, i))

\* A view's result: the source's storage under another shape.
ViewOf(i, source) ==
    [source EXCEPT !.rows = rows,
                   !.dense = IF Op(i) \in {"permute", "slice"} THEN source.dense /\ rows = 1
                             ELSE source.dense]

\* What the node returns without a kernel that writes: its source's storage.
IsView(i, source) ==
    \/ Op(i) \in {"permute", "slice"}
    \/ Op(i) = "reshape" /\ ReshapeBorrows(i, source)
    \/ Op(i) = "contiguous" /\ OnDevice /\ ~setup.dynamic /\ source.dense

-----------------------------------------------------------------------------
(* Storage. *)

\* free_output of S's materialized tensors, in the order of the nodes.
Materialized(ts, S) == {i \in S : ts[i].pooled /\ ts[i].st # 0 /\ ts[i].rows > 0}
Freed(p, ts, S, encoding) ==
    LET after[i \in 0 .. Len(graph.ops)] ==
            IF i = 0 THEN p
            ELSE IF i \in Materialized(ts, S)
            THEN AfterRelease(after[i - 1], Kind, ts[i].st, ts[i].rows, encoding)
            ELSE after[i - 1] IN
    after[Len(graph.ops)]
Forgotten(ts, S) == [i \in Nodes |-> IF i \in S THEN Clear(ts[i]) ELSE ts[i]]

Computable == {i \in Nodes : ~Bound(i)}
InputNodes == {i \in Nodes : IsInput(i)}

Workspace == [pool |-> pool, holder |-> holder, tensors |-> tensors]

\* alloc_output for node i of workspace w; nothing for a null pointer.
Allocated(w, i) ==
    LET b == Acquired(w.pool, Kind, rows) IN
    IF w.tensors[i].st # 0 \/ b = 0 THEN w
    ELSE [pool    |-> AfterAcquire(w.pool, Kind, rows),
          holder  |-> [w.holder EXCEPT ![b] = i],
          tensors |-> [w.tensors EXCEPT ![i].st = b, ![i].pooled = TRUE]]

\* The output's shape is set before its storage is looked for.
Shaped(i) == [Workspace EXCEPT !.tensors[i] = [@ EXCEPT !.rows = rows, !.dense = TRUE]]

Placed(i) ==
    LET w == Shaped(i) IN
    IF DefersUp(i) \/ DefersGate(i) \/ IsView(i, Operand(tensors, i)) THEN w
    ELSE Allocated(w, i)

Content(c, st) == IF st \in Buffers THEN c[st] ELSE <<0, 0>>
Seeing(ts, c, i) == [st |-> ts[i].st, content |-> Content(c, ts[i].st)]

-----------------------------------------------------------------------------
Init ==
    /\ PlanInit
    /\ phase = "idle"
    /\ tensors = [i \in Nodes |->
           IF Op(i) \in {"constant", "cache"}
           THEN [st |-> External(i), pooled |-> FALSE, rows |-> 1, dense |-> TRUE] ELSE Null]
    /\ pool = EmptyPool
    /\ content = [b \in Buffers |-> <<0, 0>>]
    /\ holder = [b \in Buffers |-> 0]
    /\ seen = [i \in Nodes |-> [st |-> 0, content |-> <<0, 0>>]]
    /\ computed = {}
    /\ pos = 1 /\ last = 0 /\ waiting = NoneWaiting
    /\ rows = 0 /\ pass = 0 /\ failed = FALSE /\ key = 0 /\ mode = "whole"

Prepare == PlanNext /\ UNCHANGED passVars

\* embed, masks and positions: from the graph's own host pool, or elsewhere.
InputBound(w, i, r) ==
    LET b == Acquired(w.pool, Kind, r)
        own == [st |-> b, pooled |-> TRUE, rows |-> r, dense |-> TRUE]
        other == [st |-> External(i), pooled |-> FALSE, rows |-> r, dense |-> TRUE] IN
    IF ~IsInput(i) THEN w
    ELSE IF ~setup.ownInputs THEN [w EXCEPT !.tensors[i] = other]
    ELSE [pool    |-> AfterAcquire(w.pool, Kind, r),
          holder  |-> [w.holder EXCEPT ![b] = i],
          tensors |-> [w.tensors EXCEPT ![i] = own]]
InputsBound(r) ==
    LET after[i \in 0 .. Len(graph.ops)] ==
            IF i = 0 THEN Workspace ELSE InputBound(after[i - 1], i, r) IN
    after[Len(graph.ops)]
BindInputs(r) ==
    /\ stage = "ready" /\ phase = "idle" /\ pass < setup.passes
    /\ LET w == InputsBound(r) IN
       /\ \A i \in InputNodes : w.tensors[i].st # 0      \* bound: NBuffers hold them
       /\ pool' = w.pool /\ holder' = w.holder /\ tensors' = w.tensors
       /\ content' = [b \in Buffers |->
              IF \E i \in InputNodes : w.tensors[i].st = b THEN <<w.holder[b], pass + 1>>
              ELSE content[b]]
       /\ seen' = [i \in Nodes |->
              IF Bound(i) THEN Seeing(w.tensors, content', i) ELSE seen[i]]
    /\ computed' = {i \in Nodes : Bound(i)}
    /\ rows' = r /\ pass' = pass + 1 /\ phase' = "bound" /\ failed' = FALSE
    /\ UNCHANGED <<planVars, pos, last, waiting, key, mode>>

\* Faulty: any finished pass makes the workspace reusable.
AnyShape == setup.reuseSame /\ key # 0
SameShape == setup.reuseSame /\ key # 0 /\ key = rows
ReuseWorkspace == IF setup.dynamic THEN SameShape ELSE setup.reuseStatic

\* The start of a fresh pass: views forget their storage, owners return it
\* unless the workspace is reused.
Begin(m, l) ==
    /\ phase = "bound" /\ m \in setup.modes
    /\ LET borrowed == {i \in Computable : BorrowedView(tensors, i)}
           owners == IF ReuseWorkspace THEN {} ELSE Computable \ borrowed IN
       /\ tensors' = Forgotten(tensors, borrowed \union owners)
       /\ pool' = Freed(pool, tensors, owners, TRUE)
    /\ mode' = m /\ last' = l /\ pos' = 1 /\ waiting' = NoneWaiting /\ phase' = "run"
    /\ UNCHANGED <<planVars, content, holder, seen, computed, rows, pass, failed, key>>

FirstStateful == {i \in Nodes : Stateful(i) /\ \A j \in 1 .. (i - 1) : ~Stateful(j)}
BeginWhole == Begin("whole", Len(graph.ops))
BeginStopped == \E i \in FirstStateful : Begin("stop", i)
\* A call that suspended (segment_next > 0) must be resumed before another
\* segmented one starts.
Unresumed == mode = "segment" /\ pos > last /\ last \in 1 .. (Len(graph.ops) - 1)
BeginSegment == ~Unresumed /\ \E e \in Nodes : Begin("segment", e)

PassInput ==
    /\ phase = "run" /\ pos <= last /\ Bound(pos)
    /\ pos' = pos + 1
    /\ UNCHANGED <<planVars, phase, tensors, pool, content, holder, seen, computed,
                   last, waiting, rows, pass, failed, key, mode>>

AtNode == phase = "run" /\ pos <= last /\ ~Bound(pos)

\* The node waits for its consumer, which computes both at once.
DeferNode ==
    /\ AtNode /\ Defers(pos)
    /\ LET w == Placed(pos) IN
       /\ w.tensors[pos].st # 0 \/ DefersUp(pos) \/ DefersGate(pos)
       /\ tensors' = w.tensors /\ pool' = w.pool /\ holder' = w.holder
    /\ waiting' = [gate   |-> IF DefersGate(pos) THEN pos ELSE waiting.gate,
                   up     |-> IF DefersUp(pos) THEN pos ELSE waiting.up,
                   inject |-> IF DefersInject(pos) THEN pos ELSE waiting.inject,
                   moe    |-> IF DefersMoe(pos) THEN pos ELSE waiting.moe]
    /\ pos' = pos + 1
    /\ UNCHANGED <<planVars, phase, content, seen, computed, last, rows, pass,
                   failed, key, mode>>

\* The producers before place m of the chain run on their own, the rest and
\* the node in one kernel.  What a kernel skips has no storage, or is the
\* branch output that only the fused kernel's own result needs.
Together(chain, m) == {chain[n] : n \in m .. Len(chain)}
WithStorage(i, m) ==
    LET after[n \in 0 .. (m - 1)] ==
            IF n = 0 THEN Placed(i) ELSE Allocated(after[n - 1], Chain(i)[n]) IN
    after[m - 1]
Written(i, m, ts) ==
    {x \in Together(Chain(i), 1) :
        /\ ts[x].st # 0
        /\ Op(x) = "moe" => x \notin Together(Chain(i), m) \/ Chain(i) = <<x>>}

\* The storage to give up after node i: everything due since the first node
\* of its chain.
DueAfter(i) ==
    IF ReuseWorkspace THEN {}
    ELSE UNION {Batch(j) : j \in Chain(i)[1] .. i}

RunNode ==
    /\ AtNode /\ ~Defers(pos)
    /\ \E m \in 1 .. Len(Chain(pos)) :
         LET w == WithStorage(pos, m)
             source == Operand(tensors, pos)
             view == IsView(pos, source)
             ts == IF view THEN [w.tensors EXCEPT ![pos] = ViewOf(pos, source)] ELSE w.tensors
             written == IF view THEN {} ELSE Written(pos, m, ts)
             due == DueAfter(pos)
             borrowed == {i \in due : BorrowedView(ts, i)} IN
         /\ view \/ ts[pos].st # 0
         /\ \A n \in 1 .. (m - 1) : ts[Chain(pos)[n]].st # 0
         /\ content' = [b \in Buffers |->
                IF \E x \in written : ts[x].st = b
                THEN <<CHOOSE x \in written : ts[x].st = b, pass>> ELSE content[b]]
         /\ seen' = [i \in Nodes |->
                IF i \in written \union {pos} THEN Seeing(ts, content', i) ELSE seen[i]]
         /\ tensors' = Forgotten(ts, borrowed \union Materialized(ts, due \ borrowed))
         /\ pool' = Freed(w.pool, ts, due \ borrowed, TRUE)
         /\ holder' = w.holder
    /\ computed' = computed \union Together(Chain(pos), 1)
    /\ waiting' = IF Len(Chain(pos)) = 1 THEN waiting ELSE NoneWaiting
    /\ pos' = pos + 1
    /\ UNCHANGED <<planVars, phase, last, rows, pass, failed, key, mode>>

\* A rejected kernel or a failed allocation ends the pass where it is.
FailNode ==
    /\ AtNode /\ setup.mayFail
    /\ \E w \in {Workspace, Placed(pos), WithStorage(pos, Len(Chain(pos)))} :
           tensors' = w.tensors /\ pool' = Flushed(w.pool) /\ holder' = w.holder
    /\ failed' = TRUE /\ phase' = "over"
    /\ UNCHANGED <<planVars, content, seen, computed, pos, last, waiting, rows,
                   pass, key, mode>>

\* The end of the call: the workspace key, and a cursor if nodes are left.
EndPass ==
    /\ phase = "run" /\ pos > last
    /\ LET suspended == mode = "segment" /\ last < Len(graph.ops) IN
       /\ key' = IF setup.reuseSame /\ setup.dynamic /\ ~suspended THEN rows ELSE key
       /\ phase' = IF suspended THEN "suspended" ELSE "over"
    /\ pool' = Flushed(pool)
    /\ UNCHANGED <<planVars, tensors, content, holder, seen, computed, pos, last,
                   waiting, rows, pass, failed, mode>>

\* Faulty: the exclusive end of the segment taken for its last node.
ResumeThroughEnd ==
    /\ phase = "suspended"
    /\ last' \in (pos + 1) .. (Len(graph.ops) + 1)
    /\ waiting' = NoneWaiting /\ phase' = "run"
    /\ UNCHANGED <<planVars, tensors, pool, content, holder, seen, computed, pos,
                   rows, pass, failed, key, mode>>

Resume ==
    /\ phase = "suspended"
    /\ last' \in pos .. Len(graph.ops)
    /\ waiting' = NoneWaiting /\ phase' = "run"
    /\ UNCHANGED <<planVars, tensors, pool, content, holder, seen, computed, pos,
                   rows, pass, failed, key, mode>>

\* The caller gives a suspended pass up; only a whole one may follow.
Abandon ==
    /\ phase = "suspended" /\ setup.mayFail
    /\ failed' = TRUE /\ phase' = "over"
    /\ UNCHANGED <<planVars, tensors, pool, content, holder, seen, computed, pos,
                   last, waiting, rows, pass, key, mode>>

\* release_graph_temporaries / clear_graph_borrowed_views.
ReleaseTemporaries(p) ==
    LET borrowed == {i \in Computable : SharingView(i)} IN
    /\ tensors' = Forgotten(tensors, Computable)
    /\ pool' = Freed(p, tensors, Computable \ borrowed, FALSE)
ClearViews(p) ==
    /\ tensors' = Forgotten(tensors, {i \in Computable : SharingView(i)})
    /\ pool' = p

\* The engine reads the result, returns the inputs, cleans up.
Finish ==
    /\ phase = "over"
    /\ LET p == Freed(pool, tensors, InputNodes, FALSE) IN
       IF setup.reuseStatic \/ setup.reuseSame
       THEN ClearViews(p) /\ key' = key
       ELSE ReleaseTemporaries(p) /\ key' = 0
    /\ computed' = {} /\ phase' = "idle"
    /\ UNCHANGED <<planVars, content, holder, seen, pos, last, waiting, rows, pass,
                   failed, mode>>

\* release_prefill_buffers and reset; release_vision_buffers also empties the
\* host pool.
ReleaseBuffers ==
    /\ stage = "ready" /\ phase = "idle" /\ pass \in 1 .. (setup.passes - 1)
    /\ LET owners == Computable \ {i \in Computable : SharingView(i)}
           p == Freed(pool, tensors, owners, FALSE) IN
       pool' = IF setup.vision THEN Cleared(p) ELSE p
    /\ tensors' = Forgotten(tensors, Computable)
    /\ key' = 0
    /\ UNCHANGED <<planVars, phase, content, holder, seen, computed, pos, last,
                   waiting, rows, pass, failed, mode>>

Next ==
    \/ Prepare
    \/ \E r \in setup.rows : BindInputs(r)
    \/ BeginWhole \/ BeginStopped \/ BeginSegment
    \/ PassInput \/ DeferNode \/ RunNode \/ FailNode \/ EndPass
    \/ Resume \/ Abandon \/ Finish \/ ReleaseBuffers

Spec == Init /\ [][Next]_vars

(***************************************************************************)
(* What the proofs assume of graphs and contexts.  The transpilers give    *)
(* inputs and constants no operands, views a source, and emit CONTIGUOUS   *)
(* after PERMUTE or SLICE only.  Only the MTP context stops early and only *)
(* the trunk's prefill context may be conservative.  The one static        *)
(* workspace, decode, has one shape.  Two clauses leave out what the code  *)
(* gets wrong: a one-row dynamic pass on a device loses the buffer of a    *)
(* CONTIGUOUS, and a failed pass leaves a stale key.                       *)
(***************************************************************************)
Served(g, s) ==
    /\ \A i \in DOMAIN g.ops :
           /\ g.ops[i] \in BoundOps => g.ins[i] = <<>>
           /\ g.ops[i] \in ViewOps \union {"contiguous"} => g.ins[i] # <<>>
           /\ g.ops[i] = "contiguous" /\ s.dynamic /\ s.backend # "host" =>
                  g.ops[g.ins[i][1]] \in {"permute", "slice"} /\ 1 \notin s.rows
    /\ "stop" \in s.modes => ~s.conservative
    /\ s.mayFail => ~s.reuseSame
    /\ s.reuseStatic /\ ~s.dynamic =>
           /\ \A r, t \in s.rows : r = t
           /\ s.mayFail => s.rows \subseteq {1}
CasesServed == \A c \in Cases : Served(c.graph, c.setup)
-----------------------------------------------------------------------------
TypeOK ==
    /\ phase \in {"idle", "bound", "run", "suspended", "over"}
    /\ \A i \in Nodes :
           /\ tensors[i].st \in 0 .. (NBuffers + Len(graph.ops))
           /\ tensors[i].pooled \in BOOLEAN /\ tensors[i].dense \in BOOLEAN
           /\ tensors[i].rows \in 0 .. MaxBytes
    /\ pool.active \subseteq Buffers /\ pool.size \in [Buffers -> Sizes]
    /\ holder \in [Buffers -> Nodes \union {0}]
    /\ computed \subseteq Nodes
    /\ pos \in 1 .. (Len(graph.ops) + 1) /\ last \in 0 .. Len(graph.ops)
    /\ waiting \in [{"gate", "up", "inject", "moe"} -> 0 .. Len(graph.ops)]
    /\ rows \in 0 .. MaxBytes /\ key \in 0 .. MaxBytes
    /\ pass \in 0 .. MaxPasses /\ failed \in BOOLEAN
    /\ mode \in {"whole", "stop", "segment"}

InPass == phase \in {"run", "suspended", "over"} /\ ~failed

\* Somebody will still read node x: a node that has not run, or the caller.
Needed(x) ==
    \/ Exposed(x) \/ (mode = "stop" /\ x = last)
    \/ \E j \in Nodes \ computed : x \in Reads(j)

\* The tensor still tells the value that was computed.
Intact(x) ==
    LET st == tensors[x].st IN
    /\ st = seen[x].st /\ st # 0
    /\ Content(content, st) = seen[x].content
    /\ st \in Buffers => st \in pool.active

\* What a kernel writes fits the buffer, also when it was kept from an earlier
\* pass.
Fits(x) == tensors[x].st \in Buffers => pool.size[tensors[x].st] >= tensors[x].rows

(***************************************************************************)
(* Whatever order nodes are deferred, fused and released in, and whatever  *)
(* views lie between, a computed tensor somebody still needs has its       *)
(* storage, nothing else was written there, and what was written fits: the *)
(* workspace is only reused for the shape it has.                          *)
(***************************************************************************)
LiveValuesIntact == InPass => \A x \in computed : Fits(x) /\ (Needed(x) => Intact(x))

(***************************************************************************)
(* No buffer is returned twice, by the wrong pool or in the wrong bucket,  *)
(* and each one still out is held by the tensor it was acquired for: views *)
(* are never taken for owners, nor owners for views (a lost buffer).       *)
(***************************************************************************)
OwnersAreExact ==
    /\ ~pool.misuse
    /\ \A b \in pool.active :
           \/ tensors[holder[b]].st = b /\ holder[b] # 0
           \/ \E n \in DOMAIN pool.pending : pool.pending[n] = b

(***************************************************************************)
(* A call that ends without failure has computed every node it passed: no  *)
(* producer is left deferred to a consumer behind a suspension or the end. *)
(***************************************************************************)
NothingLeftDeferred ==
    phase \in {"suspended", "over"} /\ ~failed => \A i \in 1 .. (pos - 1) : i \in computed

(***************************************************************************)
(* What execute.h says of reuse_same_shape_workspace: a pass that reuses   *)
(* the workspace finds every tensor kept with the shape of this pass.      *)
(***************************************************************************)
WorkspaceHasItsShape ==
    phase = "run" /\ setup.dynamic /\ SameShape =>
        \A i \in Computable :
            tensors[i].pooled /\ tensors[i].st # 0 => tensors[i].rows = rows
=============================================================================
