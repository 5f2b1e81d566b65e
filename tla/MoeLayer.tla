------------------------------ MODULE MoeLayer ------------------------------
(***************************************************************************)
(* A forward pass through the MoE layers of a model whose experts are on   *)
(* SSD: the kernel of each layer (kernel_qwen3_moe, kernels/cpu/moe/       *)
(* moe.cpp), the predictor that asks for the experts of the next layer     *)
(* (backends/cpu/ssd_prefetch.cpp, scheduled by graph/execute.cpp) and the *)
(* I/O workers, over the cache of ExpertPolicy.                            *)
(*                                                                         *)
(* A contribution to a token's output is named by the expert and the rank  *)
(* it comes from; addition of floats is a sequence, as its order counts.   *)
(* A pair loads in one step; splitting, queues and waiting are the subject *)
(* of ExpertCache, parking of ThreadPool.                                  *)
(***************************************************************************)
EXTENDS ExpertPolicy

CONSTANTS
    Setups,     \* what a model and a command line may choose
    Scores,     \* what a predictor may make of the next layer's router
    HashRoutes  \* the rows of the hash tables

\* tokens and passes are the bounds of the model: of a run, and on the runs.
SetupType ==
    [global : BOOLEAN, predict : BOOLEAN, threads : Nat \ {0},
     hashed : SUBSET Layer,
     failures : BOOLEAN, tokens : Nat \ {0}, passes : Nat, scores : SUBSET Scores]

ASSUME MoeAssumption ==
    /\ Setups \subseteq SetupType
    /\ Scores \subseteq [ExpertId -> Int] /\ HashRoutes \subseteq [1..TopK -> ExpertId]
    /\ \A s \in Scores, e, f \in ExpertId : s[e] > MinusInf /\ s[e] + s[f] > MinusInf

VARIABLES
    passes,     \* runs begun
    pc,         \* where the compute thread is
    layer,      \* the MoE layer it runs
    known,      \* the routes hash-routed layers will take in this pass
    scores,     \* router_logits, one per token
    routes,     \* top_idx
    at,         \* the expert in turn
    ready,      \* ready: the experts of the batch being collected
    leases,     \* how many of them are borrowed
    batch,      \* batched_slots and batch_down_out: expert -> contribution
    window,     \* stream_expert_window
    output,     \* output: per token, the contributions added so far
    tasks       \* cross_layer_tasks_ and the one the predictor works on

kernel == <<layer, known, scores, routes, at, ready, leases, batch, window, output>>
vars == <<setup, cache, passes, pc, kernel, tasks>>
-----------------------------------------------------------------------------
Shared == "shared"
Junk == "junk"

(* can_prefetch_pairs: room for that many pairs of a layer. *)
CanPrefetch(pairs) == pairs <= Limit

Selected == Sorted(Chosen(routes), <)
Decode == Len(routes) = 1
Threaded == Decode /\ setup.threads > 1
CanBatch == Threaded /\ Len(Selected) > 1

\* The first selected expert from e on; NExperts when there is none.
SelectedFrom(e) ==
    LET S == {x \in Chosen(routes) : x >= e} IN IF S = {} THEN NExperts ELSE Min(S)

Weights(e) == <<layer, e>>
InBatch(e) == e \in DOMAIN batch

\* What a matmul with the borrowed weights of e adds for route r.
Contribution(c, e, r) ==
    IF IsReady(c, Weights(e)) /\ c.entry[Weights(e)].pins > 0 THEN <<e, r[2]>> ELSE Junk

\* Adds contribution v[r] of each route r of expert e to the output of its
\* token, in the order of the ranks (the counting sort of the routes by expert).
AddRoutes(out, e, v) ==
    [t \in DOMAIN out |->
        FoldLeftDomain(LAMBDA o, k : IF routes[t][k] = e THEN Append(o, v[<<t, k>>]) ELSE o,
                       out[t], routes[t])]
-----------------------------------------------------------------------------
Init ==
    /\ setup \in Setups
    /\ cache = EmptyCache
    /\ passes = 0 /\ pc = "idle" /\ layer = 0 /\ known = [l \in {} |-> <<>>]
    /\ scores = <<>> /\ routes = <<>> /\ at = 0
    /\ ready = <<>> /\ leases = 0 /\ batch = [e \in {} |-> Junk]
    /\ window = FALSE /\ output = <<>> /\ tasks = <<>>

(* run_graph for n tokens: the cache ages; the first hash-routed layer of a  *)
(* decode run is demanded before the graph starts.                           *)
BeginPass ==
    /\ pc = "idle" /\ passes < setup.passes /\ passes' = passes + 1
    /\ \E n \in 1..setup.tokens : \E rows \in [setup.hashed -> [1..n -> HashRoutes]] :
        LET first == Min(setup.hashed) IN
        /\ known' = rows
        /\ cache' = IF setup.predict /\ setup.hashed # {} /\ n = 1 /\ CanPrefetch(TopK)
                    THEN Demanded(Aged(cache), first, rows[first][1]) ELSE Aged(cache)
        /\ scores' = [t \in 1..n |-> [e \in ExpertId |-> MinusInf]]
    /\ pc' = "route" /\ layer' = 0 /\ routes' = <<>> /\ output' = <<>>
    /\ UNCHANGED <<setup, tasks, at, ready, leases, batch, window>>

(* The prediction for the next layer: its route when a table tells it, else  *)
(* what its router makes of this layer's input.  Two may wait while the      *)
(* predictor works on a third.                                               *)
Task(l) == [layer |-> l, route |-> IF l \in setup.hashed THEN known[l][1] ELSE <<>>]
Schedule(decode) ==
    LET l == layer + 1
        wanted == setup.predict /\ decode /\ l < NLayers
                  /\ CanPrefetch(IF l \in setup.hashed THEN TopK ELSE 2 * TopK)
    IN  \/ wanted /\ Len(tasks) <= 2 /\ tasks' = Append(tasks, Task(l))
        \/ (wanted => Len(tasks) >= 2) /\ UNCHANGED tasks

(* The routes of the layer, and the request for its experts with all misses  *)
(* queued; a single token's route is retained for the next token.            *)
Route ==
    /\ pc = "route"
    /\ IF layer \in setup.hashed
       THEN routes' = known[layer] /\ UNCHANGED scores
       ELSE /\ scores' \in [DOMAIN scores -> setup.scores]
            /\ routes' = [t \in DOMAIN scores' |-> SelectRoutes(scores'[t])]
    /\ output' = [t \in DOMAIN scores' |-> <<>>]
    /\ Schedule(Len(scores) = 1)
    /\ pc' = IF Len(scores) = 1 THEN "retain" ELSE "request"
    /\ UNCHANGED <<setup, passes, cache, layer, known, at, ready, leases, batch,
                   window>>

Retain ==
    /\ pc = "retain"
    /\ \E kept \in RetainedSets(cache, layer, routes[1], layer \notin setup.hashed) :
        cache' = Retaining(cache, layer, kept)
    /\ pc' = "request"
    /\ UNCHANGED <<setup, passes, kernel, tasks>>

Request ==
    /\ pc = "request"
    /\ cache' = Demanded(cache, layer, Selected)
    /\ pc' = "count"
    /\ UNCHANGED <<setup, passes, kernel, tasks>>

(* resident_count; the shared expert is computed here, and added last. *)
CountResident ==
    /\ pc = "count"
    /\ window' = (\E e \in Chosen(routes) : ~Contained(cache, Weights(e)))
    /\ at' = SelectedFrom(0) /\ batch' = [e \in {} |-> Junk]
    /\ pc' = IF CanBatch THEN "scan" ELSE "expert"
    /\ UNCHANGED <<setup, passes, cache, layer, known, scores, routes, ready, leases,
                   output, tasks>>
-----------------------------------------------------------------------------
(* The ready batch: collect, borrow all, compute, release, and look again. *)

Scan ==
    /\ pc = "scan" /\ at < NExperts
    /\ ready' = IF Count(routes, at) = 1 /\ ~InBatch(at) /\ IsReady(cache, Weights(at))
                THEN Append(ready, at) ELSE ready
    /\ at' = SelectedFrom(at + 1)
    /\ UNCHANGED <<setup, passes, cache, pc, layer, known, scores, routes, leases,
                   batch, window, output, tasks>>

ScanEnds ==
    /\ pc = "scan" /\ at = NExperts
    /\ pc' = IF ready = <<>> THEN "expert" ELSE "lease"
    /\ at' = SelectedFrom(0)
    /\ UNCHANGED <<setup, passes, cache, layer, known, scores, routes, ready, leases,
                   batch, window, output, tasks>>

(* A borrow that does not wait: only a pair that is ready. *)
TryBorrow(p) == Pinned(Acquired(Borrowing(cache, p[1]), p), p)

LeaseOne ==
    /\ pc = "lease" /\ leases < Len(ready)
    /\ LET p == Weights(ready[leases + 1]) IN
       \/ IsReady(cache, p) /\ cache' = TryBorrow(p) /\ leases' = leases + 1 /\ UNCHANGED pc
       \/ ~IsReady(cache, p) /\ cache' = Borrowing(cache, layer) /\ pc' = "giveup"
          /\ UNCHANGED leases
    /\ UNCHANGED <<setup, passes, layer, known, scores, routes, at, ready, batch,
                   window, output, tasks>>

\* Every lease is there: one dispatch computes the batch; its results wait
\* for their turn.
BatchOutcome(c) ==
    [e \in ToSet(ready) |-> Contribution(c, e, CHOOSE r \in RoutesOf(routes, e) : TRUE)]
\* Faulty: the results are added as they come.
AddedAtOnce(out, computed) ==
    FoldLeft(LAMBDA o, e : [o EXCEPT ![1] = Append(@, computed[e])], out, ready)
Deferred(out, computed) == out

ComputeBatch ==
    /\ pc = "lease" /\ leases = Len(ready)
    /\ LET computed == BatchOutcome(cache) IN
       /\ batch' = [e \in DOMAIN computed \cup DOMAIN batch |->
                       IF e \in DOMAIN computed THEN computed[e] ELSE batch[e]]
       /\ output' = Deferred(output, computed)
    /\ pc' = "release"
    /\ UNCHANGED <<setup, passes, cache, layer, known, scores, routes, at, ready,
                   leases, window, tasks>>

ReleaseOne ==
    /\ pc \in {"release", "giveup"} /\ leases > 0
    /\ cache' = Unpinned(cache, Weights(ready[leases])) /\ leases' = leases - 1
    /\ UNCHANGED <<setup, passes, pc, layer, known, scores, routes, at, ready, batch,
                   window, output, tasks>>

Released ==
    /\ pc \in {"release", "giveup"} /\ leases = 0
    /\ ready' = <<>> /\ pc' = IF pc = "release" THEN "scan" ELSE "expert"
    /\ UNCHANGED <<setup, passes, cache, layer, known, scores, routes, at, leases,
                   batch, window, output, tasks>>
-----------------------------------------------------------------------------
(* The experts in the order of their ids. *)

Scatter ==
    /\ pc = "expert" /\ at < NExperts /\ InBatch(at)
    /\ output' = AddRoutes(output, at, [r \in RoutesOf(routes, at) |-> batch[at]])
    /\ pc' = "advance"
    /\ UNCHANGED <<setup, passes, cache, layer, known, scores, routes, at, ready,
                   leases, batch, window, tasks>>

BorrowNow ==
    /\ pc = "expert" /\ at < NExperts /\ ~InBatch(at) /\ Threaded
    /\ IF IsReady(cache, Weights(at))
       THEN cache' = TryBorrow(Weights(at)) /\ pc' = "compute"
       ELSE cache' = Borrowing(cache, layer) /\ pc' = "borrow"
    /\ UNCHANGED <<setup, passes, kernel, tasks>>

(* The blocking borrow: a failed residency is dropped, a missing pair        *)
(* reserved; without a slot the thread sleeps, and after that it takes what  *)
(* residency it finds, or tries to reserve again.  Then the load is awaited. *)
Borrows == pc = "borrow" \/ (pc = "expert" /\ at < NExperts /\ ~InBatch(at) /\ ~Threaded)
Wanted(c, p) ==
    LET found == IF c.entry[p].state = "failed" /\ ~Busy(c, p) THEN Removed(c, p) ELSE c
    IN  IF Resident(found, p) THEN found ELSE Reserved(found, p, FALSE, 0)
\* Faulty: what was refused is not reserved again.
LookedAgain(c, p) == c
Retried(c, p) == IF Resident(c, p) THEN c ELSE Reserved(c, p, FALSE, 0)

Borrow ==
    /\ Borrows
    /\ LET p == Weights(at)  c == Wanted(Borrowing(cache, layer), p) IN
       IF Resident(c, p) THEN cache' = Pinned(c, p) /\ pc' = "load"
                         ELSE cache' = c /\ pc' = "slot"
    /\ UNCHANGED <<setup, passes, kernel, tasks>>

SlotWake ==
    /\ pc = "slot"
    /\ LET p == Weights(at)  c == Retried(cache, p) IN
       Resident(c, p) /\ cache' = Pinned(c, p)
    /\ pc' = "load"
    /\ UNCHANGED <<setup, passes, kernel, tasks>>

Load ==
    /\ pc = "load"
    /\ LET p == Weights(at) IN
       \/ IsReady(cache, p) /\ cache' = Acquired(cache, p) /\ pc' = "compute"
       \/ cache.entry[p].state = "failed" /\ cache' = Unpinned(cache, p) /\ pc' = "idle"
    /\ UNCHANGED <<setup, passes, kernel, tasks>>

Compute ==
    /\ pc = "compute"
    /\ output' = AddRoutes(output, at,
           [r \in RoutesOf(routes, at) |-> Contribution(cache, at, r)])
    /\ cache' = Unpinned(cache, Weights(at))
    /\ pc' = "advance"
    /\ UNCHANGED <<setup, passes, layer, known, scores, routes, at, ready, leases,
                   batch, window, tasks>>

(* advance_stream_window: a cache too small for the route drops the expert   *)
(* just used and asks for the next selected one it does not hold.            *)
Advance ==
    /\ pc = "advance"
    /\ IF window
       THEN /\ cache' = Evicted(cache, Weights(at)) /\ pc' = "look"
            /\ ready' = <<SelectedFrom(at + 1)>> /\ UNCHANGED at
       ELSE pc' = "expert" /\ at' = SelectedFrom(at + 1) /\ UNCHANGED <<cache, ready>>
    /\ UNCHANGED <<setup, passes, layer, known, scores, routes, leases, batch, window,
                   output, tasks>>

Look ==
    /\ pc = "look"
    /\ LET next == ready[1] IN
       \/ next = NExperts /\ pc' = "expert" /\ ready' = <<>> /\ at' = SelectedFrom(at + 1)
       \/ next < NExperts /\ Contained(cache, Weights(next))
          /\ ready' = <<SelectedFrom(next + 1)>> /\ UNCHANGED <<pc, at>>
       \/ next < NExperts /\ ~Contained(cache, Weights(next))
          /\ pc' = "refill" /\ UNCHANGED <<ready, at>>
    /\ UNCHANGED <<setup, passes, cache, layer, known, scores, routes, leases, batch,
                   window, output, tasks>>

Refill ==
    /\ pc = "refill"
    /\ cache' = Demanded(cache, layer, ready)
    /\ pc' = "expert" /\ ready' = <<>> /\ at' = SelectedFrom(at + 1)
    /\ UNCHANGED <<setup, passes, layer, known, scores, routes, leases, batch, window,
                   output, tasks>>

AddShared ==
    /\ pc = "expert" /\ at = NExperts
    /\ output' = [t \in DOMAIN output |-> Append(output[t], Shared)]
    /\ pc' = "added"
    /\ UNCHANGED <<setup, passes, cache, layer, known, scores, routes, at, ready,
                   leases, batch, window, tasks>>

NextLayer ==
    /\ pc = "added"
    /\ IF layer + 1 < NLayers THEN pc' = "route" /\ layer' = layer + 1
                              ELSE pc' = "idle" /\ UNCHANGED layer
    /\ UNCHANGED <<setup, passes, cache, known, scores, routes, at, ready, leases,
                   batch, window, output, tasks>>
-----------------------------------------------------------------------------
(* The predictor runs the oldest task: prefetch_many for a table's route, or *)
(* for the best of what the next router says, as many as have paid off.      *)
Confidence(hash) == [k \in 1..TopK |-> IF hash \/ k = 1 THEN 2 ELSE 1]
Predict ==
    /\ tasks # <<>> /\ tasks' = Tail(tasks)
    /\ LET t == Head(tasks) IN
       \/ t.route # <<>>
          /\ cache' = Requested(cache, t.layer, t.route, TRUE, Confidence(TRUE))
       \/ t.route = <<>>
          /\ \E s \in Scores, n \in 1..TopK :
                cache' = Requested(cache, t.layer, SubSeq(SelectRoutes(s), 1, n), TRUE,
                                   Confidence(FALSE))
    /\ UNCHANGED <<setup, passes, pc, kernel>>

Complete(p) ==
    /\ cache.entry[p].state = "loading"
    /\ \E ok \in {TRUE} \cup {~setup.failures} : cache' = Loaded(cache, p, ok)
    /\ UNCHANGED <<setup, passes, pc, kernel, tasks>>

RunKernel ==
    \/ Route \/ Retain \/ Request \/ CountResident
    \/ Scan \/ ScanEnds \/ LeaseOne \/ ComputeBatch \/ ReleaseOne \/ Released
    \/ Scatter \/ BorrowNow \/ Borrow \/ SlotWake \/ Load \/ Compute \/ Advance \/ Look \/ Refill
    \/ AddShared \/ NextLayer

RunIo == \E p \in Pair : Complete(p)

Next == BeginPass \/ RunKernel \/ Predict \/ RunIo

Spec == Init /\ [][Next]_vars

(* What may keep the compute thread from a step: no slot, or a read. *)
Waits ==
    LET p == Weights(at) IN
    \/ pc = "idle"
    \/ pc = "slot" /\ ~Resident(Retried(cache, p), p)
    \/ pc = "load" /\ cache.entry[p].state = "loading"

(* The compute thread runs whenever it can, and the reads end; nothing has   *)
(* to wait for the predictor.  Weak fairness of RunKernel and RunIo, with    *)
(* what enables them written out.                                            *)
FairSpec ==
    /\ Spec
    /\ []<>Waits \/ []<><<RunKernel>>_vars
    /\ []<>(\A p \in Pair : cache.entry[p].state # "loading") \/ []<><<RunIo>>_vars
-----------------------------------------------------------------------------
Routed == pc \notin {"idle", "route"}

EntryType ==
    [state : {"absent", "loading", "ready", "failed"}, pins : 0..1, current : BOOLEAN,
     speculative : BOOLEAN, predicted : BOOLEAN, confidence : 0..2, retained : BOOLEAN]

(* Types; the entries are those that are resident, they never exceed the     *)
(* capacity, and only experts of the running layer are borrowed.             *)
MoeTypeOK ==
    /\ setup \in Setups /\ layer \in Layer /\ at \in 0..NExperts
    /\ cache.entry \in [Pair -> EntryType]
    /\ ToSet(cache.arrival) = {p \in Pair : Resident(cache, p)}
    /\ ToSet(cache.recency) = ToSet(cache.arrival) /\ Len(cache.recency) = Len(cache.arrival)
    /\ Len(cache.arrival) <= Capacity
    /\ ~setup.global => \A l \in Layer : Cardinality(OfLayer(cache, l)) <= Share
    /\ \A p \in Pair : cache.entry[p].pins > 0 => Routed /\ p[1] = layer /\ p[2] \in Chosen(routes)
    /\ Len(tasks) <= 3

(* Whatever was resident, ready, batched, evicted or read again, a layer     *)
(* adds the contributions of each token's best experts, the lower id winning *)
(* a tie, once each, from weights that were there, in the order of their ids *)
(* and the shared expert last: an output depends on the router alone, and    *)
(* not on timing (moe.cpp; moe_routing.cpp).                                 *)
RouteOf(t) == IF layer \in setup.hashed THEN known[layer][t] ELSE BestRoute(scores[t])
InOrder(route) ==
    Sorted(1..TopK, LAMBDA j, k : route[j] < route[k] \/ (route[j] = route[k] /\ j < k))
Expected(t) ==
    LET order == InOrder(RouteOf(t)) IN
    Append([n \in 1..TopK |-> <<RouteOf(t)[order[n]], order[n]>>], Shared)
OutputsAddUp ==
    pc = "added" => output = [t \in DOMAIN routes |-> Expected(t)]

(* Predictions for the next layer take no pair from the running one that it  *)
(* demanded itself: not while it is queued, being read, ready or in use.     *)
AdviceSparesRoute ==
    [][Predict =>
        \A e \in Chosen(routes) :
            LET p == Weights(e) IN
            pc \notin {"idle", "route", "retain", "request", "added"}
                /\ Contained(cache, p) /\ ~cache.entry[p].speculative
                => cache'.entry[p].state = cache.entry[p].state]_vars

(* A pass ends: no lease, prediction or failed read leaves the compute       *)
(* thread waiting for a slot for ever.                                       *)
PassesEnd == (pc # "idle") ~> (pc = "idle")
=============================================================================
