---------------------------- MODULE ExpertPolicy ----------------------------
(***************************************************************************)
(* The policy of the SSD expert cache, which ExpertCache leaves open: what *)
(* a request touches and reserves, which entry it evicts for that, what an *)
(* advisory request may evict, what is kept for the next token             *)
(* (storage/ssd_expert_cache/cache.cpp).  One operator is one critical     *)
(* section of mutex_: it takes the cache and returns the cache.            *)
(*                                                                         *)
(* Abstractions.  A pair takes one unit.  used_at is the place in          *)
(* `recency'; forward_epoch and prediction_epoch are only ever compared    *)
(* with the current epoch, so they are Booleans.  Which history is worth   *)
(* retaining (decayed scores) and how many predictions are worth reading   *)
(* (hit rates) are left open.                                              *)
(***************************************************************************)
EXTENDS ExpertRouting

CONSTANTS
    NLayers,        \* MoE layers, in the order they run
    Capacity,       \* pairs the cache holds
    Shallow         \* shallow_favoring_layers_

Layer == 0..(NLayers - 1)
Pair == Layer \X ExpertId
NoPair == <<-1, -1>>

ASSUME PolicyAssumption ==
    /\ NLayers \in Nat \ {0} /\ Capacity \in Nat /\ Capacity >= NLayers
    /\ Shallow \in 0..NLayers

VARIABLES
    setup,  \* [global: global_capacity_pool_, and what MoeLayer adds]
    cache   \* [entry: Pair -> Entry, arrival: eviction_entries_, recency,
            \*  active: active_layer_, width: layer_route_widths_,
            \*  retained: retained_experts_]

NoEntry ==
    [state |-> "absent", pins |-> 0, current |-> FALSE, speculative |-> FALSE,
     predicted |-> FALSE, confidence |-> 0, retained |-> FALSE]

EmptyCache ==
    [entry |-> [p \in Pair |-> NoEntry], arrival |-> <<>>, recency |-> <<>>,
     active |-> -1, width |-> [l \in Layer |-> 0], retained |-> [l \in Layer |-> {}]]

Resident(c, p) == c.entry[p].state # "absent"
Contained(c, p) == c.entry[p].state \in {"loading", "ready"}    \* contains()
IsReady(c, p) == c.entry[p].state = "ready"
Busy(c, p) == c.entry[p].state = "loading" \/ c.entry[p].pins # 0
OfLayer(c, l) == {p \in ToSet(c.arrival) : p[1] = l}

Share == Capacity \div NLayers
Limit == IF setup.global THEN Capacity ELSE Share
\* Faulty: `used <= capacity' alone, without the bytes the new pair needs.
FullOneLate(c, l) == IF setup.global THEN Len(c.arrival) = Capacity + 1
                     ELSE Cardinality(OfLayer(c, l)) = Share + 1
Full(c, l) == IF setup.global THEN Len(c.arrival) = Capacity
              ELSE Cardinality(OfLayer(c, l)) = Share

\* remove_entry_locked.
Removed(c, p) ==
    [c EXCEPT !.entry[p] = NoEntry,
              !.arrival = RemoveFirst(@, p), !.recency = RemoveFirst(@, p)]
Used(c, p) == [c EXCEPT !.recency = Append(RemoveFirst(@, p), p)]
Touched(c, p) == [Used(c, p) EXCEPT !.entry[p].current = TRUE]

-----------------------------------------------------------------------------
(* Victims *)

Stale(c, p) == ~c.entry[p].current
Left(c, p) == c.active >= 0 /\ p[1] < c.active
Future(c, p) == Stale(c, p) /\ c.active >= 0 /\ p[1] >= c.active

\* A layer's fair share cannot hold its route.
PreferLeft(c) == c.active >= 0 /\ Share < c.width[c.active]

\* victim_key_locked: the lower, the sooner.
Rank(c, p) ==
    LET first == IF PreferLeft(c) THEN Left(c, p) ELSE Stale(c, p)
        second == IF PreferLeft(c) THEN Stale(c, p) ELSE Left(c, p)
    IN  (IF first THEN 0 ELSE IF second THEN 2 ELSE 4)
        + (IF p[1] < Shallow THEN 1 ELSE 0)
        + (IF c.entry[p].retained THEN 6 ELSE 0)

Older(c, p, q) ==
    \E m, n \in DOMAIN c.recency : c.recency[m] = p /\ c.recency[n] = q /\ m < n

\* global_victim_before_locked.
VictimBefore(c, p, q) ==
    LET ep == c.entry[p] eq == c.entry[q] IN
    IF Rank(c, p) # Rank(c, q) THEN Rank(c, p) < Rank(c, q)
    ELSE IF Future(c, p) /\ Future(c, q) /\ p[1] # q[1] THEN p[1] > q[1]
    ELSE IF ep.predicted # eq.predicted THEN ~ep.predicted
    ELSE IF ep.predicted /\ ep.confidence # eq.confidence
    THEN ep.confidence < eq.confidence
    ELSE Older(c, p, q)

\* One scan over the entries in the order of their arrival; without a global
\* pool the least recently used entry of the layer.
VictimFor(c, l) ==
    IF setup.global
    THEN FoldLeft(LAMBDA best, p :
                      IF ~Busy(c, p) /\ (best = NoPair \/ VictimBefore(c, p, best)) THEN p ELSE best,
                  NoPair, c.arrival)
    ELSE LET S == {p \in OfLayer(c, l) : ~Busy(c, p)} IN
         IF S = {} THEN NoPair
         ELSE CHOOSE p \in S : \A q \in S \ {p} : Older(c, p, q)

\* Faulty: any idle entry.
SpareAnything(c, p, confidence) == TRUE
\* What an advisory reservation may evict: a stale entry, one of a layer that
\* is done, or a weaker prediction nobody has used.
Spare(c, p, confidence) ==
    LET e == c.entry[p] IN
    \/ Stale(c, p) \/ Left(c, p)
    \/ e.speculative /\ e.predicted /\ e.confidence < confidence

Admitted(c, p, speculative, confidence) ==
    [c EXCEPT !.entry[p] =
                  [state |-> "loading", pins |-> 0, current |-> TRUE,
                   speculative |-> speculative, predicted |-> speculative,
                   confidence |-> IF speculative THEN confidence ELSE 0,
                   retained |-> p[2] \in c.retained[p[1]]],
              !.arrival = Append(@, p), !.recency = Append(@, p)]

\* reserve_entry_locked; the cache as it was when the pair is refused.
Reserved(c, p, speculative, confidence) ==
    LET v == VictimFor(c, p[1]) IN
    IF ~Full(c, p[1]) THEN Admitted(c, p, speculative, confidence)
    ELSE IF v = NoPair \/ (speculative /\ ~Spare(c, v, confidence)) THEN c
    ELSE Admitted(Removed(c, v), p, speculative, confidence)

-----------------------------------------------------------------------------
(* The provider's calls *)

\* A request finds pair p: a failed residency is dropped, another touched.
Found(c, p, speculative, confidence) ==
    IF c.entry[p].state = "failed" /\ ~Busy(c, p) THEN Removed(c, p)
    ELSE IF ~Resident(c, p) THEN c
    ELSE LET t == Touched(c, p) IN
         IF ~speculative THEN t
         ELSE [t EXCEPT !.entry[p].predicted = TRUE,
                        !.entry[p].confidence = IF @ < confidence THEN confidence ELSE @]

FirstPlaces(ids) == {i \in DOMAIN ids : \A j \in 1..(i - 1) : ids[j] # ids[i]}

\* request_many_impl for the experts `ids' of layer l: all of the residents
\* are touched before any of the missing is reserved.
Requested(c, l, ids, speculative, confidence) ==
    LET places == FirstPlaces(ids)
        start == IF speculative THEN c ELSE [c EXCEPT !.active = l]
        found == FoldLeftDomain(
                     LAMBDA acc, i : IF i \in places
                                     THEN Found(acc, <<l, ids[i]>>, speculative, confidence[i])
                                     ELSE acc,
                     start, ids)
        sized == IF speculative THEN found ELSE [found EXCEPT !.width[l] = Cardinality(places)]
        missing == {i \in places : ~Resident(found, <<l, ids[i]>>)}
    IN  FoldLeftDomain(
            LAMBDA acc, i : IF i \in missing
                            THEN Reserved(acc, <<l, ids[i]>>, speculative, confidence[i])
                            ELSE acc,
            sized, ids)

Demanded(c, l, ids) == Requested(c, l, ids, FALSE, [i \in DOMAIN ids |-> 0])

\* retain_for_next_forward: the current route first, then history.
Smaller(m, n) == IF m < n THEN m ELSE n
RetainLimit(ids) == Smaller(IF Share > 1 THEN Share ELSE 1, 12 * Len(ids))
RetainedSets(c, l, ids, keep) ==
    IF ~keep THEN {{}}
    ELSE LET places == FirstPlaces(ids)
             route == {ids[i] : i \in {x \in places :
                          Cardinality({y \in places : y <= x}) <= RetainLimit(ids)}}
             history == {p[2] : p \in OfLayer(c, l)} \ route
             room == Smaller(RetainLimit(ids) - Cardinality(route), Cardinality(history))
         IN  {route \union h : h \in kSubset(room, history)}
Retaining(c, l, kept) ==
    IF ~setup.global THEN c
    ELSE [c EXCEPT !.retained[l] = kept,
                   !.entry = [p \in Pair |->
                        IF p[1] = l /\ Resident(c, p)
                        THEN [c.entry[p] EXCEPT !.retained = p[2] \in kept] ELSE c.entry[p]]]

\* acquire_impl marks the layer it borrows for, whether it succeeds or not.
Borrowing(c, l) == IF setup.global THEN [c EXCEPT !.active = l] ELSE c

\* The end of a successful acquire_impl: nothing is speculative about p now.
Acquired(c, p) ==
    [Touched(c, p) EXCEPT !.entry[p].speculative = FALSE, !.entry[p].predicted = FALSE,
                          !.entry[p].confidence = 0]
Pinned(c, p) == [c EXCEPT !.entry[p].pins = @ + 1]
\* Faulty: a lease is not given back.
StillPinned(c, p) == c
Unpinned(c, p) == [c EXCEPT !.entry[p].pins = @ - 1]

\* evict(): an entry that is loading or borrowed stays.
Evicted(c, p) == IF Resident(c, p) /\ ~Busy(c, p) THEN Removed(c, p) ELSE c

\* begin_forward_pass: everything is stale.
Aged(c) ==
    [c EXCEPT !.active = -1,
              !.entry = [p \in Pair |-> [c.entry[p] EXCEPT !.current = FALSE, !.predicted = FALSE]]]

\* An I/O worker ends the last read of a pair.
Loaded(c, p, ok) == [c EXCEPT !.entry[p].state = IF ok THEN "ready" ELSE "failed"]
=============================================================================
