--------------------------- MODULE ExpertRouting ---------------------------
(***************************************************************************)
(* Which experts a token is sent to (kernels/cpu/moe/moe_routing.cpp), and *)
(* how the routes of a run are grouped by expert (moe.cpp).  A score is an *)
(* integer, its order being all that selection depends on; a route weight  *)
(* is named by the route it belongs to.                                    *)
(***************************************************************************)
EXTENDS Integers, FiniteSets, SequencesExt

CONSTANTS
    NExperts,       \* num_experts of a layer
    TopK,           \* top_k routes of a token
    NGroups,        \* num_groups; one switches the grouping off
    TopGroups,      \* topk_groups
    MinusInf        \* below every score

ASSUME RoutingAssumption ==
    /\ NExperts \in Nat \ {0} /\ TopK \in 1..NExperts
    /\ NGroups \in 1..NExperts /\ TopGroups \in 1..NGroups
    /\ MinusInf \in Int

ExpertId == 0..(NExperts - 1)
Group == 0..(NGroups - 1)
PerGroup == NExperts \div NGroups
Grouped == NGroups # 1 /\ TopGroups # NGroups

\* The groups that are kept have TopK experts, as in every model that has groups.
ASSUME GroupsAreLargeEnough == Grouped => TopK <= TopGroups * PerGroup

\* The elements of S, those that come before others first.
Sorted(S, before(_, _)) ==
    [n \in 1..Cardinality(S) |->
        CHOOSE x \in S : Cardinality({y \in S : before(y, x)}) = n - 1]

\* Faulty: later candidates go before equal ones.
InsertBestLate(best, value, id) ==
    LET worse == {n \in DOMAIN best : value >= best[n].value} IN
    IF worse = {} THEN best
    ELSE LET n == CHOOSE x \in worse : \A y \in worse : x <= y IN
         Front(InsertAt(best, n, [value |-> value, id |-> id]))

\* The sorted list of the k best candidates so far takes one more: it goes
\* before the first that is worse, and the last one drops out.
InsertBest(best, value, id) ==
    LET worse == {n \in DOMAIN best : value > best[n].value} IN
    IF worse = {} THEN best
    ELSE LET n == CHOOSE x \in worse : \A y \in worse : x <= y IN
         Front(InsertAt(best, n, [value |-> value, id |-> id]))

\* The ids of the k best of the ids below n, best first; a place nobody took
\* keeps the id 0.
BestIds(score, n, k) ==
    LET none == [i \in 1..k |-> [value |-> MinusInf, id |-> 0]]
        best == FoldLeft(LAMBDA acc, i : InsertBest(acc, score[i - 1], i - 1),
                         none, [i \in 1..n |-> i])
    IN  [i \in 1..k |-> best[i].id]

GroupOf(e) == IF e \div PerGroup < NGroups - 1 THEN e \div PerGroup ELSE NGroups - 1

\* The sum of the two best scores of a group, or its only score.
GroupScore(score, g) ==
    LET members == {e \in ExpertId : GroupOf(e) = g}
        first == CHOOSE e \in members : \A f \in members : score[e] >= score[f]
        rest == members \ {first}
    IN  IF rest = {} THEN score[first]
        ELSE score[first] + score[CHOOSE e \in rest : \A f \in rest : score[e] >= score[f]]

\* Experts of groups that are not among the best cannot be chosen.
Masked(score) ==
    IF ~Grouped THEN score
    ELSE LET kept == ToSet(BestIds([g \in Group |-> GroupScore(score, g)], NGroups, TopGroups))
         IN  [e \in ExpertId |-> IF GroupOf(e) \in kept THEN score[e] ELSE MinusInf]

\* select_moe_routes: the experts of one token, best first.
SelectRoutes(score) == BestIds(Masked(score), NExperts, TopK)

(* The routes of a run: per token the chosen experts. *)
Chosen(routes) == {routes[t][k] : t \in DOMAIN routes, k \in 1..TopK}

\* The routes of expert e, as <<token, rank>>.
RoutesOf(routes, e) == {r \in (DOMAIN routes) \X (1..TopK) : routes[r[1]][r[2]] = e}
Count(routes, e) == Cardinality(RoutesOf(routes, e))

(* What the choice means, without an order of evaluation. *)
Better(score, e, f) == score[e] > score[f] \/ (score[e] = score[f] /\ e < f)
Ranked(score, S) == Sorted(S, LAMBDA e, f : Better(score, e, f))
BestGroups(score) ==
    {g \in Group :
        Cardinality({h \in Group :
            Better([x \in Group |-> GroupScore(score, x)], h, g)}) < TopGroups}
Eligible(score) == {e \in ExpertId : GroupOf(e) \in BestGroups(score)}
BestRoute(score) == SubSeq(Ranked(score, Eligible(score)), 1, TopK)
=============================================================================
