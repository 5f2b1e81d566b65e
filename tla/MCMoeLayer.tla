----------------------------- MODULE MCMoeLayer -----------------------------
(* Small instances of MoeLayer for TLC. *)
EXTENDS MoeLayer

Score(a, b, c, d) == [e \in ExpertId |-> CASE e = 0 -> a [] e = 1 -> b [] e = 2 -> c [] OTHER -> d]

\* A tie of groups and of experts; the last group ahead, its later expert first.
Tie == Score(2, 2, 1, 1)
Apart == Score(1, 1, 2, 3)
MCScores == {Tie, Apart}
MCHashRoutes == {<<3, 0>>}

Decode1 ==
    [global |-> TRUE, predict |-> TRUE, threads |-> 2, hashed |-> {}, failures |-> FALSE,
     tokens |-> 1, passes |-> 1, scores |-> {Apart}]
MCSetups ==
    {[Decode1 EXCEPT !.hashed = {2}],
     [Decode1 EXCEPT !.hashed = {0, 2}, !.threads = 1, !.tokens = 2],
     [Decode1 EXCEPT !.predict = FALSE, !.threads = 1, !.tokens = 2, !.passes = 2,
                     !.scores = MCScores],
     [Decode1 EXCEPT !.predict = FALSE, !.failures = TRUE, !.scores = MCScores],
     [Decode1 EXCEPT !.global = FALSE, !.tokens = 2, !.passes = 2, !.scores = MCScores]}
=============================================================================
