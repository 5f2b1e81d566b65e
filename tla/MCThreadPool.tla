---------------------------- MODULE MCThreadPool ----------------------------
(* Small instances of ThreadPool for TLC. *)
EXTENDS ThreadPool, TLC

Line(m, tile) == [dim |-> 1, m |-> m, tile |-> tile, n |-> 1, block |-> 1]
Grid(m, tile, n, block) == [dim |-> 2, m |-> m, tile |-> tile, n |-> n, block |-> block]

(* 1, 3 and 5 chunks, the last ones short; 4 jobs in 2 x 2 short tiles, 2 jobs. *)
MixedCalls ==
    {Line(2, 2), Line(5, 2), Line(5, 1), Grid(3, 2, 3, 2), Grid(1, 1, 4, 2)}
=============================================================================
