------------------------------ MODULE Sharding ------------------------------
(***************************************************************************)
(* The index arithmetic of runtime/threading.cpp: how parallel_for divides *)
(* a range among the threads.                                              *)
(***************************************************************************)
EXTENDS Integers

Least(a, b) == IF a < b THEN a ELSE b

(* Ceiling division, as written in the code. *)
Chunks(total, size) == (total + size - 1) \div size

(* The elements compute_shard gives to thread t of `active'. *)
Shard(m, tile, active, t) ==
    LET total == Chunks(m, tile)
    IN  ((total * t) \div active) * tile
          .. (Least(((total * (t + 1)) \div active) * tile, m) - 1)
=============================================================================
