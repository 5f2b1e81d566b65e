------------------------------- MODULE Kernels -------------------------------
(***************************************************************************)
(* The kernels a node of the graph calls, one call at a time: a matmul or  *)
(* an attention.  They share the pool and nothing they compute.            *)
(***************************************************************************)
EXTENDS Matmul, Attention

kernels == <<version, written, generation, cache, call, todo, C, acall, launches, blocks, memory>>

KernelsInit == Init /\ AttentionInit

\* A behaviour follows one of them: what the other does is independent of it.
KernelsNext ==
    \/ acall = NoAttention /\ Next /\ UNCHANGED attention
    \/ Fresh /\ AttentionNext /\ UNCHANGED vars

KernelsSpec == KernelsInit /\ [][KernelsNext]_kernels

(* The jobs of a call are independent: no two jobs of a matmul write the     *)
(* same cell, and the blocks of an attention's launch leave the same memory  *)
(* in any order.                                                             *)
JobsAreIndependent == CellsHaveOneWriter /\ BlocksCommute
=============================================================================
