---------------------------- MODULE MCExpertCache ----------------------------
(* Small instances of ExpertCache for TLC. *)
EXTENDS ExpertCache, TLC

CONSTANTS a1, a2, b1, L1, L2, s1, s2, c1, c2, w1, w2

MCExpert == {a1, a2, b1}
MCLayer == {L1, L2}
MCLayerOf == (a1 :> L1) @@ (a2 :> L1) @@ (b1 :> L2)
MCLayerCapacity == (L1 :> 1) @@ (L2 :> 1)

(* One layer of two pairs. *)
OneExpert == {a1, a2}
OneLayer == {L1}
OneLayerOf == (a1 :> L1) @@ (a2 :> L1)
OneLayerCapacity == (L1 :> 1)

Symmetry == Permutations({a1, a2}) \cup Permutations(Slot)
            \cup Permutations(Worker) \cup Permutations(Client)
=============================================================================
