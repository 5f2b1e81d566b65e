--------------------------- MODULE ExpertProvider ---------------------------
(***************************************************************************)
(* What runtime/expert_provider.h promises its users, with no mention of   *)
(* how: borrow() hands out a lease on one expert pair whose weights are    *)
(* complete, and until the lease is given back nothing changes them.       *)
(***************************************************************************)
CONSTANTS Client, Slot, Expert, Component

VARIABLE held   \* per client: <<handle, expert pair, weights seen through it>>

Weights(k) == [c \in Component |-> k]

Init == held = [c \in Client |-> {}]

(* borrow() *)
Borrow(c) ==
    \E s \in Slot, k \in Expert :
        held' = [held EXCEPT ![c] = @ \cup {<<s, k, Weights(k)>>}]

(* ExpertLease::reset / ~ExpertLease *)
Return(c) == \E t \in held[c] : held' = [held EXCEPT ![c] = @ \ {t}]

Next == \E c \in Client : Borrow(c) \/ Return(c)

Spec == Init /\ [][Next]_held
=============================================================================
