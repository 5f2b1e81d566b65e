------------------------------ MODULE ForkJoin ------------------------------
(***************************************************************************)
(* What parallel_for and parallel_for_2d promise their caller: the cells   *)
(* of the index space are handed out in pieces, every cell exactly once,   *)
(* and the call returns when all of them are done.                         *)
(***************************************************************************)
CONSTANT Cell

VARIABLES
    busy,    \* a call is in progress
    todo,    \* cells nobody has started
    running  \* cells being worked on

vars == <<busy, todo, running>>

Init == busy = FALSE /\ todo = {} /\ running = {}

Fork ==
    /\ ~busy
    /\ busy' = TRUE
    /\ todo' \subseteq Cell /\ todo' # {}
    /\ UNCHANGED running

(* Some cells that nobody has started are started. *)
Begin ==
    /\ busy
    /\ todo' \subseteq todo /\ todo' # todo
    /\ running' = running \cup (todo \ todo')
    /\ UNCHANGED busy

End ==
    /\ running' \subseteq running
    /\ UNCHANGED <<busy, todo>>

(* The call returns: nothing is left, and nothing is still being done. *)
Join ==
    /\ busy /\ todo = {} /\ running = {}
    /\ busy' = FALSE
    /\ UNCHANGED <<todo, running>>

Next == Fork \/ Begin \/ End \/ Join

Spec == Init /\ [][Next]_vars
=============================================================================
