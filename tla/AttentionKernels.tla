-------------------------- MODULE AttentionKernels --------------------------
(***************************************************************************)
(* The attention kernels that keep a key/value cache: kernel_sdpa and      *)
(* kernel_sdpa_sparse (src/kernels/cpu/attention.cpp), the latent cache of *)
(* mla_absorbed_attention and the key cache of kernel_hy4_indexer.         *)
(*                                                                         *)
(* A cache cell holds the token it was computed from.  What a query row    *)
(* gets is abstracted to the cells it attends to: a function from          *)
(* positions to cells.                                                     *)
(***************************************************************************)
EXTENDS Integers, Sequences, FiniteSets

CONSTANTS
    Token,              \* the vocabulary
    Zero,               \* what zero-initialised memory holds
    Pad,                \* the row of a padding position
    NCtx,               \* max_seq_len: rows of a cache per head
    Heads,              \* num_kv_heads
    TopK,               \* keys the indexer selects
    KeyScore(_, _)      \* indexer score of a key for a query token

ASSUME AttentionAssumption ==
    /\ NCtx \in Nat \ {0} /\ Heads \in Nat \ {0} /\ TopK \in Nat \ {0}
    /\ Zero \notin Token /\ Pad \notin Token
    /\ \A q \in Token, k \in Token \cup {Zero, Pad} : KeyScore(q, k) \in Int

Cell == Token \cup {Zero, Pad}
KvHead == 0..(Heads - 1)
(* The heads of a cache lie one behind the other in one allocation. *)
Memory == 0..(Heads * NCtx - 1)

EmptyMemory == [i \in Memory |-> Zero]
Row(head, position) == head * NCtx + position
-----------------------------------------------------------------------------
(* Heads whose append writes cell i.  Nothing stops the last rows of a head  *)
(* from reaching past its own region.                                        *)
Writers(i, past, rows) ==
    {h \in KvHead : Row(h, past) <= i /\ i < Row(h, past) + Len(rows)}

(* The append: head after head, so that of two writers the later one counts. *)
AppendRows(keys, past, rows) ==
    [i \in Memory |->
        IF Writers(i, past, rows) = {} THEN keys[i]
        ELSE LET h == CHOOSE h \in Writers(i, past, rows) :
                        \A g \in Writers(i, past, rows) : g <= h
             IN  rows[i - Row(h, past) + 1]]

(* What the row at a position sees under the causal mask. *)
Attend(keys, position) ==
    [h \in KvHead |-> [j \in 0..position |-> keys[Row(h, j)]]]

AttendSelected(keys, selected) ==
    [h \in KvHead |-> [j \in selected |-> keys[Row(h, j)]]]

(* kernel_sdpa_sparse: no lookup when the selection could name every key of  *)
(* the chunk; otherwise the selected keys that are not in the future.        *)
AttendSparse(keys, past, rows, selected, position) ==
    IF TopK >= past + Len(rows)
    THEN Attend(keys, position)
    ELSE AttendSelected(keys, {j \in selected : j <= position})
-----------------------------------------------------------------------------
(* kernel_hy4_indexer: the keys of the chunk, real tokens only. *)
WriteIndex(index, start, tokens) ==
    [j \in 0..(NCtx - 1) |->
        IF start <= j /\ j < start + Len(tokens)
        THEN tokens[j - start + 1] ELSE index[j]]

Beats(score, i, j) == score[i] > score[j] \/ (score[i] = score[j] /\ i < j)

(* partial_sort: ties go to the earlier position *)
Best(score) ==
    {j \in DOMAIN score :
        Cardinality({i \in DOMAIN score : Beats(score, i, j)}) < TopK}

(* The positions selected for a query: the best among its own and earlier. *)
Select(index, query, position) ==
    LET available == IF position + 1 <= NCtx THEN position + 1 ELSE NCtx
    IN  Best([j \in 0..(available - 1) |-> KeyScore(query, index[j])])

(* mla_absorbed_attention refuses rows that do not fit, padding included. *)
LatentFits(past, rows) == past + Len(rows) <= NCtx

WriteLatent(latent, past, rows) ==
    [j \in 0..(NCtx - 1) |->
        IF past <= j /\ j < past + Len(rows) THEN rows[j - past + 1] ELSE latent[j]]

(* The choice between all visible rows and the selection is made per row. *)
AttendLatent(latent, selected, position) ==
    LET visible == 0..position IN
    [j \in IF TopK >= position + 1 THEN visible ELSE selected \cap visible |-> latent[j]]
=============================================================================
