------------------------ MODULE CompressedAttention ------------------------
(***************************************************************************)
(* The attention of DeepSeek-V4 (src/kernels/cpu/models/                   *)
(* deepseek_v4_attention.cpp): kernel_dsv4_compressor pools every Ratio    *)
(* tokens into one entry of a cache, kernel_dsv4_indexer selects entries,  *)
(* kernel_dsv4_sparse_attention attends to a ring of the last WindowSize   *)
(* keys and to the selected entries.                                       *)
(*                                                                         *)
(* A pooled entry is the sequence of its rows: a token, or Absent for a    *)
(* row whose score is -inf and which takes no part.  The compressor of the *)
(* indexer has state and cache of its own; they take the same steps as     *)
(* those of the attention and hold the same tokens, so they appear once.   *)
(***************************************************************************)
EXTENDS AttentionKernels

CONSTANTS
    Ratio,              \* tokens of one entry
    Overlap,            \* entries pool the previous group too
    Indexed,            \* an indexer selects; otherwise every entry is used
    WindowSize,         \* keys in the ring
    Absent,             \* a row with score -inf
    EntryScore(_, _)    \* indexer score of an entry for a query token

StateRows == IF Overlap THEN 2 * Ratio ELSE Ratio
EntryRows == [0..(StateRows - 1) -> Cell \cup {Absent}]

ASSUME CompressedAssumption ==
    /\ Ratio \in Nat \ {0} /\ WindowSize \in Nat \ {0}
    /\ Overlap \in BOOLEAN /\ Indexed \in BOOLEAN
    /\ Absent \notin Cell
    /\ \A q \in Token, e \in EntryRows : EntryScore(q, e) \in Int

Entries == 0..((NCtx \div Ratio) - 1)
NoEntry == [r \in 0..(StateRows - 1) |-> Zero]

(* kv_state and score_state after reset_compressor_state, and after          *)
(* LLMEngine::reset has zeroed them, when a score of 0 takes part.           *)
FreshRows == [r \in 0..(StateRows - 1) |-> Absent]
ZeroedRows == [r \in 0..(StateRows - 1) |-> Zero]
NoEntries == [c \in Entries |-> NoEntry]
EmptyRing == [r \in 0..(WindowSize - 1) |-> Zero]
-----------------------------------------------------------------------------
DestinationRow(position) ==
    IF Overlap THEN Ratio + (position % Ratio) ELSE position % Ratio

(* The rows after an entry: the group just pooled becomes the previous one. *)
AfterEntry(rows) ==
    IF Overlap
    THEN [r \in 0..(StateRows - 1) |->
            IF r < Ratio THEN rows[r + Ratio] ELSE Absent]
    ELSE rows

(* One token of the loop of kernel_dsv4_compressor. *)
CompressOne(state, position, token) ==
    LET rows == [state.rows EXCEPT ![DestinationRow(position)] = token]
    IN  IF (position + 1) % Ratio # 0
        THEN [state EXCEPT !.rows = rows]
        ELSE [rows |-> AfterEntry(rows),
              entries |-> [state.entries EXCEPT ![position \div Ratio] = rows]]

(* Faulty: a text that starts over finds the zeroed state of the last one. *)
StartOfCarried(state, start) == state

(* The kernels start a text at position 0 with their own reset. *)
StartOf(state, start) ==
    IF start = 0 THEN [rows |-> FreshRows, entries |-> NoEntries] ELSE state

Compress(state, start, tokens) ==
    LET after[i \in 0..Len(tokens)] ==
            IF i = 0 THEN StartOf(state, start)
            ELSE CompressOne(after[i - 1], start + i - 1, tokens[i])
    IN  after[Len(tokens)]
-----------------------------------------------------------------------------
Available(position) == 0..(((position + 1) \div Ratio) - 1)

(* nth_element leaves open which of equal scores are kept, but not that it   *)
(* decides by the scores alone: a fixed choice.                              *)
BestEntries(score) ==
    IF Cardinality(DOMAIN score) <= TopK THEN DOMAIN score
    ELSE CHOOSE S \in SUBSET DOMAIN score :
            /\ Cardinality(S) = TopK
            /\ \A i \in S, j \in DOMAIN score \ S : score[i] >= score[j]

(* The entries an attending row uses: of those complete at its position. *)
SelectEntries(entries, query, position) ==
    LET usable == Available(position) \cap Entries IN
    IF Indexed
    THEN BestEntries([c \in usable |-> EntryScore(query, entries[c])])
    ELSE usable

Larger(a, b) == IF a < b THEN b ELSE a
WindowOf(position) == Larger(0, position - WindowSize + 1)..position

StartRing(ring, start) == IF start = 0 THEN EmptyRing ELSE ring

(* Faulty: the ring already holds the whole chunk when its rows attend. *)
WindowFromRing(ring, start, tokens, position) ==
    [p \in WindowOf(position) |->
        IF p % WindowSize \in {(start + i - 1) % WindowSize : i \in 1..Len(tokens)}
        THEN tokens[CHOOSE i \in 1..Len(tokens) :
                (start + i - 1) % WindowSize = p % WindowSize]
        ELSE ring[p % WindowSize]]

(* Keys of the chunk come from the chunk, older ones from the ring as the    *)
(* call found it.                                                            *)
Window(ring, start, tokens, position) ==
    [p \in WindowOf(position) |->
        IF p >= start THEN tokens[p - start + 1] ELSE ring[p % WindowSize]]

(* The ring is written after every row has attended, in token order. *)
WriteRing(ring, start, tokens) ==
    [r \in 0..(WindowSize - 1) |->
        LET writers == {i \in 1..Len(tokens) : (start + i - 1) % WindowSize = r}
        IN  IF writers = {} THEN ring[r]
            ELSE tokens[CHOOSE i \in writers : \A k \in writers : k <= i]]

(* What the row of a token gets: its window and its selected entries. *)
AttendCompressed(ring, entries, start, tokens, i) ==
    LET position == start + i - 1 IN
    [window |-> Window(StartRing(ring, start), start, tokens, position),
     entries |-> [c \in SelectEntries(entries, tokens[i], position) |-> entries[c]]]
=============================================================================
