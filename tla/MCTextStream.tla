---------------------------- MODULE MCTextStream ----------------------------
(* Small instances of TextStream for TLC. *)
EXTENDS TextStream, TLC

(* Two words and the end of a text; zero and padding are no tokens. *)
MCToken == {1, 2, 3}
MCKeyScore(query, key) == (query * key) % 4
MCEntryScore(query, entry) ==
    LET row == StateRows - 1 IN IF entry[row] \in Token THEN (query * entry[row]) % 3 ELSE 0
(* Kernels that append padding get texts that leave room for it, or not. *)
RoomForPadding == [k \in Kinds |-> IF k \in {"dense", "sparse"} THEN NCtx - GraphLen + 1 ELSE 5]
ToTheLastRow == [k \in Kinds |-> NCtx]
=============================================================================
