-------------------------- MODULE RecurrentKernels --------------------------
(***************************************************************************)
(* The kernels whose state is carried from call to call: kernel_shortconv, *)
(* the gated delta net, RWKV's token shift and recurrence                  *)
(* (src/kernels/cpu/recurrent, src/kernels/cpu/models/rwkv.cpp), and the   *)
(* n-gram lookup and dilated convolution of src/kernels/cpu/ple.cpp.       *)
(*                                                                         *)
(* Each call gets the rows of a chunk, padding behind the real tokens, and *)
(* the number of real ones.                                                *)
(***************************************************************************)
EXTENDS Integers, Sequences

CONSTANTS
    Filler,             \* what zeroed state holds
    ConvKernel,         \* taps of the short convolution
    NgramSize,          \* tokens the n-gram hash looks at
    Eos,                \* eos_token_id
    DilatedKernel,      \* taps of the dilated convolution
    Dilation

ASSUME RecurrentAssumption ==
    /\ ConvKernel \in Nat \ {0} /\ DilatedKernel \in Nat \ {0}
    /\ NgramSize \in Nat \ {0, 1} /\ Dilation \in Nat \ {0}

Fillers(n) == [i \in 1..n |-> Filler]

(* process_len of every one of these kernels *)
ProcessLen(real, rows) ==
    IF real > 0 /\ real < Len(rows) THEN real ELSE Len(rows)
-----------------------------------------------------------------------------
(* A convolution over the carried state and the chunk. *)
ConvSees(state, rows, i, taps, step) ==
    [t \in 1..taps |-> (state \o rows)[i + (t - 1) * step]]

(* The state after the chunk: what precedes the first token not processed. *)
ConvState(state, rows, real) ==
    LET n == ProcessLen(real, rows)
    IN  SubSeq(state \o rows, n + 1, n + Len(state))

(* kernel_rwkv_token_shift *)
ShiftSees(last, rows, i) == IF i = 1 THEN last ELSE rows[i - 1]
ShiftState(rows, real) == rows[ProcessLen(real, rows)]

(* Faulty: the padding rows are absorbed as well. *)
AbsorbPadded(state, rows, real) == state \o rows

(* The recurrences (kernel_gdn_prefill, kernel_rwkv7): what they absorbed. *)
AbsorbRows(state, rows, real) == state \o SubSeq(rows, 1, ProcessLen(real, rows))
-----------------------------------------------------------------------------
(* ple_build_indices.  The last element of the history tensor says whether   *)
(* it was started; reset() zeroes it with the rest.                          *)
NoGrams == [started |-> FALSE, history |-> Fillers(NgramSize - 1)]
EosHistory == [i \in 1..(NgramSize - 1) |-> Eos]

GramsStarted(grams) ==
    IF grams.started THEN grams ELSE [started |-> TRUE, history |-> EosHistory]

NextHistory(history, token) ==
    IF token = Eos THEN EosHistory ELSE Append(Tail(history), token)

HistoryAfter(history, tokens, n) ==
    LET after[i \in 0..n] ==
            IF i = 0 THEN history ELSE NextHistory(after[i - 1], tokens[i])
    IN  after[n]

GramsAfter(grams, tokens) ==
    [started |-> TRUE,
     history |-> HistoryAfter(GramsStarted(grams).history, tokens, Len(tokens))]

(* The tokens whose hash gives the table rows of token i. *)
GramsSee(grams, tokens, i) ==
    Append(HistoryAfter(GramsStarted(grams).history, tokens, i - 1), tokens[i])
=============================================================================
