--------------------------- MODULE Autoregressive ---------------------------
(***************************************************************************)
(* What LLMEngine promises about its text, whichever way it computes it:   *)
(* every returned token was chosen with exactly the text before it as its  *)
(* context, and the text consumed by a call is what the caller passed in,  *)
(* followed by every returned token but the last.                          *)
(***************************************************************************)
EXTENDS Naturals, Sequences

VARIABLES
    text,      \* the tokens the model has consumed
    reply      \* the last call's tokens, each with the text it was given

vars == <<text, reply>>

Init == text = <<>> /\ reply = <<>>

(* reset(), or a call that failed and left nothing to rely on. *)
Forget == text' = <<>> /\ reply' = <<>>

(* A call begins; it has not returned anything yet. *)
Ask == reply' = <<>> /\ UNCHANGED text

(* A call returns. *)
Generate ==
    LET fed == Len(text') - Len(reply') + 1 IN
    /\ reply' # <<>>
    /\ Len(text) < fed
    /\ SubSeq(text', 1, Len(text)) = text
    /\ \A i \in DOMAIN reply' :
           reply'[i].given = SubSeq(text', 1, fed + i - 1)
    /\ \A i \in 1..(Len(reply') - 1) : text'[fed + i] = reply'[i].token

Next == Forget \/ Ask \/ Generate

Spec == Init /\ [][Next]_vars
=============================================================================
