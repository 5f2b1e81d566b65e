------------------------------- MODULE Engine -------------------------------
(***************************************************************************)
(* The text state of LLMEngine (src/engine/engine.cpp): the KV cache and   *)
(* its length, the recurrent state, the cache of the MTP draft head, the   *)
(* sampler history, and the calls that change them: reset, prefill,        *)
(* decode, speculative_decode.                                             *)
(*                                                                         *)
(* The numbers are abstracted to what they were computed from.  A cell of  *)
(* the KV cache is its token; the recurrent state is the sequence of       *)
(* tokens it has absorbed; a hidden state names the KV cells that were     *)
(* visible and the recurrent state; a token is any token.  A call runs     *)
(* step by step because each step may fail and return early.               *)
(***************************************************************************)
EXTENDS Integers, Sequences

CONSTANTS
    Token,              \* the vocabulary
    NCtx,               \* cfg_.n_ctx: cells of the KV cache
    ChunkLimit,         \* tokens of one prefill chunk
    DraftChoices,       \* the values cfg_.mtp_draft_tokens may have
    MaxPrompt,          \* model bound: tokens of one prefill
    MaxOut              \* model bound: max_output_tokens of a caller

ASSUME EngineAssumption ==
    /\ NCtx \in Nat \ {0} /\ ChunkLimit \in Nat \ {0}
    /\ DraftChoices \subseteq Nat /\ DraftChoices # {}
    /\ MaxPrompt \in Nat /\ MaxOut \in Nat /\ Token # {}

VARIABLES
    recurrent,  \* the loaded graph has recurrent (GDN, conv, RWKV) states
    mtpDraftTokens, \* cfg_.mtp_draft_tokens; 0: no speculation
    past,       \* past_len_
    kv,         \* payload of the KV cache, stale cells included
    kvLen,      \* current_seq_len in its metadata
    rec,        \* recurrent states: the tokens absorbed since they were zeroed
    mtp,        \* payload of the draft head's cache, stale entries included
    mtpPast,    \* mtp_past_len_
    pending,    \* mtp_pending_hidden_
    history,    \* Sampler::history_
    pc,         \* where the call in progress is
    call,       \* its locals
    out,        \* the tokens it returns, each with what it was sampled from
    result      \* how the last call ended

loaded == <<recurrent, mtpDraftTokens>>
textVars == <<past, kv, kvLen, rec, history>>
mtpVars == <<mtp, mtpPast, pending>>
callVars == <<pc, call, out, result>>
engineVars == <<loaded, textVars, mtpVars, callVars>>
-----------------------------------------------------------------------------
Least(a, b) == IF a < b THEN a ELSE b
Greatest(a, b) == IF a < b THEN b ELSE a
First(s, n) == SubSeq(s, 1, n)

HasMtp == mtpDraftTokens > 0

(* tokens written at position at, the cells behind them untouched *)
Overwrite(s, at, tokens) ==
    First(s, at) \o tokens \o SubSeq(s, at + Len(tokens) + 1, Len(s))

Absorb(state, tokens) == IF recurrent THEN state \o tokens ELSE state

(* Hidden states: of the target, computed over visible cells and a recurrent *)
(* state; the zeros the buffer starts with; what the draft head predicted.   *)
Hidden(seen, state) == [kind |-> "target", seen |-> seen, rec |-> state]
NoHidden == [kind |-> "none", seen |-> <<>>, rec |-> <<>>]
Zeros == [kind |-> "zeros", seen |-> <<>>, rec |-> <<>>]
Guess == [kind |-> "draft", seen |-> <<>>, rec |-> <<>>]

(* The hidden state a plain run over the text computes for its last token. *)
HiddenOf(text) == Hidden(text, Absorb(<<>>, text))

(* The hidden states of a graph run over tokens at a position. *)
HiddenStates(tokens, at) ==
    [i \in 1..Len(tokens) |->
        Hidden(First(kv, at) \o First(tokens, i), Absorb(rec, First(tokens, i)))]

(* What the graph run leaves in the caches. *)
RunTarget(tokens, at) ==
    /\ kv' = Overwrite(kv, at, tokens)
    /\ rec' = Absorb(rec, tokens)
    /\ call' = [call EXCEPT !.hidden = HiddenStates(tokens, at)]

NoCall == [op |-> "none", start |-> 0, inputs |-> <<>>, hidden |-> <<>>,
           kept |-> 0, saved |-> <<>>, maxOut |-> 0, stop |-> <<>>]

Healthy == result # "fault"

Init ==
    /\ recurrent \in BOOLEAN /\ mtpDraftTokens \in DraftChoices
    /\ past = 0 /\ kv = <<>> /\ kvLen = 0 /\ rec = <<>>
    /\ mtp = <<>> /\ mtpPast = 0 /\ pending = NoHidden
    /\ history = <<>>
    /\ pc = "idle" /\ call = NoCall /\ out = <<>> /\ result = "ok"

(* reset(): the lengths and the recurrent states are cleared, the payloads   *)
(* of the caches are not.  The writes to the backend are taken to succeed:   *)
(* reset() and set_cache_length only print when one does not.                *)
Reset ==
    /\ pc = "idle"
    /\ past' = 0 /\ kvLen' = 0 /\ mtpPast' = 0
    /\ rec' = <<>> /\ history' = <<>>
    /\ pending' = IF pending = NoHidden THEN NoHidden ELSE Zeros
    /\ out' = <<>> /\ result' = "ok"
    /\ UNCHANGED <<loaded, kv, mtp, pc, call>>

(* A call that returns -1 or false before it has changed anything. *)
Refuse(why) ==
    /\ out' = <<>> /\ result' = why
    /\ UNCHANGED <<loaded, textVars, mtpVars, pc, call>>

Begin(op, inputs, where) ==
    /\ call' = [NoCall EXCEPT !.op = op, !.start = past, !.inputs = inputs]
    /\ pc' = where /\ out' = <<>> /\ result' = "busy"

Prefill(tokens) ==
    /\ pc = "idle" /\ tokens # <<>>
    /\ \/ /\ Len(tokens) > NCtx - past
          /\ Refuse("context")
       \/ /\ Len(tokens) <= NCtx - past
          /\ history' = history \o tokens
          /\ Begin("prefill", tokens, "run")
          /\ UNCHANGED <<loaded, past, kv, kvLen, rec, mtpVars>>

(* prefill_chunk(): the cache length is set, then the graph runs. *)
RunChunk ==
    /\ pc = "run" /\ call.op = "prefill"
    /\ LET done == past - call.start
           n == Least(Len(call.inputs) - done, Least(ChunkLimit, NCtx - past))
       IN RunTarget(SubSeq(call.inputs, done + 1, done + n), past)
    /\ kvLen' = past /\ pc' = "sync"
    /\ UNCHANGED <<loaded, past, history, mtpVars, out, result>>

Decode(token) ==
    /\ pc = "idle"
    /\ \/ past >= NCtx /\ Refuse("context")
       \/ /\ past < NCtx
          /\ Begin("decode", <<token>>, "run")
          /\ UNCHANGED <<loaded, textVars, mtpVars>>

(* decode() relies on the length the previous call left in the metadata. *)
RunDecode ==
    /\ pc = "run" /\ call.op = "decode"
    /\ RunTarget(call.inputs, kvLen)
    /\ pc' = "sync"
    /\ UNCHANGED <<loaded, past, kvLen, history, mtpVars, out, result>>
-----------------------------------------------------------------------------
FirstIndexSynthetic(position, preserved) ==
    preserved

(* sync_mtp(): the draft head's cache follows the verified text, shifted by  *)
(* one: entry t is (token t + 1, target hidden t).  The tokens, with their   *)
(* hidden states, start at position; the first preserved entries are kept.   *)
FirstIndex(position, preserved) ==
    IF position + preserved = 0 THEN 1 ELSE preserved

ResumePosition(position, preserved) ==
    Greatest(0, position + FirstIndex(position, preserved) - 1)

ShiftedEntries(tokens, hidden, from) ==
    [j \in 1..(Len(tokens) - from) |->
        [token |-> tokens[from + j],
         hidden |-> IF from + j = 1 THEN pending ELSE hidden[from + j - 1]]]

MayRewindMtp(position, preserved) ==
    preserved = 0 \/ mtpPast >= ResumePosition(position, preserved)

SyncMtp(tokens, hidden, position, preserved) ==
    LET from == FirstIndex(position, preserved)
        at == ResumePosition(position, preserved)
        entries == ShiftedEntries(tokens, hidden, from)
    IN  /\ mtp' = Overwrite(mtp, at, entries)
        /\ mtpPast' = at + Len(entries)
        /\ pending' = hidden[Len(tokens)]

(* The tokens of the chunk or of the accepted inputs, as many as hidden states. *)
Ran ==
    IF call.op = "prefill"
    THEN SubSeq(call.inputs, past - call.start + 1,
                past - call.start + Len(call.hidden))
    ELSE First(call.inputs, Len(call.hidden))

Position == IF call.op = "speculate" THEN call.start ELSE past

(* mtp_current_cached: the first draft ran on the exact pending state. *)
Preserved == IF call.op = "speculate" /\ Len(call.inputs) > 1 THEN 1 ELSE 0

Return(how) == pc' = "idle" /\ call' = NoCall /\ result' = how

SyncUnlessDecoding ==
    /\ pc = "sync"
    /\ IF HasMtp /\ call.op # "decode"
       THEN /\ MayRewindMtp(Position, Preserved)
            /\ SyncMtp(Ran, call.hidden, Position, Preserved)
       ELSE UNCHANGED mtpVars
    /\ IF call.op = "speculate"
       THEN Return("ok")
       ELSE pc' = "commit" /\ UNCHANGED <<call, result>>
    /\ UNCHANGED <<loaded, textVars, out>>

Sync ==
    /\ pc = "sync"
    /\ IF HasMtp
       THEN /\ MayRewindMtp(Position, Preserved)
            /\ SyncMtp(Ran, call.hidden, Position, Preserved)
       ELSE UNCHANGED mtpVars
    /\ IF call.op = "speculate"
       THEN Return("ok")
       ELSE pc' = "commit" /\ UNCHANGED <<call, result>>
    /\ UNCHANGED <<loaded, textVars, out>>

Sampled(token, hidden, seen) == [token |-> token, hidden |-> hidden, history |-> seen]

(* The end of prefill_chunk() and of decode(): the lengths move, a token is  *)
(* sampled from the last hidden state; prefill goes on to its next chunk.    *)
Commit(token) ==
    LET n == Len(call.hidden)
        more == call.op = "prefill" /\ past + n < call.start + Len(call.inputs)
    IN  /\ pc = "commit"
        /\ past' = past + n /\ kvLen' = past + n
        /\ history' = IF call.op = "decode" THEN history \o call.inputs ELSE history
        /\ IF more
           THEN pc' = "run" /\ UNCHANGED <<call, out, result>>
           ELSE /\ out' = <<Sampled(token, call.hidden[n], history')>>
                /\ Return("ok")
        /\ UNCHANGED <<loaded, kv, rec, mtpVars>>
-----------------------------------------------------------------------------
(* speculative_decode() *)
ExpectedMtpLen(length) == Greatest(0, length - 1)

MtpReady == mtpPast = ExpectedMtpLen(past) /\ pending # NoHidden

Speculate(token, maxOut, stop) ==
    /\ pc = "idle" /\ HasMtp /\ maxOut >= 1
    /\ \/ past >= NCtx /\ Refuse("context")
       \/ past < NCtx /\ ~MtpReady /\ Refuse("desync")
       \/ /\ past < NCtx /\ MtpReady
          /\ call' = [NoCall EXCEPT !.op = "speculate", !.start = past,
                                    !.inputs = <<token>>,
                                    !.maxOut = maxOut, !.stop = <<stop>>]
          /\ pc' = "draft" /\ out' = <<>> /\ result' = "busy"
          /\ UNCHANGED <<loaded, textVars, mtpVars>>

MaxDraftsToTheBrim ==
    Least(mtpDraftTokens,
          Least(NCtx - call.start, Greatest(0, call.maxOut - 1)))

MaxDrafts ==
    Least(mtpDraftTokens,
          Least(NCtx - call.start - 1, Greatest(0, call.maxOut - 1)))

(* One pass of the draft head: the newest input and, for the first pass, the *)
(* pending target state, for the others the state the draft head predicted.  *)
Draft(token) ==
    LET depth == Len(call.inputs)
        at == ExpectedMtpLen(call.start) + depth - 1
        entry == [token |-> call.inputs[depth],
                  hidden |-> IF depth = 1 THEN pending ELSE Guess]
    IN  /\ pc = "draft" /\ depth <= MaxDrafts
        /\ mtp' = Overwrite(mtp, at, <<entry>>)
        /\ mtpPast' = at + 1
        /\ call' = [call EXCEPT !.inputs = Append(@, token)]
        /\ UNCHANGED <<loaded, textVars, pending, pc, out, result>>

VerifyWithoutCheckpoint ==
    /\ pc = "draft" /\ Len(call.inputs) > MaxDrafts
    /\ kv' = Overwrite(kv, past, call.inputs)
    /\ rec' = Absorb(rec, call.inputs)
    /\ call' = [call EXCEPT
                    !.hidden = HiddenStates(call.inputs, past),
                    !.saved = <<>>]
    /\ past' = past + Len(call.inputs) /\ kvLen' = past + Len(call.inputs)
    /\ pc' = "accept"
    /\ UNCHANGED <<loaded, history, mtpVars, out, result>>

(* RecurrentCheckpoint::capture when there are drafts, then prefill_hidden   *)
(* over the token and its drafts.                                            *)
Verify ==
    /\ pc = "draft" /\ Len(call.inputs) > MaxDrafts
    /\ kv' = Overwrite(kv, past, call.inputs)
    /\ rec' = Absorb(rec, call.inputs)
    /\ call' = [call EXCEPT
                    !.hidden = HiddenStates(call.inputs, past),
                    !.saved = IF recurrent /\ Len(call.inputs) > 1
                              THEN <<rec>> ELSE <<>>]
    /\ past' = past + Len(call.inputs) /\ kvLen' = past + Len(call.inputs)
    /\ pc' = "accept"
    /\ UNCHANGED <<loaded, history, mtpVars, out, result>>

AcceptAfterSampling(token, agrees) ==
    LET i == call.kept + 1 IN
    /\ pc = "accept"
    /\ agrees => i < Len(call.inputs) /\ token = call.inputs[i + 1]
    /\ history' = Append(history, call.inputs[i])
    /\ out' = Append(out, Sampled(token, call.hidden[i], history))
    /\ call' = [call EXCEPT !.kept = i]
    /\ pc' = IF agrees /\ <<token>> # call.stop THEN "accept" ELSE "rewind"
    /\ UNCHANGED <<loaded, past, kv, kvLen, rec, mtpVars, result>>

AcceptRegardless(token, agrees) ==
    LET i == call.kept + 1 IN
    /\ pc = "accept"
    /\ agrees => i < Len(call.inputs) /\ token = call.inputs[i + 1]
    /\ history' = Append(history, call.inputs[i])
    /\ out' = Append(out, Sampled(token, call.hidden[i], history'))
    /\ call' = [call EXCEPT !.kept = i]
    /\ pc' = IF i < Len(call.inputs) THEN "accept" ELSE "rewind"
    /\ UNCHANGED <<loaded, past, kv, kvLen, rec, mtpVars, result>>

(* One turn of the accept loop.  Either the target agrees with the draft, or *)
(* its own token replaces the draft and the loop ends.                       *)
Accept(token, agrees) ==
    LET i == call.kept + 1 IN
    /\ pc = "accept"
    /\ agrees => i < Len(call.inputs) /\ token = call.inputs[i + 1]
    /\ history' = Append(history, call.inputs[i])
    /\ out' = Append(out, Sampled(token, call.hidden[i], history'))
    /\ call' = [call EXCEPT !.kept = i]
    /\ pc' = IF agrees /\ <<token>> # call.stop THEN "accept" ELSE "rewind"
    /\ UNCHANGED <<loaded, past, kv, kvLen, rec, mtpVars, result>>

(* No state to roll back: the rejected cells are hidden by the length. *)
RewindLength ==
    /\ pc = "rewind"
    /\ call.kept = Len(call.inputs) \/ call.saved = <<>>
    /\ past' = call.start + call.kept /\ kvLen' = call.start + call.kept
    /\ call' = [call EXCEPT !.hidden = First(@, call.kept)]
    /\ pc' = "sync"
    /\ UNCHANGED <<loaded, kv, rec, history, mtpVars, out, result>>

(* The backend kept the state after every input and restores the right one. *)
RestorePrefix ==
    /\ pc = "rewind" /\ call.kept < Len(call.inputs) /\ call.saved # <<>>
    /\ rec' = call.saved[1] \o First(call.inputs, call.kept)
    /\ past' = call.start + call.kept /\ kvLen' = call.start + call.kept
    /\ call' = [call EXCEPT !.hidden = First(@, call.kept)]
    /\ pc' = "sync"
    /\ UNCHANGED <<loaded, kv, history, mtpVars, out, result>>

(* RecurrentCheckpoint::restore, and the accepted inputs are to be replayed. *)
RestoreCheckpoint ==
    /\ pc = "rewind" /\ call.kept < Len(call.inputs) /\ call.saved # <<>>
    /\ rec' = call.saved[1]
    /\ past' = call.start /\ kvLen' = call.start
    /\ pc' = "replay"
    /\ UNCHANGED <<loaded, kv, history, mtpVars, call, out, result>>

Replay ==
    /\ pc = "replay"
    /\ RunTarget(First(call.inputs, call.kept), past)
    /\ past' = past + call.kept /\ kvLen' = past + call.kept
    /\ pc' = "sync"
    /\ UNCHANGED <<loaded, history, mtpVars, out, result>>

(* A graph run, a copy or a length update fails: the call returns early and  *)
(* leaves everything as it is.                                               *)
Fault ==
    /\ pc # "idle"
    /\ Return("fault") /\ out' = <<>>
    /\ UNCHANGED <<loaded, textVars, mtpVars>>
-----------------------------------------------------------------------------
Prompts == UNION {[1..n -> Token] : n \in 1..MaxPrompt}

EngineStep ==
    \/ RunChunk \/ RunDecode \/ Sync
    \/ \E token \in Token : Commit(token) \/ Draft(token)
    \/ Verify
    \/ \E token \in Token, agrees \in BOOLEAN : Accept(token, agrees)
    \/ RewindLength \/ RestorePrefix \/ RestoreCheckpoint \/ Replay

(* Any caller that resets the engine after a failed call. *)
Caller ==
    \/ Reset
    \/ \E tokens \in Prompts : Healthy /\ Prefill(tokens)
    \/ \E token \in Token : Healthy /\ Decode(token)
    \/ \E token, stop \in Token, maxOut \in 1..MaxOut :
           Healthy /\ Speculate(token, maxOut, stop)

Next == EngineStep \/ Caller \/ Fault

Spec == Init /\ [][Next]_engineVars
-----------------------------------------------------------------------------
HiddenState ==
    [kind : {"target", "none", "zeros", "draft"}, seen : Seq(Token), rec : Seq(Token)]

(* Types.  No cell is ever written behind the capacity of a cache, also not *)
(* by drafts that are rejected later: n_ctx bounds every sequence.          *)
TypeOK ==
    /\ past \in 0..NCtx /\ kvLen \in 0..NCtx /\ mtpPast \in 0..NCtx
    /\ kv \in Seq(Token) /\ Len(kv) \in kvLen..NCtx
    /\ rec \in Seq(Token) /\ history \in Seq(Token)
    /\ mtp \in Seq([token : Token, hidden : HiddenState])
    /\ Len(mtp) \in mtpPast..NCtx
    /\ pending \in HiddenState
    /\ pc \in {"idle", "run", "sync", "commit", "draft", "accept", "rewind", "replay"}
    /\ call.inputs \in Seq(Token) /\ call.hidden \in Seq(HiddenState)
    /\ out \in Seq([token : Token, hidden : HiddenState, history : Seq(Token)])
    /\ result \in {"ok", "busy", "context", "desync", "fault"}

Settled == pc = "idle" /\ Healthy

(* Between calls the KV cache, its length, the recurrent state, past_len_    *)
(* and the sampler history all tell the same text: nothing of a rejected     *)
(* draft is left, nothing accepted is missing or absorbed twice.             *)
StateTellsOneText ==
    Settled => /\ past = Len(history) /\ kvLen = past
               /\ First(kv, past) = history
               /\ rec = Absorb(<<>>, history)

(* Between calls entry t of the draft head's cache is (token t + 1, hidden   *)
(* state t) of that text, there are past - 1 of them, none is synthetic or   *)
(* predicted, and the pending state is the one of the last token.  Hence     *)
(* speculative_decode() never finds the draft head out of step, except on an *)
(* engine that has not consumed anything, and sync_mtp() never finds its     *)
(* cache too short for what it is told to keep: neither refusal is taken.    *)
MtpFollowsText ==
    /\ Settled /\ HasMtp /\ history # <<>> =>
        /\ mtpPast = past - 1
        /\ \A t \in 1..mtpPast :
               mtp[t] = [token |-> history[t + 1],
                         hidden |-> HiddenOf(First(history, t))]
        /\ pending = HiddenOf(history)
    /\ result = "desync" => history = <<>>
    /\ pc = "sync" /\ HasMtp => MayRewindMtp(Position, Preserved)

(* Every token, also inside a speculative call, is sampled from a hidden     *)
(* state of exactly the text in the sampler history at that moment.          *)
SampledFromItsHistory ==
    \A i \in DOMAIN out : out[i].hidden = HiddenOf(out[i].history)

Text ==
    IF pc # "idle" THEN First(history, call.start)
    ELSE IF Healthy THEN history ELSE <<>>

Reply ==
    IF pc # "idle" THEN <<>>
    ELSE [i \in DOMAIN out |-> [token |-> out[i].token, given |-> out[i].history]]

Plain == INSTANCE Autoregressive WITH text <- Text, reply <- Reply

(* Prefill in chunks, plain decoding and speculation with any acceptance     *)
(* pattern, stop token and rollback all implement plain generation.          *)
ImplementsPlain == Plain!Spec
=============================================================================

