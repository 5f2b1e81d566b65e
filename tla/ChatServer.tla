----------------------------- MODULE ChatServer -----------------------------
(***************************************************************************)
(* The chat server (src/examples/server.cpp) over the engine: one request  *)
(* at a time, generate_tokens() of src/examples/cli_common.cpp, and the    *)
(* single-entry prefix cache, cached_tokens, that lets a request prefill   *)
(* only what its rendered prompt adds to the text the engine holds.  The   *)
(* engine's variables change only by the engine's own actions.             *)
(***************************************************************************)
EXTENDS Engine

CONSTANTS
    Eos,            \* tokenizer.eos_id()
    Limits,         \* the max_tokens requests ask for
    MaxRequest      \* model bound: tokens of a rendered prompt

(* The bounds of the engine's model leave room for every request. *)
ASSUME ServerAssumption ==
    /\ Eos \in Token /\ Limits \subseteq Int /\ MaxRequest \in Nat
    /\ MaxRequest <= MaxPrompt /\ \A n \in Limits : n <= MaxOut

VARIABLES
    cached,     \* cached_tokens
    at,         \* where handle() is
    full,       \* the rendered prompt of the request
    delta,      \* the part of it that is prefilled
    limit,      \* max_tokens, clamped
    tokens,     \* result.token_ids
    response    \* how the last request was answered

requestVars == <<full, delta, limit, tokens>>
serverVars == <<cached, at, requestVars, response>>
vars == <<engineVars, serverVars>>
-----------------------------------------------------------------------------
Max(S) == CHOOSE n \in S : \A m \in S : m <= n

CommonPrefix(a, b) ==
    Max({n \in 0..Least(Len(a), Len(b)) : First(a, n) = First(b, n)})

Requests == UNION {[1..n -> Token] : n \in 1..MaxRequest}

ServerInit ==
    /\ Init
    /\ cached = <<>> /\ at = "idle" /\ response = "none"
    /\ full = <<>> /\ delta = <<>> /\ limit = 0 /\ tokens = <<>>

RequestIgnoringDivergence(prompt) ==
    LET prefix == CommonPrefix(cached, prompt)
        reuse == prefix < Len(prompt)
    IN  /\ at = "idle"
        /\ full' = prompt
        /\ IF reuse
           THEN /\ delta' = SubSeq(prompt, prefix + 1, Len(prompt))
                /\ UNCHANGED <<engineVars, cached>>
           ELSE /\ delta' = prompt /\ cached' = <<>>
                /\ Reset
        /\ at' = "admit" /\ response' = "none"
        /\ UNCHANGED <<limit, tokens>>

(* handle(): the prompt extends the cached text and only the rest is new, or *)
(* the engine starts afresh, also when there is no rest.                     *)
Request(prompt) ==
    LET prefix == CommonPrefix(cached, prompt)
        reuse == prefix = Len(cached) /\ prefix < Len(prompt)
    IN  /\ at = "idle"
        /\ full' = prompt
        /\ IF reuse
           THEN /\ delta' = SubSeq(prompt, prefix + 1, Len(prompt))
                /\ UNCHANGED <<engineVars, cached>>
           ELSE /\ delta' = prompt /\ cached' = <<>>
                /\ Reset
        /\ at' = "admit" /\ response' = "none"
        /\ UNCHANGED <<limit, tokens>>

AnswerKeepingTokens(how) ==
    /\ response' = how /\ at' = "idle"
    /\ full' = <<>> /\ delta' = <<>> /\ limit' = 0 /\ UNCHANGED tokens

Answer(how) ==
    /\ response' = how /\ at' = "idle"
    /\ full' = <<>> /\ delta' = <<>> /\ limit' = 0 /\ tokens' = <<>>

(* The capacity test and the sampling parameters; the state of the engine    *)
(* and of the cache stays as the lookup left it.                             *)
Reject ==
    /\ at = "admit"
    /\ Answer("rejected")
    /\ UNCHANGED <<engineVars, cached>>

Admit(maxTokens) ==
    /\ at = "admit"
    /\ maxTokens >= 1 /\ NCtx - past >= 1
    /\ limit' = Least(maxTokens, NCtx - past)
    /\ at' = "prefill"
    /\ UNCHANGED <<engineVars, cached, full, delta, tokens, response>>

StartPrefill ==
    /\ at = "prefill"
    /\ Prefill(delta)
    /\ at' = "receive"
    /\ UNCHANGED <<cached, requestVars, response>>

Continue ==
    /\ at = "decode" /\ Len(tokens) < limit
    /\ IF HasMtp
       THEN Speculate(tokens[Len(tokens)], limit - Len(tokens), Eos)
       ELSE Decode(tokens[Len(tokens)])
    /\ at' = "receive"
    /\ UNCHANGED <<cached, requestVars, response>>

(* The engine's call is running. *)
EngineRuns == (EngineStep \/ Fault) /\ UNCHANGED serverVars

(* The tokens of a call are appended one by one, up to the end-of-text token *)
(* or the limit.                                                             *)
Taken(reply) ==
    LET ends == {i \in 1..Len(reply) :
                    reply[i] = Eos \/ Len(tokens) + i >= limit}
    IN  IF ends = {} THEN reply
        ELSE First(reply, CHOOSE i \in ends : \A j \in ends : i <= j)

Receive ==
    /\ at = "receive" /\ pc = "idle" /\ result = "ok"
    /\ tokens' = tokens \o Taken([i \in DOMAIN out |-> out[i].token])
    /\ at' = IF tokens'[Len(tokens')] = Eos THEN "finish" ELSE "decode"
    /\ UNCHANGED <<engineVars, cached, full, delta, limit, response>>

FailKeepingCache ==
    /\ at = "receive" /\ pc = "idle" /\ result # "ok"
    /\ Reset
    /\ UNCHANGED cached
    /\ Answer(result)

FailWithoutReset ==
    /\ at = "receive" /\ pc = "idle" /\ result # "ok"
    /\ UNCHANGED engineVars
    /\ cached' = <<>>
    /\ Answer(result)

FailByRetrying ==
    /\ at = "receive" /\ pc = "idle" /\ result # "ok"
    /\ Reset
    /\ cached' = <<>> /\ tokens' = <<>> /\ delta' = full /\ at' = "prefill"
    /\ UNCHANGED <<full, limit, response>>

(* generate_tokens() returned false: the engine and the cache start afresh. *)
Fail ==
    /\ at = "receive" /\ pc = "idle" /\ result # "ok"
    /\ Reset
    /\ cached' = <<>>
    /\ Answer(result)

AllButLast(s) == First(s, Len(s) - 1)

ConsumedToTheLast == cached \o delta \o tokens

(* The text the engine should hold after this request. *)
Consumed == cached \o delta \o AllButLast(tokens)

Finish ==
    /\ at = "finish" \/ (at = "decode" /\ Len(tokens) >= limit)
    /\ IF Len(Consumed) # past
       THEN Reset /\ cached' = <<>>
       ELSE UNCHANGED engineVars /\ cached' = Consumed
    /\ Answer(IF tokens[Len(tokens)] = Eos THEN "stop" ELSE "length")

ServerStep ==
    \/ Reject
    \/ \E maxTokens \in Limits : Admit(maxTokens)
    \/ StartPrefill \/ Continue \/ Receive \/ Fail \/ Finish

ServerNext ==
    \/ \E prompt \in Requests : Request(prompt)
    \/ ServerStep
    \/ EngineRuns

ServerSpec == ServerInit /\ [][ServerNext]_vars

(* The server's thread keeps running while a request is being answered. *)
FairServerSpec ==
    /\ ServerSpec
    /\ WF_vars(ServerStep)
    /\ WF_vars(EngineRuns)
-----------------------------------------------------------------------------
ServerTypeOK ==
    /\ cached \in Seq(Token) /\ Len(cached) <= NCtx
    /\ at \in {"idle", "admit", "prefill", "receive", "decode", "finish"}
    /\ full \in Seq(Token) /\ delta \in Seq(Token) /\ tokens \in Seq(Token)
    /\ limit \in 0..NCtx /\ Len(tokens) <= limit
    /\ response \in {"none", "rejected", "stop", "length", "context", "fault"}

(* Between requests the cached tokens are exactly the text the engine holds: *)
(* its KV cache, its recurrent state and the history its penalties use; and  *)
(* the length check after a response never has to throw a valid text away.   *)
CacheIsEngineText ==
    /\ at = "idle" => /\ Settled
                      /\ cached = history /\ cached = First(kv, kvLen)
                      /\ rec = Absorb(<<>>, cached)
    /\ at = "finish" \/ (at = "decode" /\ Len(tokens) >= limit) => Len(Consumed) = past

(* A reused prefix is invisible: every token of a reply was sampled given    *)
(* the whole rendered prompt and the reply so far, and nothing else.         *)
ReplyContinuesPrompt ==
    at = "receive" /\ pc = "idle" /\ result = "ok" =>
        \A i \in DOMAIN out :
            out[i].history =
                full \o tokens \o [j \in 1..(i - 1) |-> out[j].token]

(* The server is one of the callers the engine is made for: it never calls   *)
(* an engine whose last call failed before it has reset it.                  *)
EngineSpec == Init /\ [][Next]_engineVars

(* Every request is answered. *)
RequestsAreAnswered == at # "idle" ~> at = "idle"
=============================================================================
