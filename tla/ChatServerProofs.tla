-------------------------- MODULE ChatServerProofs --------------------------
(***************************************************************************)
(* Proofs about ChatServer: for every vocabulary, context length, request  *)
(* and limit the cached tokens are the text the engine holds, a reused     *)
(* prefix is invisible in the replies, and the server calls the engine     *)
(* only as the engine allows, so that all that EngineProofs shows of the   *)
(* engine holds of the engine the server drives.                           *)
(***************************************************************************)
EXTENDS ChatServer, EngineProofs, WellFoundedInduction

-----------------------------------------------------------------------------
(* The inductive invariant: what the engine holds, at every place of a       *)
(* request, in terms of the rendered prompt and the tokens received so far.  *)

Said == full \o tokens

(* The length of the text the call was, or will be, made on. *)
Base == Len(full) + Len(tokens) - 1

ServerTypes ==
    /\ cached \in Seq(Token) /\ Len(cached) <= NCtx
    /\ at \in {"idle", "admit", "prefill", "receive", "decode", "finish"}
    /\ full \in Seq(Token) /\ delta \in Seq(Token) /\ tokens \in Seq(Token)
    /\ limit \in 0..NCtx /\ limit <= MaxOut /\ Len(tokens) <= limit
    /\ response \in {"none", "rejected", "stop", "length", "context", "fault"}

(* The request: its prompt is the cached text and what is prefilled. *)
RequestInv ==
    at # "idle" => /\ full = cached \o delta /\ delta # <<>>
                   /\ Len(full) <= MaxRequest

(* The engine has returned and nothing of it is waiting to be taken. *)
RestInv ==
    /\ at # "receive" => pc = "idle" /\ result = "ok"
    /\ at \in {"idle", "admit", "prefill"} => history = cached /\ tokens = <<>>
    /\ at \in {"prefill", "receive"} => Len(tokens) < limit
    /\ at \in {"decode", "finish"} =>
           tokens # <<>> /\ history = full \o AllButLast(tokens)

(* The drafts of a speculative call fit the limit, and none of the tokens it *)
(* has gone past ends the text.                                              *)
SpeculationInv ==
    /\ call.maxOut = limit - Len(tokens) /\ call.stop = <<Eos>>
    /\ Len(call.inputs) <= call.maxOut
    /\ \A i \in 1..Len(out) : i < Len(out) \/ pc = "accept" => out[i].token # Eos

(* A call is running for the request. *)
CallInv ==
    at = "receive" /\ pc # "idle" =>
        /\ call.op = "prefill" => tokens = <<>> /\ full = Text \o call.inputs
        /\ call.op # "prefill" =>
               /\ tokens # <<>> /\ Text = full \o AllButLast(tokens)
               /\ call.inputs[1] = tokens[Len(tokens)]
        /\ call.op = "speculate" => SpeculationInv

(* It has returned: what it returns goes on with what was said. *)
ReplyInv ==
    at = "receive" /\ pc = "idle" =>
        /\ result \in {"ok", "context", "fault"}
        /\ result = "ok" =>
               /\ Len(out) \in 1..(limit - Len(tokens))
               /\ Len(history) = Base + Len(out) /\ First(history, Base + 1) = Said
               /\ \A i \in 1..Len(out) : out[i].history = First(history, Base + i)
               /\ \A i \in 1..(Len(out) - 1) :
                      out[i].token = history[Base + i + 1] /\ out[i].token # Eos

ServerInv ==
    ServerTypes /\ RequestInv /\ RestInv /\ CallInv /\ ReplyInv

-----------------------------------------------------------------------------
(* Greatest elements, prefixes in common, and all but the last token. *)

LEMMA GreatestExists ==
    ASSUME NEW L \in Nat, NEW S, S \subseteq 0..L, S # {}
    PROVE  \E n \in S : \A m \in S : m <= n
<1>1. PICK R : R = OpToRel(<, Nat)
  OBVIOUS
<1>2. IsWellFoundedOn(R, Nat)
  BY <1>1, NatLessThanWellFounded
<1>3. \A x, y \in Nat : x < y => <<x, y>> \in R
  BY <1>1 DEF OpToRel
<1>4. PICK T : T = {L - n : n \in S}
  OBVIOUS
<1>5. T \subseteq Nat /\ T # {}
  <2>1. \A n \in S : L - n \in Nat
    OBVIOUS
  <2> QED
    BY <1>4, <2>1
<1>6. PICK x \in T : \A y \in T : ~(<<y, x>> \in R)
  BY <1>2, <1>5, WFMin
<1>7. PICK n \in S : x = L - n
  BY <1>4, <1>6
<1>8. ASSUME NEW m \in S
      PROVE  m <= n
  <2>1. L - m \in T /\ L - m \in Nat /\ x \in Nat
    BY <1>4, <1>5
  <2>2. ~(L - m < x)
    BY <1>3, <1>6, <2>1
  <2>3. m \in 0..L /\ n \in 0..L
    OBVIOUS
  <2> QED
    BY <1>7, <2>2, <2>3
<1> QED
  BY <1>8

(* What the lookup finds is a prefix of both. *)
LEMMA CommonPrefixIs ==
    ASSUME NEW a \in Seq(Token), NEW b \in Seq(Token), NEW p, p = CommonPrefix(a, b)
    PROVE  p \in 0..Len(a) /\ p \in 0..Len(b) /\ First(a, p) = First(b, p)
<1>1. PICK L : L = Least(Len(a), Len(b))
  OBVIOUS
<1>2. PICK S : S = {n \in 0..L : First(a, n) = First(b, n)}
  OBVIOUS
<1>3. Len(a) \in Nat /\ Len(b) \in Nat /\ L \in Nat /\ L <= Len(a) /\ L <= Len(b)
  BY <1>1, LenProperties DEF Least
<1>4. S \subseteq 0..L /\ S # {}
  <2>1. First(a, 0) = <<>> /\ First(b, 0) = <<>>
    BY SubSeqEmpty DEF First
  <2>2. 0 \in S
    BY <1>2, <1>3, <2>1
  <2> QED
    BY <1>2, <2>2
<1>5. \E n \in S : \A m \in S : m <= n
  BY ONLY <1>3, <1>4, GreatestExists
<1>6. p = CHOOSE n \in S : \A m \in S : m <= n
  BY <1>1, <1>2 DEF CommonPrefix, Max
<1>7. p \in S
  BY <1>5, <1>6
<1> QED
  BY <1>2, <1>3, <1>7

LEMMA ButLast ==
    ASSUME NEW s \in Seq(Token), s # <<>>
    PROVE  /\ AllButLast(s) \in Seq(Token) /\ Len(AllButLast(s)) = Len(s) - 1
           /\ Len(s) \in Nat \ {0} /\ s[Len(s)] \in Token
           /\ AllButLast(s) \o <<s[Len(s)]>> = s
<1>1. Len(s) \in Nat \ {0}
  BY EmptySeq
<1>2. PICK n : n = Len(s) - 1
  OBVIOUS
<1>3. n \in Nat /\ n + 1 = Len(s) /\ n + 1 <= Len(s) /\ n \in 0..Len(s)
  BY <1>1, <1>2
<1>4. /\ First(s, n) \in Seq(Token) /\ Len(First(s, n)) = n
      /\ s[n + 1] \in Token
  <2>1. n + 1 \in 1..Len(s)
    BY <1>3
  <2> QED
    BY <1>3, <2>1, Prefix, ElementOfSeq
<1>5. Append(First(s, n), s[n + 1]) = First(s, n + 1)
  BY <1>3, PrefixAppended
<1>6. First(s, n) \o <<s[n + 1]>> = s
  BY <1>3, <1>4, <1>5, AppendIsConcat, PrefixWhole
<1> QED
  BY <1>1, <1>2, <1>3, <1>4, <1>6 DEF AllButLast

LEMMA NonemptyRequests ==
    ASSUME NEW m \in Nat, NEW t \in UNION {[1..n -> Token] : n \in 1..m}
    PROVE  t \in Seq(Token) /\ Len(t) \in 1..m
<1>1. PICK n \in 1..m : t \in [1..n -> Token]
  OBVIOUS
<1>2. t \in Seq(Token)
  BY <1>1, SeqDef
<1>3. Len(t) = n
  BY <1>1, <1>2, LenProperties
<1> QED
  BY <1>2, <1>3

LEMMA SequencesAsked ==
    ASSUME NEW m \in Nat, NEW t \in Seq(Token), t # <<>>, Len(t) <= m
    PROVE  t \in UNION {[1..n -> Token] : n \in 1..m}
<1>1. PICK n : n = Len(t)
  OBVIOUS
<1>2. n \in 1..m /\ t \in [1..n -> Token]
  BY <1>1, LenProperties, EmptySeq
<1> QED
  BY <1>2

-----------------------------------------------------------------------------
(* The steps of the server's thread between the calls of the engine. *)

(* Before a call the engine holds the cached tokens. *)
LEMMA Resting ==
    ASSUME ServerTypes', RequestInv', at' \in {"idle", "admit", "prefill"},
           pc' = "idle", result' = "ok", history' = cached', tokens' = <<>>,
           at' = "prefill" => Len(tokens') < limit'
    PROVE  ServerInv'
BY DEF ServerInv, RestInv, CallInv, ReplyInv

LEMMA ServerInitially == ServerInit => EngineInv /\ ServerInv
<1>1. ASSUME ServerInit
      PROVE  EngineInv /\ ServerInv
  <2>1. <<>> \in Seq(Token) /\ Len(<<>>) = 0 /\ NCtx \in Nat /\ MaxOut \in Nat
    BY EmptySeq, EngineAssumption
  <2>2. ServerTypes
    BY <1>1, <2>1 DEF ServerInit, ServerTypes
  <2>3. ServerInv
    BY <1>1, <2>2 DEF ServerInit, Init, ServerInv, RequestInv, RestInv, CallInv, ReplyInv
  <2> QED
    BY <1>1, <2>3, Initially DEF ServerInit
<1> QED
  BY <1>1

LEMMA ServerStutters ==
    ASSUME ServerInv, UNCHANGED vars
    PROVE  ServerInv'
<1>1. /\ UNCHANGED <<history, pc, call, out, result>>
      /\ UNCHANGED <<cached, at, full, delta, limit, tokens, response>>
  BY DEF vars, engineVars, textVars, callVars, serverVars, requestVars
<1>2. Text' = Text /\ Said' = Said /\ Base' = Base
  BY <1>1 DEF Text, Healthy, Said, Base
<1>3. ServerTypes' /\ RequestInv' /\ RestInv'
  BY <1>1 DEF ServerInv, ServerTypes, RequestInv, RestInv
<1>4. CallInv'
  BY <1>1, <1>2 DEF ServerInv, CallInv, SpeculationInv
<1>5. ReplyInv'
  BY <1>1, <1>2 DEF ServerInv, ReplyInv
<1> QED
  BY <1>3, <1>4, <1>5 DEF ServerInv

LEMMA Fresh ==
    ASSUME Reset
    PROVE  Next /\ pc' = "idle" /\ result' = "ok" /\ history' = <<>>
BY DEF Reset, Next, Caller

(* The text the engine holds when it has returned. *)
LEMMA Held ==
    ASSUME EngineInv, pc = "idle", Healthy
    PROVE  /\ history \in Seq(Token) /\ past = Len(history) /\ past \in 0..NCtx
           /\ NCtx \in Nat
BY EngineAssumption DEF EngineInv, IdleInv, Types, TypeOK

LEMMA RequestStep ==
    ASSUME EngineInv, ServerInv, NEW prompt \in Requests, Request(prompt)
    PROVE  [Next]_engineVars /\ ServerInv'
<1>1. prompt \in Seq(Token) /\ Len(prompt) \in 1..MaxRequest /\ MaxRequest \in Nat
  <2>1. MaxRequest \in Nat
    BY ServerAssumption
  <2> QED
    BY <2>1, NonemptyRequests DEF Requests
<1>2. PICK c : c = cached
  OBVIOUS
<1>3. PICK p : p = CommonPrefix(c, prompt)
  OBVIOUS
<1>4. /\ pc = "idle" /\ result = "ok" /\ history = c /\ tokens = <<>> /\ at = "idle"
      /\ c \in Seq(Token) /\ Len(c) <= NCtx
  BY <1>2 DEF ServerInv, RestInv, ServerTypes, Request
<1>5. p \in 0..Len(c) /\ p \in 0..Len(prompt) /\ First(c, p) = First(prompt, p)
  BY <1>1, <1>3, <1>4, CommonPrefixIs
<1>6. /\ full' = prompt /\ at' = "admit" /\ response' = "none"
      /\ limit' = limit /\ tokens' = tokens
  BY DEF Request
<1>7. CASE p = Len(c) /\ p < Len(prompt)
  <2>1. PICK n : n = Len(prompt) - p
    OBVIOUS
  <2>2. p \in Nat /\ n \in Nat \ {0} /\ p + n = Len(prompt) /\ p + n <= Len(prompt)
    <3>1. PICK x : x = Len(prompt)
      OBVIOUS
    <3>2. x \in Nat /\ p \in Nat /\ p < x /\ n = x - p
      BY <1>1, <1>5, <1>7, <2>1, <3>1
    <3> QED
      BY <3>1, <3>2
  <2>3. PICK d : d = SubSeq(prompt, p + 1, p + n)
    OBVIOUS
  <2>4. /\ First(prompt, p) \o d = First(prompt, p + n)
        /\ d \in Seq(Token) /\ Len(d) = n
    <3>1. prompt \in Seq(Token) /\ p \in Nat /\ n \in Nat /\ p + n <= Len(prompt)
      BY <1>1, <2>2
    <3>2. /\ First(prompt, p) \o SubSeq(prompt, p + 1, p + n) = First(prompt, p + n)
          /\ SubSeq(prompt, p + 1, p + n) \in Seq(Token)
          /\ Len(SubSeq(prompt, p + 1, p + n)) = n
      BY ONLY <3>1, PrefixGrows
    <3> QED
      BY <2>3, <3>2
  <2>5. c \o d = prompt
    BY <1>1, <1>4, <1>5, <1>7, <2>2, <2>4, PrefixWhole
  <2>6. d # <<>>
    BY <2>2, <2>4, EmptySeq
  <2>7. delta' = d /\ cached' = c /\ UNCHANGED engineVars
    BY <1>2, <1>3, <1>7, <2>2, <2>3 DEF Request
  <2>8. UNCHANGED <<pc, result, history>>
    BY <2>7 DEF engineVars, textVars, callVars
  <2>9. ServerTypes'
    BY <1>1, <1>4, <1>6, <2>4, <2>7 DEF ServerInv, ServerTypes
  <2>10. RequestInv'
    BY <1>1, <1>6, <2>5, <2>6, <2>7 DEF RequestInv
  <2>11. ServerInv'
    BY <1>4, <1>6, <2>7, <2>8, <2>9, <2>10, Resting
  <2> QED
    BY <2>7, <2>11
<1>8. CASE ~(p = Len(c) /\ p < Len(prompt))
  <2>1. delta' = prompt /\ cached' = <<>> /\ Reset
    BY <1>2, <1>3, <1>8 DEF Request
  <2>2. Next /\ pc' = "idle" /\ result' = "ok" /\ history' = <<>>
    BY <2>1, Fresh
  <2>3. <<>> \in Seq(Token) /\ Len(<<>>) = 0 /\ NCtx \in Nat
    BY EmptySeq, EngineAssumption
  <2>4. ServerTypes'
    BY <1>1, <1>6, <2>1, <2>3 DEF ServerInv, ServerTypes
  <2>5. <<>> \o prompt = prompt /\ prompt # <<>>
    BY <1>1, <2>3, ConcatEmptySeq
  <2>6. RequestInv'
    BY <1>1, <1>6, <2>1, <2>5 DEF RequestInv
  <2>7. ServerInv'
    BY <1>4, <1>6, <2>1, <2>2, <2>4, <2>6, Resting
  <2> QED
    BY <2>2, <2>7
<1> QED
  BY <1>7, <1>8

(* Every answer ends the request. *)
LEMMA Answered ==
    ASSUME ServerInv, pc' = "idle", result' = "ok", history' = cached',
           cached' \in Seq(Token), Len(cached') <= NCtx,
           NEW how \in {"rejected", "stop", "length", "context", "fault"}, Answer(how)
    PROVE  ServerInv'
<1>1. /\ response' = how /\ at' = "idle" /\ full' = <<>> /\ delta' = <<>> /\ limit' = 0
      /\ tokens' = <<>>
  BY DEF Answer
<1>2. <<>> \in Seq(Token) /\ Len(<<>>) = 0 /\ NCtx \in Nat /\ MaxOut \in Nat
  BY EmptySeq, EngineAssumption
<1>3. ServerTypes'
  BY <1>1, <1>2 DEF ServerTypes
<1>4. RequestInv'
  BY <1>1 DEF RequestInv
<1> QED
  BY <1>1, <1>3, <1>4, Resting

LEMMA RejectStep ==
    ASSUME EngineInv, ServerInv, Reject
    PROVE  [Next]_engineVars /\ ServerInv'
<1>1. UNCHANGED engineVars /\ UNCHANGED <<pc, result, history, cached>>
  BY DEF Reject, engineVars, textVars, callVars
<1>2. /\ pc = "idle" /\ result = "ok" /\ history = cached
      /\ cached \in Seq(Token) /\ Len(cached) <= NCtx
  BY DEF Reject, ServerInv, ServerTypes, RestInv
<1>3. Answer("rejected")
  BY DEF Reject
<1> QED
  BY <1>1, <1>2, <1>3, Answered

LEMMA AdmitStep ==
    ASSUME EngineInv, ServerInv, NEW maxTokens \in Limits, Admit(maxTokens)
    PROVE  [Next]_engineVars /\ ServerInv'
<1>1. UNCHANGED engineVars /\ UNCHANGED <<pc, result, history, cached, full, delta, tokens>>
      /\ response' = response /\ at' = "prefill" /\ at = "admit"
  BY DEF Admit, engineVars, textVars, callVars
<1>2. pc = "idle" /\ result = "ok" /\ history = cached /\ tokens = <<>> /\ Healthy
  BY <1>1 DEF ServerInv, RestInv, Healthy
<1>3. /\ maxTokens \in Int /\ maxTokens <= MaxOut /\ MaxOut \in Nat
      /\ past \in 0..NCtx /\ NCtx \in Nat
  BY <1>2, Held, ServerAssumption, EngineAssumption
<1>4. /\ maxTokens >= 1 /\ NCtx - past >= 1 /\ limit' = Least(maxTokens, NCtx - past)
  BY DEF Admit
<1>5. limit' \in 0..NCtx /\ limit' <= MaxOut /\ 0 < limit'
  BY <1>3, <1>4 DEF Least
<1>6. Len(tokens) = 0
  BY <1>2
<1>7. ServerTypes'
  BY <1>1, <1>5, <1>6 DEF ServerInv, ServerTypes
<1>8. RequestInv'
  BY <1>1 DEF ServerInv, RequestInv
<1>9. ServerInv'
  BY <1>1, <1>2, <1>5, <1>6, <1>7, <1>8, Resting
<1> QED
  BY <1>1, <1>9

-----------------------------------------------------------------------------
(* The calls of the engine begin. *)

LEMMA Called ==
    ASSUME ServerInv, at # "idle", Len(tokens) < limit, at' = "receive",
           UNCHANGED <<cached, requestVars, response>>, CallInv', ReplyInv'
    PROVE  ServerInv'
<1>1. UNCHANGED <<cached, full, delta, limit, tokens, response>>
  BY DEF requestVars
<1>2. ServerTypes' /\ RequestInv' /\ RestInv'
  BY <1>1 DEF ServerInv, ServerTypes, RequestInv, RestInv
<1> QED
  BY <1>2 DEF ServerInv

LEMMA Refused ==
    ASSUME ServerInv, at # "idle", Len(tokens) < limit, at' = "receive",
           UNCHANGED <<cached, requestVars, response>>,
           pc' = "idle", result' = "context"
    PROVE  ServerInv'
<1>1. CallInv' /\ ReplyInv'
  BY DEF CallInv, ReplyInv
<1> QED
  BY <1>1, Called

LEMMA StartPrefillStep ==
    ASSUME EngineInv, ServerInv, StartPrefill
    PROVE  [Next]_engineVars /\ ServerInv'
<1>1. PICK d : d = delta
  OBVIOUS
<1>2. PICK h : h = history
  OBVIOUS
<1>3. /\ at = "prefill" /\ Prefill(d) /\ at' = "receive"
      /\ UNCHANGED <<cached, requestVars, response>>
  BY <1>1 DEF StartPrefill
<1>4. /\ pc = "idle" /\ result = "ok" /\ Healthy /\ h = cached /\ tokens = <<>>
      /\ Len(tokens) < limit
  BY <1>2, <1>3 DEF ServerInv, RestInv, Healthy
<1>5. /\ d \in Seq(Token) /\ d # <<>> /\ full = h \o d /\ Len(full) <= MaxRequest
      /\ h \in Seq(Token)
  BY <1>1, <1>3, <1>4 DEF ServerInv, ServerTypes, RequestInv
<1>6. d \in Prompts
  <2>1. Len(full) = Len(h) + Len(d) /\ Len(h) \in Nat /\ Len(d) \in Nat
    BY <1>5, ConcatProperties, LenProperties
  <2>2. MaxRequest \in Nat /\ MaxPrompt \in Nat /\ MaxRequest <= MaxPrompt
    BY ServerAssumption, EngineAssumption
  <2>3. Len(d) <= MaxPrompt
    BY <1>5, <2>1, <2>2
  <2> QED
    BY <1>5, <2>2, <2>3, SequencesAsked DEF Prompts
<1>7. Next
  BY <1>3, <1>4, <1>6 DEF Next, Caller
<1>8. CASE Refuse("context")
  <2>1. pc' = "idle" /\ result' = "context"
    BY <1>4, <1>8 DEF Refuse
  <2> QED
    BY <1>3, <1>4, <1>7, <2>1, Refused
<1>9. CASE ~Refuse("context")
  <2>1. /\ history' = history \o d
        /\ call' = [NoCall EXCEPT !.op = "prefill", !.start = past, !.inputs = d]
        /\ pc' = "run" /\ UNCHANGED <<loaded, past, kv, kvLen, rec, mtpVars>>
    BY <1>3, <1>9 DEF Prefill, Begin
  <2>2. call'.start = past /\ call'.inputs = d /\ call'.op = "prefill"
    BY <2>1 DEF NoCall
  <2>3. First(history', past) = history
    BY <1>2, <1>4, <1>5, <2>1, <2>2, Begun
  <2>4. Text' = h
    BY <1>2, <2>1, <2>2, <2>3 DEF Text
  <2>5. tokens' = <<>> /\ full' = h \o d
    BY <1>3, <1>4, <1>5 DEF requestVars
  <2>6. CallInv'
    BY <2>1, <2>2, <2>4, <2>5 DEF CallInv
  <2>7. ReplyInv'
    BY <2>1 DEF ReplyInv
  <2> QED
    BY <1>3, <1>4, <1>7, <2>6, <2>7, Called
<1> QED
  BY <1>8, <1>9

(* A call to go on is about the prompt and what was said but the last token. *)
LEMMA Continues ==
    ASSUME EngineInv, ServerInv, Continue, NEW v \in Seq(Token), Healthy,
           v = <<tokens[Len(tokens)]>>, pc' \in {"run", "draft"},
           call'.op \in {"decode", "speculate"}, call'.start = past, call'.inputs = v,
           history' = history, UNCHANGED <<loaded, past, kv, kvLen, rec, mtpVars>>,
           call'.op = "speculate" => SpeculationInv'
    PROVE  ServerInv'
<1>1. /\ at = "decode" /\ Len(tokens) < limit /\ at' = "receive"
      /\ UNCHANGED <<cached, requestVars, response>>
  BY DEF Continue
<1>2. PICK h : h = history
  OBVIOUS
<1>3. PICK s : s = tokens
  OBVIOUS
<1>4. pc = "idle" /\ s # <<>> /\ h = full \o AllButLast(s)
  BY <1>1, <1>2, <1>3 DEF ServerInv, RestInv
<1>5. First(history', past) = history
  BY <1>2, <1>4, Begun
<1>6. Text' = h
  BY <1>2, <1>5 DEF Text
<1>7. tokens' = s /\ full' = full /\ v[1] = s[Len(s)]
  BY <1>1, <1>3 DEF requestVars
<1>8. CallInv'
  BY <1>4, <1>6, <1>7 DEF CallInv
<1>9. ReplyInv'
  BY DEF ReplyInv
<1> QED
  BY <1>1, <1>8, <1>9, Called

LEMMA ContinueStep ==
    ASSUME EngineInv, ServerInv, Continue
    PROVE  [Next]_engineVars /\ ServerInv'
<1>1. PICK x : x = tokens[Len(tokens)]
  OBVIOUS
<1>2. PICK v : v = <<x>>
  OBVIOUS
<1>3. PICK r : r = limit - Len(tokens)
  OBVIOUS
<1>4. /\ at = "decode" /\ Len(tokens) < limit /\ at' = "receive"
      /\ UNCHANGED <<cached, requestVars, response>>
  BY DEF Continue
<1>5. /\ pc = "idle" /\ result = "ok" /\ Healthy /\ tokens # <<>> /\ tokens \in Seq(Token)
      /\ limit \in 0..NCtx /\ limit <= MaxOut
      /\ history = full \o AllButLast(tokens) /\ full = cached \o delta /\ delta # <<>>
      /\ full \in Seq(Token) /\ cached \in Seq(Token) /\ delta \in Seq(Token)
  BY <1>4 DEF ServerInv, ServerTypes, RestInv, RequestInv, Healthy
<1>6. Len(tokens) \in Nat \ {0} /\ x \in Token /\ AllButLast(tokens) \in Seq(Token)
  BY <1>1, <1>5, ButLast
<1>7. r \in 1..MaxOut /\ v \in Seq(Token) /\ Len(v) = 1
  <2>1. NCtx \in Nat /\ MaxOut \in Nat
    BY EngineAssumption
  <2> QED
    BY <1>2, <1>3, <1>4, <1>5, <1>6, <2>1
<1>8. v = <<tokens[Len(tokens)]>>
  BY <1>1, <1>2
<1>9. CASE ~HasMtp
  <2>1. Decode(x)
    BY <1>1, <1>9 DEF Continue
  <2>2. Next
    BY <1>5, <1>6, <2>1 DEF Next, Caller
  <2>3. CASE Refuse("context")
    <3>1. pc' = "idle" /\ result' = "context"
      BY <1>5, <2>3 DEF Refuse
    <3> QED
      BY <1>4, <2>2, <3>1, Refused
  <2>4. CASE ~Refuse("context")
    <3>1. /\ history' = history /\ pc' = "run"
          /\ call' = [NoCall EXCEPT !.op = "decode", !.start = past, !.inputs = v]
          /\ UNCHANGED <<loaded, past, kv, kvLen, rec, mtpVars>>
      BY <1>2, <2>1, <2>4 DEF Decode, Begin, textVars
    <3>2. call'.start = past /\ call'.inputs = v /\ call'.op = "decode"
      BY <3>1 DEF NoCall
    <3>3. ServerInv'
      BY <1>5, <1>7, <1>8, <3>1, <3>2, Continues
    <3> QED
      BY <2>2, <3>3
  <2> QED
    BY <2>3, <2>4
<1>10. CASE HasMtp
  <2>1. Speculate(x, r, Eos)
    BY <1>1, <1>3, <1>10 DEF Continue
  <2>2. Next
    <3>1. Eos \in Token
      BY ServerAssumption
    <3> QED
      BY <1>5, <1>6, <1>7, <2>1, <3>1 DEF Next, Caller
  <2>3. CASE Refuse("context")
    <3>1. pc' = "idle" /\ result' = "context"
      BY <1>5, <2>3 DEF Refuse
    <3> QED
      BY <1>4, <2>2, <3>1, Refused
  <2>4. CASE Refuse("desync")
    <3>1. pc' = "idle" /\ result' = "desync" /\ history' = history
      BY <1>5, <2>4 DEF Refuse, textVars
    <3>2. EngineInv'
      BY <2>2, NextStep
    <3>3. history' = <<>>
      BY <3>1, <3>2 DEF EngineInv, IdleInv
    <3>4. full = <<>>
      BY <1>5, <1>6, <3>1, <3>3, ConcatSimplifications!concIsEmpty
    <3> QED
      BY <1>5, <3>4, ConcatSimplifications!concIsEmpty
  <2>5. CASE ~Refuse("context") /\ ~Refuse("desync")
    <3>1. /\ history' = history /\ pc' = "draft" /\ out' = <<>>
          /\ call' = [NoCall EXCEPT !.op = "speculate", !.start = past, !.inputs = v,
                                    !.maxOut = r, !.stop = <<Eos>>]
          /\ UNCHANGED <<loaded, past, kv, kvLen, rec, mtpVars>>
      BY <1>2, <2>1, <2>5 DEF Speculate, textVars
    <3>2. /\ call'.start = past /\ call'.inputs = v /\ call'.op = "speculate"
          /\ call'.maxOut = r /\ call'.stop = <<Eos>>
      BY <3>1 DEF NoCall
    <3>3. limit' = limit /\ tokens' = tokens
      BY <1>4 DEF requestVars
    <3>4. SpeculationInv'
      <4>1. Len(out') = 0
        BY <3>1
      <4>2. call'.maxOut = limit' - Len(tokens')
        BY <1>3, <3>2, <3>3
      <4>3. Len(call'.inputs) <= call'.maxOut
        <5>1. Len(call'.inputs) = 1 /\ call'.maxOut = r /\ 1 <= r
          BY <1>7, <3>2
        <5> QED
          BY <5>1
      <4>4. \A i \in 1..Len(out') : i < Len(out') \/ pc' = "accept" => out'[i].token # Eos
        BY <4>1
      <4> QED
        BY <3>2, <4>2, <4>3, <4>4 DEF SpeculationInv
    <3>5. ServerInv'
      BY <1>5, <1>7, <1>8, <3>1, <3>2, <3>4, Continues
    <3> QED
      BY <2>2, <3>5
  <2> QED
    BY <2>3, <2>4, <2>5
<1> QED
  BY <1>9, <1>10

-----------------------------------------------------------------------------
(* While a call runs, and when it returns. *)

(* What a call is about is what was said: all of it, or for a speculative    *)
(* call all before its drafts.                                               *)
LEMMA CallIs ==
    ASSUME EngineInv, ServerInv, at = "receive", pc # "idle"
    PROVE  /\ Base \in Nat /\ Said \in Seq(Token) /\ Len(Said) = Base + 1
           /\ call.op \in {"prefill", "decode"} => CallText = Said
           /\ call.op = "speculate" =>
                  First(CallText, Base + 1) = Said /\ call.start = Base
           /\ call.op \in {"prefill", "decode", "speculate"}
<1>1. PICK x : x = First(history, call.start)
  OBVIOUS
<1>2. PICK v : v = call.inputs
  OBVIOUS
<1>3. PICK s : s = tokens
  OBVIOUS
<1>4. PICK f : f = full
  OBVIOUS
<1>5. /\ x \in Seq(Token) /\ Len(x) = call.start /\ v \in Seq(Token)
      /\ call.start \in Nat /\ Len(v) \in Nat \ {0} /\ CallText = x \o v
      /\ Text = x
  BY <1>1, <1>2, TextOfCall DEF EngineInv, CallText, Text
<1>6. /\ f \in Seq(Token) /\ s \in Seq(Token) /\ Said = f \o s
      /\ Base = Len(f) + Len(s) - 1
  BY <1>3, <1>4 DEF ServerInv, ServerTypes, Said, Base
<1>7. f # <<>>
  BY <1>4, ConcatSimplifications!concIsEmpty DEF ServerInv, ServerTypes, RequestInv
<1>8. Len(f) \in Nat \ {0} /\ Len(s) \in Nat
  BY <1>6, <1>7, EmptySeq
<1>9. Base \in Nat /\ Said \in Seq(Token) /\ Len(Said) = Base + 1
  BY <1>6, <1>8, ConcatProperties
<1>10. call.op \in {"prefill", "decode", "speculate"}
  BY DEF EngineInv, BusyInv, Types, Calls, Ops
<1>11. CASE call.op = "prefill"
  <2>1. s = <<>> /\ f = x \o v
    BY <1>2, <1>3, <1>4, <1>5, <1>11 DEF ServerInv, CallInv
  <2>2. Said = f
    BY <1>6, <2>1, ConcatEmptySeq
  <2> QED
    BY <1>5, <1>9, <1>11, <2>1, <2>2
<1>12. CASE call.op # "prefill"
  <2>1. s # <<>> /\ x = f \o AllButLast(s) /\ v[1] = s[Len(s)]
    BY <1>2, <1>3, <1>4, <1>5, <1>12 DEF ServerInv, CallInv
  <2>2. PICK a : a = AllButLast(s)
    OBVIOUS
  <2>3. PICK w : w = <<v[1]>>
    OBVIOUS
  <2>4. /\ a \in Seq(Token) /\ Len(a) = Len(s) - 1 /\ a \o w = s
        /\ w \in Seq(Token)
    BY <1>6, <2>1, <2>2, <2>3, ButLast
  <2>5. x \o w = Said
    <3>1. (f \o a) \o w = f \o (a \o w)
      <4>1. f \in Seq(Token) /\ a \in Seq(Token) /\ w \in Seq(Token)
        BY <1>6, <2>4
      <4> QED
        BY ONLY <4>1, ConcatAssociative
    <3>2. x = f \o a /\ a \o w = s /\ Said = f \o s
      BY <1>6, <2>1, <2>2, <2>4
    <3> QED
      BY ONLY <3>1, <3>2
  <2>6. call.start = Base
    <3>1. Len(x) = Len(f) + Len(a)
      BY <1>6, <2>1, <2>2, <2>4, ConcatProperties
    <3> QED
      BY <1>5, <1>6, <1>8, <2>4, <3>1
  <2>7. First(v, 1) = w
    <3>1. First(v, 0) = <<>>
      BY SubSeqEmpty DEF First
    <3>2. 0 \in Nat /\ 0 + 1 <= Len(v)
      BY <1>5
    <3>3. Append(First(v, 0), v[0 + 1]) = First(v, 0 + 1)
      BY ONLY <1>5, <3>2, PrefixAppended
    <3>4. Append(<<>>, v[1]) = w
      BY <2>3
    <3> QED
      BY <3>1, <3>3, <3>4
  <2>8. First(CallText, Base + 1) = Said
    <3>1. 1 \in 0..Len(v)
      BY <1>5
    <3>2. First(x \o v, Len(x) + 1) = x \o First(v, 1)
      BY ONLY <1>5, <3>1, PrefixPastJoin
    <3> QED
      BY <1>5, <2>5, <2>6, <2>7, <3>2
  <2>9. CASE call.op = "decode"
    <3>1. Len(v) = 1
      BY <1>2, <2>9 DEF EngineInv, BusyInv
    <3>2. First(v, 1) = v
      BY <1>5, <3>1, PrefixWhole
    <3> QED
      BY <1>5, <1>9, <2>5, <2>7, <2>9, <3>2
  <2> QED
    BY <1>9, <1>10, <1>12, <2>6, <2>8, <2>9
<1> QED
  BY <1>11, <1>12

(* Nothing of the server changes while the engine runs. *)
LEMMA StillRunning ==
    ASSUME EngineInv, ServerInv, at = "receive", pc # "idle", pc' # "idle",
           UNCHANGED serverVars, UNCHANGED Text, call'.op = call.op,
           call'.inputs \in Seq(Token), call'.inputs[1] = call.inputs[1],
           call.op # "speculate" => call'.inputs = call.inputs,
           call.op = "speculate" => SpeculationInv'
    PROVE  ServerInv'
<1>1. UNCHANGED <<cached, at, full, delta, limit, tokens, response>>
  BY DEF serverVars, requestVars
<1>2. ServerTypes' /\ RequestInv' /\ RestInv'
  BY <1>1 DEF ServerInv, ServerTypes, RequestInv, RestInv
<1>3. CallInv'
  BY <1>1 DEF ServerInv, CallInv
<1>4. ReplyInv'
  BY DEF ReplyInv
<1> QED
  BY <1>2, <1>3, <1>4 DEF ServerInv

LEMMA CallReturned ==
    ASSUME EngineInv, ServerInv, at = "receive", pc # "idle", pc' = "idle",
           UNCHANGED serverVars, ReplyInv'
    PROVE  ServerInv'
<1>1. UNCHANGED <<cached, at, full, delta, limit, tokens, response>>
  BY DEF serverVars, requestVars
<1>2. ServerTypes' /\ RequestInv' /\ RestInv'
  BY <1>1 DEF ServerInv, ServerTypes, RequestInv, RestInv
<1>3. CallInv'
  BY DEF CallInv
<1> QED
  BY <1>2, <1>3 DEF ServerInv

(* prefill or decode returns one token. *)
LEMMA CommitRuns ==
    ASSUME EngineInv, ServerInv, at = "receive", NEW token \in Token, Commit(token),
           UNCHANGED serverVars
    PROVE  ServerInv'
<1>1. PICK T : T = CallText
  OBVIOUS
<1>2. PICK b : b = Base
  OBVIOUS
<1>3. PICK n : n = Len(call.hidden)
  OBVIOUS
<1>4. /\ pc = "commit" /\ call.op \in {"prefill", "decode"} /\ history' = T
      /\ call.op = "prefill" => history = T
  BY <1>1, Committed
<1>5. /\ b \in Nat /\ T = Said /\ T \in Seq(Token) /\ Len(T) = b + 1
  BY <1>1, <1>2, <1>4, CallIs
<1>6. UNCHANGED <<cached, at, full, delta, limit, tokens, response>>
  BY DEF serverVars, requestVars
<1>7. CASE call.op = "prefill" /\ past + n < call.start + Len(call.inputs)
  <2>1. pc' = "run" /\ call' = call /\ history' = history
    BY <1>3, <1>7 DEF Commit
  <2>2. UNCHANGED <<Text, Reply>>
    BY <1>4, <2>1, InsideACall
  <2>3. call.inputs \in Seq(Token)
    BY DEF EngineInv, Types, Calls
  <2> QED
    BY <1>4, <1>7, <2>1, <2>2, <2>3, StillRunning
<1>8. CASE ~(call.op = "prefill" /\ past + n < call.start + Len(call.inputs))
  <2>1. PICK e : e = Sampled(token, call.hidden[n], T)
    OBVIOUS
  <2>2. pc' = "idle" /\ result' = "ok" /\ out' = <<e>>
    BY <1>3, <1>4, <1>8, <2>1 DEF Commit, Return
  <2>3. First(T, b + 1) = T
    BY <1>5, PrefixWhole
  <2>4. Len(<<e>>) = 1 /\ <<e>>[1].history = T
    BY <2>1 DEF Sampled
  <2>5. 1 \in 1..(limit - Len(tokens))
    <3>1. Len(tokens) < limit /\ Len(tokens) \in Nat /\ limit \in Nat
      BY EngineAssumption, LenProperties DEF ServerInv, RestInv, ServerTypes
    <3> QED
      BY <3>1
  <2>6. Base' = b /\ Said' = T
    BY <1>2, <1>5, <1>6 DEF Base, Said
  <2>7. \A i \in 1..1 : <<e>>[i].history = First(T, b + i)
    BY <2>3, <2>4
  <2>8. ReplyInv'
    <3>1. Len(out') \in 1..(limit' - Len(tokens'))
      BY <1>6, <2>2, <2>4, <2>5
    <3>2. Len(history') = Base' + Len(out') /\ First(history', Base' + 1) = Said'
      BY <1>4, <1>5, <2>2, <2>3, <2>4, <2>6
    <3>3. \A i \in 1..Len(out') : out'[i].history = First(history', Base' + i)
      BY <1>4, <2>2, <2>4, <2>6, <2>7
    <3>4. 1..(Len(out') - 1) = {}
      BY <2>2, <2>4
    <3> QED
      BY <2>2, <3>1, <3>2, <3>3, <3>4 DEF ReplyInv
  <2> QED
    BY <1>4, <2>2, <2>8, CallReturned
<1> QED
  BY <1>7, <1>8

(* speculative_decode returns as many tokens as the limit leaves, at most. *)
LEMMA SyncRuns ==
    ASSUME EngineInv, ServerInv, at = "receive", Sync, UNCHANGED serverVars
    PROVE  ServerInv'
<1>1. UNCHANGED <<cached, at, full, delta, limit, tokens, response>>
  BY DEF serverVars, requestVars
<1>2. pc = "sync" /\ history' = history /\ out' = out
  BY DEF Sync, textVars
<1>3. CASE call.op # "speculate"
  <2>1. pc' = "commit" /\ call' = call
    BY <1>3 DEF Sync
  <2>2. UNCHANGED <<Text, Reply>>
    BY <1>2, <2>1, InsideACall
  <2>3. call.inputs \in Seq(Token)
    BY DEF EngineInv, Types, Calls
  <2> QED
    BY <1>2, <1>3, <2>1, <2>2, <2>3, StillRunning
<1>4. CASE call.op = "speculate"
  <2>1. PICK T : T = CallText
    OBVIOUS
  <2>2. PICK c : c = call.start
    OBVIOUS
  <2>3. PICK m : m = call.kept
    OBVIOUS
  <2>4. PICK o : o = out
    OBVIOUS
  <2>5. PICK h : h = history
    OBVIOUS
  <2>6. PICK v : v = call.inputs
    OBVIOUS
  <2>7. SpeculationReturns(T, c, v, m, h, o)
    BY <1>2, <1>4, <2>1, <2>2, <2>3, <2>4, <2>5, <2>6, Speculated
  <2>8. /\ c = Base /\ First(T, c + 1) = Said
    BY <1>2, <1>4, <2>1, <2>2, CallIs
  <2>9. /\ T \in Seq(Token) /\ Len(T) = c + Len(v) /\ c \in Nat /\ Len(v) \in Nat
        /\ m \in Nat \ {0} /\ m <= Len(v) /\ Len(h) = c + m /\ h = First(T, c + m)
        /\ Len(o) = m
    BY <2>7 DEF SpeculationReturns
  <2>10. /\ \A i \in 1..m : o[i].history = First(h, c + i)
         /\ \A i \in 1..(m - 1) : o[i].token = h[c + i + 1]
    BY <2>7 DEF SpeculationReturns
  <2>11. First(h, c + 1) = Said
    <3>1. c + m \in 0..Len(T) /\ c + 1 \in 0..(c + m)
      <4>1. PICK x : x = Len(v)
        OBVIOUS
      <4>2. x \in Nat /\ c \in Nat /\ m \in Nat \ {0} /\ m <= x /\ Len(T) = c + x
        BY <2>9, <4>1
      <4> QED
        BY <4>2
    <3>2. First(First(T, c + m), c + 1) = First(T, c + 1)
      BY ONLY <2>9, <3>1, PrefixOfPrefix
    <3> QED
      BY <2>8, <2>9, <3>2
  <2>12. SpeculationInv
    BY <1>2, <1>4 DEF ServerInv, CallInv
  <2>13. m \in 1..(limit - Len(tokens)) /\ \A i \in 1..(m - 1) : o[i].token # Eos
    <3>1. Len(v) <= limit - Len(tokens)
      BY <2>6, <2>12 DEF SpeculationInv
    <3>2. limit \in Nat /\ Len(tokens) \in Nat
      BY EngineAssumption, LenProperties DEF ServerInv, ServerTypes
    <3>3. m \in 1..(limit - Len(tokens))
      BY <2>9, <3>1, <3>2
    <3>4. \A i \in 1..m : i < m => o[i].token # Eos
      BY <2>4, <2>9, <2>12 DEF SpeculationInv
    <3>5. \A i \in 1..(m - 1) : i \in 1..m /\ i < m
      BY <2>9
    <3> QED
      BY <3>3, <3>4, <3>5
  <2>14. pc' = "idle" /\ result' = "ok" /\ Base' = c /\ Said' = First(h, c + 1)
    BY <1>1, <1>4, <2>8, <2>11 DEF Sync, Return, Base, Said
  <2>15. ReplyInv'
    <3>1. Len(out') \in 1..(limit' - Len(tokens'))
      BY <1>1, <1>2, <2>4, <2>9, <2>13
    <3>2. Len(history') = Base' + Len(out') /\ First(history', Base' + 1) = Said'
      BY <1>2, <2>4, <2>5, <2>9, <2>14
    <3>3. \A i \in 1..Len(out') : out'[i].history = First(history', Base' + i)
      BY <1>2, <2>4, <2>5, <2>9, <2>10, <2>14
    <3>4. ASSUME NEW i \in 1..(Len(out') - 1)
          PROVE  out'[i].token = history'[Base' + i + 1] /\ out'[i].token # Eos
      BY <1>2, <2>4, <2>5, <2>9, <2>10, <2>13, <2>14
    <3> QED
      BY <2>14, <3>1, <3>2, <3>3, <3>4 DEF ReplyInv
  <2> QED
    BY <1>2, <2>14, <2>15, CallReturned
<1> QED
  BY <1>3, <1>4

(* The draft head proposes no more tokens than the limit leaves. *)
LEMMA DraftRuns ==
    ASSUME EngineInv, ServerInv, at = "receive", NEW token \in Token, Draft(token),
           UNCHANGED serverVars
    PROVE  ServerInv'
<1>1. UNCHANGED <<cached, at, full, delta, limit, tokens, response>>
  BY DEF serverVars, requestVars
<1>2. PICK v : v = call.inputs
  OBVIOUS
<1>3. PICK w : w = Append(v, token)
  OBVIOUS
<1>4. /\ pc = "draft" /\ pc' = "draft" /\ history' = history /\ out' = out
      /\ Len(v) <= MaxDrafts
      /\ call' = [call EXCEPT !.inputs = w]
  BY <1>2, <1>3 DEF Draft, textVars
<1>5. call \in Calls /\ v \in Seq(Token) /\ Len(v) \in Nat \ {0}
  BY <1>2, <1>4, EmptySeq DEF EngineInv, Types, Calls, BusyInv
<1>6. /\ call'.op = call.op /\ call'.start = call.start /\ call'.inputs = w
      /\ call'.maxOut = call.maxOut /\ call'.stop = call.stop
  BY <1>4, <1>5 DEF Calls
<1>7. w \in Seq(Token) /\ Len(w) = Len(v) + 1 /\ w[1] = v[1]
  <2>1. /\ w \in Seq(Token) /\ Len(w) = Len(v) + 1
        /\ \A i \in 1..Len(v) : w[i] = v[i]
    BY <1>3, <1>5, AppendProperties
  <2>2. 1 \in 1..Len(v)
    BY <1>5
  <2> QED
    BY <2>1, <2>2
<1>8. call.op = "speculate"
  BY <1>4 DEF EngineInv, BusyInv
<1>9. SpeculationInv
  BY <1>4, <1>8 DEF ServerInv, CallInv
<1>10. Len(w) <= call.maxOut
  <2>1. call.maxOut \in Nat /\ mtpDraftTokens \in Nat /\ NCtx \in Nat /\ call.start \in Nat
    BY <1>5, EngineAssumption DEF EngineInv, Types, Calls
  <2>2. Len(v) <= Greatest(0, call.maxOut - 1)
    <3>1. PICK x : x = Len(v)
      OBVIOUS
    <3>2. PICK g : g = Greatest(0, call.maxOut - 1)
      OBVIOUS
    <3>3. x \in Nat /\ g \in Nat
      BY <1>5, <2>1, <3>1, <3>2 DEF Greatest
    <3>4. x <= Least(mtpDraftTokens, Least(NCtx - call.start - 1, g))
      BY <1>4, <3>1, <3>2 DEF MaxDrafts
    <3>5. x <= g
      BY <2>1, <3>3, <3>4 DEF Least
    <3> QED
      BY <3>1, <3>2, <3>5
  <2> QED
    BY <1>5, <1>7, <2>1, <2>2 DEF Greatest
<1>11. SpeculationInv'
  BY <1>1, <1>4, <1>6, <1>9, <1>10 DEF SpeculationInv
<1>12. UNCHANGED <<Text, Reply>>
  BY <1>4, <1>6, InsideACall
<1> QED
  BY <1>2, <1>4, <1>6, <1>7, <1>8, <1>11, <1>12, StillRunning

(* The accept loop goes on only past a token that does not end the text. *)
LEMMA AcceptRuns ==
    ASSUME EngineInv, ServerInv, at = "receive", NEW token \in Token,
           NEW agrees \in BOOLEAN, Accept(token, agrees), UNCHANGED serverVars
    PROVE  ServerInv'
<1>1. UNCHANGED <<cached, at, full, delta, limit, tokens, response>>
  BY DEF serverVars, requestVars
<1>2. PICK k : k = call.kept
  OBVIOUS
<1>3. PICK v : v = call.inputs
  OBVIOUS
<1>4. PICK e : e = Sampled(token, call.hidden[k + 1], history')
  OBVIOUS
<1>5. PICK o : o = out
  OBVIOUS
<1>6. /\ pc = "accept" /\ history' = Append(history, v[k + 1]) /\ out' = Append(o, e)
      /\ call' = [call EXCEPT !.kept = k + 1]
      /\ pc' = IF agrees /\ <<token>> # call.stop THEN "accept" ELSE "rewind"
  BY <1>2, <1>3, <1>4, <1>5 DEF Accept
<1>7. /\ call \in Calls /\ k \in Nat /\ k < Len(v) /\ v \in Seq(Token) /\ Len(v) \in Nat
      /\ o \in Seq([token : Token, hidden : HiddenState, history : Seq(Token)])
  BY <1>2, <1>3, <1>5, <1>6, LenProperties
     DEF EngineInv, VerifyInv, Types, TypeOK, Calls
<1>8. /\ call'.op = call.op /\ call'.start = call.start /\ call'.inputs = v
      /\ call'.maxOut = call.maxOut /\ call'.stop = call.stop
  BY <1>3, <1>6, <1>7 DEF Calls
<1>9. call.op = "speculate" /\ SpeculationInv
  BY <1>6 DEF EngineInv, BusyInv, ServerInv, CallInv
<1>10. v[k + 1] \in Token
  <2>1. k + 1 \in 1..Len(v)
    BY <1>7
  <2> QED
    BY <1>7, <2>1, ElementOfSeq
<1>11. UNCHANGED <<Text, Reply>>
  <2>1. pc' # "idle"
    BY <1>6
  <2> QED
    BY <1>6, <1>8, <1>10, <2>1, InsideACall
<1>12. PICK n : n = Len(o)
  OBVIOUS
<1>13. PICK p : p = Append(o, e)
  OBVIOUS
<1>14. /\ n \in Nat /\ Len(p) = n + 1 /\ p[n + 1] = e
       /\ \A i \in 1..n : p[i] = o[i]
  <2>1. PICK R : R = [token : Token, hidden : HiddenState, history : Seq(Token)]
    OBVIOUS
  <2>2. n \in Nat /\ o \in [1..n -> R]
    BY <1>7, <1>12, <2>1, LenProperties
  <2>3. PICK S : S = R \cup {e}
    OBVIOUS
  <2>4. o \in [1..n -> S] /\ e \in S
    BY ONLY <2>2, <2>3
  <2>5. o \in Seq(S)
    BY <2>2, <2>4, SeqDef
  <2> QED
    BY <1>12, <1>13, <2>2, <2>4, <2>5, AppendProperties
<1>15. \A i \in 1..n : o[i].token # Eos
  BY <1>5, <1>6, <1>9, <1>12 DEF SpeculationInv
<1>16. pc' = "accept" => e.token # Eos
  BY <1>4, <1>6, <1>9 DEF Sampled, SpeculationInv
<1>17. ASSUME NEW i \in 1..(n + 1), i < n + 1 \/ pc' = "accept"
       PROVE  p[i].token # Eos
  <2>1. CASE i = n + 1
    BY <1>14, <1>16, <1>17, <2>1
  <2>2. CASE i # n + 1
    <3>1. i \in 1..n
      BY <1>14, <2>2
    <3> QED
      BY <1>14, <1>15, <3>1
  <2> QED
    BY <2>1, <2>2
<1>18. SpeculationInv'
  <2>1. call'.maxOut = limit' - Len(tokens') /\ call'.stop = <<Eos>>
        /\ Len(call'.inputs) <= call'.maxOut
    BY <1>1, <1>3, <1>8, <1>9 DEF SpeculationInv
  <2>2. out' = p /\ Len(p) = n + 1
    BY <1>6, <1>13, <1>14
  <2>3. \A i \in 1..Len(out') : i < Len(out') \/ pc' = "accept" => out'[i].token # Eos
    BY <1>17, <2>2
  <2> QED
    BY <2>1, <2>3 DEF SpeculationInv
<1> QED
  BY <1>3, <1>6, <1>7, <1>8, <1>9, <1>11, <1>18, StillRunning

(* The steps that take no token, and return none. *)
LEMMA InnerRuns ==
    ASSUME EngineInv, ServerInv, at = "receive", UNCHANGED serverVars,
           \/ RunChunk \/ RunDecode \/ Verify
           \/ RewindLength \/ RestorePrefix \/ RestoreCheckpoint \/ Replay
    PROVE  ServerInv'
<1>1. UNCHANGED <<cached, at, full, delta, limit, tokens, response>>
  BY DEF serverVars, requestVars
<1>2. /\ pc # "idle" /\ pc' # "idle" /\ history' = history /\ out' = out
      /\ pc' = "accept" => pc = "draft"
  BY DEF RunChunk, RunDecode, Verify, RewindLength, RestorePrefix, RestoreCheckpoint,
         Replay, RunTarget
<1>3. call \in Calls
  BY DEF EngineInv, Types
<1>4. /\ call'.op = call.op /\ call'.start = call.start /\ call'.inputs = call.inputs
      /\ call'.maxOut = call.maxOut /\ call'.stop = call.stop
      /\ call.inputs \in Seq(Token)
  BY <1>3 DEF RunChunk, RunDecode, Verify, RewindLength, RestorePrefix, RestoreCheckpoint,
         Replay, RunTarget, Calls
<1>5. UNCHANGED <<Text, Reply>>
  BY <1>2, <1>4, InsideACall
<1>6. ASSUME call.op = "speculate"
      PROVE  SpeculationInv'
  <2>1. SpeculationInv
    BY <1>2, <1>6 DEF ServerInv, CallInv
  <2>2. pc = "draft" => Len(out) = 0
    BY <1>2, <1>6 DEF EngineInv, BusyInv, VerifyInv
  <2>3. \A i \in 1..Len(out') : i < Len(out') \/ pc' = "accept" => out'[i].token # Eos
    BY <1>2, <2>1, <2>2 DEF SpeculationInv
  <2> QED
    BY <1>1, <1>4, <2>1, <2>3 DEF SpeculationInv
<1> QED
  BY <1>2, <1>4, <1>5, <1>6, StillRunning

LEMMA EngineRunsStep ==
    ASSUME EngineInv, ServerInv, EngineRuns
    PROVE  [Next]_engineVars /\ ServerInv'
<1>1. UNCHANGED serverVars /\ (EngineStep \/ Fault) /\ Next
  BY DEF EngineRuns, Next
<1>2. pc # "idle"
  BY <1>1 DEF EngineStep, Fault, RunChunk, RunDecode, Sync, Commit, Draft, Verify, Accept,
              RewindLength, RestorePrefix, RestoreCheckpoint, Replay
<1>3. at = "receive"
  BY <1>2 DEF ServerInv, RestInv
<1>4. CASE Fault
  <2>1. pc' = "idle" /\ result' = "fault"
    BY <1>4 DEF Fault, Return
  <2>2. ReplyInv'
    BY <2>1 DEF ReplyInv
  <2> QED
    BY <1>1, <1>2, <1>3, <2>1, <2>2, CallReturned
<1>5. CASE EngineStep
  <2>1. CASE \/ RunChunk \/ RunDecode \/ Verify
             \/ RewindLength \/ RestorePrefix \/ RestoreCheckpoint \/ Replay
    BY <1>1, <1>3, <2>1, InnerRuns
  <2>2. CASE Sync
    BY <1>1, <1>3, <2>2, SyncRuns
  <2>3. ASSUME NEW token \in Token, Commit(token) \/ Draft(token)
        PROVE  ServerInv'
    BY <1>1, <1>3, <2>3, CommitRuns, DraftRuns
  <2>4. ASSUME NEW token \in Token, NEW agrees \in BOOLEAN, Accept(token, agrees)
        PROVE  ServerInv'
    BY <1>1, <1>3, <2>4, AcceptRuns
  <2>5. ServerInv'
    BY <1>5, <2>1, <2>2, <2>3, <2>4 DEF EngineStep
  <2> QED
    BY <1>1, <2>5
<1> QED
  BY <1>1, <1>4, <1>5

-----------------------------------------------------------------------------
(* What a call returns is received, and the request is answered. *)

(* The engine has already stopped at the limit and at the end of the text:   *)
(* the server takes all that it returns.                                     *)
LEMMA AllTaken ==
    ASSUME NEW reply \in Seq(Token), reply # <<>>,
           NEW t \in Nat, t = Len(tokens), limit \in Nat, t + Len(reply) <= limit,
           \A i \in 1..(Len(reply) - 1) : reply[i] # Eos
    PROVE  Taken(reply) = reply
<1>1. PICK n : n = Len(reply)
  OBVIOUS
<1>2. n \in Nat \ {0}
  BY <1>1, EmptySeq
<1>3. PICK ends : ends = {i \in 1..n : reply[i] = Eos \/ t + i >= limit}
  OBVIOUS
<1>4. ends = {} \/ ends = {n}
  <2>1. ASSUME NEW i \in 1..n, i # n
        PROVE  i \notin ends
    <3>1. i \in 1..(n - 1) /\ t + i < limit
      BY <1>1, <1>2, <2>1
    <3> QED
      BY <1>1, <1>3, <3>1
  <2>2. ends \subseteq 1..n
    BY <1>3
  <2> QED
    BY <2>1, <2>2
<1>5. CASE ends = {}
  BY <1>1, <1>3, <1>5 DEF Taken
<1>6. CASE ends = {n}
  <2>1. PICK k : k = CHOOSE i \in ends : \A j \in ends : i <= j
    OBVIOUS
  <2>2. n \in ends /\ \A j \in ends : n <= j
    BY <1>2, <1>6
  <2>3. k \in ends
    BY <2>1, <2>2
  <2>4. k = n
    BY <1>6, <2>3
  <2>5. Taken(reply) = First(reply, k)
    BY <1>1, <1>3, <1>6, <2>1 DEF Taken
  <2> QED
    BY <1>1, <2>4, <2>5, PrefixWhole
<1> QED
  BY <1>4, <1>5, <1>6

(* A reply r of m tokens to what was said, s: history h holds s and all of   *)
(* the reply but its last token, and given that much each of them was chosen.*)
ReplyGoesOn(r, m, b, h, s) ==
    /\ r \in Seq(Token) /\ Len(r) = m /\ m \in Nat \ {0} /\ b \in Nat
    /\ s \in Seq(Token) /\ Len(s) = b + 1
    /\ h \in Seq(Token) /\ Len(h) = b + m /\ First(h, b + 1) = s
    /\ Len(tokens) + m <= limit
    /\ \A i \in 1..m : out[i].history = First(h, b + i) /\ r[i] = out[i].token
    /\ \A i \in 1..(m - 1) : r[i] = h[b + i + 1] /\ r[i] # Eos

LEMMA Replied ==
    ASSUME EngineInv, ServerInv, at = "receive", pc = "idle", result = "ok",
           NEW r, r = [i \in DOMAIN out |-> out[i].token],
           NEW m, m = Len(out), NEW b, b = Base, NEW h, h = history, NEW s, s = Said
    PROVE  ReplyGoesOn(r, m, b, h, s)
<1>1. PICK o : o = out
  OBVIOUS
<1>2. o \in Seq([token : Token, hidden : HiddenState, history : Seq(Token)])
  BY <1>1 DEF EngineInv, Types, TypeOK
<1>3. /\ m \in 1..(limit - Len(tokens))
      /\ Len(h) = b + m /\ First(h, b + 1) = s
      /\ \A i \in 1..m : o[i].history = First(h, b + i)
      /\ \A i \in 1..(m - 1) : o[i].token = h[b + i + 1] /\ o[i].token # Eos
  BY <1>1 DEF ServerInv, ReplyInv
<1>4. /\ full \in Seq(Token) /\ tokens \in Seq(Token) /\ limit \in 0..NCtx /\ NCtx \in Nat
      /\ full # <<>>
  BY EngineAssumption, ConcatSimplifications!concIsEmpty
     DEF ServerInv, ServerTypes, RequestInv
<1>5. Len(full) \in Nat \ {0} /\ Len(tokens) \in Nat
  BY <1>4, EmptySeq, LenProperties
<1>6. /\ m \in Nat \ {0} /\ b \in Nat /\ s \in Seq(Token) /\ Len(s) = b + 1
      /\ Len(tokens) + m <= limit
  <2>1. s \in Seq(Token) /\ Len(s) = Len(full) + Len(tokens)
    BY <1>4, ConcatProperties DEF Said
  <2>2. b = Len(full) + Len(tokens) - 1
    BY DEF Base
  <2>3. PICK t : t = Len(tokens)
    OBVIOUS
  <2>4. t \in Nat /\ limit \in Nat /\ m \in 1..(limit - t)
    BY <1>3, <1>4, <1>5, <2>3
  <2>5. m \in Nat \ {0} /\ t + m <= limit
    BY <2>4
  <2> QED
    BY <1>5, <2>1, <2>2, <2>3, <2>5
<1>7. h \in Seq(Token)
  BY DEF EngineInv, Types, TypeOK
<1>8. DOMAIN o = 1..m /\ m = Len(o)
  BY <1>1, <1>2, LenProperties
<1>9. /\ r = [i \in 1..m |-> o[i].token]
      /\ \A i \in 1..m : r[i] = o[i].token /\ r[i] \in Token
  <2>1. \A i \in 1..m : o[i] \in [token : Token, hidden : HiddenState, history : Seq(Token)]
    BY <1>2, <1>8, ElementOfSeq
  <2>2. r = [i \in 1..m |-> o[i].token]
    BY <1>1, <1>8
  <2> QED
    BY <2>1, <2>2
<1>10. r \in Seq(Token) /\ Len(r) = m
  <2>1. r \in [1..m -> Token]
    BY <1>9
  <2>2. r \in Seq(Token)
    BY <1>6, <2>1, SeqDef
  <2> QED
    BY <1>6, <2>1, <2>2, LenProperties
<1>11. \A i \in 1..(m - 1) : i \in 1..m
  BY <1>6
<1>12. \A i \in 1..m : out[i].history = First(h, b + i) /\ r[i] = out[i].token
  BY <1>1, <1>3, <1>9
<1>13. \A i \in 1..(m - 1) : r[i] = h[b + i + 1] /\ r[i] # Eos
  BY <1>3, <1>9, <1>11
<1> QED
  BY <1>3, <1>6, <1>7, <1>10, <1>12, <1>13 DEF ReplyGoesOn

(* Tokens of a reply but the last are in the history behind what was said. *)
GoesOn(h, b, s, n, q) ==
    /\ h \in Seq(Token) /\ s \in Seq(Token) /\ q \in Seq(Token)
    /\ b \in Nat /\ Len(s) = b + 1 /\ n \in Nat /\ Len(q) = n
    /\ b + 1 + n <= Len(h) /\ First(h, b + 1) = s
    /\ \A i \in 1..n : q[i] = h[b + i + 1]

LEMMA HistoryGoesOn ==
    ASSUME NEW h, NEW b, NEW s, NEW n, NEW q, GoesOn(h, b, s, n, q)
    PROVE  First(h, b + 1 + n) = s \o q
<1>1. PICK l : l = First(h, b + 1 + n)
  OBVIOUS
<1>2. PICK r : r = s \o q
  OBVIOUS
<1>3. PICK a : a = b + 1
  OBVIOUS
<1>4. a \in Nat /\ a + n = b + 1 + n /\ a + n \in 0..Len(h) /\ a \in 0..Len(h)
      /\ Len(h) \in Nat /\ n \in Nat /\ b \in Nat
  BY <1>3, LenProperties DEF GoesOn
<1>5. l \in Seq(Token) /\ Len(l) = a + n /\ \A i \in 1..(a + n) : l[i] = h[i]
  BY <1>1, <1>4, Prefix DEF GoesOn
<1>6. \A i \in 1..a : s[i] = h[i]
  BY <1>3, <1>4, Prefix DEF GoesOn
<1>7. /\ r \in Seq(Token) /\ Len(r) = a + n
      /\ \A i \in 1..a : r[i] = s[i]
      /\ \A i \in 1..n : r[a + i] = q[i]
  <2>1. /\ r \in Seq(Token) /\ Len(r) = Len(s) + Len(q)
        /\ \A i \in 1..Len(s) : r[i] = s[i]
        /\ \A i \in 1..Len(q) : r[Len(s) + i] = q[i]
    <3>1. s \in Seq(Token) /\ q \in Seq(Token)
      BY DEF GoesOn
    <3> QED
      BY ONLY <1>2, <3>1, Join
  <2> QED
    BY <1>3, <2>1 DEF GoesOn
<1>8. \A i \in 1..a : l[i] = r[i]
  <2>1. \A i \in 1..a : i \in 1..(a + n)
    BY <1>4
  <2> QED
    BY <1>5, <1>6, <1>7, <2>1
<1>9. ASSUME NEW i \in 1..n
      PROVE  l[a + i] = r[a + i]
  <2>1. a + i \in 1..(a + n) /\ a + i = b + i + 1
    BY <1>3, <1>4 DEF GoesOn
  <2> QED
    BY <1>5, <1>7, <2>1 DEF GoesOn
<1>10. l = r
  <2>1. /\ l \in Seq(Token) /\ r \in Seq(Token) /\ a \in Nat /\ n \in Nat
        /\ Len(l) = a + n /\ Len(r) = a + n
    BY <1>4, <1>5, <1>7
  <2> QED
    BY ONLY <1>8, <1>9, <2>1, SameJoin
<1> QED
  BY <1>1, <1>2, <1>10

LEMMA ReceiveStep ==
    ASSUME EngineInv, ServerInv, Receive
    PROVE  [Next]_engineVars /\ ServerInv'
<1>1. PICK r : r = [i \in DOMAIN out |-> out[i].token]
  OBVIOUS
<1>2. PICK m : m = Len(out)
  OBVIOUS
<1>3. PICK b : b = Base
  OBVIOUS
<1>4. PICK h : h = history
  OBVIOUS
<1>5. PICK s : s = Said
  OBVIOUS
<1>6. /\ at = "receive" /\ pc = "idle" /\ result = "ok"
      /\ tokens' = tokens \o Taken(r)
      /\ at' = IF tokens'[Len(tokens')] = Eos THEN "finish" ELSE "decode"
      /\ UNCHANGED <<engineVars, cached, full, delta, limit, response>>
  BY <1>1 DEF Receive
<1>7. ReplyGoesOn(r, m, b, h, s)
  BY <1>1, <1>2, <1>3, <1>4, <1>5, <1>6, Replied
<1>8. /\ r \in Seq(Token) /\ Len(r) = m /\ m \in Nat \ {0} /\ b \in Nat
      /\ s \in Seq(Token) /\ Len(s) = b + 1
      /\ h \in Seq(Token) /\ Len(h) = b + m /\ First(h, b + 1) = s
      /\ Len(tokens) + m <= limit
      /\ \A i \in 1..(m - 1) : r[i] = h[b + i + 1] /\ r[i] # Eos
  BY <1>7 DEF ReplyGoesOn
<1>9. PICK u : u = tokens
  OBVIOUS
<1>10. /\ u \in Seq(Token) /\ Len(u) \in Nat /\ full \in Seq(Token) /\ limit \in Nat
       /\ s = full \o u
  BY <1>5, <1>9, EngineAssumption, LenProperties DEF ServerInv, ServerTypes, Said
<1>11. Taken(r) = r
  <2>1. r # <<>>
    BY <1>8, EmptySeq
  <2> QED
    BY <1>8, <1>9, <1>10, <2>1, AllTaken
<1>12. PICK w : w = u \o r
  OBVIOUS
<1>13. tokens' = w /\ w \in Seq(Token) /\ Len(w) = Len(u) + m /\ w # <<>>
  <2>1. w \in Seq(Token) /\ Len(w) = Len(u) + m
    BY <1>8, <1>10, <1>12, ConcatProperties
  <2>2. Len(w) # 0
    BY <1>8, <1>10, <2>1
  <2> QED
    BY <1>6, <1>9, <1>11, <1>12, <2>1, <2>2
<1>14. h = full \o AllButLast(w)
  <2>1. PICK n : n = m - 1
    OBVIOUS
  <2>2. PICK q : q = First(r, n)
    OBVIOUS
  <2>3. n \in Nat /\ n \in 0..Len(r) /\ b + 1 + n = b + m
    BY <1>8, <2>1
  <2>4. q \in Seq(Token) /\ Len(q) = n /\ \A i \in 1..n : q[i] = r[i]
    <3>1. r \in Seq(Token) /\ n \in 0..Len(r)
      BY <1>8, <2>3
    <3> QED
      BY ONLY <2>2, <3>1, Prefix
  <2>5. First(h, b + 1 + n) = s \o q
    <3>1. \A i \in 1..n : q[i] = h[b + i + 1]
      BY <1>8, <2>1, <2>4
    <3>2. b + 1 + n <= Len(h)
      BY <1>8, <2>3
    <3>3. /\ h \in Seq(Token) /\ s \in Seq(Token) /\ q \in Seq(Token)
          /\ b \in Nat /\ Len(s) = b + 1 /\ n \in Nat /\ Len(q) = n
          /\ First(h, b + 1) = s
      BY <1>8, <2>3, <2>4
    <3>4. GoesOn(h, b, s, n, q)
      BY <3>1, <3>2, <3>3 DEF GoesOn
    <3> QED
      BY <3>4, HistoryGoesOn
  <2>6. h = s \o q
    BY <1>8, <2>3, <2>5, PrefixWhole
  <2>7. AllButLast(w) = u \o q
    <3>1. Len(w) - 1 = Len(u) + n
      BY <1>8, <1>10, <1>13, <2>1
    <3>2. First(u \o r, Len(u) + n) = u \o First(r, n)
      <4>1. u \in Seq(Token) /\ r \in Seq(Token) /\ n \in 0..Len(r)
        BY <1>8, <1>10, <2>3
      <4> QED
        BY ONLY <4>1, PrefixPastJoin
    <3> QED
      BY <1>12, <2>2, <3>1, <3>2 DEF AllButLast
  <2>8. (full \o u) \o q = full \o (u \o q)
    <3>1. full \in Seq(Token) /\ u \in Seq(Token) /\ q \in Seq(Token)
      BY <1>10, <2>4
    <3> QED
      BY ONLY <3>1, ConcatAssociative
  <2> QED
    BY <1>10, <2>6, <2>7, <2>8
<1>15. UNCHANGED <<pc, result, history, cached, full, delta, limit, response>>
  BY <1>6 DEF engineVars, textVars, callVars
<1>16. at' \in {"finish", "decode"}
  BY <1>6
<1>17. Len(w) <= limit
  BY <1>8, <1>9, <1>13
<1>18. ServerTypes'
  BY <1>13, <1>15, <1>16, <1>17 DEF ServerInv, ServerTypes
<1>19. RequestInv'
  BY <1>6, <1>15 DEF ServerInv, RequestInv
<1>20. RestInv'
  BY <1>4, <1>6, <1>13, <1>14, <1>15, <1>16 DEF RestInv
<1>21. CallInv' /\ ReplyInv'
  BY <1>16 DEF CallInv, ReplyInv
<1> QED
  BY <1>6, <1>18, <1>19, <1>20, <1>21 DEF ServerInv

LEMMA FailStep ==
    ASSUME EngineInv, ServerInv, Fail
    PROVE  [Next]_engineVars /\ ServerInv'
<1>1. Next /\ pc' = "idle" /\ result' = "ok" /\ history' = <<>>
  BY Fresh DEF Fail
<1>2. cached' = <<>> /\ Answer(result) /\ result \in {"context", "fault"}
  BY DEF Fail, ServerInv, ReplyInv
<1>3. <<>> \in Seq(Token) /\ Len(<<>>) <= NCtx
  BY EmptySeq, EngineAssumption
<1> QED
  BY <1>1, <1>2, <1>3, Answered

(* The text the server accounts for is the text the engine holds. *)
LEMMA ConsumedIs ==
    ASSUME EngineInv, ServerInv, at \in {"decode", "finish"}
    PROVE  /\ Consumed = history /\ Len(Consumed) = past /\ pc = "idle" /\ result = "ok"
           /\ history \in Seq(Token) /\ Len(history) <= NCtx
<1>1. /\ pc = "idle" /\ result = "ok" /\ Healthy
      /\ full = cached \o delta /\ history = full \o AllButLast(tokens)
  BY DEF ServerInv, RequestInv, RestInv, Healthy
<1>2. history \in Seq(Token) /\ past = Len(history) /\ past \in 0..NCtx /\ NCtx \in Nat
  BY <1>1, Held
<1> QED
  BY <1>1, <1>2 DEF Consumed

LEMMA FinishStep ==
    ASSUME EngineInv, ServerInv, Finish
    PROVE  [Next]_engineVars /\ ServerInv'
<1>1. at \in {"decode", "finish"}
  BY DEF Finish
<1>2. /\ Consumed = history /\ Len(Consumed) = past /\ pc = "idle" /\ result = "ok"
      /\ history \in Seq(Token) /\ Len(history) <= NCtx
  BY <1>1, ConsumedIs
<1>3. UNCHANGED engineVars /\ cached' = history
  BY <1>2 DEF Finish
<1>4. UNCHANGED <<pc, result, history>>
  BY <1>3 DEF engineVars, textVars, callVars
<1>5. PICK how \in {"stop", "length"} : Answer(how)
  BY DEF Finish
<1> QED
  BY <1>2, <1>3, <1>4, <1>5, Answered

LEMMA ServerNextStep ==
    ASSUME EngineInv, ServerInv, [ServerNext]_vars
    PROVE  [Next]_engineVars /\ EngineInv' /\ ServerInv'
<1>1. [Next]_engineVars /\ ServerInv'
  <2>1. CASE UNCHANGED vars
    BY <2>1, ServerStutters DEF vars
  <2>2. ASSUME NEW prompt \in Requests, Request(prompt)
        PROVE  [Next]_engineVars /\ ServerInv'
    BY <2>2, RequestStep
  <2>3. CASE ServerStep
    <3>1. ASSUME NEW maxTokens \in Limits, Admit(maxTokens)
          PROVE  [Next]_engineVars /\ ServerInv'
      BY <3>1, AdmitStep
    <3>2. CASE Reject \/ StartPrefill \/ Continue
      BY <3>2, RejectStep, StartPrefillStep, ContinueStep
    <3>3. CASE Receive \/ Fail \/ Finish
      BY <3>3, ReceiveStep, FailStep, FinishStep
    <3> QED
      BY <2>3, <3>1, <3>2, <3>3 DEF ServerStep
  <2>4. CASE EngineRuns
    BY <2>4, EngineRunsStep
  <2> QED
    BY <2>1, <2>2, <2>3, <2>4 DEF ServerNext
<1>2. EngineInv'
  BY <1>1, NextStep
<1> QED
  BY <1>1, <1>2

-----------------------------------------------------------------------------
(* The invariant holds in every state of every run of the server. *)
THEOREM ServerInvHolds == ServerSpec => [](EngineInv /\ ServerInv)
<1>1. EngineInv /\ ServerInv /\ [ServerNext]_vars => (EngineInv /\ ServerInv)'
  BY ServerNextStep
<1> QED
  BY <1>1, ServerInitially, PTL DEF ServerSpec

(* The cached text fits the context, and a reply never grows past the limit  *)
(* the request was admitted with (max_tokens, clamped to the free context).  *)
THEOREM ServerTypeCorrect == ServerSpec => []ServerTypeOK
<1>1. ServerInv => ServerTypeOK
  BY DEF ServerInv, ServerTypes, ServerTypeOK
<1> QED
  BY <1>1, ServerInvHolds, PTL

(* Between requests cached_tokens is the text the KV cache, the recurrent    *)
(* state and the sampler history hold, whatever was reused, cut short or     *)
(* failed before, and the length check after a reply never has to discard    *)
(* a valid text.                                                             *)
THEOREM CacheFollowsEngine == ServerSpec => []CacheIsEngineText
<1>1. ASSUME EngineInv, ServerInv
      PROVE  CacheIsEngineText
  <2>1. ASSUME at = "idle"
        PROVE  /\ Settled /\ cached = history /\ cached = First(kv, kvLen)
               /\ rec = Absorb(<<>>, cached)
    <3>1. pc = "idle" /\ result = "ok" /\ cached = history /\ Healthy
      BY <1>1, <2>1 DEF ServerInv, RestInv, Healthy
    <3>2. kvLen = Len(history) /\ CachesHold(history)
      BY <1>1, <3>1 DEF EngineInv, IdleInv
    <3> QED
      BY <3>1, <3>2 DEF Settled, CachesHold
  <2>2. ASSUME at = "finish" \/ (at = "decode" /\ Len(tokens) >= limit)
        PROVE  Len(Consumed) = past
    BY <1>1, <2>2, ConsumedIs
  <2> QED
    BY <2>1, <2>2 DEF CacheIsEngineText
<1> QED
  BY <1>1, ServerInvHolds, PTL

(* A reused prefix is invisible: every token of a reply was sampled given    *)
(* the whole rendered prompt and the reply so far, and nothing else.         *)
THEOREM ReplyGivenWholePrompt == ServerSpec => []ReplyContinuesPrompt
<1>1. ASSUME EngineInv, ServerInv
      PROVE  ReplyContinuesPrompt
  <2>1. SUFFICES ASSUME at = "receive", pc = "idle", result = "ok", NEW i \in DOMAIN out
                 PROVE  out[i].history = Said \o [j \in 1..(i - 1) |-> out[j].token]
    BY DEF ReplyContinuesPrompt, Said
  <2>2. PICK r : r = [j \in DOMAIN out |-> out[j].token]
    OBVIOUS
  <2>3. PICK m : m = Len(out)
    OBVIOUS
  <2>4. PICK b : b = Base
    OBVIOUS
  <2>5. PICK h : h = history
    OBVIOUS
  <2>6. PICK s : s = Said
    OBVIOUS
  <2>7. ReplyGoesOn(r, m, b, h, s)
    BY <1>1, <2>1, <2>2, <2>3, <2>4, <2>5, <2>6, Replied
  <2>8. i \in 1..m /\ m \in Nat \ {0} /\ r \in Seq(Token) /\ Len(r) = m /\ b \in Nat
    <3>1. out \in Seq([token : Token, hidden : HiddenState, history : Seq(Token)])
      BY <1>1 DEF EngineInv, Types, TypeOK
    <3>2. DOMAIN out = 1..m
      BY <2>3, <3>1, LenProperties
    <3> QED
      BY <2>7, <3>2 DEF ReplyGoesOn
  <2>9. PICK n : n = i - 1
    OBVIOUS
  <2>10. n \in Nat /\ n \in 0..Len(r) /\ n + 1 = i /\ n + 1 <= m /\ b + 1 + n = b + i
    BY <2>8, <2>9
  <2>11. PICK q : q = First(r, n)
    OBVIOUS
  <2>12. q \in Seq(Token) /\ Len(q) = n /\ \A j \in 1..n : q[j] = r[j]
    <3>1. r \in Seq(Token) /\ n \in 0..Len(r)
      BY <2>8, <2>10
    <3> QED
      BY ONLY <2>11, <3>1, Prefix
  <2>13. \A j \in 1..n : j \in 1..m /\ j \in 1..(m - 1)
    BY <2>8, <2>10
  <2>14. GoesOn(h, b, s, n, q)
    <3>1. \A j \in 1..n : q[j] = h[b + j + 1]
      BY <2>7, <2>12, <2>13 DEF ReplyGoesOn
    <3>2. /\ h \in Seq(Token) /\ s \in Seq(Token) /\ Len(s) = b + 1
          /\ First(h, b + 1) = s /\ Len(h) = b + m
      BY <2>7 DEF ReplyGoesOn
    <3>3. b + 1 + n <= Len(h)
      BY <2>8, <2>10, <3>2
    <3> QED
      BY <2>8, <2>10, <2>12, <3>1, <3>2, <3>3 DEF GoesOn
  <2>15. First(h, b + i) = s \o q
    BY <2>10, <2>14, HistoryGoesOn
  <2>16. q = [j \in 1..(i - 1) |-> out[j].token]
    <3>1. q = [j \in 1..n |-> q[j]]
      BY <2>12, LenProperties
    <3>2. \A j \in 1..n : q[j] = out[j].token
      BY <2>7, <2>12, <2>13 DEF ReplyGoesOn
    <3> QED
      BY <2>9, <3>1, <3>2
  <2>17. out[i].history = First(h, b + i)
    BY <2>7, <2>8 DEF ReplyGoesOn
  <2> QED
    BY <2>6, <2>15, <2>16, <2>17
<1> QED
  BY <1>1, ServerInvHolds, PTL

(* The server is one of the callers the engine is made for: it feeds only    *)
(* text that fits, keeps to the engine's order of calls, and never calls an  *)
(* engine whose last call failed before it has reset it.                     *)
THEOREM ServerDrivesEngine == ServerSpec => EngineSpec
<1>1. ServerInit => Init
  BY DEF ServerInit
<1> QED
  BY <1>1, ServerNextStep, ServerInvHolds, PTL DEF ServerSpec, EngineSpec

(* Hence what the server's users see is plain generation: reusing a prefix,  *)
(* drafting and replaying are refinements of feeding a text and sampling.    *)
THEOREM ServerImplementsPlain == ServerSpec => ImplementsPlain
BY ServerDrivesEngine, EngineImplementsPlain DEF EngineSpec, Spec

=============================================================================
