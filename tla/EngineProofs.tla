---------------------------- MODULE EngineProofs ----------------------------
(***************************************************************************)
(* Proofs about Engine: for every vocabulary, context length, chunk limit, *)
(* number of drafts and model, with and without recurrent states, the      *)
(* caches, the recurrent state, the draft head and the sampler history     *)
(* tell one text, every token is sampled from it, and prefill, decoding    *)
(* and speculation implement plain generation.                             *)
(*                                                                         *)
(* The inductive invariant says of every step of a call how much of the    *)
(* text of the call each of these pieces of state has taken in.            *)
(***************************************************************************)
EXTENDS Engine, SequenceTheorems, TLAPS

-----------------------------------------------------------------------------
(* The inductive invariant. *)

Ops == {"none", "prefill", "decode", "speculate"}

Calls == [op : Ops, start : Nat, inputs : Seq(Token), hidden : Seq(HiddenState),
          kept : Nat, saved : Seq(Seq(Token)), maxOut : Nat, stop : Seq(Token)]

Types ==
    /\ TypeOK
    /\ recurrent \in BOOLEAN /\ mtpDraftTokens \in Nat
    /\ call \in Calls

(* The text the call in progress is about: what was there, and its inputs. *)
CallText == First(history, call.start) \o call.inputs

(* The KV cache and the recurrent state have taken in exactly text t. *)
CachesHold(t) ==
    /\ Len(t) <= Len(kv) /\ First(kv, Len(t)) = t
    /\ rec = Absorb(<<>>, t)

(* These hidden states are those of text t from position p on. *)
StatesOf(states, t, p) ==
    \A i \in 1..Len(states) : states[i] = HiddenOf(First(t, p + i))

HiddenFrom(t, p) == StatesOf(call.hidden, t, p)

(* The first n entries of the draft head's cache are those of text t. *)
EntriesOf(t, n) ==
    \A j \in 1..n : mtp[j] = [token |-> t[j + 1], hidden |-> HiddenOf(First(t, j))]

PendingAfter(t) ==
    IF t = <<>> THEN pending \in {NoHidden, Zeros} ELSE pending = HiddenOf(t)

DraftHeadFollows(t) ==
    HasMtp => /\ mtpPast = ExpectedMtpLen(Len(t))
              /\ EntriesOf(t, mtpPast)
              /\ PendingAfter(t)

(* Between calls. *)
IdleInv ==
    pc = "idle" =>
        /\ call = NoCall /\ result # "busy"
        /\ Healthy => /\ past = Len(history) /\ kvLen = past
                      /\ CachesHold(history) /\ DraftHeadFollows(history)
        /\ result = "desync" => history = <<>>

(* What every call in progress keeps. *)
BusyInv ==
    pc # "idle" =>
        /\ result = "busy" /\ kvLen = past
        /\ call.start <= Len(history)
        /\ call.inputs # <<>> /\ call.start + Len(call.inputs) <= NCtx
        /\ call.op # "none"
        /\ call.op # "speculate" => pc \in {"run", "sync", "commit"} /\ out = <<>>
        /\ call.op = "prefill" => history = CallText
        /\ call.op = "decode" =>
               Len(history) = call.start /\ Len(call.inputs) = 1 /\ past = call.start
        /\ call.op = "speculate" =>
               /\ HasMtp /\ pc \in {"draft", "accept", "rewind", "replay", "sync"}
               /\ call.kept <= Len(call.inputs)
               /\ history = First(CallText, call.start + call.kept)
               /\ Len(out) = call.kept
               /\ \A i \in 1..call.kept : out[i].history = First(CallText, call.start + i)
               /\ \A i \in 1..(call.kept - 1) : out[i].token = call.inputs[i + 1]

(* A prefill or a decode before and after its graph run. *)
RunInv ==
    pc = "run" =>
        /\ call.start <= past /\ past < call.start + Len(call.inputs)
        /\ CachesHold(First(CallText, past))
        /\ DraftHeadFollows(First(CallText, past))

SyncInv ==
    pc \in {"sync", "commit"} =>
        LET n == Len(call.hidden) IN
        /\ call.start <= Position
        /\ 1 <= n /\ Position + n <= call.start + Len(call.inputs)
        /\ CachesHold(First(CallText, Position + n))
        /\ HiddenFrom(CallText, Position)
        /\ call.op = "speculate" =>
               n = call.kept /\ past = call.start + n
        /\ call.op # "speculate" =>
               DraftHeadFollows(First(CallText, IF pc = "sync" THEN past ELSE past + n))

(* A speculative call: the drafts, their verification, and the way back. *)
DraftsInv ==
    pc # "idle" /\ call.op = "speculate" =>
        LET t == First(CallText, call.start)
            b == ExpectedMtpLen(call.start) IN
        /\ mtpPast = b + Len(call.inputs) - 1
        /\ EntriesOf(t, b) /\ PendingAfter(t) /\ pending # NoHidden
        /\ Len(call.inputs) > 1 =>
               mtp[b + 1] = [token |-> call.inputs[1], hidden |-> pending]

VerifyInv ==
    /\ pc = "draft" => /\ past = call.start /\ call.kept = 0
                       /\ CachesHold(First(CallText, call.start))
    /\ pc \in {"accept", "rewind"} =>
           /\ past = call.start + Len(call.inputs)
           /\ CachesHold(CallText)
           /\ Len(call.hidden) = Len(call.inputs) /\ HiddenFrom(CallText, call.start)
           /\ call.saved = IF recurrent /\ Len(call.inputs) > 1
                           THEN <<First(CallText, call.start)>> ELSE <<>>
    /\ pc = "accept" =>
           /\ call.kept < Len(call.inputs)
           /\ call.kept > 0 => out[call.kept].token = call.inputs[call.kept + 1]
    /\ pc \in {"rewind", "replay"} => call.kept >= 1
    /\ pc = "replay" => past = call.start /\ CachesHold(First(CallText, call.start))

EngineInv ==
    /\ Types /\ IdleInv /\ BusyInv /\ RunInv /\ SyncInv /\ DraftsInv /\ VerifyInv
    /\ SampledFromItsHistory

-----------------------------------------------------------------------------
(* Prefixes, joins and overwritten stretches of sequences. *)

LEMMA Prefix ==
    ASSUME NEW S, NEW s \in Seq(S), NEW n \in 0..Len(s)
    PROVE  /\ First(s, n) \in Seq(S) /\ Len(First(s, n)) = n /\ n \in Nat
           /\ \A i \in 1..n : First(s, n)[i] = s[i]
<1>1. Len(s) \in Nat /\ n \in Nat /\ n <= Len(s) /\ \A i \in 1..n : s[i] \in S
  BY LenProperties, ElementOfSeq
<1> QED
  BY <1>1, SubSeqProperties DEF First

LEMMA PrefixWhole ==
    ASSUME NEW S, NEW s \in Seq(S)
    PROVE  First(s, Len(s)) = s
BY SubSeqFull DEF First

LEMMA PrefixOfPrefix ==
    ASSUME NEW S, NEW s \in Seq(S), NEW n \in 0..Len(s), NEW m \in 0..n
    PROVE  First(First(s, n), m) = First(s, m)
<1>1. Len(s) \in Nat /\ m \in 0..Len(s) /\ m \in Nat /\ n \in Nat /\ m <= n
  BY LenProperties
<1>2. /\ First(s, n) \in Seq(S) /\ Len(First(s, n)) = n
      /\ \A i \in 1..n : First(s, n)[i] = s[i]
  BY Prefix
<1>3. /\ First(First(s, n), m) \in Seq(S) /\ Len(First(First(s, n), m)) = m
      /\ \A i \in 1..m : First(First(s, n), m)[i] = First(s, n)[i]
  BY <1>2, Prefix
<1>4. /\ First(s, m) \in Seq(S) /\ Len(First(s, m)) = m
      /\ \A i \in 1..m : First(s, m)[i] = s[i]
  BY <1>1, Prefix
<1>5. \A i \in 1..m : First(First(s, n), m)[i] = First(s, m)[i]
  BY <1>1, <1>2, <1>3, <1>4
<1> QED
  BY <1>3, <1>4, <1>5, SeqEqual

LEMMA PrefixOfJoin ==
    ASSUME NEW S, NEW s \in Seq(S), NEW t \in Seq(S), NEW n \in 0..Len(s)
    PROVE  First(s \o t, n) = First(s, n)
<1>1. Len(s) \in Nat /\ Len(t) \in Nat
  BY LenProperties
<1>2. /\ s \o t \in Seq(S) /\ Len(s \o t) = Len(s) + Len(t)
      /\ \A i \in 1..(Len(s) + Len(t)) :
             (s \o t)[i] = IF i <= Len(s) THEN s[i] ELSE t[i - Len(s)]
  BY ConcatProperties
<1>3. n \in 0..Len(s \o t)
  BY <1>1, <1>2
<1>4. /\ First(s \o t, n) \in Seq(S) /\ Len(First(s \o t, n)) = n
      /\ \A i \in 1..n : First(s \o t, n)[i] = (s \o t)[i]
  BY <1>2, <1>3, Prefix
<1>5. /\ First(s, n) \in Seq(S) /\ Len(First(s, n)) = n
      /\ \A i \in 1..n : First(s, n)[i] = s[i]
  BY Prefix
<1>6. \A i \in 1..n : First(s \o t, n)[i] = First(s, n)[i]
  BY <1>1, <1>2, <1>4, <1>5
<1> QED
  BY <1>4, <1>5, <1>6, SeqEqual

LEMMA Join ==
    ASSUME NEW S, NEW s \in Seq(S), NEW t \in Seq(S), NEW j, j = s \o t
    PROVE  /\ j \in Seq(S) /\ Len(j) = Len(s) + Len(t)
           /\ Len(s) \in Nat /\ Len(t) \in Nat /\ Len(j) \in Nat
           /\ \A i \in 1..Len(s) : j[i] = s[i]
           /\ \A i \in 1..Len(t) : j[Len(s) + i] = t[i]
<1>1. Len(s) \in Nat /\ Len(t) \in Nat
  BY LenProperties
<1>2. /\ j \in Seq(S) /\ Len(j) = Len(s) + Len(t)
      /\ \A i \in 1..(Len(s) + Len(t)) : j[i] = IF i <= Len(s) THEN s[i] ELSE t[i - Len(s)]
  BY ConcatProperties
<1>3. \A i \in 1..Len(s) : j[i] = s[i]
  BY <1>1, <1>2
<1>4. ASSUME NEW i \in 1..Len(t)
      PROVE  j[Len(s) + i] = t[i]
  <2>1. Len(s) + i \in 1..(Len(s) + Len(t)) /\ ~(Len(s) + i <= Len(s))
        /\ (Len(s) + i) - Len(s) = i
    BY <1>1
  <2> QED
    BY <2>1, <1>2
<1> QED
  BY <1>1, <1>2, <1>3, <1>4

(* Two sequences that agree on a stretch and behind it are equal. *)
LEMMA SameJoin ==
    ASSUME NEW S, NEW l \in Seq(S), NEW r \in Seq(S), NEW m \in Nat, NEW n \in Nat,
           Len(l) = m + n, Len(r) = m + n,
           \A i \in 1..m : l[i] = r[i], \A i \in 1..n : l[m + i] = r[m + i]
    PROVE  l = r
<1>1. ASSUME NEW i \in 1..(m + n)
      PROVE  l[i] = r[i]
  <2>1. CASE i <= m
    BY <2>1
  <2>2. CASE i > m
    <3>1. i - m \in 1..n /\ m + (i - m) = i
      BY <2>2
    <3> QED
      BY <3>1
  <2> QED
    BY <2>1, <2>2
<1> QED
  BY <1>1, SeqEqual

LEMMA PrefixPastJoin ==
    ASSUME NEW S, NEW s \in Seq(S), NEW t \in Seq(S), NEW n \in 0..Len(t)
    PROVE  First(s \o t, Len(s) + n) = s \o First(t, n)
<1>1. PICK j : j = s \o t
  OBVIOUS
<1>2. PICK u : u = First(t, n)
  OBVIOUS
<1>3. PICK r : r = s \o u
  OBVIOUS
<1>4. PICK l : l = First(j, Len(s) + n)
  OBVIOUS
<1>5. /\ j \in Seq(S) /\ Len(j) = Len(s) + Len(t) /\ Len(s) \in Nat /\ Len(t) \in Nat
      /\ \A i \in 1..Len(s) : j[i] = s[i]
      /\ \A i \in 1..Len(t) : j[Len(s) + i] = t[i]
  BY <1>1, Join
<1>6. u \in Seq(S) /\ Len(u) = n /\ n \in Nat /\ \A i \in 1..n : u[i] = t[i]
  BY <1>2, Prefix
<1>7. /\ r \in Seq(S) /\ Len(r) = Len(s) + n
      /\ \A i \in 1..Len(s) : r[i] = s[i]
      /\ \A i \in 1..n : r[Len(s) + i] = u[i]
  <2>1. u \in Seq(S)
    BY <1>6
  <2>2. /\ r \in Seq(S) /\ Len(r) = Len(s) + Len(u)
        /\ \A i \in 1..Len(s) : r[i] = s[i]
        /\ \A i \in 1..Len(u) : r[Len(s) + i] = u[i]
    BY <1>3, <2>1, Join
  <2> QED
    BY <1>6, <2>2
<1>8. Len(s) + n \in 0..Len(j)
  BY <1>5
<1>9. /\ l \in Seq(S) /\ Len(l) = Len(s) + n
      /\ \A i \in 1..(Len(s) + n) : l[i] = j[i]
  BY <1>4, <1>5, <1>8, Prefix
<1>10. /\ \A i \in 1..Len(s) : l[i] = r[i]
       /\ \A i \in 1..n : l[Len(s) + i] = r[Len(s) + i]
  <2>1. /\ \A i \in 1..Len(s) : i \in 1..(Len(s) + n)
        /\ \A i \in 1..n : Len(s) + i \in 1..(Len(s) + n) /\ i \in 1..Len(t)
    BY <1>5, <1>6
  <2>2. \A i \in 1..Len(s) : l[i] = r[i]
    BY <2>1, <1>5, <1>7, <1>9
  <2>3. \A i \in 1..n : l[Len(s) + i] = r[Len(s) + i]
    BY <2>1, <1>5, <1>6, <1>7, <1>9
  <2> QED
    BY <2>2, <2>3
<1>11. l = r
  BY <1>5, <1>6, <1>7, <1>9, <1>10, SameJoin
<1> QED
  BY <1>1, <1>2, <1>3, <1>4, <1>11

LEMMA PrefixGrows ==
    ASSUME NEW S, NEW s \in Seq(S), NEW p \in Nat, NEW n \in Nat, p + n <= Len(s)
    PROVE  /\ First(s, p) \o SubSeq(s, p + 1, p + n) = First(s, p + n)
           /\ SubSeq(s, p + 1, p + n) \in Seq(S) /\ Len(SubSeq(s, p + 1, p + n)) = n
           /\ \A i \in 1..n : SubSeq(s, p + 1, p + n)[i] = s[p + i]
<1>1. Len(s) \in Nat
  BY LenProperties
<1>2. SubSeq(s, 1, p) \o SubSeq(s, p + 1, p + n) = SubSeq(s, 1, p + n)
  BY <1>1, ConcatAdjacentSubSeq
<1>3. \A i \in (p + 1)..(p + n) : s[i] \in S
  BY <1>1, ElementOfSeq
<1>4. /\ SubSeq(s, p + 1, p + n) \in Seq(S)
      /\ Len(SubSeq(s, p + 1, p + n)) =
             IF p + 1 <= p + n THEN (p + n) - (p + 1) + 1 ELSE 0
      /\ \A i \in 1..((p + n) - (p + 1) + 1) :
             SubSeq(s, p + 1, p + n)[i] = s[(p + 1) + i - 1]
  BY <1>3, SubSeqProperties
<1> QED
  BY <1>1, <1>2, <1>4 DEF First

LEMMA MiddleOfJoin ==
    ASSUME NEW S, NEW s \in Seq(S), NEW t \in Seq(S), NEW m \in Nat, NEW n \in Nat,
           m + n <= Len(t)
    PROVE  SubSeq(s \o t, Len(s) + m + 1, Len(s) + m + n) = SubSeq(t, m + 1, m + n)
<1>1. PICK j : j = s \o t
  OBVIOUS
<1>2. PICK p : p = Len(s) + m
  OBVIOUS
<1>3. PICK l : l = SubSeq(j, p + 1, p + n)
  OBVIOUS
<1>4. PICK r : r = SubSeq(t, m + 1, m + n)
  OBVIOUS
<1>5. /\ j \in Seq(S) /\ Len(j) = Len(s) + Len(t) /\ Len(s) \in Nat /\ Len(t) \in Nat
      /\ \A i \in 1..Len(t) : j[Len(s) + i] = t[i]
  BY <1>1, Join
<1>6. p \in Nat /\ p + n <= Len(j)
  BY <1>2, <1>5
<1>7. l \in Seq(S) /\ Len(l) = n /\ \A i \in 1..n : l[i] = j[p + i]
  <2>1. j \in Seq(S) /\ p \in Nat /\ p + n <= Len(j)
    BY <1>5, <1>6
  <2> HIDE <1>1, <1>2
  <2> QED
    BY <2>1, <1>3, PrefixGrows
<1>8. r \in Seq(S) /\ Len(r) = n /\ \A i \in 1..n : r[i] = t[m + i]
  BY <1>4, PrefixGrows
<1>9. \A i \in 1..n : l[i] = r[i]
  <2>1. ASSUME NEW i \in 1..n
        PROVE  m + i \in 1..Len(t) /\ p + i = Len(s) + (m + i)
    BY <1>2, <1>5
  <2> QED
    BY <2>1, <1>5, <1>7, <1>8
<1>10. l = r
  BY <1>7, <1>8, <1>9, SeqEqual
<1> QED
  BY <1>1, <1>2, <1>3, <1>4, <1>10

LEMMA Overwritten ==
    ASSUME NEW S, NEW s \in Seq(S), NEW t \in Seq(S), NEW at \in 0..Len(s)
    PROVE  /\ Overwrite(s, at, t) \in Seq(S)
           /\ Len(Overwrite(s, at, t)) = Greatest(Len(s), at + Len(t))
           /\ Len(Overwrite(s, at, t)) \in Nat
           /\ First(Overwrite(s, at, t), at + Len(t)) = First(s, at) \o t
           /\ \A i \in 1..at : Overwrite(s, at, t)[i] = s[i]
           /\ \A i \in 1..Len(t) : Overwrite(s, at, t)[at + i] = t[i]
<1>0. PICK o : o = Overwrite(s, at, t)
  OBVIOUS
<1>1. PICK f : f = First(s, at)
  OBVIOUS
<1>2. PICK j : j = f \o t
  OBVIOUS
<1>3. PICK r : r = SubSeq(s, at + Len(t) + 1, Len(s))
  OBVIOUS
<1>4. o = j \o r
  BY <1>0, <1>1, <1>2, <1>3 DEF Overwrite
<1>5. f \in Seq(S) /\ Len(f) = at /\ at \in Nat /\ \A i \in 1..at : f[i] = s[i]
  BY <1>1, Prefix
<1>6. /\ j \in Seq(S) /\ Len(j) = at + Len(t) /\ Len(t) \in Nat
      /\ \A i \in 1..at : j[i] = f[i]
      /\ \A i \in 1..Len(t) : j[at + i] = t[i]
  <2>1. f \in Seq(S)
    BY <1>5
  <2>2. /\ j \in Seq(S) /\ Len(j) = Len(f) + Len(t) /\ Len(t) \in Nat
        /\ \A i \in 1..Len(f) : j[i] = f[i]
        /\ \A i \in 1..Len(t) : j[Len(f) + i] = t[i]
    BY <1>2, <2>1, Join
  <2> QED
    BY <1>5, <2>2
<1>7. Len(s) \in Nat /\ \A i \in (at + Len(t) + 1)..Len(s) : s[i] \in S
  BY <1>5, <1>6, LenProperties, ElementOfSeq
<1>8. /\ r \in Seq(S)
      /\ Len(r) = IF at + Len(t) + 1 <= Len(s) THEN Len(s) - (at + Len(t) + 1) + 1 ELSE 0
  BY <1>3, <1>5, <1>6, <1>7, SubSeqProperties
<1>9. /\ o \in Seq(S) /\ Len(o) = at + Len(t) + Len(r) /\ Len(r) \in Nat
      /\ \A i \in 1..(at + Len(t)) : o[i] = j[i]
  <2>1. j \in Seq(S) /\ r \in Seq(S)
    BY <1>6, <1>8
  <2>2. /\ o \in Seq(S) /\ Len(o) = Len(j) + Len(r) /\ Len(r) \in Nat
        /\ \A i \in 1..Len(j) : o[i] = j[i]
    BY <1>4, <2>1, Join
  <2> QED
    BY <1>6, <2>2
<1>10. Len(o) = Greatest(Len(s), at + Len(t))
  <2>1. PICK x : x = Len(o)
    OBVIOUS
  <2>2. PICK y : y = Len(r)
    OBVIOUS
  <2>3. PICK a : a = at + Len(t)
    OBVIOUS
  <2>4. PICK c : c = Len(s)
    OBVIOUS
  <2>5. a \in Nat /\ c \in Nat
    BY <1>5, <1>6, <1>7, <2>3, <2>4
  <2>6. x = a + y /\ y = IF a + 1 <= c THEN c - (a + 1) + 1 ELSE 0
    BY <1>8, <1>9, <2>1, <2>2, <2>3, <2>4, Zenon
  <2>7. x = IF c < a THEN a ELSE c
    BY <2>5, <2>6
  <2> QED
    BY <2>1, <2>3, <2>4, <2>7, Zenon DEF Greatest
<1>11. First(o, at + Len(t)) = j
  <2>1. at + Len(t) \in 0..Len(j) /\ at + Len(t) = Len(j)
    BY <1>5, <1>6
  <2>2. First(o, at + Len(t)) = First(j, at + Len(t))
    BY <1>4, <1>6, <1>8, <2>1, PrefixOfJoin
  <2> QED
    BY <2>1, <2>2, <1>6, PrefixWhole
<1>12. /\ \A i \in 1..at : o[i] = s[i]
       /\ \A i \in 1..Len(t) : o[at + i] = t[i]
  BY <1>5, <1>6, <1>9
<1>13. Len(o) \in Nat
  BY <1>5, <1>6, <1>9
<1> QED
  BY <1>0, <1>1, <1>2, <1>9, <1>10, <1>11, <1>12, <1>13

-----------------------------------------------------------------------------
(* The recurrent state, a run of the target, and a run of the draft head. *)

LEMMA Absorbed ==
    ASSUME NEW t \in Seq(Token), NEW u \in Seq(Token)
    PROVE  /\ Absorb(<<>>, t) \in Seq(Token) /\ HiddenOf(t) \in HiddenState
           /\ Absorb(Absorb(<<>>, t), u) = Absorb(<<>>, t \o u)
           /\ t \o u \in Seq(Token)
<1>1. t \o u \in Seq(Token) /\ <<>> \in Seq(Token)
  BY ConcatProperties, EmptySeq
<1>2. <<>> \o t = t /\ <<>> \o (t \o u) = t \o u
  BY <1>1, ConcatEmptySeq
<1>3. Absorb(<<>>, t) \in Seq(Token)
  BY <1>1, <1>2 DEF Absorb
<1>4. Absorb(Absorb(<<>>, t), u) = Absorb(<<>>, t \o u)
  BY <1>2 DEF Absorb
<1>5. HiddenOf(t) \in HiddenState
  BY <1>3 DEF HiddenOf, Hidden, HiddenState
<1> QED
  BY <1>1, <1>3, <1>4, <1>5

(* HiddenOf, Absorb and the draft head's presence depend on what was loaded. *)
LEMMA SameModel ==
    ASSUME UNCHANGED loaded, NEW t, NEW u
    PROVE  /\ HiddenOf(t)' = HiddenOf(t) /\ Absorb(t, u)' = Absorb(t, u)
           /\ HasMtp' = HasMtp
BY DEF loaded, HiddenOf, Hidden, Absorb, HasMtp

(* A graph run over tokens behind text t leaves t \o tokens in the caches    *)
(* and computes its hidden states, whatever stale cells lie behind t.        *)
LEMMA TargetRan ==
    ASSUME kv \in Seq(Token), NEW t \in Seq(Token), CachesHold(t),
           NEW tokens \in Seq(Token), UNCHANGED loaded,
           kv' = Overwrite(kv, Len(t), tokens), rec' = Absorb(rec, tokens),
           NEW w, w = t \o tokens
    PROVE  /\ w \in Seq(Token) /\ Len(w) = Len(t) + Len(tokens)
           /\ kv' \in Seq(Token) /\ Len(kv') = Greatest(Len(kv), Len(w))
           /\ CachesHold(w)'
           /\ HiddenStates(tokens, Len(t)) \in Seq(HiddenState)
           /\ Len(HiddenStates(tokens, Len(t))) = Len(tokens)
           /\ StatesOf(HiddenStates(tokens, Len(t)), w, Len(t))
<1>1. /\ w \in Seq(Token) /\ Len(w) = Len(t) + Len(tokens)
      /\ Len(t) \in Nat /\ Len(tokens) \in Nat /\ Len(w) \in Nat
  BY Join
<1>2. Len(kv) \in Nat /\ Len(t) \in 0..Len(kv) /\ First(kv, Len(t)) = t
  BY <1>1, LenProperties DEF CachesHold
<1>3. /\ kv' \in Seq(Token) /\ Len(kv') = Greatest(Len(kv), Len(w))
      /\ First(kv', Len(w)) = w
  <2>1. /\ kv' \in Seq(Token) /\ Len(kv') = Greatest(Len(kv), Len(t) + Len(tokens))
        /\ First(kv', Len(t) + Len(tokens)) = First(kv, Len(t)) \o tokens
    BY <1>2, Overwritten, Zenon
  <2> QED
    BY <1>1, <1>2, <2>1
<1>4. Len(w) <= Len(kv')
  BY <1>1, <1>2, <1>3 DEF Greatest
<1>5. rec' = Absorb(<<>>, w)'
  <2>1. rec' = Absorb(<<>>, w)
    BY Absorbed DEF CachesHold
  <2> QED
    BY <2>1, SameModel
<1>6. CachesHold(w)'
  BY <1>3, <1>4, <1>5 DEF CachesHold
<1>7. ASSUME NEW i \in 1..Len(tokens)
      PROVE  /\ Hidden(First(kv, Len(t)) \o First(tokens, i), Absorb(rec, First(tokens, i)))
                   = HiddenOf(First(w, Len(t) + i))
             /\ HiddenOf(First(w, Len(t) + i)) \in HiddenState
  <2>1. i \in 0..Len(tokens)
    BY <1>1
  <2>2. First(tokens, i) \in Seq(Token)
    BY <2>1, Prefix
  <2>3. First(w, Len(t) + i) = t \o First(tokens, i)
    BY <2>1, PrefixPastJoin
  <2>4. /\ t \o First(tokens, i) \in Seq(Token)
        /\ Absorb(rec, First(tokens, i)) = Absorb(<<>>, t \o First(tokens, i))
    BY <2>2, Absorbed DEF CachesHold
  <2> QED
    BY <1>2, <2>3, <2>4, Absorbed DEF HiddenOf
<1>8. /\ HiddenStates(tokens, Len(t)) \in Seq(HiddenState)
      /\ Len(HiddenStates(tokens, Len(t))) = Len(tokens)
      /\ \A i \in 1..Len(tokens) :
             HiddenStates(tokens, Len(t))[i] = HiddenOf(First(w, Len(t) + i))
  <2> DEFINE e(i) == Hidden(First(kv, Len(t)) \o First(tokens, i),
                            Absorb(rec, First(tokens, i)))
             h == [i \in 1..Len(tokens) |-> e(i)]
  <2>1. \A i \in 1..Len(tokens) : e(i) \in HiddenState
    BY <1>7
  <2> HIDE DEF e
  <2>2. h \in Seq(HiddenState)
    BY <1>1, <2>1, IsASeq
  <2>3. Len(h) = Len(tokens)
    BY <1>1, <2>2, LenProperties
  <2>4. h = HiddenStates(tokens, Len(t))
    BY DEF HiddenStates, e
  <2>5. \A i \in 1..Len(tokens) : h[i] = HiddenOf(First(w, Len(t) + i))
    BY <1>7 DEF e
  <2> QED
    BY <2>2, <2>3, <2>4, <2>5
<1>9. StatesOf(HiddenStates(tokens, Len(t)), w, Len(t))
  BY <1>8 DEF StatesOf
<1> QED
  BY <1>1, <1>3, <1>6, <1>8, <1>9

Entry == [token : Token, hidden : HiddenState]

LEMMA ShiftedIndices ==
    ASSUME NEW p \in Nat, NEW n \in Nat, NEW f \in {0, 1}, p + f >= 1, f <= n,
           NEW j \in 1..(n - f)
    PROVE  /\ f + j \in 1..n /\ p + (f + j) = p + f + j
           /\ p + f + j - 1 \in 1..(p + n) /\ p + f + j \in 1..(p + n)
           /\ f + j = 1 => f = 0 /\ p + f + j - 1 = p
           /\ f + j # 1 => f + j - 1 \in 1..n /\ p + (f + j - 1) = p + f + j - 1
<1>1. CASE f = 0
  BY <1>1
<1>2. CASE f = 1
  BY <1>2
<1> QED
  BY <1>1, <1>2

(* What sync_mtp is called with: the n tokens behind the first p of text w,  *)
(* their hidden states, and a draft head's cache right up to p and, when s   *)
(* is 1, for the entry of the first draft too.                               *)
CanSync(w, p, n, tokens, hidden, s) ==
    /\ mtp \in Seq(Entry) /\ pending \in HiddenState
    /\ w \in Seq(Token) /\ p \in Nat /\ n \in Nat \ {0} /\ Len(w) = p + n
    /\ tokens \in Seq(Token) /\ Len(tokens) = n /\ \A i \in 1..n : w[p + i] = tokens[i]
    /\ hidden \in Seq(HiddenState) /\ Len(hidden) = n
    /\ \A i \in 1..n : hidden[i] = HiddenOf(First(w, p + i))
    /\ s \in {0, 1} /\ ExpectedMtpLen(p) + s <= Len(mtp)
    /\ EntriesOf(First(w, p), ExpectedMtpLen(p))
    /\ p > 0 => pending = HiddenOf(First(w, p))
    /\ s = 1 => mtp[ExpectedMtpLen(p) + 1] = [token |-> tokens[1], hidden |-> pending]

(* It brings the cache up to the whole of w. *)
LEMMA Synced ==
    ASSUME NEW w, NEW p, NEW n, NEW tokens, NEW hidden, NEW s,
           CanSync(w, p, n, tokens, hidden, s),
           UNCHANGED loaded, SyncMtp(tokens, hidden, p, s)
    PROVE  /\ mtpPast' = p + n - 1
           /\ mtp' \in Seq(Entry) /\ Len(mtp') = Greatest(Len(mtp), p + n - 1)
           /\ \A j \in 1..(p + n - 1) :
                  mtp'[j] = [token |-> w[j + 1], hidden |-> HiddenOf(First(w, j))]
           /\ pending' = HiddenOf(w)
<1> USE DEF CanSync
<1>a. PICK f : f = FirstIndex(p, s)
  OBVIOUS
<1>b. PICK at : at = ResumePosition(p, s)
  OBVIOUS
<1>c. PICK b : b = ExpectedMtpLen(p)
  OBVIOUS
<1> DEFINE e(j) == [token |-> tokens[f + j],
                    hidden |-> IF f + j = 1 THEN pending ELSE hidden[f + j - 1]]
           entries == [j \in 1..(Len(tokens) - f) |-> e(j)]
<1>1. /\ f \in {0, 1} /\ p + f >= 1 /\ at = p + f - 1 /\ at \in Nat /\ f <= n
      /\ f = 0 => s = 0 /\ p > 0
      /\ p > 0 => f = s
      /\ b \in Nat /\ b = IF p = 0 THEN 0 ELSE p - 1
  BY <1>a, <1>b, <1>c DEF FirstIndex, ResumePosition, ExpectedMtpLen, Greatest
<1>2. at \in 0..Len(mtp)
  <2>1. Len(mtp) \in Nat /\ b + s <= Len(mtp)
    BY <1>c, LenProperties
  <2> QED
    BY <1>1, <2>1
<1>3. entries = ShiftedEntries(tokens, hidden, f)
  BY DEF ShiftedEntries
<1>4. ASSUME NEW j \in 1..(n - f)
      PROVE  /\ p + f + j - 1 \in 1..Len(w) /\ p + f + j \in 1..Len(w)
             /\ e(j) = [token |-> w[p + f + j], hidden |-> HiddenOf(First(w, p + f + j - 1))]
             /\ e(j) \in Entry
  <2>1. /\ f + j \in 1..n /\ p + (f + j) = p + f + j
        /\ p + f + j - 1 \in 1..(p + n) /\ p + f + j \in 1..(p + n)
        /\ f + j = 1 => f = 0 /\ p + f + j - 1 = p
        /\ f + j # 1 => f + j - 1 \in 1..n /\ p + (f + j - 1) = p + f + j - 1
    <3>1. n \in Nat /\ f \in {0, 1} /\ p + f >= 1 /\ f <= n
      BY <1>1
    <3> QED
      BY <3>1, ShiftedIndices
  <2>2. tokens[f + j] = w[p + f + j] /\ tokens[f + j] \in Token
    <3>1. w[p + (f + j)] = tokens[f + j] /\ f + j \in 1..Len(tokens)
      BY <2>1
    <3> QED
      BY <2>1, <3>1, ElementOfSeq
  <2>3. CASE f + j = 1
    <3>1. p > 0 /\ p + f + j - 1 = p
      BY <1>1, <2>1, <2>3, Zenon
    <3> QED
      BY <2>1, <2>2, <2>3, <3>1 DEF Entry
  <2>4. CASE f + j # 1
    <3>1. f + j - 1 \in 1..n /\ p + (f + j - 1) = p + f + j - 1
      BY <2>1, <2>4, Zenon
    <3>2. hidden[f + j - 1] = HiddenOf(First(w, p + f + j - 1))
      BY <3>1
    <3>3. hidden[f + j - 1] \in HiddenState
      BY <3>1, ElementOfSeq
    <3> QED
      BY <2>1, <2>2, <2>4, <3>2, <3>3 DEF Entry
  <2> QED
    BY <2>3, <2>4
<1> HIDE DEF e
<1>5. /\ entries \in Seq(Entry) /\ Len(entries) = n - f
      /\ \A j \in 1..(n - f) : entries[j] = e(j)
  <2>1. n - f \in Nat
    BY <1>1
  <2>3. \A j \in 1..(n - f) : e(j) \in Entry
    BY <1>4
  <2>2. entries \in Seq(Entry)
    <3>1. [j \in 1..(n - f) |-> e(j)] \in Seq(Entry)
      BY <2>1, <2>3, IsASeq
    <3> QED
      BY <3>1
  <2> QED
    BY <2>1, <2>2, LenProperties
<1> HIDE DEF entries
<1>6. mtp' = Overwrite(mtp, at, entries) /\ mtpPast' = at + Len(entries)
      /\ pending' = hidden[Len(tokens)]
  BY <1>3, <1>a, <1>b DEF SyncMtp
<1>7. /\ mtp' \in Seq(Entry) /\ Len(mtp') = Greatest(Len(mtp), at + Len(entries))
      /\ \A j \in 1..at : mtp'[j] = mtp[j]
      /\ \A j \in 1..Len(entries) : mtp'[at + j] = entries[j]
  <2>1. PICK x : x = entries
    OBVIOUS
  <2>2. x \in Seq(Entry) /\ mtp \in Seq(Entry)
    BY <1>5, <2>1
  <2>3. Overwrite(mtp, at, x) \in Seq(Entry)
    BY ONLY <1>2, <2>2, Overwritten
  <2>4. Len(Overwrite(mtp, at, x)) = Greatest(Len(mtp), at + Len(x))
    BY ONLY <1>2, <2>2, Overwritten
  <2>5. \A j \in 1..at : Overwrite(mtp, at, x)[j] = mtp[j]
    BY ONLY <1>2, <2>2, Overwritten
  <2>6. \A j \in 1..Len(x) : Overwrite(mtp, at, x)[at + j] = x[j]
    BY ONLY <1>2, <2>2, Overwritten
  <2> QED
    BY <1>6, <2>1, <2>3, <2>4, <2>5, <2>6, Zenon
<1>8. at + Len(entries) = p + n - 1
  BY <1>1, <1>5
<1>9. ASSUME NEW j \in 1..(p + n - 1)
      PROVE  mtp'[j] = [token |-> w[j + 1], hidden |-> HiddenOf(First(w, j))]
  <2>1. CASE j > at
    <3>1. /\ j - at \in 1..(n - f) /\ at + (j - at) = j
          /\ p + f + (j - at) = j + 1 /\ p + f + (j - at) - 1 = j
      <4>1. p \in Nat /\ n \in Nat
        OBVIOUS
      <4> QED
        BY ONLY <1>1, <2>1, <4>1, j \in 1..(p + n - 1)
    <3>2. mtp'[j] = e(j - at)
      BY <1>5, <1>7, <3>1
    <3> QED
      BY <1>4, <3>1, <3>2
  <2>2. CASE j <= b /\ j <= at
    <3>1. /\ j \in 1..b /\ j \in 1..at /\ j + 1 \in 1..p /\ p \in 0..Len(w) /\ j \in 0..p
      BY <1>1, <2>2
    <3>2. mtp[j] = [token |-> First(w, p)[j + 1], hidden |-> HiddenOf(First(First(w, p), j))]
      BY <3>1, <1>c DEF EntriesOf
    <3>3. First(w, p)[j + 1] = w[j + 1] /\ First(First(w, p), j) = First(w, j)
      BY <3>1, Prefix, PrefixOfPrefix
    <3> QED
      BY <1>7, <3>1, <3>2, <3>3
  <2>3. CASE j > b /\ j <= at
    <3>1. p > 0 /\ s = 1 /\ j = b + 1 /\ j = p /\ j \in 1..at /\ 1 \in 1..n
      BY <1>1, <2>3
    <3>2. mtp[j] = [token |-> tokens[1], hidden |-> HiddenOf(First(w, p))]
      BY <3>1, <1>c
    <3>3. w[j + 1] = tokens[1]
      BY <3>1
    <3> QED
      BY <1>7, <3>1, <3>2, <3>3
  <2> QED
    BY <1>1, <2>1, <2>2, <2>3
<1>10. pending' = HiddenOf(w)
  <2>1. n \in 1..n /\ hidden[n] = HiddenOf(First(w, p + n))
    OBVIOUS
  <2> QED
    BY <1>6, <2>1, PrefixWhole
<1> QED
  BY <1>6, <1>7, <1>8, <1>9, <1>10

-----------------------------------------------------------------------------
(* The text of the call in progress. *)

LEMMA TextOfCall ==
    ASSUME Types, BusyInv, pc # "idle"
    PROVE  /\ call.start \in Nat /\ call.inputs \in Seq(Token)
           /\ Len(call.inputs) \in Nat \ {0}
           /\ CallText \in Seq(Token) /\ Len(CallText) = call.start + Len(call.inputs)
           /\ Len(CallText) <= NCtx /\ NCtx \in Nat
           /\ First(CallText, call.start) = First(history, call.start)
           /\ First(history, call.start) \in Seq(Token)
           /\ Len(First(history, call.start)) = call.start
           /\ \A i \in 1..Len(call.inputs) : CallText[call.start + i] = call.inputs[i]
<1>1. /\ call.start \in Nat /\ call.inputs \in Seq(Token) /\ history \in Seq(Token)
      /\ call.start <= Len(history) /\ call.inputs # <<>>
      /\ call.start + Len(call.inputs) <= NCtx
  BY DEF Types, TypeOK, Calls, BusyInv
<1>2. Len(call.inputs) \in Nat \ {0} /\ Len(history) \in Nat
  BY <1>1, EmptySeq, LenProperties
<1>3. PICK f : f = First(history, call.start)
  OBVIOUS
<1>4. call.start \in 0..Len(history)
  BY <1>1, <1>2
<1>5. f \in Seq(Token) /\ Len(f) = call.start
  BY <1>1, <1>3, <1>4, Prefix
<1>6. /\ CallText \in Seq(Token) /\ Len(CallText) = Len(f) + Len(call.inputs)
      /\ \A i \in 1..Len(call.inputs) : CallText[Len(f) + i] = call.inputs[i]
  <2>1. CallText = f \o call.inputs
    BY <1>3 DEF CallText
  <2> QED
    BY <1>1, <1>5, <2>1, Join
<1>7. First(CallText, call.start) = f
  <2>1. Len(f) \in 0..Len(f)
    BY <1>1, <1>5
  <2>2. First(f \o call.inputs, Len(f)) = First(f, Len(f))
    BY <1>1, <1>5, <2>1, PrefixOfJoin
  <2>3. First(f, Len(f)) = f
    BY <1>5, PrefixWhole
  <2> QED
    BY <1>3, <1>5, <2>2, <2>3 DEF CallText
<1>8. NCtx \in Nat
  BY EngineAssumption
<1> QED
  BY <1>1, <1>2, <1>3, <1>5, <1>6, <1>7, <1>8

(* Prefixes of it that reach into the inputs, and stretches of the inputs. *)
LEMMA InputsOfCall ==
    ASSUME Types, BusyInv, pc # "idle", NEW m \in Nat, NEW n \in Nat,
           m + n <= Len(call.inputs)
    PROVE  /\ First(CallText, call.start + n) = First(CallText, call.start) \o First(call.inputs, n)
           /\ SubSeq(call.inputs, m + 1, m + n) =
                  SubSeq(CallText, call.start + m + 1, call.start + m + n)
<1>1. PICK f : f = First(history, call.start)
  OBVIOUS
<1>2. /\ f \in Seq(Token) /\ Len(f) = call.start /\ call.inputs \in Seq(Token)
      /\ Len(call.inputs) \in Nat /\ First(CallText, call.start) = f
  BY <1>1, TextOfCall
<1>3. CallText = f \o call.inputs
  BY <1>1 DEF CallText
<1>4. n \in 0..Len(call.inputs)
  BY <1>2
<1>5. First(f \o call.inputs, Len(f) + n) = f \o First(call.inputs, n)
  BY <1>2, <1>4, PrefixPastJoin
<1>6. SubSeq(f \o call.inputs, Len(f) + m + 1, Len(f) + m + n) =
          SubSeq(call.inputs, m + 1, m + n)
  <2>1. PICK v : v = call.inputs
    OBVIOUS
  <2>2. f \in Seq(Token) /\ v \in Seq(Token) /\ m + n <= Len(v)
    BY <1>2, <2>1
  <2>3. SubSeq(f \o v, Len(f) + m + 1, Len(f) + m + n) = SubSeq(v, m + 1, m + n)
    BY ONLY <2>2, m \in Nat, n \in Nat, MiddleOfJoin
  <2> QED
    BY <2>1, <2>3
<1> QED
  BY <1>2, <1>3, <1>5, <1>6

-----------------------------------------------------------------------------
(* The initial states, the calls that begin and the calls that fail. *)

LEMMA NothingHeld ==
    ASSUME NEW k \in Seq(Token)
    PROVE  /\ Len(<<>>) = 0 /\ First(k, 0) = <<>> /\ Absorb(<<>>, <<>>) = <<>>
           /\ <<>> \in Seq(Token) /\ Len(k) \in Nat
           /\ NoHidden \in HiddenState /\ Zeros \in HiddenState /\ Guess \in HiddenState
<1>1. <<>> \in Seq(Token) /\ Len(<<>>) = 0
  BY EmptySeq
<1>2. <<>> \o <<>> = <<>>
  BY <1>1, ConcatEmptySeq
<1>3. First(k, 0) = <<>>
  BY SubSeqEmpty DEF First
<1>4. NoHidden \in HiddenState /\ Zeros \in HiddenState /\ Guess \in HiddenState
  BY <1>1 DEF NoHidden, Zeros, Guess, HiddenState
<1> QED
  BY <1>1, <1>2, <1>3, <1>4, LenProperties DEF Absorb

LEMMA NoCallTyped == NoCall \in Calls
<1>1. /\ <<>> \in Seq(Token) /\ <<>> \in Seq(HiddenState) /\ <<>> \in Seq(Seq(Token))
  BY EmptySeq
<1> QED
  BY <1>1 DEF NoCall, Calls, Ops

LEMMA Initially == Init => EngineInv
<1> SUFFICES ASSUME Init
             PROVE  EngineInv
  OBVIOUS
<1> USE DEF Init
<1>1. /\ <<>> \in Seq(Token) /\ Len(<<>>) = 0 /\ First(<<>>, 0) = <<>>
      /\ Absorb(<<>>, <<>>) = <<>> /\ NoHidden \in HiddenState
  BY EmptySeq, NothingHeld
<1>2. /\ <<>> \in Seq([token : Token, hidden : HiddenState])
      /\ <<>> \in Seq([token : Token, hidden : HiddenState, history : Seq(Token)])
  BY EmptySeq
<1>3. call \in Calls /\ call.inputs \in Seq(Token) /\ call.hidden \in Seq(HiddenState)
  BY NoCallTyped DEF Calls
<1>4. NCtx \in Nat /\ mtpDraftTokens \in Nat
  BY EngineAssumption
<1>5. TypeOK
  BY <1>1, <1>2, <1>3, <1>4 DEF TypeOK
<1>6. CachesHold(history)
  BY <1>1 DEF CachesHold
<1>7. DraftHeadFollows(history)
  BY <1>1 DEF DraftHeadFollows, ExpectedMtpLen, Greatest, EntriesOf, PendingAfter
<1>8. SampledFromItsHistory
  BY EmptySeq DEF SampledFromItsHistory
<1> QED
  BY <1>1, <1>3, <1>4, <1>5, <1>6, <1>7, <1>8
     DEF EngineInv, Types, IdleInv, BusyInv, RunInv, SyncInv, DraftsInv, VerifyInv

LEMMA Stutters ==
    ASSUME EngineInv, UNCHANGED engineVars
    PROVE  EngineInv'
<1> USE DEF EngineInv
<1>1. /\ UNCHANGED <<recurrent, mtpDraftTokens, past, kv, kvLen, rec, history>>
      /\ UNCHANGED <<mtp, mtpPast, pending, pc, call, out, result>>
  BY DEF engineVars, loaded, textVars, mtpVars, callVars
<1>2. Types'
  BY <1>1 DEF Types, TypeOK
<1>3. /\ CallText' = CallText /\ HasMtp' = HasMtp /\ Healthy' = Healthy
      /\ Position' = Position
  BY <1>1 DEF CallText, HasMtp, Healthy, Position
<1>4. \A t, n : /\ CachesHold(t)' = CachesHold(t) /\ HiddenFrom(t, n)' = HiddenFrom(t, n)
                /\ EntriesOf(t, n)' = EntriesOf(t, n)
                /\ PendingAfter(t)' = PendingAfter(t)
                /\ DraftHeadFollows(t)' = DraftHeadFollows(t)
  BY <1>1 DEF CachesHold, HiddenFrom, StatesOf, EntriesOf, PendingAfter, DraftHeadFollows,
              HasMtp, HiddenOf, Hidden, Absorb
<1>5. IdleInv' /\ BusyInv'
  BY <1>1, <1>3, <1>4 DEF IdleInv, BusyInv
<1>6. RunInv' /\ SyncInv'
  BY <1>1, <1>3, <1>4 DEF RunInv, SyncInv
<1>7. DraftsInv' /\ VerifyInv'
  BY <1>1, <1>3, <1>4 DEF DraftsInv, VerifyInv
<1>8. SampledFromItsHistory'
  BY <1>1 DEF SampledFromItsHistory, HiddenOf, Hidden, Absorb
<1> QED
  BY <1>2, <1>5, <1>6, <1>7, <1>8

(* Between calls only these parts of the invariant say anything. *)
LEMMA Between ==
    ASSUME Types', IdleInv', SampledFromItsHistory', pc' = "idle"
    PROVE  EngineInv'
BY DEF EngineInv, BusyInv, RunInv, SyncInv, DraftsInv, VerifyInv

LEMMA ResetStep ==
    ASSUME EngineInv, Reset
    PROVE  EngineInv'
<1> USE DEF Reset
<1>1. /\ kv \in Seq(Token) /\ mtp \in Seq([token : Token, hidden : HiddenState])
      /\ kv' = kv /\ mtp' = mtp /\ Len(kv) \in Nat /\ Len(mtp) \in Nat
      /\ Len(kv) <= NCtx /\ Len(mtp) <= NCtx /\ NCtx \in Nat
  BY LenProperties, EngineAssumption DEF EngineInv, Types, TypeOK
<1>2. /\ <<>> \in Seq(Token) /\ Len(<<>>) = 0 /\ First(kv, 0) = <<>>
      /\ Absorb(<<>>, <<>>)' = <<>>
      /\ NoHidden \in HiddenState /\ Zeros \in HiddenState
  BY <1>1, NothingHeld, SameModel DEF loaded
<1>3. <<>> \in Seq([token : Token, hidden : HiddenState, history : Seq(Token)])
  BY EmptySeq
<1>4. Types'
  BY <1>1, <1>2, <1>3 DEF EngineInv, Types, TypeOK, loaded
<1>5. CachesHold(history)'
  BY <1>1, <1>2 DEF CachesHold
<1>6. DraftHeadFollows(history)'
  BY <1>2 DEF DraftHeadFollows, ExpectedMtpLen, Greatest, EntriesOf, PendingAfter
<1>7. IdleInv'
  BY <1>2, <1>5, <1>6 DEF EngineInv, IdleInv, Healthy
<1>8. SampledFromItsHistory'
  BY EmptySeq DEF SampledFromItsHistory
<1> QED
  BY <1>4, <1>7, <1>8, Between

LEMMA FaultStep ==
    ASSUME EngineInv, Fault
    PROVE  EngineInv'
<1> USE DEF Fault, Return
<1>1. /\ call' = NoCall /\ NoCall \in Calls
      /\ NoCall.inputs \in Seq(Token) /\ NoCall.hidden \in Seq(HiddenState)
  BY NoCallTyped DEF Calls
<1>2. /\ out' = <<>>
      /\ <<>> \in Seq([token : Token, hidden : HiddenState, history : Seq(Token)])
  BY EmptySeq
<1>3. Types'
  BY <1>1, <1>2 DEF EngineInv, Types, TypeOK, loaded, textVars, mtpVars
<1>4. IdleInv'
  BY DEF IdleInv, Healthy
<1>5. SampledFromItsHistory'
  BY EmptySeq DEF SampledFromItsHistory
<1> QED
  BY <1>3, <1>4, <1>5, Between

LEMMA RefuseStep ==
    ASSUME EngineInv, pc = "idle", Healthy, NEW why \in {"context", "desync"}, Refuse(why),
           why = "desync" => history = <<>>
    PROVE  EngineInv'
<1> USE DEF Refuse
<1>1. /\ out' = <<>>
      /\ <<>> \in Seq([token : Token, hidden : HiddenState, history : Seq(Token)])
  BY EmptySeq
<1>2. Types'
  BY <1>1 DEF EngineInv, Types, TypeOK, loaded, textVars, mtpVars
<1>3. CachesHold(history) /\ DraftHeadFollows(history) /\ call = NoCall
      /\ past = Len(history) /\ kvLen = past
  BY DEF EngineInv, IdleInv
<1>4. CachesHold(history)' /\ DraftHeadFollows(history)'
  BY <1>3 DEF CachesHold, DraftHeadFollows, EntriesOf, PendingAfter, HasMtp, HiddenOf, Hidden,
              Absorb, loaded, textVars, mtpVars
<1>5. IdleInv'
  BY <1>3, <1>4 DEF IdleInv, textVars
<1>6. SampledFromItsHistory'
  BY EmptySeq DEF SampledFromItsHistory
<1> QED
  BY <1>2, <1>5, <1>6, Between

-----------------------------------------------------------------------------
(* The beginning of a call: its text is the history and the inputs, and all  *)
(* state still tells the history.                                            *)
LEMMA Begun ==
    ASSUME EngineInv, pc = "idle", Healthy, NEW tokens \in Seq(Token), NEW h, h = history,
           call'.start = past, call'.inputs = tokens,
           history' = history \/ history' = history \o tokens,
           UNCHANGED <<loaded, past, kv, kvLen, rec, mtpVars>>
    PROVE  /\ past = Len(history) /\ kvLen = past /\ past' = past /\ kvLen' = past
           /\ history \in Seq(Token) /\ history \o tokens \in Seq(Token)
           /\ past \in Nat /\ Len(history \o tokens) = past + Len(tokens)
           /\ CallText' = history \o tokens
           /\ First(CallText', past) = history
           /\ First(history', past) = history
           /\ CachesHold(h)' /\ DraftHeadFollows(h)'
           /\ Len(history') \in Nat /\ past <= Len(history')
<1>1. /\ past = Len(history) /\ kvLen = past /\ history \in Seq(Token)
      /\ CachesHold(history) /\ DraftHeadFollows(history)
  BY DEF EngineInv, IdleInv, Types, TypeOK
<1>2. /\ history \o tokens \in Seq(Token) /\ Len(history \o tokens) = past + Len(tokens)
      /\ past \in Nat /\ Len(tokens) \in Nat
  BY <1>1, ConcatProperties, LenProperties
<1>3. First(history, past) = history
  BY <1>1, PrefixWhole
<1>4. First(history \o tokens, past) = history
  <2>1. past \in 0..Len(history)
    BY <1>1, <1>2
  <2> QED
    BY <1>1, <1>3, <2>1, PrefixOfJoin
<1>5. First(history', past) = history /\ Len(history') \in Nat /\ past <= Len(history')
  <2>1. CASE history' = history
    BY <1>1, <1>2, <1>3, <2>1
  <2>2. CASE history' = history \o tokens
    <3>1. First(history', past) = history /\ Len(history') = past + Len(tokens)
      BY <1>2, <1>4, <2>2
    <3> QED
      BY <1>2, <3>1
  <2> QED
    BY <2>1, <2>2
<1>6. CallText' = history \o tokens
  BY <1>5 DEF CallText
<1>7. CachesHold(h)' /\ DraftHeadFollows(h)'
  BY <1>1 DEF CachesHold, DraftHeadFollows, EntriesOf, PendingAfter, HasMtp, HiddenOf,
              Hidden, Absorb, loaded, mtpVars
<1> QED
  BY <1>1, <1>2, <1>4, <1>5, <1>6, <1>7

(* What a beginning call leaves to be shown, whichever call it is. *)
LEMMA BegunTypes ==
    ASSUME EngineInv, pc = "idle", NEW tokens \in Seq(Token), call' \in Calls,
           history' \in Seq(Token), out' = <<>>, result' = "busy",
           pc' \in {"run", "draft"},
           UNCHANGED <<loaded, past, kv, kvLen, rec, mtpVars>>
    PROVE  Types' /\ SampledFromItsHistory' /\ IdleInv' /\ SyncInv'
<1>1. <<>> \in Seq([token : Token, hidden : HiddenState, history : Seq(Token)])
  BY EmptySeq
<1>2. Types'
  BY <1>1 DEF EngineInv, Types, TypeOK, Calls, loaded, mtpVars
<1>3. SampledFromItsHistory'
  BY EmptySeq DEF SampledFromItsHistory
<1> QED
  BY <1>2, <1>3 DEF IdleInv, SyncInv

LEMMA PrefillStep ==
    ASSUME EngineInv, Healthy, NEW tokens \in Prompts, Prefill(tokens)
    PROVE  EngineInv'
<1>1. pc = "idle" /\ tokens # <<>>
  BY DEF Prefill
<1>2. tokens \in Seq(Token)
  BY SeqDef, EngineAssumption DEF Prompts
<1>3. CASE Refuse("context")
  BY <1>1, <1>3, RefuseStep
<1>4. CASE /\ Len(tokens) <= NCtx - past
           /\ history' = history \o tokens
           /\ Begin("prefill", tokens, "run")
           /\ UNCHANGED <<loaded, past, kv, kvLen, rec, mtpVars>>
  <2>1. PICK h : h = history
    OBVIOUS
  <2>2. /\ call' = [NoCall EXCEPT !.op = "prefill", !.start = past, !.inputs = tokens]
        /\ pc' = "run" /\ out' = <<>> /\ result' = "busy"
    BY <1>4 DEF Begin
  <2>3. past \in Nat /\ NCtx \in Nat
    BY EngineAssumption DEF EngineInv, Types, TypeOK
  <2>4. /\ call' \in Calls /\ call'.op = "prefill" /\ call'.start = past
        /\ call'.inputs = tokens
    BY <1>2, <2>2, <2>3, NoCallTyped DEF NoCall, Calls, Ops
  <2>5. /\ past = Len(h) /\ kvLen = past /\ past' = past /\ kvLen' = past
        /\ h \in Seq(Token) /\ h \o tokens \in Seq(Token)
        /\ Len(h \o tokens) = past + Len(tokens)
        /\ CallText' = h \o tokens /\ First(CallText', past) = h
        /\ CachesHold(h)' /\ DraftHeadFollows(h)'
        /\ Len(history') \in Nat /\ past <= Len(history')
    BY <1>1, <1>2, <1>4, <2>1, <2>4, Begun
  <2>6. Len(tokens) \in Nat \ {0}
    BY <1>1, <1>2, EmptySeq
  <2>7. Types' /\ SampledFromItsHistory' /\ IdleInv' /\ SyncInv'
    BY <1>1, <1>2, <1>4, <2>1, <2>2, <2>4, <2>5, BegunTypes
  <2>8. past + Len(tokens) <= NCtx
    BY <1>4, <2>3, <2>6
  <2>9. BusyInv'
    BY <1>1, <1>4, <2>1, <2>2, <2>4, <2>5, <2>8 DEF BusyInv
  <2>10. RunInv'
    <3>1. past' < past + Len(tokens) /\ past <= past'
      BY <2>3, <2>5, <2>6
    <3> QED
      BY <2>2, <2>4, <2>5, <3>1 DEF RunInv
  <2>11. DraftsInv' /\ VerifyInv'
    BY <2>2, <2>4 DEF DraftsInv, VerifyInv
  <2> QED
    BY <2>7, <2>9, <2>10, <2>11 DEF EngineInv
<1> QED
  BY <1>3, <1>4 DEF Prefill

LEMMA DecodeStep ==
    ASSUME EngineInv, Healthy, NEW token \in Token, Decode(token)
    PROVE  EngineInv'
<1> DEFINE tokens == <<token>>
<1>1. pc = "idle" /\ tokens # <<>>
  BY DEF Decode
<1>2. tokens \in Seq(Token) /\ Len(tokens) = 1
  OBVIOUS
<1> HIDE DEF tokens
<1>3. CASE Refuse("context")
  BY <1>1, <1>3, RefuseStep
<1>4. CASE past < NCtx /\ Begin("decode", tokens, "run") /\ UNCHANGED <<loaded, textVars, mtpVars>>
  <2>1. PICK h : h = history
    OBVIOUS
  <2>2. /\ call' = [NoCall EXCEPT !.op = "decode", !.start = past, !.inputs = tokens]
        /\ pc' = "run" /\ out' = <<>> /\ result' = "busy"
        /\ UNCHANGED <<loaded, past, kv, kvLen, rec, mtpVars>> /\ history' = history
    BY <1>4 DEF Begin, textVars
  <2>3. past \in Nat /\ NCtx \in Nat
    BY EngineAssumption DEF EngineInv, Types, TypeOK
  <2>4. /\ call' \in Calls /\ call'.op = "decode" /\ call'.start = past
        /\ call'.inputs = tokens
    BY <1>2, <2>2, <2>3, NoCallTyped DEF NoCall, Calls, Ops
  <2>5. /\ past = Len(h) /\ kvLen = past /\ past' = past /\ kvLen' = past
        /\ h \in Seq(Token) /\ h \o tokens \in Seq(Token)
        /\ Len(h \o tokens) = past + Len(tokens)
        /\ CallText' = h \o tokens /\ First(CallText', past) = h
        /\ CachesHold(h)' /\ DraftHeadFollows(h)'
        /\ Len(history') \in Nat /\ past <= Len(history')
    BY <1>1, <1>2, <2>1, <2>2, <2>4, Begun
  <2>7. Types' /\ SampledFromItsHistory' /\ IdleInv' /\ SyncInv'
    BY <1>1, <1>2, <2>1, <2>2, <2>4, <2>5, BegunTypes
  <2>8. past + Len(tokens) <= NCtx
    BY <1>2, <1>4, <2>3
  <2>9. BusyInv'
    BY <1>1, <1>2, <2>1, <2>2, <2>4, <2>5, <2>8 DEF BusyInv
  <2>10. RunInv'
    <3>1. past' < past + Len(tokens) /\ past <= past'
      BY <1>2, <2>3, <2>5
    <3> QED
      BY <2>2, <2>4, <2>5, <3>1 DEF RunInv
  <2>11. DraftsInv' /\ VerifyInv'
    BY <2>2, <2>4 DEF DraftsInv, VerifyInv
  <2> QED
    BY <2>7, <2>9, <2>10, <2>11 DEF EngineInv
<1> QED
  BY <1>3, <1>4 DEF Decode, tokens

LEMMA SpeculateStep ==
    ASSUME EngineInv, Healthy, NEW token \in Token, NEW stop \in Token, NEW maxOut \in Nat,
           Speculate(token, maxOut, stop)
    PROVE  EngineInv'
<1> DEFINE tokens == <<token>>
<1>1. pc = "idle" /\ HasMtp /\ tokens # <<>>
  BY DEF Speculate
<1>2. tokens \in Seq(Token) /\ Len(tokens) = 1
  OBVIOUS
<1> HIDE DEF tokens
<1>3. /\ past = Len(history) /\ DraftHeadFollows(history) /\ past \in Nat
      /\ history \in Seq(Token) /\ NCtx \in Nat
  BY <1>1, EngineAssumption DEF EngineInv, IdleInv, Types, TypeOK
<1>4. CASE Refuse("context")
  BY <1>1, <1>4, RefuseStep
<1>5. CASE ~MtpReady /\ Refuse("desync")
  <2>1. pending = NoHidden
    BY <1>1, <1>3, <1>5 DEF DraftHeadFollows, MtpReady
  <2>2. history = <<>>
    BY <1>1, <1>3, <2>1 DEF DraftHeadFollows, PendingAfter, NoHidden, HiddenOf, Hidden
  <2> QED
    BY <1>1, <1>5, <2>2, RefuseStep
<1>6. CASE /\ past < NCtx /\ MtpReady
           /\ call' = [NoCall EXCEPT !.op = "speculate", !.start = past,
                                     !.inputs = tokens,
                                     !.maxOut = maxOut, !.stop = <<stop>>]
           /\ pc' = "draft" /\ out' = <<>> /\ result' = "busy"
           /\ UNCHANGED <<loaded, textVars, mtpVars>>
  <2>1. PICK h : h = history
    OBVIOUS
  <2>2. UNCHANGED <<loaded, past, kv, kvLen, rec, mtpVars>> /\ history' = history
    BY <1>6 DEF textVars
  <2>3. <<stop>> \in Seq(Token)
    OBVIOUS
  <2>4. /\ call' \in Calls /\ call'.op = "speculate" /\ call'.start = past
        /\ call'.inputs = tokens /\ call'.kept = 0
    BY <1>2, <1>3, <1>6, <2>3, NoCallTyped DEF NoCall, Calls, Ops
  <2>5. /\ past = Len(h) /\ kvLen = past /\ past' = past /\ kvLen' = past
        /\ h \in Seq(Token) /\ h \o tokens \in Seq(Token)
        /\ Len(h \o tokens) = past + Len(tokens)
        /\ CallText' = h \o tokens /\ First(CallText', past) = h
        /\ CachesHold(h)' /\ DraftHeadFollows(h)'
        /\ Len(history') \in Nat /\ past <= Len(history')
    BY <1>1, <1>2, <2>1, <2>2, <2>4, Begun
  <2>7. Types' /\ SampledFromItsHistory' /\ IdleInv' /\ SyncInv'
    BY <1>1, <1>2, <1>6, <2>1, <2>2, <2>4, <2>5, BegunTypes
  <2>8. past + Len(tokens) <= NCtx /\ past + 0 = past
    BY <1>2, <1>3, <1>6
  <2>9. BusyInv'
    <3>1. HasMtp'
      BY <1>1, <2>2, SameModel
    <3>2. out' = <<>> /\ Len(<<>>) = 0 /\ 1..0 = {} /\ 1..(0 - 1) = {}
      BY <1>6, EmptySeq
    <3>3. call'.kept <= Len(call'.inputs)
      BY <1>2, <2>4
    <3>4. history' = First(CallText', call'.start + call'.kept)
      BY <2>1, <2>2, <2>4, <2>5, <2>8
    <3> QED
      BY <1>1, <1>6, <2>1, <2>2, <2>4, <2>5, <2>8, <3>1, <3>2, <3>3, <3>4 DEF BusyInv
  <2>10. RunInv'
    BY <1>6 DEF RunInv
  <2>11. DraftsInv'
    <3>1. HasMtp' /\ pending' # NoHidden /\ mtpPast' = mtpPast
      BY <1>1, <1>6, <2>2, SameModel DEF MtpReady, mtpVars
    <3>2. /\ mtpPast' = ExpectedMtpLen(past) /\ EntriesOf(h, mtpPast)' /\ PendingAfter(h)'
      BY <2>5, <3>1 DEF DraftHeadFollows
    <3>3. /\ mtpPast' = ExpectedMtpLen(past) + Len(tokens) - 1
          /\ ~(Len(tokens) > 1)
      <4>1. ExpectedMtpLen(past) \in Int
        BY <1>3 DEF ExpectedMtpLen, Greatest
      <4> QED
        BY <1>2, <3>2, <4>1
    <3> QED
      BY <2>4, <2>5, <3>1, <3>2, <3>3 DEF DraftsInv
  <2>12. VerifyInv'
    BY <1>6, <2>4, <2>5 DEF VerifyInv
  <2> QED
    BY <2>7, <2>9, <2>10, <2>11, <2>12 DEF EngineInv
<1> QED
  BY <1>4, <1>5, <1>6 DEF Speculate, tokens

-----------------------------------------------------------------------------
(* The graph run of a prefill chunk or of a decode. *)
LEMMA RanInputs ==
    ASSUME EngineInv, pc = "run", NEW n \in Nat \ {0},
           past + n <= call.start + Len(call.inputs), NEW tokens,
           tokens = SubSeq(CallText, past + 1, past + n), RunTarget(tokens, past),
           pc' = "sync", kvLen' = past,
           UNCHANGED <<loaded, past, history, mtpVars, out, result>>
    PROVE  EngineInv'
<1>1. PICK T : T = CallText
  OBVIOUS
<1>2. /\ T \in Seq(Token) /\ Len(T) = call.start + Len(call.inputs) /\ Len(T) <= NCtx
      /\ call.start \in Nat /\ Len(call.inputs) \in Nat /\ NCtx \in Nat
  BY <1>1, TextOfCall DEF EngineInv
<1>3. /\ past \in Nat /\ kv \in Seq(Token) /\ Len(kv) <= NCtx /\ call \in Calls
      /\ CachesHold(First(T, past)) /\ DraftHeadFollows(First(T, past))
      /\ call.op \in {"prefill", "decode"} /\ call.start <= past
  BY <1>1 DEF EngineInv, Types, TypeOK, RunInv, BusyInv, Calls, Ops
<1>4. past + n <= Len(T) /\ past \in 0..Len(T)
  BY <1>2, <1>3
<1>5. PICK t : t = First(T, past)
  OBVIOUS
<1>6. t \in Seq(Token) /\ Len(t) = past
  BY <1>2, <1>4, <1>5, Prefix
<1>7. PICK w : w = First(T, past + n)
  OBVIOUS
<1>8. w = t \o tokens /\ tokens \in Seq(Token) /\ Len(tokens) = n
  <2>1. T \in Seq(Token) /\ past \in Nat /\ n \in Nat /\ past + n <= Len(T)
    BY <1>2, <1>3, <1>4
  <2>2. /\ First(T, past) \o SubSeq(T, past + 1, past + n) = First(T, past + n)
        /\ SubSeq(T, past + 1, past + n) \in Seq(Token)
        /\ Len(SubSeq(T, past + 1, past + n)) = n
    BY ONLY <2>1, PrefixGrows, ZenonT(60)
  <2> QED
    BY <1>1, <1>5, <1>7, <2>2
<1>9. PICK states : states = HiddenStates(tokens, past)
  OBVIOUS
<1>10. kv' = Overwrite(kv, past, tokens) /\ rec' = Absorb(rec, tokens)
       /\ call' = [call EXCEPT !.hidden = states]
  BY <1>9 DEF RunTarget
<1>11. /\ w \in Seq(Token) /\ Len(w) = past + n
       /\ kv' \in Seq(Token) /\ Len(kv') = Greatest(Len(kv), Len(w))
       /\ CachesHold(w)'
       /\ states \in Seq(HiddenState) /\ Len(states) = n
       /\ \A i \in 1..n : states[i] = HiddenOf(First(w, past + i))
  <2>1. /\ kv \in Seq(Token) /\ t \in Seq(Token) /\ CachesHold(t) /\ tokens \in Seq(Token)
        /\ kv' = Overwrite(kv, Len(t), tokens) /\ w = t \o tokens
    BY <1>3, <1>5, <1>6, <1>8, <1>10
  <2>2. UNCHANGED loaded /\ rec' = Absorb(rec, tokens)
    BY <1>10
  <2>3. w \in Seq(Token) /\ Len(w) = Len(t) + Len(tokens)
    BY ONLY <2>1, <2>2, TargetRan
  <2>4. kv' \in Seq(Token) /\ Len(kv') = Greatest(Len(kv), Len(w))
    BY ONLY <2>1, <2>2, TargetRan, ZenonT(60)
  <2>5. CachesHold(w)'
    BY ONLY <2>1, <2>2, TargetRan
  <2>6. /\ HiddenStates(tokens, Len(t)) \in Seq(HiddenState)
        /\ Len(HiddenStates(tokens, Len(t))) = Len(tokens)
        /\ StatesOf(HiddenStates(tokens, Len(t)), w, Len(t))
    BY ONLY <2>1, <2>2, TargetRan
  <2> QED
    BY <1>6, <1>8, <1>9, <2>3, <2>4, <2>5, <2>6 DEF StatesOf
<1>12. /\ call' \in Calls /\ call'.hidden = states /\ call'.op = call.op
       /\ call'.start = call.start /\ call'.inputs = call.inputs
  BY <1>3, <1>10, <1>11 DEF Calls
<1>13. CallText' = T
  BY <1>1, <1>12 DEF CallText
<1>14. Types'
  <2>1. Len(kv') <= NCtx /\ Len(kv') >= past /\ Len(kv') \in Nat
    BY <1>2, <1>3, <1>4, <1>11, LenProperties DEF Greatest
  <2>2. rec' \in Seq(Token)
    <3>1. CachesHold(w)' => rec' = Absorb(<<>>, w)'
      BY DEF CachesHold
    <3>2. Absorb(<<>>, w)' = Absorb(<<>>, w)
      BY SameModel
    <3> QED
      BY <1>11, <3>1, <3>2, Absorbed
  <2> QED
    BY <1>11, <1>12, <2>1, <2>2 DEF EngineInv, Types, TypeOK, loaded, mtpVars, Calls
<1>15. BusyInv'
  BY <1>1, <1>3, <1>12, <1>13 DEF EngineInv, BusyInv
<1>16. SyncInv'
  <2>1. HiddenFrom(T, past)'
    <3>1. ASSUME NEW i \in 1..n
          PROVE  states[i] = HiddenOf(First(T, past + i))'
      <4>1. past + i \in 0..(past + n) /\ past + n \in 0..Len(T)
        BY <1>3, <1>4
      <4>2. First(w, past + i) = First(T, past + i)
        BY <1>2, <1>7, <4>1, PrefixOfPrefix
      <4>3. PICK u : u = First(T, past + i)
        OBVIOUS
      <4>4. HiddenOf(u)' = HiddenOf(u)
        BY SameModel
      <4>5. past' = past
        OBVIOUS
      <4> QED
        BY <1>11, <4>2, <4>3, <4>4, <4>5
    <3> QED
      BY <1>11, <1>12, <3>1 DEF HiddenFrom, StatesOf
  <2>2. DraftHeadFollows(t)'
    BY <1>3, <1>5 DEF DraftHeadFollows, EntriesOf, PendingAfter, HasMtp, HiddenOf, Hidden,
                      Absorb, loaded, mtpVars
  <2>3. Position' = past' /\ past' = past
    BY <1>3, <1>12 DEF Position
  <2>4. Len(call'.hidden) = n
    BY <1>11, <1>12
  <2>5. past' + n = past + n
    OBVIOUS
  <2>6. First(CallText', past' + n) = w /\ First(CallText', past') = t
    BY <1>5, <1>7, <1>13, <2>3
  <2>7. call'.op # "speculate"
    BY <1>3, <1>12
  <2>8. /\ call'.start <= past' /\ past' + n <= call'.start + Len(call'.inputs)
    BY <1>3, <1>12, <2>3
  <2> QED
    BY <1>11, <1>13, <2>1, <2>2, <2>3, <2>4, <2>6, <2>7, <2>8 DEF SyncInv
<1>17. IdleInv' /\ RunInv' /\ VerifyInv' /\ DraftsInv'
  BY <1>3, <1>12 DEF IdleInv, RunInv, VerifyInv, DraftsInv
<1>18. SampledFromItsHistory'
  BY DEF EngineInv, SampledFromItsHistory, HiddenOf, Hidden, Absorb, loaded
<1> QED
  BY <1>14, <1>15, <1>16, <1>17, <1>18 DEF EngineInv

LEMMA RunChunkStep ==
    ASSUME EngineInv, RunChunk
    PROVE  EngineInv'
<1> DEFINE done == past - call.start
           n == Least(Len(call.inputs) - done, Least(ChunkLimit, NCtx - past))
<1>1. pc = "run"
  BY DEF RunChunk
<1>2. /\ call.start \in Nat /\ Len(call.inputs) \in Nat /\ NCtx \in Nat /\ past \in Nat
      /\ call.start <= past /\ past < call.start + Len(call.inputs)
      /\ call.start + Len(call.inputs) <= NCtx /\ ChunkLimit \in Nat \ {0}
  BY <1>1, TextOfCall, EngineAssumption DEF EngineInv, Types, TypeOK, RunInv, BusyInv
<1>3. /\ done \in Nat /\ n \in Nat \ {0} /\ done + n <= Len(call.inputs)
      /\ past + n <= call.start + Len(call.inputs)
      /\ call.start + done + 1 = past + 1 /\ call.start + done + n = past + n
  <2>1. PICK a : a = Len(call.inputs)
    OBVIOUS
  <2>2. PICK b : b = call.start
    OBVIOUS
  <2>3. /\ a \in Nat /\ b \in Nat /\ b <= past /\ past < b + a /\ b + a <= NCtx
        /\ done = past - b /\ past \in Nat /\ NCtx \in Nat /\ ChunkLimit \in Nat \ {0}
    BY <1>2, <2>1, <2>2
  <2>4. PICK c : c = Least(ChunkLimit, NCtx - past)
    OBVIOUS
  <2>5. c \in Nat /\ c >= 1
    BY <2>3, <2>4 DEF Least
  <2>6. n = IF a - done < c THEN a - done ELSE c
    BY <2>1, <2>4 DEF Least
  <2>7. done \in Nat /\ a - done >= 1 /\ b + done = past
    BY <2>3
  <2> HIDE DEF done, n
  <2>8. n \in Nat \ {0} /\ done + n <= a
    BY <2>3, <2>5, <2>6, <2>7
  <2>9. /\ past + n <= b + a /\ b + done + 1 = past + 1 /\ b + done + n = past + n
    BY <2>3, <2>7, <2>8
  <2> QED
    BY <2>1, <2>2, <2>7, <2>8, <2>9
<1> HIDE DEF n, done
<1>4. SubSeq(call.inputs, done + 1, done + n) = SubSeq(CallText, past + 1, past + n)
  <2>1. Types /\ BusyInv /\ pc # "idle"
    BY <1>1 DEF EngineInv
  <2>2. SubSeq(call.inputs, done + 1, done + n) =
            SubSeq(CallText, call.start + done + 1, call.start + done + n)
    BY <1>3, <2>1, InputsOfCall
  <2> QED
    BY <1>3, <2>2
<1>5. RunTarget(SubSeq(call.inputs, done + 1, done + n), past)
  BY DEF RunChunk, n, done
<1>6. /\ pc' = "sync" /\ kvLen' = past
      /\ UNCHANGED <<loaded, past, history, mtpVars, out, result>>
  BY DEF RunChunk
<1> QED
  BY <1>1, <1>3, <1>4, <1>5, <1>6, RanInputs

LEMMA RunDecodeStep ==
    ASSUME EngineInv, RunDecode
    PROVE  EngineInv'
<1>1. pc = "run" /\ call.op = "decode"
  BY DEF RunDecode
<1>2. /\ call.start \in Nat /\ Len(call.inputs) = 1 /\ past = call.start /\ kvLen = past
      /\ call.inputs \in Seq(Token)
  BY <1>1, TextOfCall DEF EngineInv, BusyInv
<1>3. call.inputs = SubSeq(CallText, past + 1, past + 1)
  <2>1. Types /\ BusyInv /\ pc # "idle"
    BY <1>1 DEF EngineInv
  <2>2. 0 + 1 <= Len(call.inputs)
    BY <1>2
  <2>3. SubSeq(call.inputs, 0 + 1, 0 + 1) =
            SubSeq(CallText, call.start + 0 + 1, call.start + 0 + 1)
    BY <2>1, <2>2, InputsOfCall
  <2>4. SubSeq(call.inputs, 1, 1) = call.inputs
    BY <1>2, PrefixWhole DEF First
  <2>5. call.start + 0 + 1 = past + 1 /\ 0 + 1 = 1
    BY <1>2
  <2> QED
    BY <2>3, <2>4, <2>5
<1>4. past + 1 <= call.start + Len(call.inputs)
  BY <1>2
<1>5. RunTarget(call.inputs, past)
  BY <1>2 DEF RunDecode
<1>6. /\ pc' = "sync" /\ kvLen' = past
      /\ UNCHANGED <<loaded, past, history, mtpVars, out, result>>
  BY <1>2 DEF RunDecode
<1> QED
  <2>1. 1 \in Nat \ {0}
    OBVIOUS
  <2> QED
    BY <1>1, <1>3, <1>4, <1>5, <1>6, <2>1, RanInputs

-----------------------------------------------------------------------------
(* After the run: the draft head is brought up to the text, the call ends or *)
(* goes on to its next chunk.                                                *)

LEMMA AtSync ==
    ASSUME EngineInv, pc \in {"sync", "commit"}, NEW T, T = CallText,
           NEW n, n = Len(call.hidden), NEW p, p = Position, NEW w, w = First(T, p + n)
    PROVE  /\ T \in Seq(Token) /\ Len(T) = call.start + Len(call.inputs) /\ Len(T) <= NCtx
           /\ p \in Nat /\ n \in Nat \ {0} /\ p + n <= Len(T) /\ call.start <= p
           /\ w \in Seq(Token) /\ Len(w) = p + n /\ First(w, p) = First(T, p)
           /\ First(T, p) \in Seq(Token) /\ Len(First(T, p)) = p
           /\ CachesHold(w) /\ StatesOf(call.hidden, T, p)
           /\ StatesOf(call.hidden, w, p)
           /\ \A i \in 1..n : w[p + i] = T[p + i]
           /\ call.hidden \in Seq(HiddenState) /\ call.hidden[n] = HiddenOf(w)
<1>1. /\ T \in Seq(Token) /\ Len(T) = call.start + Len(call.inputs) /\ Len(T) <= NCtx
      /\ call.start \in Nat /\ Len(call.inputs) \in Nat /\ NCtx \in Nat
  BY TextOfCall DEF EngineInv
<1>2. /\ call.start <= p /\ 1 <= n /\ p + n <= Len(T)
      /\ CachesHold(w) /\ StatesOf(call.hidden, T, p)
  BY <1>1 DEF EngineInv, SyncInv, HiddenFrom
<1>3. call.hidden \in Seq(HiddenState) /\ n \in Nat
  BY LenProperties DEF EngineInv, Types, TypeOK
<1>4. p \in Nat
  BY <1>1 DEF Position, EngineInv, Types, TypeOK
<1>5. n \in Nat \ {0} /\ p + n \in 0..Len(T) /\ p \in 0..Len(T) /\ p \in 0..(p + n)
  BY <1>1, <1>2, <1>3, <1>4
<1>6. /\ w \in Seq(Token) /\ Len(w) = p + n
      /\ \A i \in 1..(p + n) : w[i] = T[i]
  BY ONLY <1>1, <1>5, Prefix, w = First(T, p + n)
<1>7. First(T, p) \in Seq(Token) /\ Len(First(T, p)) = p
  BY ONLY <1>1, <1>5, Prefix
<1>8. First(w, p) = First(T, p)
  BY ONLY <1>1, <1>5, PrefixOfPrefix, w = First(T, p + n)
<1>9. ASSUME NEW i \in 1..n
      PROVE  w[p + i] = T[p + i] /\ First(w, p + i) = First(T, p + i)
  <2>1. p + i \in 1..(p + n) /\ p + i \in 0..(p + n)
    BY <1>4, <1>5
  <2>2. w[p + i] = T[p + i]
    BY <1>6, <2>1
  <2>3. First(w, p + i) = First(T, p + i)
    BY ONLY <1>1, <1>5, <2>1, PrefixOfPrefix, w = First(T, p + n)
  <2> QED
    BY <2>2, <2>3
<1>10. StatesOf(call.hidden, w, p)
  BY <1>2, <1>9 DEF StatesOf
<1>11. call.hidden[n] = HiddenOf(w)
  <2>1. n \in 1..Len(call.hidden)
    BY <1>5
  <2> QED
    BY <1>2, <2>1 DEF StatesOf
<1> QED
  BY <1>1, <1>2, <1>3, <1>4, <1>5, <1>6, <1>7, <1>8, <1>9, <1>10, <1>11

LEMMA RanTokens ==
    ASSUME EngineInv, pc = "sync", NEW T, T = CallText,
           NEW n, n = Len(call.hidden), NEW p, p = Position
    PROVE  /\ Ran = SubSeq(T, p + 1, p + n)
           /\ Ran \in Seq(Token) /\ Len(Ran) = n
           /\ \A i \in 1..n : T[p + i] = Ran[i]
<1>1. Types /\ BusyInv /\ pc # "idle"
  BY DEF EngineInv
<1>2. PICK w : w = First(T, p + n)
  OBVIOUS
<1>3. /\ T \in Seq(Token) /\ Len(T) = call.start + Len(call.inputs)
      /\ p \in Nat /\ n \in Nat \ {0} /\ p + n <= Len(T) /\ call.start <= p
  BY <1>2, AtSync
<1>4. /\ call.start \in Nat /\ Len(call.inputs) \in Nat
      /\ call.op \in {"prefill", "decode", "speculate"}
      /\ call.op = "decode" => past = call.start
  BY <1>1, TextOfCall DEF BusyInv, Types, Calls, Ops
<1>5. PICK m : m = p - call.start
  OBVIOUS
<1>6. /\ m \in Nat /\ m + n <= Len(call.inputs)
      /\ call.start + m + 1 = p + 1 /\ call.start + m + n = p + n
  <2>1. PICK a : a = Len(call.inputs)
    OBVIOUS
  <2>2. PICK b : b = call.start
    OBVIOUS
  <2>3. PICK c : c = Len(T)
    OBVIOUS
  <2>4. /\ a \in Nat /\ b \in Nat /\ c = b + a /\ p \in Nat /\ n \in Nat
        /\ p + n <= c /\ b <= p /\ m = p - b
    BY <1>3, <1>4, <1>5, <2>1, <2>2, <2>3
  <2>5. m \in Nat /\ m + n <= a /\ b + m + 1 = p + 1 /\ b + m + n = p + n
    BY ONLY <2>4
  <2> QED
    BY <2>1, <2>2, <2>5
<1>7. SubSeq(call.inputs, m + 1, m + n) = SubSeq(T, p + 1, p + n)
  <2>1. SubSeq(call.inputs, m + 1, m + n) =
            SubSeq(CallText, call.start + m + 1, call.start + m + n)
    BY <1>1, <1>3, <1>6, InputsOfCall
  <2> QED
    BY <1>6, <2>1
<1>8. Ran = SubSeq(T, p + 1, p + n)
  <2>1. CASE call.op = "prefill"
    BY <1>5, <1>7, <2>1 DEF Ran, Position
  <2>2. CASE call.op # "prefill"
    <3>1. m = 0
      BY <1>4, <1>5, <2>2 DEF Position
    <3>2. 0 + 1 = 1 /\ 0 + n = n
      BY <1>3
    <3> QED
      BY <1>7, <2>2, <3>1, <3>2 DEF Ran, First
  <2> QED
    BY <2>1, <2>2
<1>9. n \in Nat
  BY <1>3
<1>10. /\ SubSeq(T, p + 1, p + n) \in Seq(Token) /\ Len(SubSeq(T, p + 1, p + n)) = n
       /\ \A i \in 1..n : SubSeq(T, p + 1, p + n)[i] = T[p + i]
  BY ONLY <1>3, <1>9, PrefixGrows
<1> QED
  BY <1>8, <1>10

(* What sync_mtp is told to keep is there, and is right. *)
LEMMA KeptEntries ==
    ASSUME EngineInv, pc = "sync", HasMtp, NEW T, T = CallText, NEW p, p = Position
    PROVE  /\ Preserved \in {0, 1}
           /\ ExpectedMtpLen(p) + Preserved <= mtpPast
           /\ EntriesOf(First(T, p), ExpectedMtpLen(p))
           /\ p > 0 => pending = HiddenOf(First(T, p))
           /\ Preserved = 1 => mtp[ExpectedMtpLen(p) + 1] = [token |-> Ran[1], hidden |-> pending]
<1>1. PICK n : n = Len(call.hidden)
  OBVIOUS
<1>2. PICK w : w = First(T, p + n)
  OBVIOUS
<1>3. /\ p \in Nat /\ n \in Nat \ {0} /\ p + n <= Len(T)
      /\ First(T, p) \in Seq(Token) /\ Len(First(T, p)) = p
  BY <1>1, <1>2, AtSync
<1>4. PendingAfter(First(T, p)) => (p > 0 => pending = HiddenOf(First(T, p)))
  BY <1>3, EmptySeq DEF PendingAfter
<1>5. ExpectedMtpLen(p) \in Nat
  BY <1>3 DEF ExpectedMtpLen, Greatest
<1>6. CASE call.op # "speculate"
  <2>1. Preserved = 0 /\ p = past
    BY <1>6 DEF Preserved, Position
  <2>2. DraftHeadFollows(First(T, p))
    BY <1>6, <2>1 DEF EngineInv, SyncInv
  <2> QED
    BY <1>3, <1>4, <1>5, <2>1, <2>2 DEF DraftHeadFollows
<1>7. CASE call.op = "speculate"
  <2>1. p = call.start
    BY <1>7 DEF Position
  <2>2. /\ mtpPast = ExpectedMtpLen(p) + Len(call.inputs) - 1
        /\ EntriesOf(First(T, p), ExpectedMtpLen(p)) /\ PendingAfter(First(T, p))
        /\ Len(call.inputs) > 1 =>
               mtp[ExpectedMtpLen(p) + 1] = [token |-> call.inputs[1], hidden |-> pending]
    BY <1>7, <2>1 DEF EngineInv, DraftsInv
  <2>3. Len(call.inputs) \in Nat \ {0}
    BY TextOfCall DEF EngineInv
  <2>4. Preserved = IF Len(call.inputs) > 1 THEN 1 ELSE 0
    BY <1>7 DEF Preserved
  <2>5. Ran[1] = call.inputs[1]
    <3>1. \A i \in 1..n : T[p + i] = Ran[i]
      BY <1>1, RanTokens
    <3>2. \A i \in 1..Len(call.inputs) : T[call.start + i] = call.inputs[i]
      BY TextOfCall DEF EngineInv
    <3>3. 1 \in 1..n /\ 1 \in 1..Len(call.inputs)
      BY <1>3, <2>3
    <3> QED
      BY <2>1, <3>1, <3>2, <3>3
  <2>6. /\ ExpectedMtpLen(p) + Preserved <= mtpPast /\ Preserved \in {0, 1}
        /\ Preserved = 1 => Len(call.inputs) > 1
    BY <1>5, <2>2, <2>3, <2>4
  <2> QED
    BY <1>4, <2>2, <2>5, <2>6
<1> QED
  BY <1>6, <1>7

LEMMA DraftHeadSynced ==
    ASSUME EngineInv, Sync, NEW w, w = First(CallText, Position + Len(call.hidden))
    PROVE  /\ DraftHeadFollows(w)'
           /\ mtp' \in Seq(Entry) /\ mtpPast' \in 0..NCtx /\ Len(mtp') \in mtpPast'..NCtx
           /\ pending' \in HiddenState
<1>1. pc = "sync" /\ UNCHANGED loaded
  BY DEF Sync
<1>2. /\ mtp \in Seq(Entry) /\ mtpPast \in 0..NCtx /\ Len(mtp) \in mtpPast..NCtx
      /\ pending \in HiddenState /\ NCtx \in Nat
  BY EngineAssumption DEF EngineInv, Types, TypeOK, Entry
<1>3. CASE ~HasMtp
  <2>1. UNCHANGED mtpVars
    BY <1>3 DEF Sync
  <2>2. ~HasMtp'
    BY <1>1, <1>3, SameModel
  <2> QED
    BY <1>2, <2>1, <2>2 DEF mtpVars, DraftHeadFollows
<1>4. CASE HasMtp
  <2>1. PICK T : T = CallText
    OBVIOUS
  <2>2. PICK n : n = Len(call.hidden)
    OBVIOUS
  <2>3. PICK p : p = Position
    OBVIOUS
  <2>4. PICK s : s = Preserved
    OBVIOUS
  <2>5. PICK r : r = Ran
    OBVIOUS
  <2>6. PICK h : h = call.hidden
    OBVIOUS
  <2>7. SyncMtp(r, h, p, s)
    BY <1>4, <2>3, <2>4, <2>5, <2>6 DEF Sync
  <2>8. w = First(T, p + n)
    BY <2>1, <2>2, <2>3
  <2>9. /\ p \in Nat /\ n \in Nat \ {0} /\ p + n <= Len(T) /\ Len(T) <= NCtx
        /\ w \in Seq(Token) /\ Len(w) = p + n /\ First(w, p) = First(T, p)
        /\ StatesOf(h, w, p) /\ \A i \in 1..n : w[p + i] = T[p + i]
        /\ h \in Seq(HiddenState) /\ Len(h) = n
    BY <1>1, <2>1, <2>2, <2>3, <2>6, <2>8, AtSync
  <2>10. /\ r \in Seq(Token) /\ Len(r) = n /\ \A i \in 1..n : w[p + i] = r[i]
    <3>1. Ran \in Seq(Token) /\ Len(Ran) = n /\ \A i \in 1..n : T[p + i] = Ran[i]
      BY ONLY EngineInv, <1>1, <2>1, <2>2, <2>3, RanTokens
    <3> QED
      BY ONLY <2>5, <2>9, <3>1
  <2>11. /\ s \in {0, 1} /\ ExpectedMtpLen(p) + s <= mtpPast
         /\ EntriesOf(First(w, p), ExpectedMtpLen(p))
         /\ p > 0 => pending = HiddenOf(First(w, p))
         /\ s = 1 => mtp[ExpectedMtpLen(p) + 1] = [token |-> r[1], hidden |-> pending]
    BY <1>1, <1>4, <2>1, <2>3, <2>4, <2>5, <2>9, KeptEntries
  <2>12. ExpectedMtpLen(p) \in Nat
    BY <2>9 DEF ExpectedMtpLen, Greatest
  <2>13. ExpectedMtpLen(p) + s <= Len(mtp)
    BY <1>2, <2>11, <2>12
  <2>14. CanSync(w, p, n, r, h, s)
    BY <1>2, <2>9, <2>10, <2>11, <2>13 DEF CanSync, StatesOf
  <2>15. /\ mtpPast' = p + n - 1
         /\ mtp' \in Seq(Entry) /\ Len(mtp') = Greatest(Len(mtp), p + n - 1)
         /\ \A j \in 1..(p + n - 1) :
                mtp'[j] = [token |-> w[j + 1], hidden |-> HiddenOf(First(w, j))]
         /\ pending' = HiddenOf(w)
    BY ONLY <1>1, <2>7, <2>14, Synced, Zenon
  <2>16. /\ mtpPast' = ExpectedMtpLen(Len(w)) /\ mtpPast' \in 0..NCtx /\ w # <<>>
         /\ Len(mtp') \in mtpPast'..NCtx
    <3>1. PICK c : c = Len(T)
      OBVIOUS
    <3>2. PICK d : d = Len(mtp)
      OBVIOUS
    <3>3. /\ p \in Nat /\ n \in Nat /\ n >= 1 /\ p + n <= c /\ c <= NCtx /\ NCtx \in Nat
          /\ d \in Nat /\ d <= NCtx
      BY <1>2, <2>9, <3>1, <3>2
    <3>8. c \in Nat
      BY <1>1, <2>1, <3>1, TextOfCall DEF EngineInv
    <3>4. Len(mtp') = IF d < p + n - 1 THEN p + n - 1 ELSE d
      BY <2>15, <3>2 DEF Greatest
    <3>5. p + n - 1 \in 0..NCtx /\ p + n # 0
      BY <3>3, <3>8
    <3>6. Len(mtp') \in (p + n - 1)..NCtx
      BY <3>3, <3>4, <3>5
    <3>7. ExpectedMtpLen(Len(w)) = p + n - 1
      BY <2>9, <3>3 DEF ExpectedMtpLen, Greatest
    <3> QED
      BY <2>9, <2>15, <3>5, <3>6, <3>7, EmptySeq
  <2>17. EntriesOf(w, mtpPast)'
    <3>1. \A u : HiddenOf(u)' = HiddenOf(u)
      BY <1>1, SameModel
    <3>2. \A j \in 1..mtpPast' :
              mtp'[j] = [token |-> w[j + 1], hidden |-> HiddenOf(First(w, j))]
      BY <2>15
    <3>3. \A j : First(w, j)' = First(w, j)
      OBVIOUS
    <3> QED
      BY <1>1, <3>2 DEF EntriesOf, HiddenOf, Hidden, Absorb, loaded
  <2>18. PendingAfter(w)' /\ HiddenOf(w) \in HiddenState
    <3>1. HiddenOf(w)' = HiddenOf(w)
      BY <1>1, SameModel
    <3>2. HiddenOf(w) \in HiddenState
      BY <2>9, Absorbed
    <3> QED
      BY <2>15, <2>16, <3>1, <3>2 DEF PendingAfter
  <2>19. DraftHeadFollows(w)'
    <3>1. ExpectedMtpLen(Len(w))' = ExpectedMtpLen(Len(w))
      BY DEF ExpectedMtpLen
    <3> QED
      BY <2>16, <2>17, <2>18, <3>1 DEF DraftHeadFollows
  <2> QED
    BY <2>15, <2>16, <2>18, <2>19
<1> QED
  BY <1>3, <1>4

-----------------------------------------------------------------------------
(* What stays true because nothing it speaks of changes. *)

LEMMA SameCaches ==
    ASSUME UNCHANGED <<loaded, kv, rec>>, NEW t, CachesHold(t)
    PROVE  CachesHold(t)'
BY DEF CachesHold, Absorb, loaded

LEMMA SameStates ==
    ASSUME UNCHANGED loaded, NEW states, NEW t, NEW p, StatesOf(states, t, p)
    PROVE  StatesOf(states, t, p)'
BY DEF StatesOf, HiddenOf, Hidden, Absorb, loaded

LEMMA SameHead ==
    ASSUME UNCHANGED <<loaded, mtpVars>>, NEW t, DraftHeadFollows(t)
    PROVE  DraftHeadFollows(t)'
BY DEF DraftHeadFollows, EntriesOf, PendingAfter, HasMtp, HiddenOf, Hidden, Absorb, loaded,
       mtpVars

LEMMA SameSamples ==
    ASSUME SampledFromItsHistory, UNCHANGED <<loaded, out>>
    PROVE  SampledFromItsHistory'
BY DEF SampledFromItsHistory, HiddenOf, Hidden, Absorb, loaded

LEMMA SyncStep ==
    ASSUME EngineInv, Sync
    PROVE  EngineInv'
<1>1. PICK T : T = CallText
  OBVIOUS
<1>2. PICK n : n = Len(call.hidden)
  OBVIOUS
<1>3. PICK p : p = Position
  OBVIOUS
<1>4. PICK w : w = First(T, p + n)
  OBVIOUS
<1>5. /\ pc = "sync" /\ UNCHANGED <<loaded, past, kv, kvLen, rec, history, out>>
      /\ UNCHANGED <<loaded, kv, rec>>
  BY DEF Sync, textVars
<1>6. /\ T \in Seq(Token) /\ p \in Nat /\ n \in Nat \ {0} /\ p + n <= Len(T)
      /\ w \in Seq(Token) /\ Len(w) = p + n /\ CachesHold(w)
      /\ StatesOf(call.hidden, T, p)
  BY <1>1, <1>2, <1>3, <1>4, <1>5, AtSync
<1>7. /\ DraftHeadFollows(w)'
      /\ mtp' \in Seq(Entry) /\ mtpPast' \in 0..NCtx /\ Len(mtp') \in mtpPast'..NCtx
      /\ pending' \in HiddenState
  <2>1. w = First(CallText, Position + Len(call.hidden))
    BY <1>1, <1>2, <1>3, <1>4
  <2> QED
    BY <2>1, DraftHeadSynced
<1>8. CachesHold(w)'
  BY <1>5, <1>6, SameCaches
<1>9. SampledFromItsHistory'
  BY <1>5, SameSamples DEF EngineInv
<1>10. /\ \/ call.op = "speculate" /\ call' = NoCall /\ pc' = "idle" /\ result' = "ok"
          \/ call.op # "speculate" /\ call' = call /\ pc' = "commit" /\ result' = result
       /\ call' \in Calls
  BY NoCallTyped DEF Sync, Return, EngineInv, Types
<1>11. Types'
  <2>1. call'.inputs \in Seq(Token) /\ call'.hidden \in Seq(HiddenState)
    BY <1>10 DEF Calls
  <2>2. /\ past' \in 0..NCtx /\ kvLen' \in 0..NCtx /\ kv' \in Seq(Token)
        /\ Len(kv') \in kvLen'..NCtx /\ rec' \in Seq(Token) /\ history' \in Seq(Token)
        /\ out' \in Seq([token : Token, hidden : HiddenState, history : Seq(Token)])
        /\ result' \in {"ok", "busy", "context", "desync", "fault"}
    BY <1>5, <1>10 DEF EngineInv, Types, TypeOK
  <2>3. recurrent' \in BOOLEAN /\ mtpDraftTokens' \in Nat
    BY <1>5 DEF EngineInv, Types, loaded
  <2> QED
    BY <1>7, <1>10, <2>1, <2>2, <2>3 DEF Types, TypeOK, Entry
<1>12. CASE call.op = "speculate"
  <2>1. call' = NoCall /\ pc' = "idle" /\ result' = "ok"
    BY <1>10, <1>12
  <2>2. p = call.start /\ n = call.kept /\ past = call.start + n /\ kvLen = past
    BY <1>2, <1>3, <1>5, <1>12 DEF Position, EngineInv, SyncInv, BusyInv
  <2>3. history = First(T, call.start + call.kept)
    BY <1>1, <1>5, <1>12 DEF EngineInv, BusyInv
  <2>4. history' = w /\ past' = Len(w) /\ kvLen' = past'
    BY <1>4, <1>5, <1>6, <2>2, <2>3
  <2>5. IdleInv'
    BY <1>7, <1>8, <2>1, <2>4 DEF IdleInv, Healthy
  <2> QED
    BY <1>9, <1>11, <2>1, <2>5, Between
<1>13. CASE call.op # "speculate"
  <2>1. call' = call /\ pc' = "commit" /\ result' = result
    BY <1>10, <1>13
  <2>2. p = past /\ CallText' = T /\ Position' = p
    BY <1>1, <1>3, <1>5, <1>13, <2>1 DEF Position, CallText
  <2>3. BusyInv'
    BY <1>1, <1>5, <1>13, <2>1, <2>2 DEF EngineInv, BusyInv
  <2>4. HiddenFrom(T, p)'
    <3>1. PICK h : h = call.hidden
      OBVIOUS
    <3>2. StatesOf(h, T, p)'
      BY <1>5, <1>6, <3>1, SameStates
    <3> QED
      BY <2>1, <3>1, <3>2 DEF HiddenFrom
  <2>5. SyncInv'
    <3>1. Len(call'.hidden) = n /\ past' = p /\ First(CallText', p + n) = w
      BY <1>2, <1>4, <1>5, <2>1, <2>2
    <3>2. /\ call'.start <= p /\ 1 <= n /\ p + n <= call'.start + Len(call'.inputs)
      BY <1>2, <1>3, <1>5, <2>1 DEF EngineInv, SyncInv
    <3> QED
      BY <1>7, <1>8, <1>13, <2>1, <2>2, <2>4, <3>1, <3>2 DEF SyncInv
  <2>6. IdleInv' /\ RunInv' /\ DraftsInv' /\ VerifyInv'
    BY <1>13, <2>1 DEF IdleInv, RunInv, DraftsInv, VerifyInv
  <2> QED
    BY <1>9, <1>11, <2>3, <2>5, <2>6 DEF EngineInv
<1> QED
  BY <1>12, <1>13

LEMMA CommitStep ==
    ASSUME EngineInv, NEW token \in Token, Commit(token)
    PROVE  EngineInv'
<1>1. PICK T : T = CallText
  OBVIOUS
<1>2. PICK n : n = Len(call.hidden)
  OBVIOUS
<1>3. PICK p : p = Position
  OBVIOUS
<1>4. PICK w : w = First(T, p + n)
  OBVIOUS
<1>5. pc = "commit" /\ past' = past + n /\ kvLen' = past + n
      /\ UNCHANGED <<loaded, kv, rec, mtpVars>>
  BY <1>2 DEF Commit
<1>6. /\ T \in Seq(Token) /\ p \in Nat /\ n \in Nat \ {0} /\ p + n <= Len(T)
      /\ Len(T) = call.start + Len(call.inputs) /\ Len(T) <= NCtx
      /\ w \in Seq(Token) /\ Len(w) = p + n /\ CachesHold(w)
      /\ call.hidden \in Seq(HiddenState) /\ call.hidden[n] = HiddenOf(w)
  BY <1>1, <1>2, <1>3, <1>4, <1>5, AtSync
<1>7. /\ call.op \in {"prefill", "decode"} /\ p = past /\ result = "busy" /\ out = <<>>
      /\ call.start <= p /\ call \in Calls /\ call.start \in Nat
      /\ call.op = "prefill" => history = T
      /\ call.op = "decode" =>
             Len(history) = call.start /\ Len(call.inputs) = 1 /\ p = call.start
      /\ DraftHeadFollows(w) /\ history \in Seq(Token) /\ NCtx \in Nat
      /\ Len(kv) \in Nat /\ Len(kv) <= NCtx /\ Len(w) <= Len(kv)
  <2>1. call.op \in {"prefill", "decode"}
    BY <1>5 DEF EngineInv, Types, Calls, Ops, BusyInv
  <2>2. p = past
    BY <1>3, <2>1 DEF Position
  <2>3. DraftHeadFollows(w)
    BY <1>1, <1>2, <1>4, <1>5, <2>1, <2>2 DEF EngineInv, SyncInv
  <2>4. call.start <= p /\ result = "busy" /\ out = <<>>
    BY <1>3, <1>5, <2>1 DEF EngineInv, SyncInv, BusyInv
  <2>5. /\ call.op = "prefill" => history = T
        /\ call.op = "decode" =>
               Len(history) = call.start /\ Len(call.inputs) = 1 /\ p = call.start
    BY <1>1, <1>5, <2>2 DEF EngineInv, BusyInv
  <2>6. /\ call \in Calls /\ call.start \in Nat /\ history \in Seq(Token) /\ NCtx \in Nat
        /\ Len(kv) \in Nat /\ Len(kv) <= NCtx
    BY LenProperties, EngineAssumption DEF EngineInv, Types, TypeOK, Calls
  <2> QED
    BY <1>6, <2>1, <2>2, <2>3, <2>4, <2>5, <2>6 DEF CachesHold
<1>8. CachesHold(w)' /\ DraftHeadFollows(w)'
  BY <1>5, <1>6, <1>7, SameCaches, SameHead
<1>9. history' = T /\ (call.op = "decode" => w = T)
  <2>1. CASE call.op = "prefill"
    BY <1>7, <2>1 DEF Commit
  <2>2. CASE call.op = "decode"
    <3>1. First(history, call.start) = history
      BY <1>7, <2>2, PrefixWhole
    <3>2. T = history \o call.inputs
      BY <1>1, <3>1 DEF CallText
    <3>3. p + n = Len(T)
      <4>1. PICK c : c = Len(T)
        OBVIOUS
      <4>2. c = p + 1 /\ p + n <= c /\ p \in Nat /\ n \in Nat \ {0}
        BY <1>6, <1>7, <2>2, <4>1
      <4> QED
        BY <4>1, <4>2
    <3>4. w = T
      BY <1>4, <1>6, <3>3, PrefixWhole
    <3> QED
      BY <2>2, <3>2, <3>4 DEF Commit
  <2> QED
    BY <1>7, <2>1, <2>2
<1>10. /\ past' = p + n /\ kvLen' = p + n /\ p + n \in 0..NCtx /\ Len(kv) \in (p + n)..NCtx
       /\ Len(w) = p + n
  <2>1. PICK c : c = Len(T)
    OBVIOUS
  <2>2. PICK d : d = Len(kv)
    OBVIOUS
  <2>3. /\ p \in Nat /\ n \in Nat /\ p + n <= c /\ c <= NCtx /\ c \in Nat /\ NCtx \in Nat
        /\ d \in Nat /\ d <= NCtx /\ p + n <= d
    BY <1>6, <1>7, <2>1, <2>2, LenProperties
  <2>4. p + n \in 0..NCtx /\ d \in (p + n)..NCtx
    BY ONLY <2>3
  <2> QED
    BY <1>5, <1>6, <1>7, <2>2, <2>4
<1>11. ASSUME call' \in Calls, pc' \in {"idle", "run"}, result' \in {"ok", "busy"},
              out' \in Seq([token : Token, hidden : HiddenState, history : Seq(Token)])
       PROVE  Types'
  <2>1. call'.inputs \in Seq(Token) /\ call'.hidden \in Seq(HiddenState)
    BY <1>11 DEF Calls
  <2>2. /\ kv' \in Seq(Token) /\ Len(kv') \in kvLen'..NCtx /\ rec' \in Seq(Token)
        /\ history' \in Seq(Token) /\ mtpPast' \in 0..NCtx
        /\ mtp' \in Seq([token : Token, hidden : HiddenState])
        /\ Len(mtp') \in mtpPast'..NCtx /\ pending' \in HiddenState
    BY <1>5, <1>6, <1>9, <1>10 DEF EngineInv, Types, TypeOK, mtpVars
  <2>3. recurrent' \in BOOLEAN /\ mtpDraftTokens' \in Nat
    BY <1>5 DEF EngineInv, Types, loaded
  <2> QED
    BY <1>10, <1>11, <2>1, <2>2, <2>3 DEF Types, TypeOK
<1>12. CASE call.op = "prefill" /\ past + n < call.start + Len(call.inputs)
  <2>1. pc' = "run" /\ call' = call /\ out' = out /\ result' = result
    BY <1>2, <1>12 DEF Commit
  <2>2. Types'
    BY <1>7, <1>11, <2>1 DEF EngineInv, Types, TypeOK
  <2>3. CallText' = T
    <3>1. First(T, call.start) = First(history, call.start)
      BY <1>1, <1>5, TextOfCall DEF EngineInv
    <3> QED
      BY <1>1, <1>9, <2>1, <3>1 DEF CallText
  <2>4. BusyInv'
    <3>1. call.start <= Len(history')
      BY <1>6, <1>7, <1>9, <1>12
    <3> QED
      BY <1>5, <1>7, <1>9, <1>12, <2>1, <2>3, <3>1 DEF EngineInv, BusyInv
  <2>5. RunInv'
    <3>1. /\ call.start <= p + n /\ p + n < call.start + Len(call.inputs)
          /\ First(T, p + n) = w
      BY <1>4, <1>6, <1>7, <1>12
    <3> QED
      BY <1>8, <1>10, <2>1, <2>3, <3>1 DEF RunInv
  <2>6. IdleInv' /\ SyncInv' /\ DraftsInv' /\ VerifyInv'
    BY <1>12, <2>1 DEF IdleInv, SyncInv, DraftsInv, VerifyInv
  <2>7. SampledFromItsHistory'
    BY <1>5, <2>1, SameSamples DEF EngineInv
  <2> QED
    BY <2>2, <2>4, <2>5, <2>6, <2>7 DEF EngineInv
<1>13. CASE ~(call.op = "prefill" /\ past + n < call.start + Len(call.inputs))
  <2>1. /\ pc' = "idle" /\ call' = NoCall /\ result' = "ok"
        /\ out' = <<Sampled(token, call.hidden[n], history')>>
    BY <1>2, <1>13 DEF Commit, Return
  <2>2. w = T
    <3>1. CASE call.op = "prefill"
      <4>1. PICK c : c = Len(T)
        OBVIOUS
      <4>2. c \in Nat /\ p + n <= c /\ ~(p + n < c) /\ p \in Nat /\ n \in Nat
        BY <1>6, <1>7, <1>13, <3>1, <4>1, LenProperties
      <4>3. p + n = Len(T)
        BY <4>1, <4>2
      <4> QED
        BY <1>4, <1>6, <4>3, PrefixWhole
    <3> QED
      BY <1>7, <1>9, <3>1
  <2>3. out' = <<Sampled(token, HiddenOf(w), w)>> /\ HiddenOf(w) \in HiddenState
    BY <1>6, <1>9, <2>1, <2>2, Absorbed
  <2>4. Types'
    <3>1. Sampled(token, HiddenOf(w), w) \in
              [token : Token, hidden : HiddenState, history : Seq(Token)]
      BY <1>6, <2>3 DEF Sampled
    <3>2. out' \in Seq([token : Token, hidden : HiddenState, history : Seq(Token)])
      BY <2>3, <3>1
    <3> QED
      BY <1>11, <2>1, <3>2, NoCallTyped
  <2>5. IdleInv'
    BY <1>8, <1>9, <1>10, <2>1, <2>2 DEF IdleInv, Healthy
  <2>6. SampledFromItsHistory'
    <3>1. HiddenOf(w)' = HiddenOf(w)
      BY <1>5, SameModel
    <3>2. DOMAIN out' = {1} /\ out'[1].hidden = HiddenOf(w) /\ out'[1].history = w
      BY <2>3 DEF Sampled
    <3> QED
      BY <3>1, <3>2 DEF SampledFromItsHistory
  <2> QED
    BY <2>1, <2>4, <2>5, <2>6, Between
<1> QED
  BY <1>12, <1>13

-----------------------------------------------------------------------------
(* Speculation: a draft, the verification, and the accept loop. *)

LEMMA HeadOfText ==
    ASSUME NEW h \in Seq(Token), NEW b \in Nat, b <= Len(h), NEW v \in Seq(Token)
    PROVE  First(First(h, b) \o v, b) = First(h, b)
<1>1. PICK f : f = First(h, b)
  OBVIOUS
<1>2. b \in 0..Len(h)
  BY LenProperties
<1>3. f \in Seq(Token) /\ Len(f) = b
  BY ONLY <1>1, <1>2, Prefix, h \in Seq(Token)
<1>4. b \in 0..Len(f)
  BY <1>3
<1>5. First(f \o v, b) = First(f, b)
  BY ONLY <1>3, <1>4, PrefixOfJoin, v \in Seq(Token)
<1>6. First(f, b) = f
  BY <1>3, PrefixWhole
<1> QED
  BY <1>1, <1>5, <1>6

(* What a speculative call has while it drafts, verifies and accepts. *)
LEMMA Speculating ==
    ASSUME EngineInv, pc \in {"draft", "accept", "rewind", "replay"}
    PROVE  /\ call.op = "speculate" /\ HasMtp /\ call \in Calls /\ result = "busy"
           /\ kvLen = past /\ call.start \in Nat /\ call.start <= Len(history)
           /\ call.inputs \in Seq(Token) /\ Len(call.inputs) \in Nat \ {0}
           /\ call.kept \in Nat /\ call.kept <= Len(call.inputs)
           /\ NCtx \in Nat /\ call.start + Len(call.inputs) <= NCtx
           /\ history \in Seq(Token) /\ history = First(CallText, call.start + call.kept)
           /\ CallText \in Seq(Token) /\ Len(CallText) = call.start + Len(call.inputs)
           /\ First(CallText, call.start) = First(history, call.start)
           /\ First(CallText, call.start) \in Seq(Token)
           /\ Len(First(CallText, call.start)) = call.start
           /\ kv \in Seq(Token) /\ Len(kv) \in Nat /\ Len(kv) <= NCtx
<1>1. pc # "idle" /\ Types /\ BusyInv
  BY DEF EngineInv
<1>2. call.op = "speculate"
  BY DEF EngineInv, BusyInv
<1>3. /\ call.start \in Nat /\ call.inputs \in Seq(Token)
      /\ Len(call.inputs) \in Nat \ {0} /\ NCtx \in Nat
      /\ CallText \in Seq(Token) /\ Len(CallText) = call.start + Len(call.inputs)
      /\ First(CallText, call.start) = First(history, call.start)
      /\ First(history, call.start) \in Seq(Token)
      /\ Len(First(history, call.start)) = call.start
  BY <1>1, TextOfCall
<1>4. /\ call \in Calls /\ history \in Seq(Token) /\ call.kept \in Nat
      /\ kv \in Seq(Token) /\ Len(kv) \in Nat /\ Len(kv) <= NCtx
  BY <1>1, <1>3, LenProperties DEF Types, TypeOK, Calls
<1> QED
  BY <1>1, <1>2, <1>3, <1>4 DEF BusyInv

LEMMA DraftStep ==
    ASSUME EngineInv, NEW token \in Token, Draft(token)
    PROVE  EngineInv'
<1>1. PICK d : d = Len(call.inputs)
  OBVIOUS
<1>2. PICK b : b = ExpectedMtpLen(call.start)
  OBVIOUS
<1>3. PICK at : at = b + d - 1
  OBVIOUS
<1>4. PICK v : v = call.inputs
  OBVIOUS
<1>5. PICK q : q = pending
  OBVIOUS
<1>6. PICK e : e = [token |-> v[d], hidden |-> IF d = 1 THEN q ELSE Guess]
  OBVIOUS
<1>7. PICK h : h = history
  OBVIOUS
<1>8. PICK c : c = call.start
  OBVIOUS
<1>9. /\ pc = "draft" /\ d <= MaxDrafts
      /\ mtp' = Overwrite(mtp, at, <<e>>) /\ mtpPast' = at + 1
      /\ call' = [call EXCEPT !.inputs = Append(v, token)]
      /\ UNCHANGED <<loaded, past, kv, kvLen, rec, history, pending, pc, out, result>>
  BY <1>1, <1>2, <1>3, <1>4, <1>5, <1>6 DEF Draft, textVars
<1>10. /\ call.op = "speculate" /\ HasMtp /\ call \in Calls /\ result = "busy"
       /\ c \in Nat /\ c <= Len(h) /\ v \in Seq(Token) /\ d \in Nat \ {0} /\ d = Len(v)
       /\ NCtx \in Nat /\ c + d <= NCtx /\ h \in Seq(Token)
       /\ First(CallText, c) = First(h, c)
  BY <1>1, <1>4, <1>7, <1>8, <1>9, Speculating
<1>11. c + d + 1 <= NCtx
  <2>1. PICK x : x = Greatest(0, call.maxOut - 1)
    OBVIOUS
  <2>2. PICK y : y = Least(NCtx - c - 1, x)
    OBVIOUS
  <2>3. PICK z : z = Least(mtpDraftTokens, y)
    OBVIOUS
  <2>4. z = MaxDrafts
    BY <1>8, <2>1, <2>2, <2>3, Zenon DEF MaxDrafts
  <2>5. call.maxOut \in Nat /\ mtpDraftTokens \in Nat
    BY <1>10 DEF EngineInv, Types, Calls
  <2>6. x \in Int
    BY <2>1, <2>5 DEF Greatest
  <2>7. y \in Int /\ y <= NCtx - c - 1
    BY <1>10, <2>2, <2>6 DEF Least
  <2>8. z \in Int /\ z <= y
    BY <2>3, <2>5, <2>7 DEF Least
  <2>9. d <= z
    BY <1>9, <2>4
  <2>10. d \in Nat /\ c \in Nat /\ NCtx \in Nat
    BY <1>10
  <2> QED
    BY ONLY <2>7, <2>8, <2>9, <2>10
<1>12. /\ mtp \in Seq(Entry) /\ mtpPast \in Nat /\ mtpPast <= Len(mtp) /\ Len(mtp) \in Nat
       /\ Len(mtp) <= NCtx /\ q \in HiddenState
  BY <1>5, <1>10, LenProperties DEF EngineInv, Types, TypeOK, Entry
<1>13. /\ mtpPast = at /\ EntriesOf(First(h, c), b) /\ PendingAfter(First(h, c))
       /\ q # NoHidden /\ (d > 1 => mtp[b + 1] = [token |-> v[1], hidden |-> q])
  BY <1>1, <1>2, <1>3, <1>4, <1>5, <1>8, <1>9, <1>10 DEF EngineInv, DraftsInv
<1>14. b \in Nat /\ b <= c /\ at \in Nat /\ at + 1 = b + d /\ b <= at /\ at + 1 <= NCtx
  <2>1. c \in Nat /\ d \in Nat \ {0} /\ NCtx \in Nat /\ c + d + 1 <= NCtx
    BY <1>10, <1>11
  <2>2. b = IF 0 < c - 1 THEN c - 1 ELSE 0
    BY <1>2, <1>8 DEF ExpectedMtpLen, Greatest
  <2>3. at = b + d - 1
    BY <1>3
  <2>4. b \in Nat /\ b <= c
    BY ONLY <2>1, <2>2
  <2> QED
    BY ONLY <2>1, <2>3, <2>4
<1>15. e \in Entry
  <2>1. v[d] \in Token
    BY <1>10, ElementOfSeq
  <2>2. Guess \in HiddenState
    BY NothingHeld, <1>10
  <2> QED
    BY <1>6, <1>12, <2>1, <2>2 DEF Entry
<1>16. /\ mtp' \in Seq(Entry) /\ Len(mtp') = Greatest(Len(mtp), at + 1)
       /\ \A j \in 1..at : mtp'[j] = mtp[j]
       /\ mtp'[at + 1] = e
  <2>1. PICK x : x = <<e>>
    OBVIOUS
  <2>2. x \in Seq(Entry) /\ Len(x) = 1 /\ x[1] = e /\ 1 \in 1..Len(x)
    BY <1>15, <2>1
  <2>3. at \in 0..Len(mtp)
    BY <1>12, <1>13, <1>14
  <2>4. mtp \in Seq(Entry) /\ x \in Seq(Entry) /\ at \in 0..Len(mtp)
    BY <1>12, <2>2, <2>3
  <2>5. /\ Overwrite(mtp, at, x) \in Seq(Entry)
        /\ Len(Overwrite(mtp, at, x)) = Greatest(Len(mtp), at + Len(x))
    BY ONLY <2>4, Overwritten
  <2>6. \A j \in 1..at : Overwrite(mtp, at, x)[j] = mtp[j]
    BY ONLY <2>4, Overwritten
  <2>9. \A j \in 1..Len(x) : Overwrite(mtp, at, x)[at + j] = x[j]
    BY ONLY <2>4, Overwritten
  <2>7. mtp' = Overwrite(mtp, at, x)
    BY <1>9, <2>1
  <2>8. Overwrite(mtp, at, x)[at + 1] = e
    BY <2>2, <2>9
  <2> QED
    BY ONLY <2>2, <2>5, <2>6, <2>7, <2>8
<1>17. PICK u : u = Append(v, token)
  OBVIOUS
<1>18. u \in Seq(Token) /\ Len(u) = d + 1 /\ u[1] = v[1]
  BY <1>10, <1>17, AppendProperties
<1>19. /\ call' \in Calls /\ call'.inputs = u /\ call'.start = c /\ call'.op = call.op
       /\ call'.kept = call.kept /\ call'.hidden = call.hidden
  BY <1>8, <1>9, <1>10, <1>17, <1>18 DEF Calls
<1>20. First(CallText', c) = First(h, c) /\ CallText' = First(h, c) \o u
  <2>1. CallText' = First(h, c) \o u
    BY <1>7, <1>9, <1>19 DEF CallText
  <2> QED
    BY <1>10, <1>18, <2>1, HeadOfText
<1>21. /\ past = c /\ call.kept = 0 /\ CachesHold(First(h, c))
       /\ h = First(CallText, c) /\ Len(out) = 0 /\ kvLen = past
  <2>1. past = c /\ call.kept = 0 /\ CachesHold(First(h, c))
    BY <1>8, <1>9, <1>10 DEF EngineInv, VerifyInv
  <2>2. c + 0 = c
    BY <1>10
  <2> QED
    BY <1>7, <1>8, <1>9, <1>10, <2>1, <2>2 DEF EngineInv, BusyInv
<1>22. Types'
  <2>1. mtpPast' \in 0..NCtx /\ Len(mtp') \in mtpPast'..NCtx
    <3>1. PICK x : x = Len(mtp)
      OBVIOUS
    <3>2. Len(mtp') = IF x < at + 1 THEN at + 1 ELSE x
      BY <1>16, <3>1 DEF Greatest
    <3>3. x \in Nat /\ x <= NCtx /\ at \in Nat /\ at + 1 <= NCtx /\ NCtx \in Nat
      BY <1>10, <1>12, <1>14, <3>1
    <3>4. at + 1 \in 0..NCtx /\ Len(mtp') \in (at + 1)..NCtx
      BY ONLY <3>2, <3>3
    <3> QED
      BY <1>9, <3>4
  <2>2. call'.hidden \in Seq(HiddenState)
    BY <1>19 DEF Calls
  <2> QED
    BY <1>9, <1>16, <1>18, <1>19, <2>1, <2>2 DEF EngineInv, Types, TypeOK, Entry, loaded
<1>23. BusyInv'
  <2>1. HasMtp'
    BY <1>9, <1>10, SameModel
  <2>2. u # <<>> /\ c + Len(u) <= NCtx /\ 0 <= Len(u) /\ c + 0 = c
    BY <1>10, <1>11, <1>18, EmptySeq
  <2>3. history' = First(CallText', c + call'.kept)
    <3>1. call'.kept = 0 /\ history' = h /\ h = First(h, c) /\ c + 0 = c
      BY <1>7, <1>9, <1>10, <1>19, <1>21, <2>2
    <3> QED
      BY <1>20, <3>1
  <2>4. /\ call'.kept = 0 /\ call'.inputs = u /\ call'.start = c /\ call'.op = "speculate"
        /\ Len(out') = 0 /\ pc' = "draft" /\ result' = "busy" /\ kvLen' = past'
        /\ c <= Len(history')
    BY <1>7, <1>9, <1>10, <1>19, <1>21
  <2>5. 1..0 = {} /\ 1..(0 - 1) = {}
    OBVIOUS
  <2> QED
    BY <2>1, <2>2, <2>3, <2>4, <2>5 DEF BusyInv
<1>24. DraftsInv'
  <2>1. mtpPast' = b + Len(u) - 1
    BY <1>9, <1>10, <1>14, <1>18
  <2>2. EntriesOf(First(h, c), b)'
    <3>1. \A j \in 1..b : mtp'[j] = mtp[j]
      BY <1>14, <1>16
    <3> QED
      BY <1>9, <1>13, <3>1 DEF EntriesOf, HiddenOf, Hidden, Absorb, loaded
  <2>3. PendingAfter(First(h, c))' /\ pending' = q
    BY <1>5, <1>9, <1>13 DEF PendingAfter, HiddenOf, Hidden, Absorb, loaded
  <2>4. mtp'[b + 1] = [token |-> u[1], hidden |-> q]
    <3>1. CASE d = 1
      BY <1>6, <1>14, <1>16, <1>18, <3>1
    <3>2. CASE d # 1
      <4>1. d > 1 /\ b + 1 \in 1..at
        BY <1>10, <1>14, <3>2
      <4> QED
        BY <1>13, <1>16, <1>18, <4>1
    <3> QED
      BY <3>1, <3>2
  <2>5. ExpectedMtpLen(c) = b
    BY <1>2, <1>8
  <2> QED
    BY <1>13, <1>19, <1>20, <2>1, <2>2, <2>3, <2>4, <2>5 DEF DraftsInv
<1>25. VerifyInv'
  <2>1. CachesHold(First(h, c))'
    <3>1. PICK t : t = First(h, c)
      OBVIOUS
    <3>2. CachesHold(t)'
      BY <1>9, <1>21, <3>1, SameCaches
    <3> QED
      BY <3>1, <3>2
  <2> QED
    BY <1>9, <1>19, <1>20, <1>21, <2>1 DEF VerifyInv
<1>26. IdleInv' /\ RunInv' /\ SyncInv'
  BY <1>9 DEF IdleInv, RunInv, SyncInv
<1>27. SampledFromItsHistory'
  BY <1>9, SameSamples DEF EngineInv
<1> QED
  BY <1>22, <1>23, <1>24, <1>25, <1>26, <1>27 DEF EngineInv

LEMMA KeepsDrafts ==
    ASSUME DraftsInv, pc # "idle", call.op = "speculate", CallText' = CallText,
           call'.start = call.start, call'.inputs = call.inputs, UNCHANGED <<loaded, mtpVars>>
    PROVE  DraftsInv'
<1>1. PICK t : t = First(CallText, call.start)
  OBVIOUS
<1>2. PICK b : b = ExpectedMtpLen(call.start)
  OBVIOUS
<1>3. /\ mtpPast = b + Len(call.inputs) - 1
      /\ EntriesOf(t, b) /\ PendingAfter(t) /\ pending # NoHidden
      /\ Len(call.inputs) > 1 =>
             mtp[b + 1] = [token |-> call.inputs[1], hidden |-> pending]
  BY <1>1, <1>2 DEF DraftsInv
<1>4. EntriesOf(t, b)' /\ PendingAfter(t)'
  BY <1>3 DEF EntriesOf, PendingAfter, HiddenOf, Hidden, Absorb, loaded, mtpVars
<1>5. /\ t = First(CallText', call'.start) /\ b = ExpectedMtpLen(call'.start)
      /\ mtpPast' = mtpPast /\ mtp' = mtp /\ pending' = pending
  BY <1>1, <1>2 DEF mtpVars
<1> QED
  BY <1>3, <1>4, <1>5 DEF DraftsInv

(* Steps of a speculative call that accept nothing keep what was accepted, and *)
(* the draft head's cache.                                                     *)
LEMMA KeepsSpeculating ==
    ASSUME EngineInv, pc \in {"draft", "accept", "rewind", "replay"},
           pc' \in {"accept", "rewind", "replay", "sync"}, kvLen' = past',
           call'.op = call.op, call'.start = call.start, call'.inputs = call.inputs,
           call'.kept = call.kept,
           UNCHANGED <<loaded, history, mtpVars, out, result>>
    PROVE  /\ CallText' = CallText /\ BusyInv' /\ DraftsInv' /\ IdleInv' /\ RunInv'
           /\ SampledFromItsHistory'
<1>1. CallText' = CallText /\ call.op = "speculate"
  BY Speculating DEF CallText
<1>2. BusyInv'
  <2>1. HasMtp' = HasMtp
    BY SameModel
  <2> QED
    BY <1>1, <2>1 DEF EngineInv, BusyInv
<1>3. DraftsInv'
  BY <1>1, KeepsDrafts DEF EngineInv
<1>4. IdleInv' /\ RunInv' /\ SampledFromItsHistory'
  BY SameSamples DEF EngineInv, IdleInv, RunInv
<1> QED
  BY <1>1, <1>2, <1>3, <1>4

LEMMA VerifyStep ==
    ASSUME EngineInv, Verify
    PROVE  EngineInv'
<1>1. PICK T : T = CallText
  OBVIOUS
<1>2. PICK c : c = call.start
  OBVIOUS
<1>3. PICK v : v = call.inputs
  OBVIOUS
<1>4. PICK t : t = First(T, c)
  OBVIOUS
<1>5. PICK states : states = HiddenStates(v, past)
  OBVIOUS
<1>6. PICK saved : saved = IF recurrent /\ Len(v) > 1 THEN <<rec>> ELSE <<>>
  OBVIOUS
<1>7. /\ pc = "draft" /\ pc' = "accept"
      /\ kv' = Overwrite(kv, past, v) /\ rec' = Absorb(rec, v)
      /\ call' = [call EXCEPT !.hidden = states, !.saved = saved]
      /\ past' = past + Len(v) /\ kvLen' = past + Len(v)
      /\ UNCHANGED <<loaded, history, mtpVars, out, result>>
  BY <1>3, <1>5, <1>6 DEF Verify
<1>8. /\ call.op = "speculate" /\ HasMtp /\ call \in Calls
      /\ c \in Nat /\ v \in Seq(Token) /\ Len(v) \in Nat \ {0}
      /\ NCtx \in Nat /\ c + Len(v) <= NCtx /\ T \in Seq(Token) /\ Len(T) = c + Len(v)
      /\ t \in Seq(Token) /\ Len(t) = c
      /\ kv \in Seq(Token) /\ Len(kv) \in Nat /\ Len(kv) <= NCtx
  BY <1>1, <1>2, <1>3, <1>4, <1>7, Speculating
<1>9. T = t \o v
  <2>1. First(T, c) = First(history, c)
    BY <1>1, <1>2, <1>7, Speculating
  <2> QED
    BY <1>1, <1>2, <1>3, <1>4, <2>1 DEF CallText
<1>10. past = c /\ call.kept = 0 /\ CachesHold(t)
  BY <1>1, <1>2, <1>4, <1>7 DEF EngineInv, VerifyInv
<1>11. /\ kv' \in Seq(Token) /\ Len(kv') = Greatest(Len(kv), Len(T)) /\ CachesHold(T)'
       /\ states \in Seq(HiddenState) /\ Len(states) = Len(v) /\ StatesOf(states, T, c)
  <2>1. /\ kv \in Seq(Token) /\ t \in Seq(Token) /\ CachesHold(t) /\ v \in Seq(Token)
        /\ kv' = Overwrite(kv, Len(t), v) /\ T = t \o v
        /\ UNCHANGED loaded /\ rec' = Absorb(rec, v)
    BY <1>7, <1>8, <1>9, <1>10
  <2>2. kv' \in Seq(Token) /\ Len(kv') = Greatest(Len(kv), Len(T))
    BY ONLY <2>1, TargetRan, ZenonT(60)
  <2>3. CachesHold(T)'
    BY ONLY <2>1, TargetRan
  <2>4. /\ HiddenStates(v, Len(t)) \in Seq(HiddenState)
        /\ Len(HiddenStates(v, Len(t))) = Len(v)
        /\ StatesOf(HiddenStates(v, Len(t)), T, Len(t))
    BY ONLY <2>1, TargetRan
  <2> QED
    BY <1>5, <1>8, <1>10, <2>2, <2>3, <2>4
<1>12. saved = (IF recurrent /\ Len(v) > 1 THEN <<t>> ELSE <<>>) /\ saved \in Seq(Seq(Token))
  <2>1. recurrent => rec = t
    BY <1>8, <1>10, ConcatEmptySeq DEF CachesHold, Absorb
  <2> QED
    BY <1>6, <1>8, <2>1
<1>13. /\ call' \in Calls /\ call'.hidden = states /\ call'.saved = saved
       /\ call'.op = call.op /\ call'.start = call.start /\ call'.inputs = call.inputs
       /\ call'.kept = call.kept
  BY <1>7, <1>8, <1>11, <1>12 DEF Calls
<1>14. /\ CallText' = CallText /\ BusyInv' /\ DraftsInv' /\ IdleInv' /\ RunInv'
       /\ SampledFromItsHistory'
  BY <1>7, <1>13, KeepsSpeculating
<1>15. Types'
  <2>1. past' \in 0..NCtx /\ Len(kv') \in kvLen'..NCtx /\ kvLen' \in 0..NCtx
    <3>1. PICK x : x = Len(kv)
      OBVIOUS
    <3>2. PICK y : y = Len(v)
      OBVIOUS
    <3>3. Len(kv') = IF x < c + y THEN c + y ELSE x
      BY <1>8, <1>11, <3>1, <3>2 DEF Greatest
    <3>4. /\ x \in Nat /\ x <= NCtx /\ c \in Nat /\ y \in Nat /\ c + y <= NCtx
          /\ NCtx \in Nat
      BY <1>8, <3>1, <3>2
    <3>5. c + y \in 0..NCtx /\ Len(kv') \in (c + y)..NCtx
      BY ONLY <3>3, <3>4
    <3> QED
      BY <1>7, <1>10, <3>2, <3>5
  <2>2. rec' \in Seq(Token)
    <3>1. rec' = Absorb(<<>>, T)
      BY <1>7, <1>11, SameModel DEF CachesHold
    <3> QED
      BY <1>8, <3>1, Absorbed
  <2>3. call'.inputs \in Seq(Token)
    BY <1>13 DEF Calls
  <2> QED
    BY <1>7, <1>11, <1>13, <2>1, <2>2, <2>3 DEF EngineInv, Types, TypeOK, loaded, mtpVars
<1>16. VerifyInv'
  <2>1. HiddenFrom(T, c)'
    <3>1. StatesOf(states, T, c)'
      BY <1>7, <1>11, SameStates
    <3> QED
      BY <1>13, <3>1 DEF HiddenFrom
  <2>2. past' = c + Len(v) /\ recurrent' = recurrent /\ 0 < Len(v)
    BY <1>7, <1>8, <1>10 DEF loaded
  <2>3. call'.start = c /\ call'.inputs = v /\ call'.kept = 0 /\ CallText' = T
    BY <1>1, <1>2, <1>3, <1>10, <1>13, <1>14
  <2> QED
    BY <1>4, <1>7, <1>11, <1>12, <1>13, <2>1, <2>2, <2>3 DEF VerifyInv
<1>17. SyncInv'
  BY <1>7 DEF SyncInv
<1> QED
  BY <1>14, <1>15, <1>16, <1>17 DEF EngineInv

LEMMA PrefixAppended ==
    ASSUME NEW S, NEW s \in Seq(S), NEW n \in Nat, n + 1 <= Len(s)
    PROVE  Append(First(s, n), s[n + 1]) = First(s, n + 1)
<1>1. Len(s) \in Nat
  BY LenProperties
<1>2. n \in 0..Len(s) /\ n + 1 \in 0..Len(s) /\ n + 1 \in 1..Len(s)
  BY <1>1
<1>3. First(s, n) \in Seq(S) /\ Len(First(s, n)) = n /\ \A i \in 1..n : First(s, n)[i] = s[i]
  BY <1>2, Prefix
<1>4. /\ First(s, n + 1) \in Seq(S) /\ Len(First(s, n + 1)) = n + 1
      /\ \A i \in 1..(n + 1) : First(s, n + 1)[i] = s[i]
  BY <1>2, Prefix
<1>5. PICK a : a = Append(First(s, n), s[n + 1])
  OBVIOUS
<1>6. PICK f : f = First(s, n)
  OBVIOUS
<1>7. s[n + 1] \in S
  BY <1>2, ElementOfSeq
<1>8. /\ a \in Seq(S) /\ Len(a) = n + 1 /\ \A i \in 1..n : a[i] = f[i]
      /\ a[n + 1] = s[n + 1]
  BY <1>3, <1>5, <1>6, <1>7, AppendProperties
<1>9. \A i \in 1..(n + 1) : a[i] = First(s, n + 1)[i]
  <2>1. ASSUME NEW i \in 1..(n + 1)
        PROVE  i \in 1..n \/ i = n + 1
    OBVIOUS
  <2> QED
    BY <2>1, <1>3, <1>4, <1>6, <1>8
<1>10. a = First(s, n + 1)
  BY <1>4, <1>8, <1>9, SeqEqual
<1> QED
  BY <1>5, <1>10

LEMMA AcceptStep ==
    ASSUME EngineInv, NEW token \in Token, NEW agrees \in BOOLEAN, Accept(token, agrees)
    PROVE  EngineInv'
<1>1. PICK T : T = CallText
  OBVIOUS
<1>2. PICK c : c = call.start
  OBVIOUS
<1>3. PICK v : v = call.inputs
  OBVIOUS
<1>4. PICK k : k = call.kept
  OBVIOUS
<1>5. PICK o : o = out
  OBVIOUS
<1>6. PICK states : states = call.hidden
  OBVIOUS
<1>7. PICK h : h = history'
  OBVIOUS
<1>8. /\ pc = "accept" /\ (agrees => k + 1 < Len(v) /\ token = v[k + 2])
      /\ h = Append(history, v[k + 1])
      /\ out' = Append(o, Sampled(token, states[k + 1], h))
      /\ call' = [call EXCEPT !.kept = k + 1]
      /\ pc' \in {"accept", "rewind"} /\ (pc' = "accept" => agrees)
      /\ UNCHANGED <<loaded, past, kv, kvLen, rec, mtpVars, result>>
  <2>1. pc = "accept"
    BY DEF Accept
  <2>2. k \in Nat
    BY <1>4, <2>1, Speculating
  <2>3. k + 1 + 1 = k + 2
    BY <2>2
  <2> QED
    BY <2>3, <1>3, <1>4, <1>5, <1>6, <1>7 DEF Accept
<1>9. /\ call.op = "speculate" /\ HasMtp /\ call \in Calls /\ result = "busy" /\ kvLen = past
      /\ c \in Nat /\ v \in Seq(Token) /\ Len(v) \in Nat \ {0} /\ k \in Nat
      /\ NCtx \in Nat /\ c + Len(v) <= NCtx /\ T \in Seq(Token) /\ Len(T) = c + Len(v)
      /\ history = First(T, c + k)
  BY <1>1, <1>2, <1>3, <1>4, <1>8, Speculating
<1>10. /\ k < Len(v) /\ past = c + Len(v) /\ CachesHold(T)
       /\ Len(states) = Len(v) /\ StatesOf(states, T, c)
       /\ call.saved = (IF recurrent /\ Len(v) > 1 THEN <<First(T, c)>> ELSE <<>>)
       /\ k > 0 => o[k].token = v[k + 1]
       /\ states \in Seq(HiddenState)
  BY <1>1, <1>2, <1>3, <1>4, <1>5, <1>6, <1>8
     DEF EngineInv, VerifyInv, HiddenFrom, Types, TypeOK
<1>11. /\ k + 1 \in 1..Len(v) /\ c + k \in Nat /\ c + k + 1 <= Len(T) /\ c + (k + 1) = c + k + 1
       /\ c \in 0..(c + k + 1) /\ c + k + 1 \in 0..Len(T) /\ c <= c + k + 1 /\ k + 1 <= Len(v)
  <2>1. PICK x : x = Len(v)
    OBVIOUS
  <2>2. x \in Nat /\ c \in Nat /\ k \in Nat /\ k < x /\ Len(T) = c + x
    BY <1>9, <1>10, <2>1
  <2> QED
    BY <2>1, <2>2
<1>12. h = First(T, c + k + 1) /\ h \in Seq(Token) /\ Len(h) = c + k + 1
  <2>1. T[c + k + 1] = v[k + 1]
    <3>1. \A i \in 1..Len(v) : T[c + i] = v[i]
      BY <1>1, <1>2, <1>3, <1>8, TextOfCall DEF EngineInv
    <3> QED
      BY <1>11, <3>1
  <2>2. Append(First(T, c + k), T[c + k + 1]) = First(T, c + k + 1)
    BY ONLY <1>9, <1>11, PrefixAppended
  <2>3. h = First(T, c + k + 1)
    BY <1>8, <1>9, <2>1, <2>2
  <2> QED
    BY ONLY <1>9, <1>11, <2>3, Prefix
<1>13. states[k + 1] = HiddenOf(h) /\ states[k + 1] \in HiddenState
  BY <1>10, <1>11, <1>12, ElementOfSeq DEF StatesOf
<1>14. /\ call' \in Calls /\ call'.op = call.op /\ call'.start = c /\ call'.inputs = v
       /\ call'.kept = k + 1 /\ call'.hidden = states /\ call'.saved = call.saved
  <2>1. k + 1 \in Nat
    BY <1>9
  <2> QED
    BY <1>2, <1>3, <1>6, <1>8, <1>9, <2>1 DEF Calls
<1>15. CallText' = T /\ First(T, c) = First(history, c)
  <2>1. First(h, c) = First(T, c)
    BY ONLY <1>9, <1>11, <1>12, PrefixOfPrefix
  <2>2. First(T, c) = First(history, c)
    BY <1>1, <1>2, <1>8, Speculating
  <2> QED
    BY <1>1, <1>2, <1>3, <1>7, <1>14, <2>1, <2>2 DEF CallText
<1>16. PICK e : e = Sampled(token, HiddenOf(h), h)
  OBVIOUS
<1>17. /\ Len(o) = k /\ \A i \in 1..k : o[i].history = First(T, c + i)
       /\ \A i \in 1..(k - 1) : o[i].token = v[i + 1]
       /\ o \in Seq([token : Token, hidden : HiddenState, history : Seq(Token)])
       /\ \A i \in 1..k : o[i].hidden = HiddenOf(o[i].history)
  <2>1. /\ Len(o) = k /\ \A i \in 1..k : o[i].history = First(T, c + i)
        /\ \A i \in 1..(k - 1) : o[i].token = v[i + 1]
    BY <1>1, <1>2, <1>3, <1>4, <1>5, <1>8, <1>9 DEF EngineInv, BusyInv
  <2>2. o \in Seq([token : Token, hidden : HiddenState, history : Seq(Token)])
    BY <1>5 DEF EngineInv, Types, TypeOK
  <2>3. DOMAIN o = 1..k
    BY <2>1, <2>2
  <2>4. \A i \in DOMAIN o : o[i].hidden = HiddenOf(o[i].history)
    BY <1>5 DEF EngineInv, SampledFromItsHistory
  <2> QED
    BY <2>1, <2>2, <2>3, <2>4
<1>18. e \in [token : Token, hidden : HiddenState, history : Seq(Token)]
  BY <1>12, <1>13, <1>16 DEF Sampled
<1>19. PICK p : p = out'
  OBVIOUS
<1>20. /\ p \in Seq([token : Token, hidden : HiddenState, history : Seq(Token)])
       /\ Len(p) = k + 1 /\ \A i \in 1..k : p[i] = o[i]
       /\ p[k + 1] = e /\ e.token = token /\ e.hidden = HiddenOf(h) /\ e.history = h
       /\ DOMAIN p = 1..(k + 1)
  <2>1. p = Append(o, e)
    BY <1>8, <1>13, <1>16, <1>19
  <2> QED
    BY <1>16, <1>17, <1>18, <2>1, AppendProperties DEF Sampled
<1>21. Types'
  <2>1. call'.inputs \in Seq(Token) /\ call'.hidden \in Seq(HiddenState)
    BY <1>14 DEF Calls
  <2> QED
    BY <1>7, <1>8, <1>12, <1>14, <1>19, <1>20, <2>1
       DEF EngineInv, Types, TypeOK, loaded, mtpVars
<1>22. \A i \in 1..(k + 1) : i \in 1..k \/ i = k + 1
  BY <1>9
<1>23. BusyInv'
  <2>1. HasMtp'
    BY <1>8, <1>9, SameModel
  <2>2. \A i \in 1..(k + 1) : p[i].history = First(T, c + i)
    BY <1>11, <1>12, <1>17, <1>20, <1>22
  <2>3. ASSUME NEW i \in 1..(k + 1 - 1)
        PROVE  p[i].token = v[i + 1]
    <3>1. i \in 1..k /\ (i \in 1..(k - 1) \/ (i = k /\ k > 0))
      BY <1>9
    <3> QED
      BY <1>10, <1>17, <1>20, <3>1
  <2>4. v # <<>> /\ c + Len(v) <= NCtx
    BY <1>9, EmptySeq
  <2>5. history' = First(CallText', c + (k + 1)) /\ c <= Len(history')
    BY <1>7, <1>11, <1>12, <1>15
  <2>6. /\ call'.op = "speculate" /\ call'.start = c /\ call'.inputs = v
        /\ call'.kept = k + 1 /\ k + 1 <= Len(v) /\ out' = p /\ Len(p) = k + 1
        /\ pc' \in {"accept", "rewind"} /\ result' = "busy" /\ kvLen' = past'
    BY <1>8, <1>9, <1>11, <1>14, <1>19, <1>20
  <2>7. \A i \in 1..call'.kept : out'[i].history = First(CallText', call'.start + i)
    BY <1>15, <2>2, <2>6
  <2>8. \A i \in 1..(call'.kept - 1) : out'[i].token = call'.inputs[i + 1]
    <3>4. call'.inputs = v
      BY <2>6
    <3>5. out' = p
      BY <2>6
    <3>3. call'.kept = k + 1
      BY <2>6
    <3>1. call'.kept - 1 = k + 1 - 1 /\ call'.inputs = v /\ out' = p
      BY <1>9, <3>3, <3>4, <3>5
    <3>2. \A i \in 1..(k + 1 - 1) : p[i].token = v[i + 1]
      BY <2>3
    <3> QED
      BY ONLY <3>1, <3>2
  <2>9. history' = First(CallText', call'.start + call'.kept)
    BY <2>5, <2>6
  <2>10. /\ call'.start <= Len(history') /\ call'.inputs # <<>>
         /\ call'.start + Len(call'.inputs) <= NCtx /\ call'.kept <= Len(call'.inputs)
         /\ Len(out') = call'.kept
    BY <2>4, <2>5, <2>6
  <2> QED
    BY <2>1, <2>6, <2>7, <2>8, <2>9, <2>10 DEF BusyInv
<1>24. DraftsInv'
  BY <1>1, <1>2, <1>3, <1>8, <1>9, <1>14, <1>15, KeepsDrafts DEF EngineInv
<1>25. VerifyInv'
  <2>1. CachesHold(T)'
    BY <1>8, <1>10, SameCaches
  <2>2. HiddenFrom(T, c)'
    <3>1. StatesOf(states, T, c)'
      BY <1>8, <1>10, SameStates
    <3> QED
      BY <1>14, <3>1 DEF HiddenFrom
  <2>3. pc' = "accept" => k + 1 < Len(v) /\ p[k + 1].token = v[(k + 1) + 1]
    <3>1. (k + 1) + 1 = k + 2
      BY <1>9
    <3> QED
      BY <1>8, <1>20, <3>1
  <2>4. k + 1 >= 1 /\ recurrent' = recurrent
    BY <1>8, <1>9 DEF loaded
  <2> QED
    BY <1>8, <1>10, <1>14, <1>15, <1>19, <2>1, <2>2, <2>3, <2>4 DEF VerifyInv
<1>26. SampledFromItsHistory'
  <2>1. \A i \in 1..(k + 1) : p[i].hidden = HiddenOf(p[i].history)
    BY <1>17, <1>20, <1>22
  <2> QED
    BY <1>8, <1>19, <1>20, <2>1 DEF SampledFromItsHistory, HiddenOf, Hidden, Absorb, loaded
<1>27. IdleInv' /\ RunInv' /\ SyncInv'
  BY <1>8 DEF IdleInv, RunInv, SyncInv
<1> QED
  BY <1>21, <1>23, <1>24, <1>25, <1>26, <1>27 DEF EngineInv

-----------------------------------------------------------------------------
(* The way back: the accepted inputs are kept, the other drafts forgotten. *)

LEMMA Rewinding ==
    ASSUME EngineInv, pc \in {"rewind", "replay"}, NEW T, T = CallText, NEW c, c = call.start,
           NEW k, k = call.kept, NEW v, v = call.inputs, NEW u, u = First(T, c + k)
    PROVE  /\ c \in Nat /\ k \in Nat /\ k >= 1 /\ k <= Len(v) /\ v \in Seq(Token)
           /\ Len(v) \in Nat /\ call \in Calls
           /\ T \in Seq(Token) /\ Len(T) = c + Len(v) /\ c + k <= Len(T) /\ Len(T) <= NCtx
           /\ NCtx \in Nat /\ call.op = "speculate"
           /\ First(T, c) \in Seq(Token) /\ Len(First(T, c)) = c
           /\ u \in Seq(Token) /\ Len(u) = c + k
           /\ First(v, k) \in Seq(Token) /\ Len(First(v, k)) = k
           /\ u = First(T, c) \o First(v, k)
           /\ kv \in Seq(Token) /\ Len(kv) \in Nat /\ Len(kv) <= NCtx
<1>1. /\ c \in Nat /\ k \in Nat /\ k <= Len(v) /\ v \in Seq(Token) /\ Len(v) \in Nat
      /\ T \in Seq(Token) /\ Len(T) = c + Len(v) /\ NCtx \in Nat /\ c + Len(v) <= NCtx
      /\ call.op = "speculate" /\ call \in Calls
      /\ First(T, c) \in Seq(Token) /\ Len(First(T, c)) = c
      /\ kv \in Seq(Token) /\ Len(kv) \in Nat /\ Len(kv) <= NCtx
  BY Speculating
<1>2. k >= 1
  BY DEF EngineInv, VerifyInv
<1>3. k \in 0..Len(v) /\ c + k \in 0..Len(T) /\ c + k <= Len(T)
  <2>1. PICK x : x = Len(v)
    OBVIOUS
  <2>2. PICK y : y = Len(T)
    OBVIOUS
  <2>3. x \in Nat /\ k \in Nat /\ k <= x /\ c \in Nat /\ y = c + x
    BY <1>1, <2>1, <2>2
  <2>4. k \in 0..x /\ c + k \in 0..y /\ c + k <= y
    BY ONLY <2>3
  <2> QED
    BY <2>1, <2>2, <2>4
<1>4. u \in Seq(Token) /\ Len(u) = c + k
  BY ONLY <1>1, <1>3, Prefix, u = First(T, c + k)
<1>5. First(v, k) \in Seq(Token) /\ Len(First(v, k)) = k
  BY ONLY <1>1, <1>3, Prefix
<1>6. u = First(T, c) \o First(v, k)
  <2>1. Types /\ BusyInv /\ pc # "idle" /\ 0 \in Nat /\ 0 + k <= Len(call.inputs)
    BY <1>1 DEF EngineInv
  <2>2. First(CallText, call.start + k) = First(CallText, call.start) \o First(call.inputs, k)
    BY ONLY <1>1, <2>1, InputsOfCall
  <2> QED
    BY <2>2
<1> QED
  BY <1>1, <1>2, <1>3, <1>4, <1>5, <1>6

(* Whichever way the caches came to hold the accepted text, the call goes on *)
(* to bring the draft head up to it.                                         *)
LEMMA Rewound ==
    ASSUME EngineInv, pc \in {"rewind", "replay"}, NEW T, T = CallText, NEW c, c = call.start,
           NEW k, k = call.kept, NEW states \in Seq(HiddenState), Len(states) = k,
           StatesOf(states, T, c), call' = [call EXCEPT !.hidden = states], pc' = "sync",
           past' = c + k, kvLen' = c + k, kv' \in Seq(Token), Len(kv') \in Nat,
           Len(kv') <= NCtx, NEW u, u = First(T, c + k), CachesHold(u)',
           UNCHANGED <<loaded, history, mtpVars, out, result>>
    PROVE  EngineInv'
<1>1. PICK v : v = call.inputs
  OBVIOUS
<1>2. /\ c \in Nat /\ k \in Nat /\ k >= 1 /\ k <= Len(v) /\ v \in Seq(Token)
      /\ Len(v) \in Nat /\ call \in Calls
      /\ T \in Seq(Token) /\ Len(T) = c + Len(v) /\ c + k <= Len(T) /\ Len(T) <= NCtx
      /\ NCtx \in Nat /\ call.op = "speculate" /\ u \in Seq(Token) /\ Len(u) = c + k
  BY <1>1, Rewinding
<1>3. /\ call' \in Calls /\ call'.hidden = states /\ call'.op = "speculate"
      /\ call'.start = c /\ call'.inputs = v /\ call'.kept = k
  BY <1>1, <1>2 DEF Calls
<1>4. /\ CallText' = T /\ BusyInv' /\ DraftsInv' /\ IdleInv' /\ RunInv'
      /\ SampledFromItsHistory'
  BY <1>1, <1>2, <1>3, KeepsSpeculating
<1>5. Types'
  <2>1. Len(u) <= Len(kv') /\ rec' = Absorb(<<>>, u)'
    BY DEF CachesHold
  <2>2. rec' \in Seq(Token)
    <3>1. rec' = Absorb(<<>>, u)
      BY <2>1, SameModel
    <3> QED
      BY <1>2, <3>1, Absorbed
  <2>3. c + k \in 0..NCtx /\ Len(kv') \in (c + k)..NCtx
    <3>1. PICK x : x = Len(T)
      OBVIOUS
    <3>2. PICK y : y = Len(kv')
      OBVIOUS
    <3>3. /\ c \in Nat /\ k \in Nat /\ x \in Nat /\ y \in Nat /\ NCtx \in Nat
          /\ c + k <= x /\ x <= NCtx /\ c + k <= y /\ y <= NCtx
      BY <1>2, <2>1, <3>1, <3>2, LenProperties
    <3>4. c + k \in 0..NCtx /\ y \in (c + k)..NCtx
      BY ONLY <3>3
    <3> QED
      BY <3>2, <3>4
  <2>4. call'.inputs \in Seq(Token) /\ call'.hidden \in Seq(HiddenState)
    BY <1>3 DEF Calls
  <2> QED
    BY <1>3, <2>2, <2>3, <2>4 DEF EngineInv, Types, TypeOK, loaded, mtpVars
<1>6. SyncInv'
  <2>1. StatesOf(states, T, c)'
    BY SameStates
  <2>2. HiddenFrom(T, c)'
    BY <1>3, <2>1 DEF HiddenFrom
  <2>3. Position' = c /\ Len(call'.hidden) = k
    BY <1>3 DEF Position
  <2>4. c <= c /\ 1 <= k /\ c + k <= c + Len(v)
    BY <1>2
  <2> QED
    BY <1>3, <1>4, <2>2, <2>3, <2>4 DEF SyncInv
<1>7. VerifyInv'
  BY DEF VerifyInv
<1> QED
  BY <1>4, <1>5, <1>6, <1>7 DEF EngineInv

(* The hidden states and the KV cells of the accepted inputs are the first of *)
(* what the verification left.                                                *)
LEMMA KeptOfVerified ==
    ASSUME EngineInv, pc = "rewind", NEW T, T = CallText, NEW c, c = call.start,
           NEW k, k = call.kept, NEW u, u = First(T, c + k)
    PROVE  /\ First(call.hidden, k) \in Seq(HiddenState) /\ Len(First(call.hidden, k)) = k
           /\ StatesOf(First(call.hidden, k), T, c)
           /\ Len(u) <= Len(kv) /\ First(kv, Len(u)) = u
           /\ k = Len(call.inputs) => u = T
           /\ rec = Absorb(<<>>, T)
           /\ call.saved = (IF recurrent /\ Len(call.inputs) > 1 THEN <<First(T, c)>> ELSE <<>>)
<1>1. PICK v : v = call.inputs
  OBVIOUS
<1>2. PICK h : h = call.hidden
  OBVIOUS
<1>3. /\ c \in Nat /\ k \in Nat /\ k >= 1 /\ k <= Len(v) /\ Len(v) \in Nat
      /\ T \in Seq(Token) /\ Len(T) = c + Len(v) /\ c + k <= Len(T)
      /\ u \in Seq(Token) /\ Len(u) = c + k /\ kv \in Seq(Token) /\ Len(kv) \in Nat
  BY <1>1, Rewinding
<1>4. /\ CachesHold(T) /\ Len(h) = Len(v) /\ StatesOf(h, T, c) /\ h \in Seq(HiddenState)
      /\ call.saved = (IF recurrent /\ Len(v) > 1 THEN <<First(T, c)>> ELSE <<>>)
  BY <1>1, <1>2 DEF EngineInv, VerifyInv, HiddenFrom, Types, TypeOK
<1>5. /\ First(h, k) \in Seq(HiddenState) /\ Len(First(h, k)) = k
      /\ StatesOf(First(h, k), T, c)
  <2>1. k \in 0..Len(h)
    BY <1>3, <1>4
  <2>2. /\ First(h, k) \in Seq(HiddenState) /\ Len(First(h, k)) = k
        /\ \A i \in 1..k : First(h, k)[i] = h[i]
    BY ONLY <1>4, <2>1, Prefix
  <2>3. \A i \in 1..k : i \in 1..Len(h)
    BY <1>3, <1>4
  <2> QED
    BY <1>4, <2>2, <2>3 DEF StatesOf
<1>6. Len(u) <= Len(kv) /\ First(kv, Len(u)) = u
  <2>1. Len(T) <= Len(kv) /\ First(kv, Len(T)) = T
    BY <1>4 DEF CachesHold
  <2>2. Len(T) \in 0..Len(kv) /\ Len(u) \in 0..Len(T) /\ Len(u) <= Len(kv)
    <3>1. PICK x : x = Len(T)
      OBVIOUS
    <3>2. PICK y : y = Len(kv)
      OBVIOUS
    <3>3. x \in Nat /\ y \in Nat /\ x <= y /\ c + k <= x /\ c \in Nat /\ k \in Nat
      BY <1>3, <2>1, <3>1, <3>2, LenProperties
    <3> QED
      BY <1>3, <3>1, <3>2, <3>3
  <2>3. First(First(kv, Len(T)), Len(u)) = First(kv, Len(u))
    BY ONLY <1>3, <2>2, PrefixOfPrefix
  <2> QED
    BY <1>3, <2>1, <2>2, <2>3
<1>7. k = Len(v) => u = T
  BY <1>3, PrefixWhole
<1> QED
  BY <1>1, <1>2, <1>4, <1>5, <1>6, <1>7 DEF CachesHold

LEMMA RewindLengthStep ==
    ASSUME EngineInv, RewindLength
    PROVE  EngineInv'
<1>1. PICK T : T = CallText
  OBVIOUS
<1>2. PICK c : c = call.start
  OBVIOUS
<1>3. PICK k : k = call.kept
  OBVIOUS
<1>4. PICK u : u = First(T, c + k)
  OBVIOUS
<1>5. PICK states : states = First(call.hidden, k)
  OBVIOUS
<1>6. /\ pc = "rewind" /\ pc' = "sync" /\ (k = Len(call.inputs) \/ call.saved = <<>>)
      /\ past' = c + k /\ kvLen' = c + k /\ call' = [call EXCEPT !.hidden = states]
      /\ UNCHANGED <<loaded, kv, rec, history, mtpVars, out, result>>
  BY <1>2, <1>3, <1>5 DEF RewindLength
<1>7. /\ states \in Seq(HiddenState) /\ Len(states) = k /\ StatesOf(states, T, c)
      /\ Len(u) <= Len(kv) /\ First(kv, Len(u)) = u
      /\ k = Len(call.inputs) => u = T
      /\ rec = Absorb(<<>>, T)
      /\ call.saved = (IF recurrent /\ Len(call.inputs) > 1 THEN <<First(T, c)>> ELSE <<>>)
  BY <1>1, <1>2, <1>3, <1>4, <1>5, <1>6, KeptOfVerified
<1>8. /\ k \in Nat /\ k >= 1 /\ k <= Len(call.inputs) /\ Len(call.inputs) \in Nat
      /\ kv \in Seq(Token) /\ Len(kv) \in Nat /\ Len(kv) <= NCtx
  BY <1>1, <1>2, <1>3, <1>4, <1>6, Rewinding
<1>9. rec = Absorb(<<>>, u)
  <2>1. CASE k = Len(call.inputs)
    BY <1>7, <2>1
  <2>2. CASE k # Len(call.inputs)
    <3>1. call.saved = <<>> /\ Len(call.inputs) > 1
      BY <1>6, <1>8, <2>2
    <3>2. ~recurrent
      <4>1. PICK t : t = First(T, c)
        OBVIOUS
      <4>2. <<t>> # <<>>
        OBVIOUS
      <4> QED
        BY <1>7, <3>1, <4>1, <4>2, Zenon
    <3> QED
      BY <1>7, <3>2 DEF Absorb
  <2> QED
    BY <2>1, <2>2
<1>10. CachesHold(u)'
  <2>1. CachesHold(u)
    BY <1>7, <1>9 DEF CachesHold
  <2> QED
    BY <1>6, <2>1, SameCaches
<1>11. kv' \in Seq(Token) /\ Len(kv') \in Nat /\ Len(kv') <= NCtx
  BY <1>6, <1>8
<1> QED
  BY <1>1, <1>2, <1>3, <1>4, <1>6, <1>7, <1>10, <1>11, Rewound

LEMMA RestorePrefixStep ==
    ASSUME EngineInv, RestorePrefix
    PROVE  EngineInv'
<1>1. PICK T : T = CallText
  OBVIOUS
<1>2. PICK c : c = call.start
  OBVIOUS
<1>3. PICK k : k = call.kept
  OBVIOUS
<1>4. PICK u : u = First(T, c + k)
  OBVIOUS
<1>5. PICK states : states = First(call.hidden, k)
  OBVIOUS
<1>6. /\ pc = "rewind" /\ pc' = "sync" /\ call.saved # <<>>
      /\ rec' = call.saved[1] \o First(call.inputs, k)
      /\ past' = c + k /\ kvLen' = c + k /\ call' = [call EXCEPT !.hidden = states]
      /\ UNCHANGED <<loaded, kv, history, mtpVars, out, result>>
  BY <1>2, <1>3, <1>5 DEF RestorePrefix
<1>7. /\ states \in Seq(HiddenState) /\ Len(states) = k /\ StatesOf(states, T, c)
      /\ Len(u) <= Len(kv) /\ First(kv, Len(u)) = u
      /\ call.saved = (IF recurrent /\ Len(call.inputs) > 1 THEN <<First(T, c)>> ELSE <<>>)
  BY <1>1, <1>2, <1>3, <1>4, <1>5, <1>6, KeptOfVerified
<1>8. /\ kv \in Seq(Token) /\ Len(kv) \in Nat /\ Len(kv) <= NCtx
      /\ u \in Seq(Token) /\ u = First(T, c) \o First(call.inputs, k)
  BY <1>1, <1>2, <1>3, <1>4, <1>6, Rewinding
<1>9. recurrent /\ call.saved[1] = First(T, c)
  BY <1>6, <1>7
<1>10. CachesHold(u)'
  <2>1. rec' = u
    BY <1>6, <1>8, <1>9
  <2>2. Absorb(<<>>, u)' = u
    BY <1>6, <1>8, <1>9, ConcatEmptySeq DEF Absorb, loaded
  <2> QED
    BY <1>6, <1>7, <2>1, <2>2 DEF CachesHold
<1>11. kv' \in Seq(Token) /\ Len(kv') \in Nat /\ Len(kv') <= NCtx
  BY <1>6, <1>8
<1> QED
  BY <1>1, <1>2, <1>3, <1>4, <1>6, <1>7, <1>10, <1>11, Rewound

LEMMA RestoreCheckpointStep ==
    ASSUME EngineInv, RestoreCheckpoint
    PROVE  EngineInv'
<1>1. PICK T : T = CallText
  OBVIOUS
<1>2. PICK c : c = call.start
  OBVIOUS
<1>3. PICK k : k = call.kept
  OBVIOUS
<1>4. PICK u : u = First(T, c + k)
  OBVIOUS
<1>5. PICK t : t = First(T, c)
  OBVIOUS
<1>6. /\ pc = "rewind" /\ pc' = "replay" /\ call.saved # <<>>
      /\ rec' = call.saved[1] /\ past' = c /\ kvLen' = c
      /\ UNCHANGED <<loaded, kv, history, mtpVars, call, out, result>>
  BY <1>2 DEF RestoreCheckpoint
<1>7. recurrent /\ call.saved[1] = t
  <2>1. call.saved = (IF recurrent /\ Len(call.inputs) > 1 THEN <<First(T, c)>> ELSE <<>>)
    BY <1>1, <1>2, <1>3, <1>4, <1>6, KeptOfVerified
  <2> QED
    BY <1>5, <1>6, <2>1
<1>8. /\ c \in Nat /\ k \in Nat /\ k >= 1 /\ c + k <= Len(T) /\ T \in Seq(Token)
      /\ t \in Seq(Token) /\ Len(t) = c /\ NCtx \in Nat
      /\ kv \in Seq(Token) /\ Len(kv) \in Nat /\ Len(kv) <= NCtx /\ call.op = "speculate"
      /\ call \in Calls
  BY <1>1, <1>2, <1>3, <1>4, <1>5, <1>6, Rewinding
<1>9. Len(t) <= Len(kv) /\ First(kv, Len(t)) = t
  <2>1. Len(T) <= Len(kv) /\ First(kv, Len(T)) = T
    BY <1>1, <1>6 DEF EngineInv, VerifyInv, CachesHold
  <2>2. Len(T) \in 0..Len(kv) /\ c \in 0..Len(T) /\ c <= Len(kv)
    <3>1. PICK x : x = Len(T)
      OBVIOUS
    <3>2. PICK y : y = Len(kv)
      OBVIOUS
    <3>3. x \in Nat /\ y \in Nat /\ x <= y /\ c + k <= x /\ c \in Nat /\ k \in Nat
      BY <1>8, <2>1, <3>1, <3>2, LenProperties
    <3> QED
      BY <3>1, <3>2, <3>3
  <2>3. First(First(kv, Len(T)), c) = First(kv, c)
    BY ONLY <1>8, <2>2, PrefixOfPrefix
  <2> QED
    BY <1>5, <1>8, <2>1, <2>2, <2>3
<1>10. CachesHold(t)'
  <2>1. Absorb(<<>>, t)' = t
    BY <1>6, <1>7, <1>8, ConcatEmptySeq DEF Absorb, loaded
  <2> QED
    BY <1>6, <1>7, <1>9, <2>1 DEF CachesHold
<1>11. /\ CallText' = CallText /\ BusyInv' /\ DraftsInv' /\ IdleInv' /\ RunInv'
       /\ SampledFromItsHistory'
  BY <1>6, KeepsSpeculating
<1>12. Types'
  <2>1. c \in 0..NCtx /\ Len(kv) \in c..NCtx
    <3>1. PICK y : y = Len(kv)
      OBVIOUS
    <3>2. y \in Nat /\ c <= y /\ y <= NCtx /\ c \in Nat /\ NCtx \in Nat
      BY <1>8, <1>9, <3>1
    <3> QED
      BY <3>1, <3>2
  <2> QED
    BY <1>6, <1>7, <1>8, <2>1 DEF EngineInv, Types, TypeOK, loaded, mtpVars
<1>13. VerifyInv'
  BY <1>1, <1>2, <1>3, <1>5, <1>6, <1>8, <1>10, <1>11 DEF VerifyInv
<1>14. SyncInv'
  BY <1>6 DEF SyncInv
<1> QED
  BY <1>11, <1>12, <1>13, <1>14 DEF EngineInv

LEMMA ReplayStep ==
    ASSUME EngineInv, Replay
    PROVE  EngineInv'
<1>1. PICK T : T = CallText
  OBVIOUS
<1>2. PICK c : c = call.start
  OBVIOUS
<1>3. PICK k : k = call.kept
  OBVIOUS
<1>4. PICK u : u = First(T, c + k)
  OBVIOUS
<1>5. PICK t : t = First(T, c)
  OBVIOUS
<1>6. PICK x : x = First(call.inputs, k)
  OBVIOUS
<1>7. PICK states : states = HiddenStates(x, past)
  OBVIOUS
<1>8. /\ pc = "replay" /\ pc' = "sync"
      /\ kv' = Overwrite(kv, past, x) /\ rec' = Absorb(rec, x)
      /\ call' = [call EXCEPT !.hidden = states]
      /\ past' = past + k /\ kvLen' = past + k
      /\ UNCHANGED <<loaded, history, mtpVars, out, result>>
  BY <1>3, <1>6, <1>7 DEF Replay, RunTarget
<1>9. past = c /\ CachesHold(t)
  BY <1>1, <1>2, <1>5, <1>8 DEF EngineInv, VerifyInv
<1>10. /\ c \in Nat /\ k \in Nat /\ k >= 1 /\ c + k <= Len(T) /\ T \in Seq(Token)
       /\ Len(T) <= NCtx /\ t \in Seq(Token) /\ Len(t) = c /\ NCtx \in Nat
       /\ kv \in Seq(Token) /\ Len(kv) \in Nat /\ Len(kv) <= NCtx
       /\ x \in Seq(Token) /\ Len(x) = k /\ u = t \o x /\ u \in Seq(Token) /\ Len(u) = c + k
  BY <1>1, <1>2, <1>3, <1>4, <1>5, <1>6, <1>8, Rewinding
<1>11. /\ kv' \in Seq(Token) /\ Len(kv') = Greatest(Len(kv), Len(u)) /\ CachesHold(u)'
       /\ states \in Seq(HiddenState) /\ Len(states) = k /\ StatesOf(states, u, c)
  <2>1. /\ kv \in Seq(Token) /\ t \in Seq(Token) /\ CachesHold(t) /\ x \in Seq(Token)
        /\ kv' = Overwrite(kv, Len(t), x) /\ u = t \o x
        /\ UNCHANGED loaded /\ rec' = Absorb(rec, x)
    BY <1>8, <1>9, <1>10
  <2>2. kv' \in Seq(Token) /\ Len(kv') = Greatest(Len(kv), Len(u))
    BY ONLY <2>1, TargetRan, ZenonT(60)
  <2>3. CachesHold(u)'
    BY ONLY <2>1, TargetRan
  <2>4. /\ HiddenStates(x, Len(t)) \in Seq(HiddenState)
        /\ Len(HiddenStates(x, Len(t))) = Len(x)
        /\ StatesOf(HiddenStates(x, Len(t)), u, Len(t))
    BY ONLY <2>1, TargetRan
  <2> QED
    BY <1>7, <1>9, <1>10, <2>2, <2>3, <2>4
<1>12. StatesOf(states, T, c)
  <2>1. \A i \in 1..k : First(u, c + i) = First(T, c + i)
    <3>1. ASSUME NEW i \in 1..k
          PROVE  First(u, c + i) = First(T, c + i)
      <4>1. c + k \in 0..Len(T) /\ c + i \in 0..(c + k)
        BY <1>10
      <4> QED
        BY ONLY <1>4, <1>10, <4>1, PrefixOfPrefix
    <3> QED
      BY <3>1
  <2> QED
    BY <1>11, <2>1 DEF StatesOf
<1>13. Len(kv') \in Nat /\ Len(kv') <= NCtx
  <2>1. PICK y : y = Len(kv)
    OBVIOUS
  <2>2. PICK z : z = Len(T)
    OBVIOUS
  <2>3. Len(kv') = IF y < c + k THEN c + k ELSE y
    BY <1>10, <1>11, <2>1 DEF Greatest
  <2>4. /\ y \in Nat /\ y <= NCtx /\ c \in Nat /\ k \in Nat /\ c + k <= z /\ z <= NCtx
        /\ z \in Nat /\ NCtx \in Nat
    BY <1>10, <2>1, <2>2, LenProperties
  <2> QED
    BY ONLY <2>3, <2>4
<1>14. past' = c + k /\ kvLen' = c + k
  BY <1>8, <1>9
<1> QED
  BY <1>1, <1>2, <1>3, <1>4, <1>8, <1>11, <1>12, <1>13, <1>14, Rewound

-----------------------------------------------------------------------------
(* Every step keeps the invariant. *)

LEMMA NextStep ==
    ASSUME EngineInv, [Next]_engineVars
    PROVE  EngineInv'
<1>1. CASE UNCHANGED engineVars
  BY <1>1, Stutters
<1>2. CASE EngineStep
  <2>1. CASE RunChunk \/ RunDecode
    BY <2>1, RunChunkStep, RunDecodeStep
  <2>2. CASE Sync
    BY <2>2, SyncStep
  <2>3. ASSUME NEW token \in Token, Commit(token) \/ Draft(token)
        PROVE  EngineInv'
    BY <2>3, CommitStep, DraftStep
  <2>4. CASE Verify
    BY <2>4, VerifyStep
  <2>5. ASSUME NEW token \in Token, NEW agrees \in BOOLEAN, Accept(token, agrees)
        PROVE  EngineInv'
    BY <2>5, AcceptStep
  <2>6. CASE RewindLength \/ RestorePrefix
    BY <2>6, RewindLengthStep, RestorePrefixStep
  <2>7. CASE RestoreCheckpoint \/ Replay
    BY <2>7, RestoreCheckpointStep, ReplayStep
  <2> QED
    BY <1>2, <2>1, <2>2, <2>3, <2>4, <2>5, <2>6, <2>7 DEF EngineStep
<1>3. CASE Caller
  <2>1. CASE Reset
    BY <2>1, ResetStep
  <2>2. ASSUME NEW tokens \in Prompts, Healthy, Prefill(tokens)
        PROVE  EngineInv'
    BY <2>2, PrefillStep
  <2>3. ASSUME NEW token \in Token, Healthy, Decode(token)
        PROVE  EngineInv'
    BY <2>3, DecodeStep
  <2>4. ASSUME NEW token \in Token, NEW stop \in Token, NEW maxOut \in 1..MaxOut,
               Healthy, Speculate(token, maxOut, stop)
        PROVE  EngineInv'
    BY <2>4, SpeculateStep
  <2> QED
    BY <1>3, <2>1, <2>2, <2>3, <2>4 DEF Caller
<1>4. CASE Fault
  BY <1>4, FaultStep
<1> QED
  BY <1>1, <1>2, <1>3, <1>4 DEF Next

(* The invariant holds in every state of every run, on every model. *)
THEOREM EngineInvHolds == Spec => []EngineInv
BY Initially, NextStep, PTL DEF Spec

(* No cell is written behind the capacity of the KV cache or of the draft    *)
(* head's cache, whatever is drafted, rejected or replayed (the bounds in    *)
(* decode, prefill and speculative_decode are enough).                       *)
THEOREM TypeCorrect == Spec => []TypeOK
BY EngineInvHolds, PTL DEF EngineInv, Types

(* Between calls of an engine that has not failed the KV cache, its length,  *)
(* the recurrent state, past_len_ and the sampler history tell one text.     *)
THEOREM OneText == Spec => []StateTellsOneText
<1>1. EngineInv => StateTellsOneText
  BY DEF EngineInv, IdleInv, StateTellsOneText, Settled, CachesHold
<1> QED
  BY <1>1, EngineInvHolds, PTL

(* The draft head's cache is that of the text, shifted by one: no rejected   *)
(* draft and no predicted state is left in it, sync_mtp never refuses, and   *)
(* speculative_decode refuses only on an engine that has consumed nothing.   *)
THEOREM DraftHeadFollowsText == Spec => []MtpFollowsText
<1>1. ASSUME EngineInv
      PROVE  MtpFollowsText
  <2>1. ASSUME Settled, HasMtp, history # <<>>
        PROVE  /\ mtpPast = past - 1
               /\ \A t \in 1..mtpPast :
                      mtp[t] = [token |-> history[t + 1],
                                hidden |-> HiddenOf(First(history, t))]
               /\ pending = HiddenOf(history)
    <3>1. /\ past = Len(history) /\ DraftHeadFollows(history) /\ history \in Seq(Token)
      BY <1>1, <2>1 DEF EngineInv, IdleInv, Settled, Types, TypeOK
    <3>2. Len(history) \in Nat \ {0}
      BY <2>1, <3>1, EmptySeq
    <3>3. mtpPast = past - 1
      BY <2>1, <3>1, <3>2 DEF DraftHeadFollows, ExpectedMtpLen, Greatest
    <3> QED
      BY <2>1, <3>1, <3>3 DEF DraftHeadFollows, EntriesOf, PendingAfter
  <2>2. result = "desync" => history = <<>>
    BY <1>1 DEF EngineInv, IdleInv, BusyInv
  <2>3. ASSUME pc = "sync", HasMtp
        PROVE  MayRewindMtp(Position, Preserved)
    <3>1. PICK p : p = Position
      OBVIOUS
    <3>2. PICK s : s = Preserved
      OBVIOUS
    <3>3. s \in {0, 1} /\ ExpectedMtpLen(p) + s <= mtpPast
      BY <1>1, <2>3, <3>1, <3>2, KeptEntries
    <3>4. p \in Nat /\ mtpPast \in Nat
      BY <1>1, EngineAssumption, <3>1
         DEF EngineInv, Types, TypeOK, Calls, Position
    <3>5. s = 0 \/ mtpPast >= ResumePosition(p, s)
      BY <3>3, <3>4 DEF ExpectedMtpLen, ResumePosition, FirstIndex, Greatest
    <3> QED
      BY <3>1, <3>2, <3>5 DEF MayRewindMtp
  <2> QED
    BY <2>1, <2>2, <2>3 DEF MtpFollowsText
<1> QED
  BY <1>1, EngineInvHolds, PTL

(* Every token is sampled from a hidden state of exactly the text in the     *)
(* sampler history at that moment, also inside a speculative call.           *)
THEOREM SamplesFollowHistory == Spec => []SampledFromItsHistory
BY EngineInvHolds, PTL DEF EngineInv

-----------------------------------------------------------------------------
(* The engine implements plain generation: seen through Text and Reply every *)
(* call is one that begins, one that returns, one that is forgotten.         *)

LEMMA NoReply ==
    ASSUME out = <<>> \/ pc # "idle"
    PROVE  Reply = <<>>
<1>1. CASE pc # "idle"
  BY <1>1 DEF Reply
<1>2. CASE pc = "idle" /\ out = <<>>
  <2> DEFINE e(i) == [token |-> out[i].token, given |-> out[i].history]
             none == [i \in 1..0 |-> e(i)]
  <2>1. none \in Seq({}) /\ Len(none) = 0
    <3>1. \A i \in 1..0 : e(i) \in {}
      OBVIOUS
    <3> HIDE DEF e
    <3>2. none \in Seq({})
      BY <3>1, IsASeq
    <3> QED
      BY <3>2, LenProperties
  <2>2. none = <<>>
    BY <2>1, EmptySeq
  <2>3. Reply = none
    <3>1. DOMAIN out = 1..0
      BY <1>2
    <3> QED
      BY <1>2, <3>1 DEF Reply
  <2> QED
    BY <2>2, <2>3
<1> QED
  BY <1>1, <1>2

(* A step inside a call: the text it started from is still there. *)
LEMMA InsideACall ==
    ASSUME EngineInv, pc # "idle", pc' # "idle", call'.start = call.start,
           history' = history \/ \E x \in Token : history' = Append(history, x)
    PROVE  UNCHANGED <<Text, Reply>>
<1>1. Reply = <<>> /\ Reply' = <<>>
  BY DEF Reply
<1>2. PICK c : c = call.start
  OBVIOUS
<1>3. c \in Nat /\ c <= Len(history) /\ history \in Seq(Token)
  BY <1>2 DEF EngineInv, BusyInv, Types, TypeOK, Calls
<1>4. First(history', c) = First(history, c)
  <2>1. CASE history' = history
    BY <2>1
  <2>2. ASSUME NEW x \in Token, history' = Append(history, x)
        PROVE  First(history', c) = First(history, c)
    <3>1. PICK y : y = <<x>>
      OBVIOUS
    <3>2. y \in Seq(Token) /\ c \in 0..Len(history)
      BY <1>3, <3>1, LenProperties
    <3>3. First(history \o y, c) = First(history, c)
      BY ONLY <1>3, <3>2, PrefixOfJoin
    <3>4. Append(history, x) = history \o y
      BY <1>3, <3>1, AppendIsConcat
    <3> QED
      BY <2>2, <3>3, <3>4
  <2> QED
    BY <2>1, <2>2
<1> QED
  BY <1>1, <1>2, <1>4 DEF Text

(* A call returns m tokens and leaves text h: the text of the call and, of   *)
(* what it returns, all but the last.                                        *)
LEMMA Returned ==
    ASSUME EngineInv, pc # "idle", pc' = "idle", result' = "ok",
           NEW h \in Seq(Token), history' = h,
           NEW o \in Seq([token : Token, hidden : HiddenState, history : Seq(Token)]),
           out' = o, NEW m \in Nat \ {0}, Len(o) = m,
           call.start + m <= Len(h), First(h, call.start) = First(history, call.start),
           NEW b \in Nat, Len(h) = b + m,
           \A i \in 1..m : o[i].history = First(h, b + i),
           \A i \in 1..(m - 1) : o[i].token = h[b + i + 1]
    PROVE  Plain!Next
<1>1. PICK t : t = Text
  OBVIOUS
<1>2. PICK r : r = Reply'
  OBVIOUS
<1>3. Text' = h
  BY DEF Text, Healthy
<1>4. t = First(history, call.start) /\ Len(t) = call.start /\ call.start \in Nat
  BY <1>1, TextOfCall DEF Text, EngineInv
<1>5. r = [i \in 1..m |-> [token |-> o[i].token, given |-> o[i].history]]
  <2>1. DOMAIN o = 1..m
    OBVIOUS
  <2> QED
    BY <1>2, <2>1 DEF Reply
<1>6. /\ Len(r) = m /\ DOMAIN r = 1..m
      /\ \A i \in 1..m : r[i].token = o[i].token /\ r[i].given = o[i].history
  <2> DEFINE e(i) == [token |-> o[i].token, given |-> o[i].history]
             S == {e(i) : i \in 1..m}
  <2>1. \A i \in 1..m : e(i) \in S
    OBVIOUS
  <2>2. r = [i \in 1..m |-> e(i)]
    BY <1>5
  <2> HIDE DEF e, S
  <2>3. r \in Seq(S)
    BY <2>1, <2>2, IsASeq
  <2>4. Len(r) = m /\ DOMAIN r = 1..m
    BY <2>2, <2>3, LenProperties
  <2>5. \A i \in 1..m : r[i] = e(i)
    BY <2>2
  <2> QED
    BY <2>4, <2>5 DEF e
<1>7. PICK fed : fed = Len(h) - m + 1
  OBVIOUS
<1>8. fed = b + 1 /\ fed = Len(h) - Len(r) + 1
  BY <1>6, <1>7
<1>9. r # <<>> /\ Len(t) < fed
  <2>1. Len(<<>>) = 0
    OBVIOUS
  <2> QED
    BY <1>4, <1>6, <1>8, <2>1
<1>10. SubSeq(h, 1, Len(t)) = t
  BY <1>4 DEF First
<1>11. \A i \in DOMAIN r : r[i].given = SubSeq(h, 1, fed + i - 1)
  <2>1. ASSUME NEW i \in 1..m
        PROVE  r[i].given = SubSeq(h, 1, fed + i - 1)
    <3>1. fed + i - 1 = b + i
      BY <1>8
    <3>2. r[i].given = SubSeq(h, 1, b + i)
      BY <1>6 DEF First
    <3> QED
      BY <3>1, <3>2
  <2> QED
    BY <1>6, <2>1
<1>12. \A i \in 1..(Len(r) - 1) : h[fed + i] = r[i].token
  <2>1. ASSUME NEW i \in 1..(m - 1)
        PROVE  fed + i = b + i + 1 /\ i \in 1..m
    BY <1>8
  <2> QED
    BY <1>6, <2>1
<1>13. Plain!Generate
  BY <1>1, <1>2, <1>3, <1>8, <1>9, <1>10, <1>11, <1>12 DEF Plain!Generate
<1> QED
  BY <1>13 DEF Plain!Next

(* A call that begins or is refused: the caller has its question only. *)
LEMMA Asked ==
    ASSUME EngineInv, pc = "idle", Healthy, out' = <<>>,
           \/ pc' = "idle" /\ result' # "fault" /\ history' = history
           \/ pc' # "idle" /\ call'.start = past /\ First(history', past) = history
    PROVE  Plain!Next
<1>1. Reply' = <<>>
  <2>1. CASE pc' # "idle"
    BY <2>1 DEF Reply
  <2>2. CASE out' = <<>>
    <3>1. (out = <<>> => Reply = <<>>)'
      BY NoReply, PTL
    <3> QED
      BY <2>2, <3>1
  <2> QED
    BY <2>2
<1>2. Text' = Text
  BY DEF Text, Healthy
<1> QED
  BY <1>1, <1>2 DEF Plain!Next, Plain!Ask

LEMMA Forgotten ==
    ASSUME pc' = "idle", out' = <<>>, history' = <<>> \/ result' = "fault"
    PROVE  Plain!Next
<1>1. Reply' = <<>>
  <2>1. (out = <<>> => Reply = <<>>)'
    BY NoReply, PTL
  <2> QED
    BY <2>1
<1>2. Text' = <<>>
  BY DEF Text, Healthy
<1> QED
  BY <1>1, <1>2 DEF Plain!Next, Plain!Forget

LEMMA BeginsAre ==
    ASSUME EngineInv, Caller
    PROVE  Plain!Next
<1>1. CASE Reset
  BY <1>1, Forgotten DEF Reset
<1>2. ASSUME pc = "idle", Healthy, NEW why \in {"context", "desync"}, Refuse(why)
      PROVE  Plain!Next
  <2>1. pc' = "idle" /\ result' # "fault" /\ history' = history /\ out' = <<>>
    BY <1>2 DEF Refuse, textVars
  <2> QED
    BY <1>2, <2>1, Asked
<1>3. ASSUME pc = "idle", Healthy, NEW tokens \in Seq(Token), pc' # "idle",
             call'.start = past, call'.inputs = tokens, out' = <<>>,
             history' = history \/ history' = history \o tokens,
             UNCHANGED <<loaded, past, kv, kvLen, rec, mtpVars>>
      PROVE  Plain!Next
  <2>1. PICK h : h = history
    OBVIOUS
  <2>2. First(history', past) = history
    BY <1>3, <2>1, Begun
  <2> QED
    BY <1>3, <2>2, Asked
<1>4. ASSUME NEW tokens \in Prompts, Healthy, Prefill(tokens)
      PROVE  Plain!Next
  <2>1. tokens \in Seq(Token)
    BY SeqDef, EngineAssumption DEF Prompts
  <2>2. CASE Refuse("context")
    BY <1>2, <1>4, <2>2 DEF Prefill
  <2>3. CASE ~Refuse("context")
    <3>1. /\ pc = "idle" /\ history' = history \o tokens
          /\ call' = [NoCall EXCEPT !.op = "prefill", !.start = past, !.inputs = tokens]
          /\ pc' = "run" /\ out' = <<>>
          /\ UNCHANGED <<loaded, past, kv, kvLen, rec, mtpVars>>
      BY <1>4, <2>3 DEF Prefill, Begin
    <3>2. call'.start = past /\ call'.inputs = tokens
      BY <3>1 DEF NoCall
    <3> QED
      BY <1>3, <1>4, <2>1, <3>1, <3>2
  <2> QED
    BY <2>2, <2>3
<1>5. ASSUME NEW token \in Token, Healthy, Decode(token)
      PROVE  Plain!Next
  <2>1. CASE Refuse("context")
    BY <1>2, <1>5, <2>1 DEF Decode
  <2>2. CASE ~Refuse("context")
    <3>1. PICK v : v = <<token>>
      OBVIOUS
    <3>2. /\ pc = "idle" /\ history' = history /\ v \in Seq(Token)
          /\ call' = [NoCall EXCEPT !.op = "decode", !.start = past, !.inputs = v]
          /\ pc' = "run" /\ out' = <<>>
          /\ UNCHANGED <<loaded, past, kv, kvLen, rec, mtpVars>>
      BY <1>5, <2>2, <3>1 DEF Decode, Begin, textVars
    <3>3. call'.start = past /\ call'.inputs = v
      BY <3>2 DEF NoCall
    <3> QED
      BY <1>3, <1>5, <3>2, <3>3
  <2> QED
    BY <2>1, <2>2
<1>6. ASSUME NEW token \in Token, NEW stop \in Token, NEW maxOut, Healthy,
             Speculate(token, maxOut, stop)
      PROVE  Plain!Next
  <2>1. CASE Refuse("context") \/ Refuse("desync")
    BY <1>2, <1>6, <2>1 DEF Speculate
  <2>2. CASE ~(Refuse("context") \/ Refuse("desync"))
    <3>1. PICK v : v = <<token>>
      OBVIOUS
    <3>2. /\ pc = "idle" /\ history' = history /\ v \in Seq(Token)
          /\ call' = [NoCall EXCEPT !.op = "speculate", !.start = past, !.inputs = v,
                                    !.maxOut = maxOut, !.stop = <<stop>>]
          /\ pc' = "draft" /\ out' = <<>>
          /\ UNCHANGED <<loaded, past, kv, kvLen, rec, mtpVars>>
      BY <1>6, <2>2, <3>1 DEF Speculate, textVars
    <3>3. call'.start = past /\ call'.inputs = v
      BY <3>2 DEF NoCall
    <3> QED
      BY <1>3, <1>6, <3>2, <3>3
  <2> QED
    BY <2>1, <2>2
<1> QED
  BY <1>1, <1>4, <1>5, <1>6 DEF Caller

(* A committed prefill or decode leaves its whole text. *)
LEMMA Committed ==
    ASSUME EngineInv, NEW token \in Token, Commit(token), NEW T, T = CallText
    PROVE  /\ pc = "commit" /\ call.op \in {"prefill", "decode"}
           /\ history' = T /\ (call.op = "prefill" => history = T)
<1>1. PICK c : c = call.start
  OBVIOUS
<1>2. /\ pc = "commit" /\ T \in Seq(Token) /\ First(T, c) = First(history, c)
  BY <1>1, TextOfCall DEF Commit, EngineInv
<1>3. /\ call.op \in {"prefill", "decode"} /\ history \in Seq(Token)
      /\ call.op = "prefill" => history = T
      /\ call.op = "decode" => Len(history) = c
  BY <1>1, <1>2 DEF EngineInv, BusyInv, Types, TypeOK, Calls, Ops
<1>4. CASE call.op = "prefill"
  BY <1>2, <1>3, <1>4 DEF Commit
<1>5. CASE call.op = "decode"
  <2>1. First(history, c) = history
    BY <1>3, <1>5, PrefixWhole
  <2> QED
    BY <1>1, <1>2, <1>5, <2>1 DEF CallText, Commit
<1> QED
  BY <1>2, <1>3, <1>4, <1>5

(* prefill and decode return one token, sampled from all the text there is. *)
LEMMA CommitIs ==
    ASSUME EngineInv, NEW token \in Token, Commit(token)
    PROVE  Plain!Next \/ UNCHANGED <<Text, Reply>>
<1>1. PICK T : T = CallText
  OBVIOUS
<1>2. PICK n : n = Len(call.hidden)
  OBVIOUS
<1>3. PICK c : c = call.start
  OBVIOUS
<1>4. PICK v : v = call.inputs
  OBVIOUS
<1>5. /\ pc = "commit" /\ T \in Seq(Token) /\ c \in Nat /\ Len(v) \in Nat \ {0}
      /\ v \in Seq(Token) /\ Len(T) = c + Len(v) /\ First(T, c) = First(history, c)
  BY <1>1, <1>3, <1>4, TextOfCall DEF Commit, EngineInv
<1>6. history' = T
  BY <1>1, Committed
<1>7. CASE call.op = "prefill" /\ past + n < call.start + Len(call.inputs)
  <2>1. pc' = "run" /\ call' = call /\ history' = history
    BY <1>2, <1>7 DEF Commit
  <2> QED
    BY <1>5, <2>1, InsideACall
<1>8. CASE ~(call.op = "prefill" /\ past + n < call.start + Len(call.inputs))
  <2>1. PICK e : e = Sampled(token, call.hidden[n], T)
    OBVIOUS
  <2>2. PICK o : o = <<e>>
    OBVIOUS
  <2>3. pc' = "idle" /\ result' = "ok" /\ out' = o
    BY <1>2, <1>6, <1>8, <2>1, <2>2 DEF Commit, Return
  <2>4. e \in [token : Token, hidden : HiddenState, history : Seq(Token)]
    <3>1. PICK p : p = Position
      OBVIOUS
    <3>2. PICK w : w = First(T, p + n)
      OBVIOUS
    <3>3. n \in Nat \ {0} /\ call.hidden \in Seq(HiddenState)
      BY <1>1, <1>2, <1>5, <3>1, <3>2, AtSync
    <3>4. call.hidden[n] \in HiddenState
      BY <1>2, <3>3, ElementOfSeq
    <3> QED
      BY <1>5, <2>1, <3>4 DEF Sampled
  <2>5. /\ o \in Seq([token : Token, hidden : HiddenState, history : Seq(Token)])
        /\ Len(o) = 1 /\ o[1].history = T
    BY <2>1, <2>2, <2>4 DEF Sampled
  <2>6. PICK b : b = Len(T) - 1
    OBVIOUS
  <2>7. b \in Nat /\ Len(T) = b + 1 /\ call.start + 1 <= Len(T) /\ 1 \in Nat \ {0}
    BY <1>3, <1>5, <2>6
  <2>8. \A i \in 1..1 : o[i].history = First(T, b + i)
    BY <1>5, <2>5, <2>7, PrefixWhole
  <2>9. \A i \in 1..(1 - 1) : o[i].token = T[b + i + 1]
    OBVIOUS
  <2>10. First(T, call.start) = First(history, call.start) /\ pc # "idle"
    BY <1>3, <1>5
  <2> QED
    BY ONLY EngineInv, <1>5, <1>6, <2>3, <2>5, <2>7, <2>8, <2>9, <2>10, Returned
<1> QED
  BY <1>7, <1>8

(* speculative_decode returns the tokens it has accepted and the one after   *)
(* them, each sampled from the text before it: of call text T from c on, m   *)
(* of the inputs v were kept, text h is left and o is returned.              *)
SpeculationReturns(T, c, v, m, h, o) ==
    /\ T \in Seq(Token) /\ Len(T) = c + Len(v) /\ c \in Nat /\ Len(v) \in Nat
    /\ First(T, c) = First(h, c) /\ m \in Nat \ {0} /\ m <= Len(v)
    /\ h \in Seq(Token) /\ Len(h) = c + m /\ h = First(T, c + m)
    /\ Len(o) = m
    /\ o \in Seq([token : Token, hidden : HiddenState, history : Seq(Token)])
    /\ \A i \in 1..m : o[i].history = First(h, c + i)
    /\ \A i \in 1..(m - 1) : o[i].token = h[c + i + 1]

LEMMA Speculated ==
    ASSUME EngineInv, pc = "sync", call.op = "speculate", NEW T, T = CallText,
           NEW c, c = call.start, NEW v, v = call.inputs, NEW m, m = call.kept,
           NEW h, h = history, NEW o, o = out
    PROVE  SpeculationReturns(T, c, v, m, h, o)
<1>1. /\ T \in Seq(Token) /\ Len(T) = c + Len(v) /\ c \in Nat /\ Len(v) \in Nat
      /\ \A i \in 1..Len(v) : T[c + i] = v[i]
      /\ First(T, c) = First(h, c)
  BY TextOfCall DEF EngineInv
<1>2. /\ m \in Nat \ {0} /\ m <= Len(v)
  <2>1. 1 <= Len(call.hidden) /\ Len(call.hidden) = m
    BY DEF EngineInv, SyncInv
  <2>2. m <= Len(v) /\ m \in Nat
    BY DEF EngineInv, BusyInv, Types, Calls
  <2> QED
    BY <2>1, <2>2
<1>3. /\ h = First(T, c + m) /\ Len(o) = m
      /\ \A i \in 1..m : o[i].history = First(T, c + i)
      /\ \A i \in 1..(m - 1) : o[i].token = v[i + 1]
      /\ o \in Seq([token : Token, hidden : HiddenState, history : Seq(Token)])
  <2>1. /\ h = First(T, c + m) /\ Len(o) = m
        /\ \A i \in 1..m : o[i].history = First(T, c + i)
        /\ \A i \in 1..(m - 1) : o[i].token = v[i + 1]
    BY DEF EngineInv, BusyInv
  <2>2. o \in Seq([token : Token, hidden : HiddenState, history : Seq(Token)])
    BY DEF EngineInv, Types, TypeOK
  <2> QED
    BY <2>1, <2>2
<1>4. c + m \in 0..Len(T)
  <2>1. PICK x : x = Len(v)
    OBVIOUS
  <2>2. x \in Nat /\ c \in Nat /\ m \in Nat /\ m <= x /\ Len(T) = c + x
    BY <1>1, <1>2, <2>1
  <2> QED
    BY <2>2
<1>5. h \in Seq(Token) /\ Len(h) = c + m /\ \A i \in 1..(c + m) : h[i] = T[i]
  BY ONLY <1>1, <1>3, <1>4, Prefix
<1>6. \A i \in 1..m : o[i].history = First(h, c + i)
  <2>1. ASSUME NEW i \in 1..m
        PROVE  First(h, c + i) = First(T, c + i)
    <3>1. c + i \in 0..(c + m)
      BY <1>1, <1>2
    <3> QED
      BY ONLY <1>1, <1>3, <1>4, <3>1, PrefixOfPrefix
  <2> QED
    BY <1>3, <2>1
<1>7. ASSUME NEW i \in 1..(m - 1)
      PROVE  o[i].token = h[c + i + 1]
  <2>1. i + 1 \in 1..Len(v) /\ c + (i + 1) = c + i + 1 /\ c + i + 1 \in 1..(c + m)
    BY <1>1, <1>2
  <2>2. o[i].token = v[i + 1] /\ T[c + (i + 1)] = v[i + 1]
    BY <1>1, <1>3, <2>1
  <2>3. h[c + i + 1] = T[c + i + 1]
    BY <1>5, <2>1
  <2> QED
    BY ONLY <2>1, <2>2, <2>3
<1> QED
  BY ONLY <1>1, <1>2, <1>3, <1>5, <1>6, <1>7 DEF SpeculationReturns

LEMMA SyncIs ==
    ASSUME EngineInv, Sync
    PROVE  Plain!Next \/ UNCHANGED <<Text, Reply>>
<1>1. CASE call.op # "speculate"
  BY <1>1, InsideACall DEF Sync, textVars
<1>2. CASE call.op = "speculate"
  <2>1. PICK T : T = CallText
    OBVIOUS
  <2>2. PICK c : c = call.start
    OBVIOUS
  <2>3. PICK m : m = call.kept
    OBVIOUS
  <2>4. PICK o : o = out
    OBVIOUS
  <2>5. PICK h : h = history
    OBVIOUS
  <2>6. PICK v : v = call.inputs
    OBVIOUS
  <2>7. /\ pc = "sync" /\ pc' = "idle" /\ result' = "ok" /\ history' = h /\ out' = o
    BY <1>2, <2>4, <2>5 DEF Sync, Return, textVars
  <2>8. SpeculationReturns(T, c, v, m, h, o)
    BY <1>2, <2>1, <2>2, <2>3, <2>4, <2>5, <2>6, <2>7, Speculated
  <2>9. /\ c \in Nat /\ First(T, c) = First(h, c)
        /\ m \in Nat \ {0} /\ h \in Seq(Token) /\ Len(h) = c + m /\ Len(o) = m
        /\ o \in Seq([token : Token, hidden : HiddenState, history : Seq(Token)])
    BY <2>8 DEF SpeculationReturns
  <2>10. /\ \A i \in 1..m : o[i].history = First(h, c + i)
         /\ \A i \in 1..(m - 1) : o[i].token = h[c + i + 1]
    BY <2>8 DEF SpeculationReturns
  <2>11. /\ call.start + m <= Len(h) /\ First(h, call.start) = First(history, call.start)
         /\ pc # "idle"
    BY <2>2, <2>5, <2>7, <2>8, <2>9 DEF SpeculationReturns
  <2> QED
    BY ONLY EngineInv, <2>7, <2>9, <2>10, <2>11, Returned
<1> QED
  BY <1>1, <1>2

LEMMA StepsAre ==
    ASSUME EngineInv, [Next]_engineVars
    PROVE  Plain!Next \/ UNCHANGED <<Text, Reply>>
<1>1. CASE UNCHANGED engineVars
  BY <1>1 DEF engineVars, loaded, textVars, callVars, Text, Reply, Healthy
<1>2. CASE Caller
  BY <1>2, BeginsAre
<1>3. CASE Fault
  BY <1>3, Forgotten DEF Fault, Return
<1>4. CASE EngineStep
  <2>1. CASE RunChunk \/ RunDecode
    <3>1. pc # "idle" /\ pc' # "idle" /\ call'.start = call.start /\ history' = history
      BY <2>1 DEF RunChunk, RunDecode, RunTarget, EngineInv, Types, Calls
    <3> QED
      BY <3>1, InsideACall
  <2>2. CASE Sync
    BY <2>2, SyncIs
  <2>3. ASSUME NEW token \in Token, Commit(token)
        PROVE  Plain!Next \/ UNCHANGED <<Text, Reply>>
    BY <2>3, CommitIs
  <2>4. ASSUME NEW token \in Token, Draft(token)
        PROVE  UNCHANGED <<Text, Reply>>
    <3>1. pc # "idle" /\ pc' # "idle" /\ call'.start = call.start /\ history' = history
      BY <2>4 DEF Draft, textVars, EngineInv, Types, Calls
    <3> QED
      BY <3>1, InsideACall
  <2>5. CASE Verify
    <3>1. pc # "idle" /\ pc' # "idle" /\ call'.start = call.start /\ history' = history
      BY <2>5 DEF Verify, EngineInv, Types, Calls
    <3> QED
      BY <3>1, InsideACall
  <2>6. ASSUME NEW token \in Token, NEW agrees \in BOOLEAN, Accept(token, agrees)
        PROVE  UNCHANGED <<Text, Reply>>
    <3>1. PICK k : k = call.kept
      OBVIOUS
    <3>2. PICK v : v = call.inputs
      OBVIOUS
    <3>3. /\ pc = "accept" /\ pc' # "idle" /\ call'.start = call.start
          /\ history' = Append(history, v[k + 1])
      BY <2>6, <3>1, <3>2 DEF Accept, EngineInv, Types, Calls
    <3>4. k \in Nat /\ k < Len(v) /\ v \in Seq(Token) /\ Len(v) \in Nat
      BY <3>1, <3>2, <3>3, LenProperties DEF EngineInv, VerifyInv, Types, Calls
    <3>5. v[k + 1] \in Token
      <4>1. k + 1 \in 1..Len(v)
        BY <3>4
      <4> QED
        BY <3>4, <4>1, ElementOfSeq
    <3> QED
      BY <3>3, <3>5, InsideACall
  <2>7. CASE RewindLength \/ RestorePrefix \/ RestoreCheckpoint \/ Replay
    <3>1. pc # "idle" /\ pc' # "idle" /\ call'.start = call.start /\ history' = history
      BY <2>7 DEF RewindLength, RestorePrefix, RestoreCheckpoint, Replay, RunTarget,
                  EngineInv, Types, Calls
    <3> QED
      BY <3>1, InsideACall
  <2> QED
    BY <1>4, <2>1, <2>2, <2>3, <2>4, <2>5, <2>6, <2>7 DEF EngineStep
<1> QED
  BY <1>1, <1>2, <1>3, <1>4 DEF Next

(* Prefill in chunks, plain decoding and speculation with any number of      *)
(* drafts, any acceptance pattern, stop token and way back all implement     *)
(* plain generation: each returned token was chosen given exactly the text   *)
(* before it, and a call leaves its input and every returned token but the   *)
(* last.                                                                     *)
THEOREM EngineImplementsPlain == Spec => ImplementsPlain
<1>1. Init => Plain!Init
  <2>1. ASSUME Init
        PROVE  Text = <<>> /\ Reply = <<>>
    <3>1. Reply = <<>>
      BY <2>1, NoReply DEF Init
    <3> QED
      BY <2>1, <3>1 DEF Init, Text, Healthy
  <2> QED
    BY <2>1 DEF Plain!Init
<1>2. ASSUME EngineInv, [Next]_engineVars
      PROVE  [Plain!Next]_(Plain!vars)
  <2>1. UNCHANGED <<Text, Reply>> => UNCHANGED Plain!vars
    BY DEF Plain!vars
  <2> QED
    BY <1>2, <2>1, StepsAre
<1> QED
  BY <1>1, <1>2, EngineInvHolds, PTL DEF Spec, ImplementsPlain, Plain!Spec
=============================================================================
