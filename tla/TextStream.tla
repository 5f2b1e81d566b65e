----------------------------- MODULE TextStream -----------------------------
(***************************************************************************)
(* The state that a loaded model keeps between graph runs, and the calls   *)
(* of LLMEngine that drive it: prefill in chunks of any size, with or      *)
(* without padding, decode, verification of drafts with rollback, reset.   *)
(* Whatever way a text is cut into runs, every token must be computed from *)
(* the text before it, and from nothing else.                              *)
(*                                                                         *)
(* A model has layers of one kind, chosen at load.  The cache length is    *)
(* past_len_ whenever a graph runs (module Engine), so it is Len(text).    *)
(***************************************************************************)
EXTENDS CompressedAttention, RecurrentKernels

CONSTANTS
    Kind,               \* the kinds of layers the loaded model may have
    GraphLen,           \* graph_seq_len: rows of the prefill graph
    StaticPadded,       \* cfg_.static_padded
    MaxText             \* model bound: tokens of a text, by kind

Kinds == {"dense", "sparse", "latent", "compressed", "recurrent", "ngram"}

ASSUME StreamAssumption ==
    /\ GraphLen \in Nat \ {0} /\ MaxText \in [Kinds -> 0..NCtx]
    /\ StaticPadded \in BOOLEAN /\ Filler = Zero
    /\ Kind \subseteq Kinds

VARIABLES
    kind,       \* of the loaded model
    text,       \* tokens the state should stand for; past_len_ of them
    keys,       \* key/value cache
    latent,     \* latent cache
    index,      \* key cache of the indexer
    state,      \* state and cache of the compressor
    ring,       \* window cache
    absorbed,   \* recurrent state
    conv,       \* state of the short convolution
    last,       \* token-shift state
    grams,      \* n-gram history
    taps,       \* state of the dilated convolution
    draft,      \* a verification waiting for its verdict
    out         \* what the rows of the last run were computed from

caches == <<keys, latent>>
auxiliary == <<index, state, ring, absorbed, conv, last, grams, taps>>
vars == <<kind, text, caches, auxiliary, draft, out>>
-----------------------------------------------------------------------------
NoDraft == [stage |-> "none", start |-> 0, saved |-> <<>>, replay |-> <<>>]
Idle == draft = NoDraft

(* What zeroed memory means to the kernels. *)
ZeroState == [rows |-> ZeroedRows, entries |-> NoEntries]
ZeroIndex == [j \in 0..(NCtx - 1) |-> Zero]
ZeroConv == Fillers(ConvKernel - 1)
ZeroTaps == Fillers((DilatedKernel - 1) * Dilation)

Init ==
    /\ kind \in Kind
    /\ text = <<>> /\ keys = EmptyMemory /\ latent = ZeroIndex
    /\ index = ZeroIndex /\ state = ZeroState /\ ring = EmptyRing
    /\ absorbed = <<>> /\ conv = ZeroConv /\ last = Zero
    /\ grams = NoGrams /\ taps = ZeroTaps
    /\ draft = NoDraft /\ out = <<>>

(* reset(): lengths and auxiliary states, not the payload of the caches. *)
Reset ==
    /\ Idle
    /\ text' = <<>> /\ out' = <<>>
    /\ index' = ZeroIndex /\ state' = ZeroState /\ ring' = EmptyRing
    /\ absorbed' = <<>> /\ conv' = ZeroConv /\ last' = Zero
    /\ grams' = NoGrams /\ taps' = ZeroTaps
    /\ UNCHANGED <<kind, caches, draft>>

(* The rows a run gets: a short chunk of the prefill graph is padded. *)
Padded(tokens) ==
    IF StaticPadded /\ Len(tokens) < GraphLen
    THEN tokens \o [i \in 1..(GraphLen - Len(tokens)) |-> Pad]
    ELSE tokens

Fits(tokens) == Len(text) + Len(tokens) <= NCtx /\ Len(text) + Len(tokens) <= MaxText[kind]

(* One run of a graph whose layers are of the given kind; the output of row  *)
(* i is computed from what out[i] shows.                                     *)
RunDense(tokens, rows, past) ==
    /\ kind = "dense"
    /\ keys' = AppendRows(keys, past, rows)
    /\ out' = [i \in DOMAIN tokens |-> Attend(keys', past + i - 1)]
    /\ UNCHANGED <<latent, auxiliary>>

RunSparse(tokens, rows, past) ==
    /\ kind = "sparse"
    /\ index' = WriteIndex(index, past, tokens)
    /\ keys' = AppendRows(keys, past, rows)
    /\ out' = [i \in DOMAIN tokens |->
                AttendSparse(keys', past, rows,
                             Select(index', tokens[i], past + i - 1), past + i - 1)]
    /\ UNCHANGED <<latent, state, ring, absorbed, conv, last, grams, taps>>

RunLatent(tokens, rows, past) ==
    /\ kind = "latent" /\ LatentFits(past, rows)
    /\ index' = WriteIndex(index, past, tokens)
    /\ latent' = WriteLatent(latent, past, rows)
    /\ out' = [i \in DOMAIN tokens |->
                AttendLatent(latent',
                             Select(index', tokens[i], past + i - 1), past + i - 1)]
    /\ UNCHANGED <<keys, state, ring, absorbed, conv, last, grams, taps>>

RunCompressed(tokens, past) ==
    /\ kind = "compressed"
    /\ state' = Compress(state, past, tokens)
    /\ out' = [i \in DOMAIN tokens |->
                AttendCompressed(ring, state'.entries, past, tokens, i)]
    /\ ring' = WriteRing(StartRing(ring, past), past, tokens)
    /\ UNCHANGED <<caches, index, absorbed, conv, last, grams, taps>>

RunRecurrent(tokens, rows) ==
    /\ kind = "recurrent"
    /\ LET real == Len(tokens) IN
       /\ absorbed' = AbsorbRows(absorbed, rows, real)
       /\ conv' = ConvState(conv, rows, real)
       /\ last' = ShiftState(rows, real)
    /\ out' = [i \in DOMAIN tokens |->
                [absorbed |-> absorbed \o SubSeq(rows, 1, i),
                 conv |-> ConvSees(conv, rows, i, ConvKernel, 1),
                 shift |-> ShiftSees(last, rows, i)]]
    /\ UNCHANGED <<caches, index, state, ring, grams, taps>>

RunNgram(tokens, rows) ==
    /\ kind = "ngram"
    /\ grams' = GramsAfter(grams, tokens)
    /\ taps' = ConvState(taps, rows, Len(tokens))
    /\ out' = [i \in DOMAIN tokens |->
                [grams |-> GramsSee(grams, tokens, i),
                 taps |-> ConvSees(taps, rows, i, DilatedKernel, Dilation)]]
    /\ UNCHANGED <<caches, index, state, ring, absorbed, conv, last>>

Run(tokens, rows, past) ==
    /\ \/ RunDense(tokens, rows, past)
       \/ RunSparse(tokens, rows, past)
       \/ RunLatent(tokens, rows, past)
       \/ RunCompressed(tokens, past)
       \/ RunRecurrent(tokens, rows)
       \/ RunNgram(tokens, rows)
    /\ UNCHANGED kind
-----------------------------------------------------------------------------
(* A chunk of prefill(), of any length up to that of the graph. *)
PrefillChunk(tokens) ==
    /\ Idle /\ Fits(tokens)
    /\ Run(tokens, Padded(tokens), Len(text))
    /\ text' = text \o tokens
    /\ UNCHANGED draft

(* The padding does not fit: the layers before the latent attention have     *)
(* run, the call fails and the text stays.                                   *)
PrefillRefused(tokens) ==
    /\ Idle /\ Fits(tokens)
    /\ kind = "latent" /\ ~LatentFits(Len(text), Padded(tokens))
    /\ index' = WriteIndex(index, Len(text), tokens)
    /\ out' = <<>>
    /\ UNCHANGED <<kind, text, caches, state, ring, absorbed, conv, last,
                   grams, taps, draft>>

(* The decode graph has one row and is never padded. *)
Decode(token) ==
    /\ Idle /\ Fits(<<token>>)
    /\ Run(<<token>>, <<token>>, Len(text))
    /\ text' = Append(text, token)
    /\ UNCHANGED draft

(* speculative_decode(): checkpoint, then the token and its drafts in one    *)
(* run of the prefill graph.                                                 *)
Verify(tokens) ==
    /\ Idle /\ Len(tokens) > 1 /\ text # <<>> /\ Fits(tokens)
    /\ draft' = [NoDraft EXCEPT !.stage = "verified", !.start = Len(text),
                               !.saved = auxiliary]
    /\ Run(tokens, Padded(tokens), Len(text))
    /\ text' = text \o tokens

AcceptAll ==
    /\ draft.stage = "verified"
    /\ draft' = NoDraft
    /\ UNCHANGED <<kind, text, caches, auxiliary, out>>

(* A key/value cache is rewound by its length alone. *)
RewindLength(kept) ==
    /\ draft.stage = "verified" /\ kind = "dense"
    /\ draft.start + kept < Len(text)
    /\ text' = SubSeq(text, 1, draft.start + kept)
    /\ out' = SubSeq(out, 1, kept)
    /\ draft' = NoDraft
    /\ UNCHANGED <<kind, caches, auxiliary>>

(* Faulty: the replayed tokens are absorbed behind the rejected ones. *)
RestoreLength(kept) ==
    /\ draft.stage = "verified" /\ kind # "dense"
    /\ draft.start + kept < Len(text)
    /\ text' = SubSeq(text, 1, draft.start) /\ out' = <<>>
    /\ draft' = [draft EXCEPT !.stage = "restored",
                        !.replay = SubSeq(text, draft.start + 1, draft.start + kept)]
    /\ UNCHANGED <<kind, caches, auxiliary>>

(* RecurrentCheckpoint::restore, and the length of the checkpoint. *)
Restore(kept) ==
    /\ draft.stage = "verified" /\ kind # "dense"
    /\ draft.start + kept < Len(text)
    /\ index' = draft.saved[1] /\ state' = draft.saved[2] /\ ring' = draft.saved[3]
    /\ absorbed' = draft.saved[4] /\ conv' = draft.saved[5] /\ last' = draft.saved[6]
    /\ grams' = draft.saved[7] /\ taps' = draft.saved[8]
    /\ text' = SubSeq(text, 1, draft.start) /\ out' = <<>>
    /\ draft' = [draft EXCEPT !.stage = "restored",
                        !.replay = SubSeq(text, draft.start + 1, draft.start + kept)]
    /\ UNCHANGED <<kind, caches>>

(* The accepted tokens run again. *)
Replay ==
    /\ draft.stage = "restored"
    /\ Run(draft.replay, Padded(draft.replay), Len(text))
    /\ text' = text \o draft.replay
    /\ draft' = NoDraft

Chunk == UNION {[1..n -> Token] : n \in 1..GraphLen}

Next ==
    \/ Reset
    \/ \E tokens \in Chunk :
        PrefillChunk(tokens) \/ PrefillRefused(tokens) \/ Verify(tokens)
    \/ \E token \in Token : Decode(token)
    \/ \E kept \in 1..GraphLen : RewindLength(kept) \/ Restore(kept)
    \/ AcceptAll \/ Replay

Spec == Init /\ [][Next]_vars
-----------------------------------------------------------------------------
(* What the last token of a text is computed from, whatever runs produced it. *)
At(t) == Len(t) - 1
TokenAt(t) == [j \in 0..At(t) |-> t[j + 1]]

Chosen(t) == Best([j \in 0..At(t) |-> KeyScore(t[Len(t)], t[j + 1])])

(* The group of an entry and, when groups overlap, the one before it. *)
EntryOf(t, c) ==
    LET first == IF Overlap THEN (c - 1) * Ratio ELSE c * Ratio IN
    [r \in 0..(StateRows - 1) |-> IF first + r < 0 THEN Absent ELSE t[first + r + 1]]

LastOf(t, taps_, step) ==
    [i \in 1..taps_ |->
        LET j == Len(t) - (taps_ - i) * step IN IF j < 1 THEN Filler ELSE t[j]]

(* A text before an end-of-text token counts as more of these tokens. *)
GramOf(t) ==
    [i \in 1..NgramSize |->
        LET j == Len(t) - NgramSize + i IN
        IF j < 1 \/ (\E k \in j..(Len(t) - 1) : t[k] = Eos) THEN Eos ELSE t[j]]

Expected(layers, t) ==
    CASE layers = "dense" -> [h \in KvHead |-> TokenAt(t)]
      [] layers = "sparse" -> [h \in KvHead |-> [j \in Chosen(t) |-> t[j + 1]]]
      [] layers = "latent" -> [j \in Chosen(t) |-> t[j + 1]]
      [] layers = "compressed" ->
            LET entry == [c \in Available(At(t)) |-> EntryOf(t, c)] IN
            [window |-> [q \in WindowOf(At(t)) |-> t[q + 1]],
             entries |-> [c \in SelectEntries(entry, t[Len(t)], At(t)) |-> entry[c]]]
      [] layers = "recurrent" ->
            [absorbed |-> t, conv |-> LastOf(t, ConvKernel, 1),
             shift |-> IF At(t) = 0 THEN Zero ELSE t[At(t)]]
      [] layers = "ngram" ->
            [grams |-> GramOf(t), taps |-> LastOf(t, DilatedKernel, Dilation)]

(* Every row of the last run was computed from its text alone, as one run    *)
(* over the whole text would: however the text was cut into prefill chunks,  *)
(* decode steps and verified drafts, padded or not, and whatever earlier     *)
(* texts left in the caches.                                                 *)
OutputsFollowText ==
    \A i \in DOMAIN out :
        out[i] = Expected(kind, SubSeq(text, 1, Len(text) - Len(out) + i))

StreamTypeOK ==
    /\ kind \in Kind
    /\ text \in Seq(Token) /\ Len(text) <= MaxText[kind]
    /\ keys \in [Memory -> Cell] /\ latent \in [0..(NCtx - 1) -> Cell]
    /\ index \in [0..(NCtx - 1) -> Token \cup {Zero}]
    /\ state.rows \in EntryRows /\ state.entries \in [Entries -> EntryRows]
    /\ ring \in [0..(WindowSize - 1) -> Token \cup {Zero}]
    /\ absorbed \in Seq(Token)
    /\ conv \in [1..(ConvKernel - 1) -> Token \cup {Zero}]
    /\ last \in Token \cup {Zero}
    /\ grams.history \in [1..(NgramSize - 1) -> Token \cup {Zero, Eos}]
    /\ taps \in [1..((DilatedKernel - 1) * Dilation) -> Token \cup {Zero}]
    /\ draft.stage \in {"none", "verified", "restored"}
    /\ draft.stage # "none" => draft.start <= Len(text)
=============================================================================
