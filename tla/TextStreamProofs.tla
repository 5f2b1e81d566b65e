-------------------------- MODULE TextStreamProofs --------------------------
(***************************************************************************)
(* However a text is cut into runs, every row of a run is computed from    *)
(* its text alone: for models with layers of every kind (dense, sparse,    *)
(* latent, compressed, recurrent, n-gram), every vocabulary, context, head *)
(* count, window, group, graph length and text.                            *)
(***************************************************************************)
EXTENDS TextStream, SequenceTheorems, FiniteSetTheorems, WellFoundedInduction,
        NaturalsInduction, TLAPS

-----------------------------------------------------------------------------
(* What each piece of state holds when it stands for the text t. *)
KeysFor(k, t) == \A h \in KvHead : \A j \in 0..(Len(t) - 1) : k[Row(h, j)] = t[j + 1]
CellsFor(c, t) == \A j \in 0..(Len(t) - 1) : c[j] = t[j + 1]

(* A convolution state holds the cells before the end of the text. *)
Before(t, j) == IF j < 1 THEN Filler ELSE t[j]
ConvFor(c, t, m) == c = [i \in 1..m |-> Before(t, Len(t) - m + i)]
LastFor(x, t) == x = IF t = <<>> THEN Zero ELSE t[Len(t)]

(* The compressor: the entries of complete groups, and the rows of the group *)
(* under way (with the one before it when groups overlap).  At position 0 it *)
(* is set up anew, so it may hold anything.                                  *)
States == [rows : EntryRows, entries : [Entries -> EntryRows]]
First(c) == IF Overlap THEN (c - 1) * Ratio ELSE c * Ratio
EntryCell(t, x) == IF x < 0 THEN Absent ELSE t[x + 1]
EntriesUpTo(e, t, n) == \A c \in 0..((n \div Ratio) - 1) : e[c] = EntryOf(t, c)
PendingUpTo(r, t, n) ==
    \A i \in 0..(StateRows - 1) :
        First(n \div Ratio) + i < n => r[i] = EntryCell(t, First(n \div Ratio) + i)
StateUpTo(s, t, n) == EntriesUpTo(s.entries, t, n) /\ PendingUpTo(s.rows, t, n)
StateFor(s, t) == s \in States /\ (t # <<>> => StateUpTo(s, t, Len(t)))

(* The ring: the last WindowSize tokens, each at its place. *)
RingFor(r, t) ==
    \A p \in 0..(Len(t) - 1) : p + WindowSize >= Len(t) => r[p % WindowSize] = t[p + 1]

(* The n-gram history: the last tokens, and nothing before an end of text. *)
HistoryAt(s, n) ==
    [i \in 1..(NgramSize - 1) |->
        LET j == n - (NgramSize - 1) + i IN
        IF j < 1 \/ (\E k \in j..n : s[k] = Eos) THEN Eos ELSE s[j]]
GramsFor(g, t) ==
    g = IF t = <<>> THEN NoGrams ELSE [started |-> TRUE, history |-> HistoryAt(t, Len(t))]

CachesFor(k, c, t, layers) ==
    /\ layers \in {"dense", "sparse"} => KeysFor(k, t)
    /\ layers = "latent" => CellsFor(c, t)
AuxiliaryFor(aux, t, layers) ==
    /\ layers \in {"sparse", "latent"} => CellsFor(aux[1], t)
    /\ layers = "compressed" => StateFor(aux[2], t) /\ RingFor(aux[3], t)
    /\ layers = "recurrent" =>
           aux[4] = t /\ ConvFor(aux[5], t, ConvKernel - 1) /\ LastFor(aux[6], t)
    /\ layers = "ngram" =>
           GramsFor(aux[7], t) /\ ConvFor(aux[8], t, (DilatedKernel - 1) * Dilation)

(* The rows of a run: its tokens, then padding. *)
RowsFor(rows, tokens) ==
    /\ rows \in Seq(Cell) /\ Len(tokens) <= Len(rows)
    /\ \A i \in 1..Len(tokens) : rows[i] = tokens[i]

(* What the last token of a text is computed from, in the words of Expected. *)
DenseView(u) == [h \in KvHead |-> TokenAt(u)]
ChosenView(u) == [j \in Chosen(u) |-> u[j + 1]]
SparseView(u) == [h \in KvHead |-> ChosenView(u)]
ShiftView(u) == IF At(u) = 0 THEN Zero ELSE u[At(u)]

(* The kernels that append padding need room for it: the texts of models     *)
(* with key/value caches end early enough for a padded last chunk.           *)
RoomForRows ==
    \A k \in {"dense", "sparse"} : StaticPadded => MaxText[k] + GraphLen - 1 <= NCtx

-----------------------------------------------------------------------------
(* Sequences. *)

LEMMA ChunkIsSeq ==
    ASSUME NEW tokens \in Chunk
    PROVE  tokens \in Seq(Token) /\ Len(tokens) \in 1..GraphLen
<1>1. PICK n \in 1..GraphLen : tokens \in [1..n -> Token]
  BY DEF Chunk
<1>2. GraphLen \in Nat
  BY StreamAssumption
<1>3. n \in Nat
  BY <1>2
<1>4. tokens \in Seq(Token)
  BY <1>1, <1>3, SeqDef
<1>5. DOMAIN tokens = 1..n /\ DOMAIN tokens = 1..Len(tokens) /\ Len(tokens) \in Nat
  BY <1>1, <1>4, LenProperties
<1>6. Len(tokens) = n
  BY <1>3, <1>5
<1> QED
  BY <1>4, <1>6

LEMMA TokensAreRows ==
    ASSUME NEW tokens \in Seq(Token)
    PROVE  RowsFor(tokens, tokens)
<1>1. Token \subseteq Cell
  BY DEF Cell
<1>2. tokens \in Seq(Cell)
  BY <1>1, SeqMonotonic
<1>3. Len(tokens) \in Nat
  BY LenProperties
<1> QED
  BY <1>2, <1>3 DEF RowsFor

LEMMA PaddedRows ==
    ASSUME NEW tokens \in Seq(Token)
    PROVE  /\ RowsFor(Padded(tokens), tokens)
           /\ Len(Padded(tokens)) =
                IF StaticPadded /\ Len(tokens) < GraphLen THEN GraphLen ELSE Len(tokens)
<1>1. CASE ~(StaticPadded /\ Len(tokens) < GraphLen)
  BY <1>1, TokensAreRows DEF Padded
<1>2. CASE StaticPadded /\ Len(tokens) < GraphLen
  <2> DEFINE k == GraphLen - Len(tokens)
             pads == [i \in 1..k |-> Pad]
  <2>1. Len(tokens) \in Nat /\ tokens \in Seq(Cell)
    BY LenProperties, TokensAreRows DEF RowsFor
  <2>2. k \in Nat
    BY <1>2, <2>1, StreamAssumption
  <2>3. Pad \in Cell
    BY DEF Cell
  <2>4. pads \in [1..k -> Cell]
    BY <2>3
  <2>5. pads \in Seq(Cell)
    BY <2>2, <2>4, SeqDef
  <2>6. DOMAIN pads = 1..k /\ DOMAIN pads = 1..Len(pads) /\ Len(pads) \in Nat
    BY <2>5, LenProperties
  <2>7. Len(pads) = k
    BY <2>2, <2>6
  <2>8. Padded(tokens) = tokens \o pads
    BY <1>2 DEF Padded
  <2> HIDE DEF pads
  <2>9. /\ tokens \o pads \in Seq(Cell)
        /\ Len(tokens \o pads) = Len(tokens) + Len(pads)
        /\ \A i \in 1..(Len(tokens) + Len(pads)) : (tokens \o pads)[i] =
                IF i <= Len(tokens) THEN tokens[i] ELSE pads[i - Len(tokens)]
    BY <2>1, <2>5, ConcatProperties
  <2>10. Len(tokens \o pads) = GraphLen
    BY <2>1, <2>7, <2>9, StreamAssumption
  <2>11. RowsFor(tokens \o pads, tokens)
    BY <2>1, <2>2, <2>7, <2>9 DEF RowsFor
  <2> QED
    BY <1>2, <2>8, <2>10, <2>11
<1> QED
  BY <1>1, <1>2

(* A prefix of a text that goes on is a prefix of the longer text. *)
LEMMA PrefixOf ==
    ASSUME NEW t \in Seq(Token), NEW n \in 0..Len(t)
    PROVE  /\ SubSeq(t, 1, n) \in Seq(Token) /\ Len(SubSeq(t, 1, n)) = n
           /\ \A i \in 1..n : SubSeq(t, 1, n)[i] = t[i]
<1>1. Len(t) \in Nat
  BY LenProperties
<1>2. \A i \in 1..n : t[i] \in Token
  BY <1>1, ElementOfSeq
<1>3. 1 \in Int /\ n \in Int
  BY <1>1
<1>4. /\ SubSeq(t, 1, n) \in Seq(Token)
      /\ Len(SubSeq(t, 1, n)) = IF 1 <= n THEN n - 1 + 1 ELSE 0
      /\ \A i \in 1..(n - 1 + 1) : SubSeq(t, 1, n)[i] = t[1 + i - 1]
  BY <1>2, <1>3, SubSeqProperties
<1> QED
  BY <1>1, <1>4

LEMMA Continued ==
    ASSUME NEW t \in Seq(Token), NEW tokens \in Seq(Token)
    PROVE  /\ t \o tokens \in Seq(Token)
           /\ Len(t \o tokens) = Len(t) + Len(tokens)
           /\ Len(t) \in Nat /\ Len(tokens) \in Nat
           /\ \A i \in 1..Len(t) : (t \o tokens)[i] = t[i]
           /\ \A i \in 1..Len(tokens) : (t \o tokens)[Len(t) + i] = tokens[i]
<1>1. Len(t) \in Nat /\ Len(tokens) \in Nat
  BY LenProperties
<1>2. /\ t \o tokens \in Seq(Token)
      /\ Len(t \o tokens) = Len(t) + Len(tokens)
      /\ \A i \in 1..(Len(t) + Len(tokens)) : (t \o tokens)[i] =
              IF i <= Len(t) THEN t[i] ELSE tokens[i - Len(t)]
  BY ConcatProperties
<1>3. \A i \in 1..Len(t) : (t \o tokens)[i] = t[i]
  BY <1>1, <1>2
<1>4. ASSUME NEW i \in 1..Len(tokens)
      PROVE  (t \o tokens)[Len(t) + i] = tokens[i]
  <2>1. Len(t) + i \in 1..(Len(t) + Len(tokens)) /\ ~(Len(t) + i <= Len(t))
        /\ Len(t) + i - Len(t) = i
    BY <1>1
  <2> QED
    BY <1>2, <2>1
<1> QED
  BY <1>1, <1>2, <1>3, <1>4

(* The text of row i of a run: what was there, and the run's tokens up to i. *)
LEMMA TextOfRow ==
    ASSUME NEW t \in Seq(Token), NEW tokens \in Seq(Token), NEW i \in 1..Len(tokens)
    PROVE  LET u == SubSeq(t \o tokens, 1, Len(t) + i) IN
           /\ u \in Seq(Token) /\ Len(u) = Len(t) + i /\ Len(u) \in Nat
           /\ \A j \in 1..(Len(t) + i) : u[j] = (t \o tokens)[j]
           /\ u[Len(u)] = tokens[i]
<1> DEFINE s == t \o tokens
           u == SubSeq(s, 1, Len(t) + i)
<1>1. /\ s \in Seq(Token) /\ Len(s) = Len(t) + Len(tokens)
      /\ Len(t) \in Nat /\ Len(tokens) \in Nat
      /\ s[Len(t) + i] = tokens[i]
  BY Continued
<1>2. Len(t) + i \in 0..Len(s) /\ Len(t) + i \in 1..(Len(t) + i)
  BY <1>1
<1> HIDE DEF s
<1>3. u \in Seq(Token) /\ Len(u) = Len(t) + i /\ \A j \in 1..(Len(t) + i) : u[j] = s[j]
  BY <1>1, <1>2, PrefixOf
<1>4. Len(u) \in Nat /\ u[Len(u)] = tokens[i]
  BY <1>1, <1>2, <1>3
<1> QED
  BY <1>3, <1>4 DEF s

-----------------------------------------------------------------------------
(* The key/value cache: heads lie one behind the other, and an append that   *)
(* stays inside the heads' regions writes each row once.                     *)

LEMMA HeadsApart ==
    ASSUME NEW g \in KvHead, NEW h \in KvHead, g < h
    PROVE  g * NCtx + NCtx <= h * NCtx
<1>1. NCtx \in Nat /\ g \in Nat /\ h \in Nat
  BY AttentionAssumption DEF KvHead
<1>2. PICK d \in Nat : h = g + 1 + d
  <2>1. h - g - 1 \in Nat /\ h = g + 1 + (h - g - 1)
    BY <1>1
  <2> QED
    BY <2>1
<1>3. h * NCtx = g * NCtx + NCtx + d * NCtx
  BY <1>1, <1>2
<1>4. d * NCtx \in Nat /\ g * NCtx \in Nat
  BY <1>1
<1> QED
  BY <1>1, <1>3, <1>4

LEMMA RowInMemory ==
    ASSUME NEW h \in KvHead, NEW j \in 0..(NCtx - 1)
    PROVE  Row(h, j) \in Memory /\ h * NCtx \in Nat
<1>1. NCtx \in Nat /\ h \in Nat /\ Heads \in Nat /\ h <= Heads - 1
  BY AttentionAssumption DEF KvHead
<1>2. h * NCtx \in Nat
  BY <1>1
<1>3. PICK d \in Nat : Heads = h + 1 + d
  <2>1. Heads - h - 1 \in Nat /\ Heads = h + 1 + (Heads - h - 1)
    BY <1>1
  <2> QED
    BY <2>1
<1>4. Heads * NCtx = h * NCtx + NCtx + d * NCtx /\ d * NCtx \in Nat
  BY <1>1, <1>3
<1>5. j \in Nat /\ j < NCtx
  BY <1>1
<1> QED
  BY <1>1, <1>2, <1>4, <1>5 DEF Row, Memory

LEMMA OnlyWriter ==
    ASSUME NEW h \in KvHead, NEW j \in 0..(NCtx - 1), NEW past \in Nat,
           NEW rows, Len(rows) \in Nat, past + Len(rows) <= NCtx
    PROVE  Writers(Row(h, j), past, rows) =
               IF past <= j /\ j < past + Len(rows) THEN {h} ELSE {}
<1>1. NCtx \in Nat /\ h * NCtx \in Nat /\ j \in Nat /\ j < NCtx
  BY AttentionAssumption, RowInMemory
<1>2. ASSUME NEW g \in KvHead, g # h
      PROVE  g \notin Writers(Row(h, j), past, rows)
  <2>1. g * NCtx \in Nat /\ g \in Nat /\ h \in Nat
    <3>1. 0 \in 0..(NCtx - 1)
      BY AttentionAssumption
    <3> QED
      BY <3>1, RowInMemory DEF KvHead
  <2>2. CASE g < h
    <3>1. g * NCtx + NCtx <= h * NCtx
      BY <2>2, HeadsApart
    <3>2. ~(Row(h, j) < Row(g, past) + Len(rows))
      BY <1>1, <2>1, <3>1 DEF Row
    <3> QED
      BY <3>2 DEF Writers
  <2>3. CASE h < g
    <3>1. h * NCtx + NCtx <= g * NCtx
      BY <2>3, HeadsApart
    <3>2. ~(Row(g, past) <= Row(h, j))
      BY <1>1, <2>1, <3>1 DEF Row
    <3> QED
      BY <3>2 DEF Writers
  <2> QED
    BY <1>2, <2>1, <2>2, <2>3
<1>3. h \in Writers(Row(h, j), past, rows) <=> past <= j /\ j < past + Len(rows)
  BY <1>1 DEF Writers, Row
<1>4. Writers(Row(h, j), past, rows) \subseteq KvHead
  BY DEF Writers
<1> QED
  BY <1>2, <1>3, <1>4

LEMMA RowAfterAppend ==
    ASSUME NEW h \in KvHead, NEW j \in 0..(NCtx - 1), NEW past \in Nat, NEW k,
           NEW rows, Len(rows) \in Nat, past + Len(rows) <= NCtx
    PROVE  AppendRows(k, past, rows)[Row(h, j)] =
               IF past <= j /\ j < past + Len(rows) THEN rows[j - past + 1] ELSE k[Row(h, j)]
<1> DEFINE W == Writers(Row(h, j), past, rows)
           top == CHOOSE f \in W : \A g \in W : g <= f
<1>1. W = IF past <= j /\ j < past + Len(rows) THEN {h} ELSE {}
  BY OnlyWriter
<1>2. Row(h, j) \in Memory /\ h * NCtx \in Nat
  BY RowInMemory
<1>3. AppendRows(k, past, rows)[Row(h, j)] =
        IF W = {} THEN k[Row(h, j)] ELSE rows[Row(h, j) - Row(top, past) + 1]
  BY <1>2 DEF AppendRows
<1>4. CASE past <= j /\ j < past + Len(rows)
  <2>1. W = {h}
    BY <1>1, <1>4
  <2>2. h <= h
    BY DEF KvHead
  <2>3. top = h
    BY <2>1, <2>2
  <2>4. Row(h, j) - Row(h, past) + 1 = j - past + 1
    BY <1>2, AttentionAssumption DEF Row
  <2> HIDE DEF W, top
  <2> QED
    BY <1>3, <1>4, <2>1, <2>3, <2>4
<1>5. CASE ~(past <= j /\ j < past + Len(rows))
  BY <1>1, <1>3, <1>5
<1> QED
  BY <1>4, <1>5

(* The same for a cache that is one array of cells. *)
LEMMA CellsAppended ==
    ASSUME NEW t \in Seq(Token), NEW tokens \in Seq(Token), NEW rows, RowsFor(rows, tokens),
           NEW c, CellsFor(c, t), NEW d, Len(t) + Len(tokens) <= NCtx,
           \A j \in 0..(NCtx - 1) :
               d[j] = IF Len(t) <= j /\ j < Len(t) + Len(rows)
                      THEN rows[j - Len(t) + 1] ELSE c[j]
    PROVE  CellsFor(d, t \o tokens)
<1> DEFINE s == t \o tokens
<1>1. /\ Len(s) = Len(t) + Len(tokens) /\ Len(t) \in Nat /\ Len(tokens) \in Nat
      /\ \A i \in 1..Len(t) : s[i] = t[i]
      /\ \A i \in 1..Len(tokens) : s[Len(t) + i] = tokens[i]
  BY Continued
<1>2. Len(rows) \in Nat /\ Len(tokens) <= Len(rows)
  BY LenProperties DEF RowsFor
<1> HIDE DEF s
<1>3. SUFFICES ASSUME NEW j \in 0..(Len(s) - 1) PROVE d[j] = s[j + 1]
  BY DEF CellsFor, s
<1>4. j \in 0..(NCtx - 1)
  BY <1>1, AttentionAssumption
<1>5. CASE j < Len(t)
  <2>1. j \in 0..(Len(t) - 1) /\ j + 1 \in 1..Len(t) /\ ~(Len(t) <= j)
    BY <1>1, <1>5
  <2>2. d[j] = c[j]
    BY <1>4, <2>1
  <2>3. c[j] = t[j + 1] /\ s[j + 1] = t[j + 1]
    BY <1>1, <2>1 DEF CellsFor
  <2> QED
    BY <2>2, <2>3
<1>6. CASE Len(t) <= j
  <2> DEFINE i == j - Len(t) + 1
  <2>1. i \in 1..Len(tokens) /\ Len(t) + i = j + 1 /\ j < Len(t) + Len(rows)
    BY <1>1, <1>2, <1>6
  <2>2. d[j] = rows[i]
    BY <1>4, <1>6, <2>1
  <2>3. rows[i] = tokens[i] /\ s[Len(t) + i] = tokens[i]
    BY <1>1, <2>1 DEF RowsFor
  <2> HIDE DEF i
  <2> QED
    BY <2>1, <2>2, <2>3
<1> QED
  BY <1>1, <1>5, <1>6

LEMMA KeysAppended ==
    ASSUME NEW t \in Seq(Token), NEW tokens \in Seq(Token), NEW rows, RowsFor(rows, tokens),
           Len(t) + Len(rows) <= NCtx, NEW k, KeysFor(k, t)
    PROVE  KeysFor(AppendRows(k, Len(t), rows), t \o tokens)
<1>1. Len(t) \in Nat /\ Len(tokens) \in Nat /\ Len(rows) \in Nat /\ Len(tokens) <= Len(rows)
  BY LenProperties DEF RowsFor
<1>2. SUFFICES ASSUME NEW h \in KvHead
               PROVE  \A j \in 0..(Len(t \o tokens) - 1) :
                          AppendRows(k, Len(t), rows)[Row(h, j)] = (t \o tokens)[j + 1]
  BY DEF KeysFor
<1> DEFINE c == [j \in 0..(NCtx - 1) |-> k[Row(h, j)]]
           d == [j \in 0..(NCtx - 1) |-> AppendRows(k, Len(t), rows)[Row(h, j)]]
<1>3. Len(t) + Len(tokens) <= NCtx /\ NCtx \in Nat
  BY <1>1, AttentionAssumption
<1>4. CellsFor(c, t)
  BY <1>1, <1>3 DEF KeysFor, CellsFor
<1>5. \A j \in 0..(NCtx - 1) :
         d[j] = IF Len(t) <= j /\ j < Len(t) + Len(rows) THEN rows[j - Len(t) + 1] ELSE c[j]
  BY <1>1, RowAfterAppend
<1>6. Len(t \o tokens) = Len(t) + Len(tokens)
  BY Continued
<1>7. \A j \in 0..(Len(t \o tokens) - 1) :
          j \in 0..(NCtx - 1) /\ d[j] = AppendRows(k, Len(t), rows)[Row(h, j)]
  BY <1>1, <1>3, <1>6
<1> HIDE DEF c, d
<1>8. CellsFor(d, t \o tokens)
  BY <1>3, <1>4, <1>5, CellsAppended
<1> QED
  BY <1>7, <1>8 DEF CellsFor

LEMMA IndexWritten ==
    ASSUME NEW t \in Seq(Token), NEW tokens \in Seq(Token),
           Len(t) + Len(tokens) <= NCtx, NEW c, CellsFor(c, t)
    PROVE  CellsFor(WriteIndex(c, Len(t), tokens), t \o tokens)
<1>1. RowsFor(tokens, tokens)
  BY TokensAreRows
<1>2. \A j \in 0..(NCtx - 1) :
         WriteIndex(c, Len(t), tokens)[j] =
             IF Len(t) <= j /\ j < Len(t) + Len(tokens) THEN tokens[j - Len(t) + 1] ELSE c[j]
  BY DEF WriteIndex
<1> QED
  BY <1>1, <1>2, CellsAppended

LEMMA LatentWritten ==
    ASSUME NEW t \in Seq(Token), NEW tokens \in Seq(Token), NEW rows, RowsFor(rows, tokens),
           Len(t) + Len(tokens) <= NCtx, NEW c, CellsFor(c, t)
    PROVE  CellsFor(WriteLatent(c, Len(t), rows), t \o tokens)
<1>1. \A j \in 0..(NCtx - 1) :
         WriteLatent(c, Len(t), rows)[j] =
             IF Len(t) <= j /\ j < Len(t) + Len(rows) THEN rows[j - Len(t) + 1] ELSE c[j]
  BY DEF WriteLatent
<1> QED
  BY <1>1, CellsAppended

-----------------------------------------------------------------------------
(* What the row at position n - 1 of a text s sees: the text up to itself. *)

LEMMA PrefixCells ==
    ASSUME NEW s \in Seq(Token), NEW n \in 1..Len(s), NEW u, u = SubSeq(s, 1, n)
    PROVE  /\ Len(u) = n /\ n \in Nat /\ At(u) = n - 1 /\ u[Len(u)] = s[n]
           /\ s[n] \in Token
           /\ \A j \in 0..(n - 1) : u[j + 1] = s[j + 1] /\ u[j + 1] \in Token
                                    /\ j \in 0..(Len(s) - 1)
<1>1. Len(s) \in Nat /\ n \in 0..Len(s) /\ n \in 1..n
  BY LenProperties
<1>2. Len(u) = n /\ \A i \in 1..n : u[i] = s[i]
  BY <1>1, PrefixOf
<1>3. \A i \in 1..n : s[i] \in Token
  BY <1>1, ElementOfSeq
<1>4. \A j \in 0..(n - 1) : j + 1 \in 1..n /\ j \in 0..(Len(s) - 1)
  BY <1>1
<1> QED
  BY <1>1, <1>2, <1>3, <1>4 DEF At

LEMMA DenseRowSees ==
    ASSUME NEW s \in Seq(Token), NEW n \in 1..Len(s), NEW k, KeysFor(k, s)
    PROVE  Attend(k, n - 1) = DenseView(SubSeq(s, 1, n))
<1> DEFINE u == SubSeq(s, 1, n)
<1>0. u = SubSeq(s, 1, n)
  OBVIOUS
<1> HIDE DEF u
<1> SUFFICES Attend(k, n - 1) = DenseView(u)
  BY DEF u
<1>1. At(u) = n - 1 /\ \A j \in 0..(n - 1) : u[j + 1] = s[j + 1] /\ j \in 0..(Len(s) - 1)
  BY <1>0, PrefixCells
<1>2. \A h \in KvHead : \A j \in 0..(n - 1) : k[Row(h, j)] = u[j + 1]
  BY <1>1 DEF KeysFor
<1>3. ASSUME NEW h \in KvHead
      PROVE  [j \in 0..(n - 1) |-> k[Row(h, j)]] = TokenAt(u)
  BY <1>1, <1>2 DEF TokenAt
<1> QED
  BY <1>3 DEF Attend, DenseView

LEMMA SelectionRight ==
    ASSUME NEW s \in Seq(Token), NEW n \in 1..Len(s), n <= NCtx, NEW c, CellsFor(c, s),
           NEW u, u = SubSeq(s, 1, n)
    PROVE  /\ Select(c, s[n], n - 1) = Chosen(u)
           /\ Chosen(u) \subseteq 0..(n - 1)
<1>1. /\ At(u) = n - 1 /\ u[Len(u)] = s[n] /\ n \in Nat
      /\ \A j \in 0..(n - 1) : u[j + 1] = s[j + 1] /\ j \in 0..(Len(s) - 1)
  BY PrefixCells
<1>2. \A j \in 0..(n - 1) : c[j] = u[j + 1]
  BY <1>1 DEF CellsFor
<1> DEFINE score == [j \in 0..(n - 1) |-> KeyScore(s[n], u[j + 1])]
<1>3. Chosen(u) = Best(score)
  BY <1>1 DEF Chosen
<1>4. [j \in 0..(n - 1) |-> KeyScore(s[n], c[j])] = score
  BY <1>2
<1>5. (IF (n - 1) + 1 <= NCtx THEN (n - 1) + 1 ELSE NCtx) = n
  BY <1>1
<1>6. Select(c, s[n], n - 1) = Best(score)
  BY <1>4, <1>5 DEF Select
<1>7. Best(score) \subseteq 0..(n - 1)
  BY DEF Best
<1> QED
  BY <1>3, <1>6, <1>7

(* As long as no more keys are visible than are selected, all are. *)
LEMMA AllChosen ==
    ASSUME NEW s \in Seq(Token), NEW n \in 1..Len(s), n <= TopK,
           NEW u, u = SubSeq(s, 1, n)
    PROVE  Chosen(u) = 0..(n - 1)
<1>1. /\ At(u) = n - 1 /\ u[Len(u)] = s[n] /\ n \in Nat /\ s[n] \in Token
      /\ \A j \in 0..(n - 1) : u[j + 1] \in Token
  BY PrefixCells
<1> DEFINE score == [j \in 0..(n - 1) |-> KeyScore(s[n], u[j + 1])]
<1>2. Chosen(u) = Best(score)
  BY <1>1 DEF Chosen
<1>3. \A j \in 0..(n - 1) : score[j] \in Int
  BY <1>1, AttentionAssumption
<1>4. ASSUME NEW j \in 0..(n - 1)
      PROVE  Cardinality({i \in 0..(n - 1) : Beats(score, i, j)}) < TopK
  <2> DEFINE better == {i \in 0..(n - 1) : Beats(score, i, j)}
             others == (0..(n - 1)) \ {j}
  <2>1. ~Beats(score, j, j)
    <3>1. j \in Int /\ score[j] \in Int
      BY <1>3
    <3> HIDE DEF score
    <3> QED
      BY <3>1 DEF Beats
  <2>2. better \subseteq others
    BY <2>1
  <2>3. IsFiniteSet(0..(n - 1)) /\ Cardinality(0..(n - 1)) = n
    <3>1. 0 \in Int /\ n - 1 \in Int /\ ~(0 > n - 1)
      BY <1>1
    <3> QED
      BY <1>1, <3>1, FS_Interval
  <2>4. IsFiniteSet(others) /\ Cardinality(others) = n - 1
    BY <2>3, FS_RemoveElement
  <2>5. Cardinality(better) <= n - 1 /\ Cardinality(better) \in Nat
    <3> HIDE DEF better, others
    <3> QED
      BY <2>2, <2>4, FS_Subset, FS_CardinalityType
  <2> HIDE DEF better
  <2>6. Cardinality(better) < TopK
    BY <1>1, <2>5, AttentionAssumption
  <2> QED
    BY <2>6 DEF better
<1>5. Best(score) = 0..(n - 1)
  <2>1. DOMAIN score = 0..(n - 1)
    OBVIOUS
  <2> HIDE DEF score
  <2> QED
    BY <1>4, <2>1 DEF Best
<1> QED
  BY <1>2, <1>5

LEMMA SparseRowSees ==
    ASSUME NEW s \in Seq(Token), NEW n \in 1..Len(s), n <= NCtx, NEW k, KeysFor(k, s),
           NEW c, CellsFor(c, s), NEW past \in Nat, NEW rows, Len(rows) \in Nat,
           n <= past + Len(rows)
    PROVE  AttendSparse(k, past, rows, Select(c, s[n], n - 1), n - 1) =
               SparseView(SubSeq(s, 1, n))
<1> DEFINE u == SubSeq(s, 1, n)
<1>0. u = SubSeq(s, 1, n)
  OBVIOUS
<1> HIDE DEF u
<1> SUFFICES AttendSparse(k, past, rows, Select(c, s[n], n - 1), n - 1) = SparseView(u)
  BY DEF u
<1>1. \A j \in 0..(n - 1) : u[j + 1] = s[j + 1] /\ j \in 0..(Len(s) - 1)
  BY <1>0, PrefixCells
<1>2. \A h \in KvHead : \A j \in 0..(n - 1) : k[Row(h, j)] = u[j + 1]
  BY <1>1 DEF KeysFor
<1>3. Select(c, s[n], n - 1) = Chosen(u) /\ Chosen(u) \subseteq 0..(n - 1)
  BY <1>0, SelectionRight
<1>4. AttendSelected(k, Chosen(u)) = SparseView(u)
  <2>1. ASSUME NEW h \in KvHead
        PROVE  [j \in Chosen(u) |-> k[Row(h, j)]] = ChosenView(u)
    BY <1>2, <1>3 DEF ChosenView
  <2> QED
    BY <2>1 DEF AttendSelected, SparseView
<1>5. CASE TopK >= past + Len(rows)
  <2>1. n <= TopK
    <3>1. n \in Nat
      BY <1>0, PrefixCells
    <3> QED
      BY <1>5, <3>1, AttentionAssumption
  <2>2. Chosen(u) = 0..(n - 1)
    BY <1>0, <2>1, AllChosen
  <2>3. Attend(k, n - 1) = AttendSelected(k, Chosen(u))
    BY <2>2 DEF Attend, AttendSelected
  <2> QED
    BY <1>4, <1>5, <2>3 DEF AttendSparse
<1>6. CASE ~(TopK >= past + Len(rows))
  <2>1. {j \in Chosen(u) : j <= n - 1} = Chosen(u)
    BY <1>0, <1>3, PrefixCells
  <2> QED
    BY <1>3, <1>4, <1>6, <2>1 DEF AttendSparse
<1> QED
  BY <1>5, <1>6

LEMMA LatentRowSees ==
    ASSUME NEW s \in Seq(Token), NEW n \in 1..Len(s), n <= NCtx, NEW l, CellsFor(l, s),
           NEW c, CellsFor(c, s)
    PROVE  AttendLatent(l, Select(c, s[n], n - 1), n - 1) = ChosenView(SubSeq(s, 1, n))
<1> DEFINE u == SubSeq(s, 1, n)
<1>0. u = SubSeq(s, 1, n)
  OBVIOUS
<1> HIDE DEF u
<1> SUFFICES AttendLatent(l, Select(c, s[n], n - 1), n - 1) = ChosenView(u)
  BY DEF u
<1>1. n \in Nat /\ \A j \in 0..(n - 1) : u[j + 1] = s[j + 1] /\ j \in 0..(Len(s) - 1)
  BY <1>0, PrefixCells
<1>2. \A j \in 0..(n - 1) : l[j] = u[j + 1]
  BY <1>1 DEF CellsFor
<1>3. Select(c, s[n], n - 1) = Chosen(u) /\ Chosen(u) \subseteq 0..(n - 1)
  BY <1>0, SelectionRight
<1>4. [j \in Chosen(u) |-> l[j]] = [j \in Chosen(u) |-> u[j + 1]]
  BY <1>2, <1>3
<1>5. (IF TopK >= (n - 1) + 1 THEN 0..(n - 1) ELSE Chosen(u) \cap 0..(n - 1)) = Chosen(u)
  <2>1. CASE TopK >= (n - 1) + 1
    <3>1. n <= TopK
      BY <1>1, <2>1, AttentionAssumption
    <3>2. Chosen(u) = 0..(n - 1)
      BY <1>0, <3>1, AllChosen
    <3> QED
      BY <2>1, <3>2
  <2>2. CASE ~(TopK >= (n - 1) + 1)
    BY <1>3, <2>2
  <2> QED
    BY <2>1, <2>2
<1> QED
  BY <1>3, <1>4, <1>5 DEF AttendLatent, ChosenView

-----------------------------------------------------------------------------
(* The recurrences see the tokens of the run and none of its padding. *)

LEMMA RealRows ==
    ASSUME NEW tokens \in Seq(Token), Len(tokens) >= 1, NEW rows, RowsFor(rows, tokens)
    PROVE  ProcessLen(Len(tokens), rows) = Len(tokens)
<1>1. Len(tokens) \in Nat /\ Len(rows) \in Nat /\ Len(tokens) <= Len(rows)
  BY LenProperties DEF RowsFor
<1> QED
  BY <1>1 DEF ProcessLen

LEMMA RowsUpTo ==
    ASSUME NEW t \in Seq(Token), NEW tokens \in Seq(Token), NEW rows, RowsFor(rows, tokens),
           NEW i \in 1..Len(tokens)
    PROVE  t \o SubSeq(rows, 1, i) = SubSeq(t \o tokens, 1, Len(t) + i)
<1> DEFINE u == SubSeq(t \o tokens, 1, Len(t) + i)
           r == SubSeq(rows, 1, i)
<1>1. Len(tokens) \in Nat /\ Len(t) \in Nat
  BY LenProperties
<1>2. \A j \in 1..i : rows[j] = tokens[j] /\ tokens[j] \in Token
  <2>1. \A j \in 1..i : j \in 1..Len(tokens)
    BY <1>1
  <2> QED
    BY <2>1, ElementOfSeq DEF RowsFor
<1>3. r \in Seq(Token) /\ Len(r) = i /\ \A j \in 1..i : r[j] = rows[j]
  <2>1. 1 \in Int /\ i \in Int /\ 1 <= i /\ \A j \in 1..i : rows[j] \in Token
    BY <1>1, <1>2
  <2>2. /\ SubSeq(rows, 1, i) \in Seq(Token)
        /\ Len(SubSeq(rows, 1, i)) = IF 1 <= i THEN i - 1 + 1 ELSE 0
        /\ \A j \in 1..(i - 1 + 1) : SubSeq(rows, 1, i)[j] = rows[1 + j - 1]
    BY <2>1, SubSeqProperties
  <2> QED
    BY <1>1, <2>1, <2>2
<1>4. /\ u \in Seq(Token) /\ Len(u) = Len(t) + i
      /\ \A j \in 1..(Len(t) + i) : u[j] = (t \o tokens)[j]
  BY TextOfRow
<1> HIDE DEF u, r
<1>5. /\ t \o r \in Seq(Token) /\ Len(t \o r) = Len(t) + i
      /\ \A j \in 1..Len(t) : (t \o r)[j] = t[j]
      /\ \A j \in 1..i : (t \o r)[Len(t) + j] = r[j]
  BY <1>3, Continued
<1>6. ASSUME NEW j \in 1..(Len(t) + i) PROVE (t \o r)[j] = u[j]
  <2>1. CASE j <= Len(t)
    <3>1. j \in 1..Len(t)
      BY <1>1, <2>1
    <3> QED
      BY <1>4, <1>5, <3>1, Continued
  <2>2. CASE ~(j <= Len(t))
    <3>1. PICK x \in 1..i : j = Len(t) + x
      <4>1. j - Len(t) \in 1..i /\ j = Len(t) + (j - Len(t))
        BY <1>1, <2>2
      <4> QED
        BY <4>1
    <3>2. x \in 1..Len(tokens)
      BY <1>1
    <3>3. (t \o tokens)[j] = tokens[x]
      BY <3>1, <3>2, Continued
    <3>4. (t \o r)[j] = rows[x]
      BY <1>3, <1>5, <3>1
    <3> QED
      BY <1>2, <1>4, <3>3, <3>4
  <2> QED
    BY <2>1, <2>2
<1>7. t \o r = u
  BY <1>4, <1>5, <1>6, SeqEqual
<1> QED
  BY <1>7 DEF u, r

LEMMA SameInterval ==
    ASSUME NEW a \in Nat, NEW b \in Nat, 1..a = 1..b
    PROVE  a = b
<1>1. CASE a < b
  <2>1. b \in 1..b /\ b \notin 1..a
    BY <1>1
  <2> QED
    BY <2>1
<1>2. CASE b < a
  <2>1. a \in 1..a /\ a \notin 1..b
    BY <1>2
  <2> QED
    BY <2>1
<1> QED
  BY <1>1, <1>2

LEMMA ConvIsSeq ==
    ASSUME NEW t \in Seq(Token), NEW m \in Nat, NEW c, ConvFor(c, t, m)
    PROVE  c \in Seq(Cell) /\ Len(c) = m
<1>1. Len(t) \in Nat
  BY LenProperties
<1>2. c = [i \in 1..m |-> Before(t, Len(t) - m + i)]
  BY DEF ConvFor
<1>3. ASSUME NEW i \in 1..m PROVE Before(t, Len(t) - m + i) \in Cell
  <2>1. CASE Len(t) - m + i < 1
    BY <2>1, StreamAssumption DEF Before, Cell
  <2>2. CASE ~(Len(t) - m + i < 1)
    <3>1. Len(t) - m + i \in 1..Len(t)
      BY <1>1, <2>2
    <3> QED
      BY <2>2, <3>1, ElementOfSeq DEF Before, Cell
  <2> QED
    BY <2>1, <2>2
<1>4. c \in [1..m -> Cell]
  BY <1>2, <1>3
<1>5. c \in Seq(Cell)
  BY <1>1, <1>4, SeqDef
<1>6. DOMAIN c = 1..Len(c) /\ Len(c) \in Nat
  BY <1>5, LenProperties
<1>7. 1..Len(c) = 1..m
  BY <1>4, <1>6
<1> QED
  BY <1>1, <1>5, <1>6, <1>7, SameInterval

(* The state of a convolution and the rows behind it, one cell at a time. *)
LEMMA ConvCell ==
    ASSUME NEW t \in Seq(Token), NEW tokens \in Seq(Token), NEW rows, RowsFor(rows, tokens),
           NEW m \in Nat, NEW c, ConvFor(c, t, m)
    PROVE  \A p \in 1..(m + Len(tokens)) :
               /\ (c \o rows)[p] = Before(t \o tokens, Len(t) - m + p)
               /\ (c \o rows)[p] \in Cell
<1> SUFFICES ASSUME NEW p \in 1..(m + Len(tokens))
             PROVE  /\ (c \o rows)[p] = Before(t \o tokens, Len(t) - m + p)
                    /\ (c \o rows)[p] \in Cell
  OBVIOUS
<1>1. Len(t) \in Nat /\ Len(tokens) \in Nat
      /\ rows \in Seq(Cell) /\ Len(rows) \in Nat /\ Len(tokens) <= Len(rows)
  BY LenProperties DEF RowsFor
<1>2. c = [i \in 1..m |-> Before(t, Len(t) - m + i)]
  BY DEF ConvFor
<1>3. c \in Seq(Cell) /\ Len(c) = m
  BY ConvIsSeq
<1>4. p \in 1..(m + Len(rows)) /\ p \in Nat
  BY <1>1
<1>5. \A i \in 1..(m + Len(rows)) : (c \o rows)[i] =
          IF i <= m THEN c[i] ELSE rows[i - m]
  BY <1>1, <1>3, ConcatProperties
<1>6. CASE p <= m
  <2>1. p \in 1..m
    BY <1>4, <1>6
  <2>2. (c \o rows)[p] = Before(t, Len(t) - m + p)
    BY <1>2, <1>4, <1>5, <1>6, <2>1
  <2>3. c[p] \in Cell
    BY <1>3, <2>1, ElementOfSeq
  <2>4. Before(t, Len(t) - m + p) = Before(t \o tokens, Len(t) - m + p)
    <3>1. CASE Len(t) - m + p < 1
      BY <3>1 DEF Before
    <3>2. CASE ~(Len(t) - m + p < 1)
      <4>1. Len(t) - m + p \in 1..Len(t)
        BY <1>1, <2>1, <3>2
      <4> QED
        BY <3>2, <4>1, Continued DEF Before
    <3> QED
      BY <3>1, <3>2
  <2> QED
    BY <1>4, <1>5, <1>6, <2>2, <2>3, <2>4
<1>7. CASE ~(p <= m)
  <2>1. PICK x \in 1..Len(tokens) : p = m + x
    <3>1. p - m \in 1..Len(tokens) /\ p = m + (p - m)
      BY <1>1, <1>4, <1>7
    <3> QED
      BY <3>1
  <2>2. p - m = x /\ Len(t) - m + p = Len(t) + x /\ ~(Len(t) + x < 1)
    <3>1. x \in Nat /\ x >= 1
      BY <1>1
    <3> QED
      BY <1>1, <2>1, <3>1
  <2>3. (c \o rows)[p] = tokens[x] /\ tokens[x] \in Token
    BY <1>4, <1>5, <1>7, <2>1, <2>2, ElementOfSeq DEF RowsFor
  <2>4. (t \o tokens)[Len(t) + x] = tokens[x]
    BY Continued
  <2> QED
    BY <2>2, <2>3, <2>4 DEF Before, Cell
<1> QED
  BY <1>4, <1>6, <1>7

LEMMA ConvSeesText ==
    ASSUME NEW t \in Seq(Token), NEW tokens \in Seq(Token), NEW rows, RowsFor(rows, tokens),
           NEW i \in 1..Len(tokens), NEW width \in Nat, width >= 1, NEW step \in Nat,
           NEW m \in Nat, m = (width - 1) * step, NEW c, ConvFor(c, t, m)
    PROVE  ConvSees(c, rows, i, width, step) =
               LastOf(SubSeq(t \o tokens, 1, Len(t) + i), width, step)
<1> DEFINE s == t \o tokens
           u == SubSeq(s, 1, Len(t) + i)
<1>1. Len(t) \in Nat /\ Len(tokens) \in Nat
  BY LenProperties
<1>2. Len(u) = Len(t) + i /\ \A j \in 1..(Len(t) + i) : u[j] = s[j]
  BY TextOfRow
<1>5. \A p \in 1..(m + Len(tokens)) : (c \o rows)[p] = Before(s, Len(t) - m + p)
  <2>1. \A p \in 1..(m + Len(tokens)) :
            /\ (c \o rows)[p] = Before(t \o tokens, Len(t) - m + p)
            /\ (c \o rows)[p] \in Cell
    BY ONLY t \in Seq(Token), tokens \in Seq(Token), RowsFor(rows, tokens), m \in Nat,
            ConvFor(c, t, m), ConvCell
  <2> QED
    BY <2>1
<1> HIDE DEF s, u
<1>3. ASSUME NEW x \in 1..width
      PROVE  (c \o rows)[i + (x - 1) * step] =
                 (LET j == Len(u) - (width - x) * step IN IF j < 1 THEN Filler ELSE u[j])
  <2>0. PICK before \in Nat, behind \in Nat :
            /\ before = (x - 1) * step /\ behind = (width - x) * step
            /\ before + behind = m
    <3>1. PICK a \in Nat, b \in Nat : a = x - 1 /\ b = width - x /\ a + b = width - 1
      <4>1. x - 1 \in Nat /\ width - x \in Nat /\ (x - 1) + (width - x) = width - 1
        OBVIOUS
      <4> QED
        BY <4>1
    <3>2. a * step \in Nat /\ b * step \in Nat /\ a * step + b * step = (a + b) * step
      OBVIOUS
    <3> QED
      BY <3>1, <3>2
  <2> DEFINE p == i + before
             j == Len(t) - m + p
  <2>1. /\ p \in 1..(m + Len(tokens)) /\ i + (x - 1) * step = p
        /\ Len(u) - (width - x) * step = j
        /\ j \in Int /\ j <= Len(t) + i
    <3>0. PICK L \in Nat, K \in Nat : L = Len(t) /\ K = Len(tokens)
      BY <1>1
    <3>1. i \in 1..K /\ Len(u) = L + i /\ before + behind = m
      BY <1>2, <2>0, <3>0
    <3>2. i + before \in 1..(m + K)
      BY ONLY <3>1, K \in Nat, before \in Nat, behind \in Nat, m \in Nat
    <3>3. /\ Len(u) - behind = L - m + (i + before)
          /\ L - m + (i + before) \in Int /\ L - m + (i + before) <= L + i
      BY ONLY <3>1, L \in Nat, K \in Nat, before \in Nat, behind \in Nat, m \in Nat
    <3>4. p \in 1..(m + Len(tokens)) /\ Len(u) - behind = j /\ j \in Int /\ j <= Len(t) + i
      BY <3>0, <3>2, <3>3
    <3> QED
      BY <2>0, <3>4
  <2> HIDE DEF p, j
  <2>2. (c \o rows)[p] = Before(s, j)
    BY <1>5, <2>1 DEF j
  <2>3. CASE j < 1
    BY <2>1, <2>2, <2>3 DEF Before
  <2>4. CASE ~(j < 1)
    <3>1. j \in 1..(Len(t) + i)
      BY <1>1, <2>1, <2>4
    <3> QED
      BY <1>2, <2>1, <2>2, <2>4, <3>1 DEF Before
  <2> QED
    BY <2>3, <2>4
<1>4. ConvSees(c, rows, i, width, step) = LastOf(u, width, step)
  BY <1>3 DEF ConvSees, LastOf
<1> QED
  BY <1>4 DEF s, u

LEMMA CellsBetween ==
    ASSUME NEW w, NEW from \in Nat, NEW m \in Nat, NEW to \in Int, to = from + m - 1,
           \A i \in from..to : w[i] \in Cell
    PROVE  /\ SubSeq(w, from, to) \in Seq(Cell) /\ Len(SubSeq(w, from, to)) = m
           /\ \A i \in 1..m : SubSeq(w, from, to)[i] = w[from + i - 1]
<1>1. /\ SubSeq(w, from, to) \in Seq(Cell)
      /\ Len(SubSeq(w, from, to)) = IF from <= to THEN to - from + 1 ELSE 0
      /\ \A i \in 1..(to - from + 1) : SubSeq(w, from, to)[i] = w[from + i - 1]
  <2>1. from \in Int
    OBVIOUS
  <2>2. SubSeq(w, from, to) \in Seq(Cell)
    BY <2>1, SubSeqProperties
  <2>3. Len(SubSeq(w, from, to)) = IF from <= to THEN to - from + 1 ELSE 0
    BY <2>1, SubSeqProperties
  <2>4. \A i \in 1..(to - from + 1) : SubSeq(w, from, to)[i] = w[from + i - 1]
    BY <2>1, SubSeqProperties
  <2> QED
    BY <2>2, <2>3, <2>4
<1>2. to - from + 1 = m /\ (m = 0 <=> ~(from <= to))
  OBVIOUS
<1> QED
  BY <1>1, <1>2

LEMMA ConvFollows ==
    ASSUME NEW t \in Seq(Token), NEW tokens \in Seq(Token), Len(tokens) >= 1,
           NEW rows, RowsFor(rows, tokens), NEW m \in Nat, NEW c, ConvFor(c, t, m)
    PROVE  ConvFor(ConvState(c, rows, Len(tokens)), t \o tokens, m)
<1> DEFINE n == Len(tokens)
           s == t \o tokens
           w == c \o rows
           from == n + 1
           to == n + m
           d == SubSeq(w, from, to)
<1>1. n \in Nat /\ Len(t) \in Nat /\ Len(s) = Len(t) + n
  BY Continued
<1>2. \A p \in 1..(m + n) : w[p] = Before(s, Len(t) - m + p) /\ w[p] \in Cell
  BY ConvCell
<1>3. ConvState(c, rows, Len(tokens)) = d
  BY ConvIsSeq, RealRows DEF ConvState
<1> HIDE DEF n, s, w
<1>4. /\ from \in Nat /\ to \in Int /\ to = from + m - 1
      /\ \A i \in from..to : i \in 1..(m + n)
      /\ \A i \in 1..m : from + i - 1 = n + i
  BY <1>1
<1> HIDE DEF from, to
<1>5. \A i \in from..to : w[i] \in Cell
  BY <1>2, <1>4
<1>6. /\ SubSeq(w, from, to) \in Seq(Cell) /\ Len(SubSeq(w, from, to)) = m
      /\ \A i \in 1..m : SubSeq(w, from, to)[i] = w[from + i - 1]
  BY <1>1, <1>4, <1>5, CellsBetween
<1> HIDE DEF d
<1>7. d \in Seq(Cell) /\ Len(d) = m /\ \A i \in 1..m : d[i] = w[n + i]
  BY <1>4, <1>6 DEF d
<1>8. DOMAIN d = 1..m /\ d = [i \in 1..m |-> d[i]]
  <2>1. d \in [1..Len(d) -> Cell]
    BY <1>7, LenProperties
  <2> QED
    BY <1>7, <2>1
<1>9. ASSUME NEW i \in 1..m PROVE d[i] = Before(s, Len(s) - m + i)
  <2>1. n + i \in 1..(m + n) /\ Len(t) - m + (n + i) = Len(s) - m + i
    BY <1>1
  <2>2. d[i] = w[n + i]
    BY <1>7
  <2>3. w[n + i] = Before(s, Len(t) - m + (n + i))
    BY <1>2, <2>1
  <2> QED
    BY <2>1, <2>2, <2>3
<1>10. d = [i \in 1..m |-> Before(s, Len(s) - m + i)]
  BY <1>8, <1>9
<1> QED
  BY <1>3, <1>10 DEF ConvFor, s

LEMMA ShiftSeesText ==
    ASSUME NEW t \in Seq(Token), NEW tokens \in Seq(Token), NEW rows, RowsFor(rows, tokens),
           NEW x, LastFor(x, t), NEW i \in 1..Len(tokens)
    PROVE  ShiftSees(x, rows, i) = ShiftView(SubSeq(t \o tokens, 1, Len(t) + i))
<1> DEFINE u == SubSeq(t \o tokens, 1, Len(t) + i)
<1>0. u = SubSeq(t \o tokens, 1, Len(t) + i)
  OBVIOUS
<1> HIDE DEF u
<1> SUFFICES ShiftSees(x, rows, i) = ShiftView(u)
  BY DEF u
<1>1. /\ Len(t) \in Nat /\ Len(tokens) \in Nat
      /\ Len(u) = Len(t) + i /\ \A j \in 1..(Len(t) + i) : u[j] = (t \o tokens)[j]
      /\ \A j \in 1..Len(t) : (t \o tokens)[j] = t[j]
      /\ \A j \in 1..Len(tokens) : (t \o tokens)[Len(t) + j] = tokens[j]
  BY <1>0, TextOfRow, Continued
<1>2. t = <<>> <=> Len(t) = 0
  BY EmptySeq
<1>3. CASE i = 1
  <2>1. At(u) = Len(t)
    BY <1>1, <1>3 DEF At
  <2>2. CASE Len(t) = 0
    BY <1>2, <1>3, <2>1, <2>2 DEF ShiftSees, LastFor, ShiftView
  <2>3. CASE Len(t) # 0
    <3>1. Len(t) \in 1..Len(t) /\ Len(t) \in 1..(Len(t) + i)
      BY <1>1, <2>3
    <3>2. u[Len(t)] = t[Len(t)]
      BY <1>1, <3>1
    <3> QED
      BY <1>2, <1>3, <2>1, <2>3, <3>2 DEF ShiftSees, LastFor, ShiftView
  <2> QED
    BY <2>2, <2>3
<1>4. CASE i # 1
  <2>1. i - 1 \in 1..Len(tokens) /\ At(u) = Len(t) + (i - 1)
        /\ Len(t) + (i - 1) \in 1..(Len(t) + i) /\ Len(t) + (i - 1) # 0
    BY <1>1, <1>4 DEF At
  <2>2. u[Len(t) + (i - 1)] = tokens[i - 1]
    BY <1>1, <2>1
  <2>3. rows[i - 1] = tokens[i - 1]
    BY <2>1 DEF RowsFor
  <2> QED
    BY <1>4, <2>1, <2>2, <2>3 DEF ShiftSees, ShiftView
<1> QED
  BY <1>3, <1>4

LEMMA LastFollows ==
    ASSUME NEW t \in Seq(Token), NEW tokens \in Seq(Token), Len(tokens) >= 1,
           NEW rows, RowsFor(rows, tokens)
    PROVE  LastFor(ShiftState(rows, Len(tokens)), t \o tokens)
<1> DEFINE n == Len(tokens)
<1>1. n \in 1..n /\ n \in Nat
  BY Continued
<1>2. /\ Len(t \o tokens) = Len(t) + n /\ (t \o tokens)[Len(t) + n] = tokens[n]
      /\ Len(t) \in Nat /\ t \o tokens \in Seq(Token)
  BY <1>1, Continued
<1>3. t \o tokens # <<>>
  BY <1>1, <1>2, EmptySeq
<1>4. ShiftState(rows, n) = tokens[n]
  BY <1>1, RealRows DEF ShiftState, RowsFor
<1> QED
  BY <1>2, <1>3, <1>4 DEF LastFor

-----------------------------------------------------------------------------
(* Induction along 0..n, for a set: an operator could not be instantiated. *)
LEMMA AllUpTo ==
    ASSUME NEW n \in Nat, NEW S, 0 \in S, \A i \in 1..n : i - 1 \in S => i \in S
    PROVE  \A i \in 0..n : i \in S
<1> DEFINE Out == (0..n) \ S
<1> SUFFICES ASSUME Out # {} PROVE FALSE
  OBVIOUS
<1>1. PICK R : R = OpToRel(<, Nat)
  OBVIOUS
<1>2. IsWellFoundedOn(R, Nat)
  BY <1>1, NatLessThanWellFounded
<1>3. \A x, y \in Nat : x < y => <<x, y>> \in R
  BY <1>1 DEF OpToRel
<1>4. Out \subseteq Nat
  OBVIOUS
<1>5. PICK i \in Out : \A m \in Out : ~(<<m, i>> \in R)
  BY <1>2, <1>4, WFMin
<1>6. i # 0 /\ i \in 0..n
  BY <1>5
<1>7. i \in 1..n /\ i - 1 \in 0..n /\ i - 1 \in Nat /\ i \in Nat /\ i - 1 < i
  BY <1>6
<1>8. i - 1 \notin Out
  BY <1>3, <1>5, <1>7
<1> QED
  BY <1>5, <1>7, <1>8

(* A recursion along 0..n has a value, and keeps to a closed set. *)
Recursion(f, S, m, start, step) ==
    /\ f \in [0..m -> S] /\ f[0] = start
    /\ \A i \in 1..m : f[i] = step[i][f[i - 1]]

LEMMA RecursionExists ==
    ASSUME NEW n \in Nat, NEW S, NEW start \in S, NEW step \in [1..n -> [S -> S]]
    PROVE  \E f : Recursion(f, S, n, start, step)
<1> DEFINE T == {m \in 0..n : \E f : Recursion(f, S, m, start, step)}
<1>1. 0 \in T
  <2> DEFINE f == [i \in 0..0 |-> start]
  <2>1. Recursion(f, S, 0, start, step)
    BY DEF Recursion
  <2> QED
    BY <2>1
<1>2. ASSUME NEW m \in 1..n, m - 1 \in T
      PROVE  m \in T
  <2>1. PICK f : Recursion(f, S, m - 1, start, step)
    BY <1>2
  <2>2. f \in [0..(m - 1) -> S] /\ f[0] = start /\ \A i \in 1..(m - 1) : f[i] = step[i][f[i - 1]]
    BY <2>1 DEF Recursion
  <2>3. PICK x \in S : x = step[m][f[m - 1]]
    <3>1. m - 1 \in 0..(m - 1)
      OBVIOUS
    <3>2. f[m - 1] \in S /\ step[m] \in [S -> S]
      BY <2>2, <3>1
    <3> QED
      BY <3>2
  <2>4. PICK g : g = [i \in 0..m |-> IF i < m THEN f[i] ELSE x]
    OBVIOUS
  <2>5. ASSUME NEW i \in 0..m, i < m PROVE g[i] = f[i] /\ f[i] \in S
    <3>1. i \in 0..(m - 1)
      BY <2>5
    <3> QED
      BY <2>2, <2>4, <2>5, <3>1
  <2>6. g[m] = x
    BY <2>4
  <2>7. g \in [0..m -> S]
    BY <2>2, <2>4, <2>5
  <2>8. g[0] = start
    BY <2>2, <2>5
  <2>9. ASSUME NEW i \in 1..m PROVE g[i] = step[i][g[i - 1]]
    <3>1. i - 1 \in 0..m /\ i - 1 < m /\ i \in 0..m
      OBVIOUS
    <3>2. g[i - 1] = f[i - 1]
      BY <2>5, <3>1
    <3>3. CASE i < m
      <4>1. i \in 1..(m - 1)
        BY <3>3
      <4> QED
        BY <2>2, <2>5, <3>1, <3>2, <3>3, <4>1
    <3>4. CASE i = m
      BY <2>3, <2>6, <3>2, <3>4
    <3> QED
      BY <3>3, <3>4
  <2>10. Recursion(g, S, m, start, step)
    BY <2>7, <2>8, <2>9 DEF Recursion
  <2> QED
    BY <2>10
<1>3. \A i \in 0..n : i \in T
  <2> HIDE DEF T
  <2> QED
    BY <1>1, <1>2, AllUpTo
<1> QED
  BY <1>3

(* The recursions of the model, as their equations. *)
HistoryRun(f, S, h, tokens, n) ==
    /\ f \in [0..n -> S] /\ f[0] = h
    /\ \A i \in 1..n : f[i] = NextHistory(f[i - 1], tokens[i])
    /\ HistoryAfter(h, tokens, n) = f[n]

LEMMA HistorySteps ==
    ASSUME NEW S, NEW h \in S, NEW tokens \in Seq(Token), NEW n \in 0..Len(tokens),
           \A x \in S, token \in Token : NextHistory(x, token) \in S
    PROVE  \E f : HistoryRun(f, S, h, tokens, n)
<1>1. n \in Nat /\ Len(tokens) \in Nat /\ \A i \in 1..n : tokens[i] \in Token
  BY LenProperties, ElementOfSeq
<1>2. PICK step : step = [i \in 1..n |-> [x \in S |-> NextHistory(x, tokens[i])]]
  OBVIOUS
<1>3. step \in [1..n -> [S -> S]]
  BY <1>1, <1>2
<1>4. PICK f : Recursion(f, S, n, h, step)
  BY <1>1, <1>3, RecursionExists
<1>5. f \in [0..n -> S] /\ f[0] = h /\ \A i \in 1..n : f[i] = step[i][f[i - 1]]
  BY <1>4 DEF Recursion
<1>6. ASSUME NEW i \in 1..n PROVE f[i] = NextHistory(f[i - 1], tokens[i])
  <2>1. i - 1 \in 0..n /\ f[i - 1] \in S
    BY <1>1, <1>5
  <2> QED
    BY <1>2, <1>5, <2>1
<1> DEFINE Eqn(g) == g = [i \in 0..n |-> IF i = 0 THEN h ELSE NextHistory(g[i - 1], tokens[i])]
<1>7. Eqn(f)
  <2>2. \A i \in 0..n : i # 0 => i \in 1..n
    BY <1>1
  <2> QED
    BY <1>5, <1>6, <2>2
<1> DEFINE c == CHOOSE g : Eqn(g)
<1>8. HistoryAfter(h, tokens, n) = c[n]
  BY DEF HistoryAfter
<1>9. Eqn(c)
  <2> HIDE DEF Eqn
  <2> QED
    BY <1>7
<1> HIDE DEF c
<1>10. c[0] = h
  BY <1>9
<1>11. ASSUME NEW i \in 1..n PROVE c[i] = NextHistory(c[i - 1], tokens[i])
  BY <1>9
<1>12. \A i \in 0..n : c[i] = f[i]
  <2> DEFINE T == {i \in 0..n : c[i] = f[i]}
  <2>1. 0 \in T
    BY <1>5, <1>10
  <2>2. ASSUME NEW i \in 1..n, i - 1 \in T PROVE i \in T
    BY <1>6, <1>11, <2>2
  <2> HIDE DEF T
  <2>3. \A i \in 0..n : i \in T
    BY <1>1, <2>1, <2>2, AllUpTo
  <2> QED
    BY <2>3 DEF T
<1>13. c[n] = f[n]
  BY <1>1, <1>12
<1>14. HistoryRun(f, S, h, tokens, n)
  BY <1>5, <1>6, <1>8, <1>13 DEF HistoryRun
<1> QED
  BY <1>14

-----------------------------------------------------------------------------
(* The compressor. *)

LEMMA RowsOfState ==
    /\ Ratio \in Nat /\ Ratio >= 1 /\ StateRows \in Nat /\ StateRows >= Ratio
    /\ StateRows = IF Overlap THEN 2 * Ratio ELSE Ratio
  BY CompressedAssumption DEF StateRows

LEMMA DestinationInRows ==
    ASSUME NEW position \in Nat
    PROVE  DestinationRow(position) \in 0..(StateRows - 1)
<1>1. position % Ratio \in 0..(Ratio - 1)
  BY RowsOfState
<1> QED
  BY <1>1, RowsOfState DEF DestinationRow

LEMMA AfterEntryTyped ==
    ASSUME NEW rows \in EntryRows
    PROVE  AfterEntry(rows) \in EntryRows
<1>1. CASE Overlap
  <2>1. ASSUME NEW r \in 0..(StateRows - 1), r < Ratio
        PROVE  rows[r + Ratio] \in Cell \cup {Absent}
    <3>1. r + Ratio \in 0..(StateRows - 1)
      BY <1>1, <2>1, RowsOfState
    <3> QED
      BY <3>1 DEF EntryRows
  <2> QED
    BY <1>1, <2>1 DEF AfterEntry, EntryRows
<1> QED
  BY <1>1 DEF AfterEntry

LEMMA CompressOneTyped ==
    ASSUME NEW s \in States, NEW position \in Nat, NEW token \in Token
    PROVE  CompressOne(s, position, token) \in States
<1> DEFINE rows == [s.rows EXCEPT ![DestinationRow(position)] = token]
<1>1. s.rows \in EntryRows /\ s.entries \in [Entries -> EntryRows]
      /\ s = [rows |-> s.rows, entries |-> s.entries]
  BY DEF States
<1>2. rows \in EntryRows
  BY <1>1 DEF EntryRows, Cell
<1>3. CASE (position + 1) % Ratio # 0
  <2>1. CompressOne(s, position, token) = [s EXCEPT !.rows = rows]
    BY <1>3 DEF CompressOne
  <2> HIDE DEF rows
  <2>2. [s EXCEPT !.rows = rows] = [rows |-> rows, entries |-> s.entries]
    BY <1>1
  <2> QED
    BY <1>1, <1>2, <2>1, <2>2 DEF States
<1>4. CASE (position + 1) % Ratio = 0
  <2>1. CompressOne(s, position, token) =
            [rows |-> AfterEntry(rows),
             entries |-> [s.entries EXCEPT ![position \div Ratio] = rows]]
    BY <1>4 DEF CompressOne
  <2> HIDE DEF rows
  <2>2. [s.entries EXCEPT ![position \div Ratio] = rows] \in [Entries -> EntryRows]
    BY <1>1, <1>2
  <2> QED
    BY <1>2, <2>1, <2>2, AfterEntryTyped DEF States
<1> QED
  BY <1>3, <1>4

LEMMA StartOfTyped ==
    ASSUME NEW s \in States, NEW start \in Nat
    PROVE  StartOf(s, start) \in States
<1>1. Zero \in Cell
  BY DEF Cell
<1>2. FreshRows \in EntryRows /\ NoEntry \in EntryRows
  BY <1>1 DEF FreshRows, NoEntry, EntryRows
<1>3. NoEntries \in [Entries -> EntryRows]
  BY <1>2 DEF NoEntries
<1> QED
  BY <1>2, <1>3 DEF StartOf, States

LEMMA CompressSteps ==
    ASSUME NEW s \in States, NEW start \in Nat, NEW tokens \in Seq(Token)
    PROVE  \E f \in [0..Len(tokens) -> States] :
               /\ f[0] = StartOf(s, start)
               /\ \A i \in 1..Len(tokens) :
                     f[i] = CompressOne(f[i - 1], start + i - 1, tokens[i])
               /\ Compress(s, start, tokens) = f[Len(tokens)]
<1>1. PICK n \in Nat : n = Len(tokens)
  BY LenProperties
<1>2. \A i \in 1..n : tokens[i] \in Token /\ start + i - 1 \in Nat
  BY <1>1, ElementOfSeq
<1>3. PICK h \in States : h = StartOf(s, start)
  BY StartOfTyped
<1>4. PICK step : step = [i \in 1..n |-> [x \in States |-> CompressOne(x, start + i - 1, tokens[i])]]
  OBVIOUS
<1>5. step \in [1..n -> [States -> States]]
  BY <1>2, <1>4, CompressOneTyped
<1>6. PICK f : Recursion(f, States, n, h, step)
  BY <1>1, <1>3, <1>5, RecursionExists
<1>7. f \in [0..n -> States] /\ f[0] = h /\ \A i \in 1..n : f[i] = step[i][f[i - 1]]
  BY <1>6 DEF Recursion
<1>8. ASSUME NEW i \in 1..n PROVE f[i] = CompressOne(f[i - 1], start + i - 1, tokens[i])
  <2>1. i - 1 \in 0..n /\ f[i - 1] \in States
    BY <1>1, <1>7
  <2> QED
    BY <1>4, <1>7, <2>1
<1> DEFINE Eqn(g) == g = [i \in 0..n |-> IF i = 0 THEN h
                                       ELSE CompressOne(g[i - 1], start + i - 1, tokens[i])]
<1>9. Eqn(f)
  <2>2. \A i \in 0..n : i # 0 => i \in 1..n
    BY <1>1
  <2> QED
    BY <1>7, <1>8, <2>2
<1> DEFINE c == CHOOSE g : Eqn(g)
<1>10. Compress(s, start, tokens) = c[n]
  BY <1>1, <1>3 DEF Compress
<1>11. Eqn(c)
  <2> HIDE DEF Eqn
  <2> QED
    BY <1>9
<1> HIDE DEF c
<1>12. c[0] = h
  BY <1>11
<1>13. ASSUME NEW i \in 1..n PROVE c[i] = CompressOne(c[i - 1], start + i - 1, tokens[i])
  BY <1>11
<1>14. \A i \in 0..n : c[i] = f[i]
  <2> DEFINE T == {i \in 0..n : c[i] = f[i]}
  <2>1. 0 \in T
    BY <1>7, <1>12
  <2>2. ASSUME NEW i \in 1..n, i - 1 \in T PROVE i \in T
    BY <1>8, <1>13, <2>2
  <2> HIDE DEF T
  <2>3. \A i \in 0..n : i \in T
    BY <1>1, <2>1, <2>2, AllUpTo
  <2> QED
    BY <2>3 DEF T
<1> QED
  BY <1>1, <1>3, <1>7, <1>8, <1>10, <1>14

-----------------------------------------------------------------------------
(* Positions fall into groups of Ratio. *)

LEMMA Division ==
    ASSUME NEW n \in Nat, NEW b \in Nat, b > 0
    PROVE  /\ n \div b \in Nat /\ n % b \in Nat /\ n % b < b
           /\ n = b * (n \div b) + (n % b)
  OBVIOUS

LEMMA Quotient ==
    ASSUME NEW b \in Nat, b > 0, NEW g \in Nat, NEW q \in Nat, q < b,
           NEW n \in Nat, n = b * g + q
    PROVE  n \div b = g /\ n % b = q
<1>1. PICK h \in Nat, p \in Nat :
          h = n \div b /\ p = n % b /\ n = b * h + p /\ p < b
  BY Division
<1>2. ASSUME NEW x \in Nat, NEW y \in Nat, NEW u \in Nat, NEW v \in Nat,
             b * x + u = b * y + v, u < b, x < y
      PROVE  FALSE
  <2>1. PICK d \in Nat : y = x + 1 + d
    <3>1. y - x - 1 \in Nat /\ y = x + 1 + (y - x - 1)
      BY <1>2
    <3> QED
      BY <3>1
  <2>2. b * y = b * x + b + b * d /\ b * d >= 0
    BY <2>1
  <2> QED
    BY <1>2, <2>2
<1>3. ~(h < g) /\ ~(g < h)
  BY <1>1, <1>2
<1>4. h = g
  BY <1>3
<1>5. p = q
  BY <1>1, <1>4
<1> QED
  BY <1>1, <1>4, <1>5

(* The group and the place of the next position. *)
LEMMA NextGroup ==
    ASSUME NEW n \in Nat, NEW b \in Nat, b > 0
    PROVE  /\ (n + 1) % b # 0 => (n + 1) \div b = n \div b
           /\ (n + 1) % b = 0 => (n + 1) \div b = n \div b + 1 /\ n % b = b - 1
<1>1. PICK g \in Nat, q \in Nat : g = n \div b /\ q = n % b /\ q < b /\ n = b * g + q
  BY Division
<1>2. CASE q + 1 < b
  <2>1. n + 1 = b * g + (q + 1) /\ q + 1 # 0
    BY <1>1
  <2>2. (n + 1) \div b = g /\ (n + 1) % b = q + 1
    BY <1>2, <2>1, Quotient
  <2> QED
    BY <1>1, <2>1, <2>2
<1>3. CASE q + 1 = b
  <2>1. n + 1 = b * (g + 1) + 0
    BY <1>1, <1>3
  <2>2. (n + 1) \div b = g + 1 /\ (n + 1) % b = 0
    BY <2>1, Quotient
  <2> QED
    BY <1>1, <1>3, <2>2
<1> QED
  BY <1>1, <1>2, <1>3

LEMMA Multiples ==
    ASSUME NEW b \in Nat, NEW x \in Nat, NEW y \in Nat, x < y
    PROVE  b * x + b <= b * y /\ b * x \in Nat /\ b * y \in Nat
<1>1. PICK d \in Nat : y = x + 1 + d
  <2>1. y - x - 1 \in Nat /\ y = x + 1 + (y - x - 1)
    OBVIOUS
  <2> QED
    BY <2>1
<1>2. b * y = b * x + b + b * d /\ b * d >= 0
  BY <1>1
<1> QED
  BY <1>2

-----------------------------------------------------------------------------
(* What the compressor holds after the first n tokens of a text. *)


LEMMA EntryCells ==
    ASSUME NEW t, NEW c
    PROVE  EntryOf(t, c) = [r \in 0..(StateRows - 1) |-> EntryCell(t, First(c) + r)]
BY DEF EntryOf, EntryCell, First

(* The rows of the group of position n, and the row n goes to. *)
LEMMA GroupRows ==
    ASSUME NEW n \in Nat
    PROVE  /\ First(n \div Ratio) \in Int
           /\ First(n \div Ratio) + DestinationRow(n) = n
           /\ First(n \div Ratio) + StateRows = Ratio * (n \div Ratio) + Ratio
           /\ First(n \div Ratio) + StateRows > n
<1>1. PICK g \in Nat, q \in Nat :
          g = n \div Ratio /\ q = n % Ratio /\ q < Ratio /\ n = Ratio * g + q
  BY RowsOfState, Division
<1>2. Ratio * g \in Nat /\ (g - 1) * Ratio = Ratio * g - Ratio /\ g * Ratio = Ratio * g
  BY RowsOfState
<1>3. First(g) = IF Overlap THEN Ratio * g - Ratio ELSE Ratio * g
  BY <1>2 DEF First
<1>4. DestinationRow(n) = IF Overlap THEN Ratio + q ELSE q
  BY <1>1 DEF DestinationRow
<1> QED
  BY <1>1, <1>2, <1>3, <1>4, RowsOfState

LEMMA NextFirst ==
    ASSUME NEW g \in Nat
    PROVE  First(g + 1) = First(g) + Ratio
<1>1. /\ (g + 1 - 1) * Ratio = (g - 1) * Ratio + Ratio
      /\ (g + 1) * Ratio = g * Ratio + Ratio
  BY RowsOfState
<1> QED
  BY <1>1 DEF First

LEMMA CompleteEntry ==
    ASSUME NEW n \in Nat, n + 1 <= NCtx, (n + 1) % Ratio = 0
    PROVE  \A c \in 0..(n \div Ratio) : c \in Entries
<1>1. PICK g \in Nat, G \in Nat, p \in Nat :
          /\ g = n \div Ratio /\ n + 1 = Ratio * (g + 1)
          /\ G = NCtx \div Ratio /\ p < Ratio /\ NCtx = Ratio * G + p /\ NCtx \in Nat
  <2>1. PICK g \in Nat : g = n \div Ratio /\ (n + 1) \div Ratio = g + 1
    BY RowsOfState, Division, NextGroup
  <2>2. n + 1 = Ratio * (g + 1)
    <3>1. n + 1 = Ratio * ((n + 1) \div Ratio) + 0
      BY RowsOfState, Division
    <3>2. Ratio * ((n + 1) \div Ratio) = Ratio * (g + 1) /\ Ratio * (g + 1) \in Nat
      BY <2>1, RowsOfState
    <3> QED
      BY <3>1, <3>2
  <2>3. PICK G \in Nat, p \in Nat :
            G = NCtx \div Ratio /\ p < Ratio /\ NCtx = Ratio * G + p /\ NCtx \in Nat
    BY RowsOfState, Division, AttentionAssumption
  <2> QED
    BY <2>1, <2>2, <2>3
<1>2. ASSUME G < g + 1 PROVE FALSE
  <2>1. Ratio * G + Ratio <= Ratio * (g + 1) /\ Ratio * G \in Nat /\ Ratio * (g + 1) \in Nat
    BY <1>2, RowsOfState, Multiples
  <2> QED
    BY <1>1, <2>1, RowsOfState
<1> QED
  BY <1>1, <1>2 DEF Entries

LEMMA CompressOneFollows ==
    ASSUME NEW s \in States, NEW t, NEW n \in Nat, StateUpTo(s, t, n), n + 1 <= NCtx,
           NEW token \in Token, token = t[n + 1]
    PROVE  StateUpTo(CompressOne(s, n, token), t, n + 1)
<1>1. PICK g \in Nat, F \in Int, d \in 0..(StateRows - 1) :
          /\ g = n \div Ratio /\ F = First(g) /\ d = DestinationRow(n) /\ F + d = n
          /\ F + StateRows = Ratio * g + Ratio /\ F + StateRows > n
  <2>1. n \div Ratio \in Nat
    BY RowsOfState, Division
  <2> QED
    BY <2>1, GroupRows, DestinationInRows
<1>2. s.rows \in EntryRows /\ s.entries \in [Entries -> EntryRows]
      /\ s = [rows |-> s.rows, entries |-> s.entries]
  BY DEF States
<1>3. PICK rows : rows = [s.rows EXCEPT ![d] = token]
  OBVIOUS
<1>4. rows \in EntryRows
  BY <1>2, <1>3 DEF EntryRows, Cell
<1>5. ASSUME NEW i \in 0..(StateRows - 1), F + i < n + 1
      PROVE  rows[i] = EntryCell(t, F + i)
  <2>1. CASE i = d
    <3>1. rows[i] = token
      BY <1>2, <1>3, <2>1 DEF EntryRows
    <3>2. F + i = n /\ ~(n < 0)
      BY <1>1, <2>1
    <3> QED
      BY <3>1, <3>2 DEF EntryCell
  <2>2. CASE i # d
    <3>1. rows[i] = s.rows[i]
      BY <1>2, <1>3, <2>2 DEF EntryRows
    <3>2. F + i < n
      BY <1>1, <1>5, <2>2, RowsOfState
    <3> QED
      BY <1>1, <3>1, <3>2 DEF StateUpTo, PendingUpTo
  <2> QED
    BY <2>1, <2>2
<1>6. \A c \in 0..(g - 1) : s.entries[c] = EntryOf(t, c)
  BY <1>1 DEF StateUpTo, EntriesUpTo
<1>7. CASE (n + 1) % Ratio # 0
  <2>1. (n + 1) \div Ratio = g
    BY <1>1, <1>7, RowsOfState, NextGroup
  <2>2. CompressOne(s, n, token) = [rows |-> rows, entries |-> s.entries]
    BY <1>1, <1>2, <1>3, <1>7 DEF CompressOne
  <2>3. EntriesUpTo(s.entries, t, n + 1)
    BY <1>6, <2>1 DEF EntriesUpTo
  <2>4. PendingUpTo(rows, t, n + 1)
    BY <1>1, <1>5, <2>1 DEF PendingUpTo
  <2> QED
    BY <2>2, <2>3, <2>4 DEF StateUpTo
<1>8. CASE (n + 1) % Ratio = 0
  <2>1. (n + 1) \div Ratio = g + 1 /\ n + 1 = F + StateRows
    <3>1. (n + 1) \div Ratio = g + 1 /\ n % Ratio = Ratio - 1
      BY <1>1, <1>8, RowsOfState, NextGroup
    <3>2. n = Ratio * g + (Ratio - 1)
      BY <1>1, <3>1, RowsOfState, Division
    <3> QED
      BY <1>1, <3>1, <3>2, RowsOfState
  <2>2. PICK e : e = [s.entries EXCEPT ![g] = rows]
    OBVIOUS
  <2>3. CompressOne(s, n, token) = [rows |-> AfterEntry(rows), entries |-> e]
    BY <1>1, <1>3, <1>8, <2>2 DEF CompressOne
  <2>4. rows = EntryOf(t, g)
    <3>1. \A i \in 0..(StateRows - 1) : rows[i] = EntryCell(t, F + i)
      BY <1>5, <2>1, RowsOfState
    <3>2. rows = [i \in 0..(StateRows - 1) |-> EntryCell(t, F + i)]
      BY <1>4, <3>1 DEF EntryRows
    <3> QED
      BY <1>1, <3>2, EntryCells
  <2>5. \A c \in 0..g : c \in Entries
    BY <1>1, <1>8, CompleteEntry
  <2>6. ASSUME NEW c \in 0..g PROVE e[c] = EntryOf(t, c)
    <3>1. CASE c = g
      <4>1. g \in Entries
        BY <2>5
      <4> QED
        BY <1>2, <2>2, <2>4, <3>1, <4>1
    <3>2. CASE c # g
      <4>1. c \in 0..(g - 1) /\ c \in Entries /\ g \in Entries
        BY <2>5, <3>2
      <4> QED
        BY <1>2, <1>6, <2>2, <3>2, <4>1
    <3> QED
      BY <3>1, <3>2
  <2>7. EntriesUpTo(e, t, n + 1)
    <3>1. 0..(g + 1 - 1) = 0..g
      OBVIOUS
    <3> QED
      BY <2>1, <2>6, <3>1 DEF EntriesUpTo
  <2>8. First(g + 1) = F + Ratio
    BY <1>1, NextFirst
  <2>9. ASSUME NEW i \in 0..(StateRows - 1), F + Ratio + i < n + 1
        PROVE  AfterEntry(rows)[i] = EntryCell(t, F + Ratio + i)
    <3>1. Overlap /\ i < Ratio /\ i + Ratio \in 0..(StateRows - 1)
      BY <2>1, <2>9, RowsOfState
    <3>2. AfterEntry(rows)[i] = rows[i + Ratio]
      BY <3>1 DEF AfterEntry
    <3>3. F + (i + Ratio) < n + 1 /\ F + (i + Ratio) = F + Ratio + i
      BY <2>9, RowsOfState
    <3> QED
      BY <1>5, <3>1, <3>2, <3>3
  <2>10. PendingUpTo(AfterEntry(rows), t, n + 1)
    BY <2>1, <2>8, <2>9 DEF PendingUpTo
  <2> QED
    BY <2>3, <2>7, <2>10 DEF StateUpTo
<1> QED
  BY <1>7, <1>8

(* A text that agrees with another on its first n tokens. *)
LEMMA SameEntries ==
    ASSUME NEW t, NEW u, NEW n \in Nat, \A j \in 1..n : t[j] = u[j]
    PROVE  /\ \A x \in Int : x < n => EntryCell(t, x) = EntryCell(u, x)
           /\ \A c \in 0..((n \div Ratio) - 1) : EntryOf(t, c) = EntryOf(u, c)
           /\ \A s : StateUpTo(s, t, n) => StateUpTo(s, u, n)
<1>1. ASSUME NEW x \in Int, x < n PROVE EntryCell(t, x) = EntryCell(u, x)
  <2>1. CASE x < 0
    BY <2>1 DEF EntryCell
  <2>2. CASE ~(x < 0)
    <3>1. x + 1 \in 1..n
      BY <1>1, <2>2
    <3> QED
      BY <2>2, <3>1 DEF EntryCell
  <2> QED
    BY <2>1, <2>2
<1>2. PICK g \in Nat, q \in Nat : g = n \div Ratio /\ q = n % Ratio /\ n = Ratio * g + q
  BY RowsOfState, Division
<1>3. ASSUME NEW c \in 0..(g - 1) PROVE EntryOf(t, c) = EntryOf(u, c)
  <2>1. c \in Nat /\ c < g
    BY <1>2
  <2>2. Ratio * c + Ratio <= Ratio * g /\ Ratio * c \in Nat /\ Ratio * g \in Nat
    BY <1>2, <2>1, RowsOfState, Multiples
  <2>3. First(c) \in Int /\ First(c) + StateRows = Ratio * c + Ratio
    <3>1. (c - 1) * Ratio = Ratio * c - Ratio /\ c * Ratio = Ratio * c
      BY <2>1, RowsOfState
    <3>2. First(c) = IF Overlap THEN Ratio * c - Ratio ELSE Ratio * c
      BY <3>1 DEF First
    <3> QED
      BY <2>2, <3>2, RowsOfState
  <2>4. \A r \in 0..(StateRows - 1) : First(c) + r \in Int /\ First(c) + r < n
    BY <1>2, <2>2, <2>3, RowsOfState
  <2>5. \A r \in 0..(StateRows - 1) : EntryCell(t, First(c) + r) = EntryCell(u, First(c) + r)
    BY <1>1, <2>4
  <2> QED
    BY <2>5, EntryCells
<1>4. ASSUME NEW s, StateUpTo(s, t, n) PROVE StateUpTo(s, u, n)
  <2>1. EntriesUpTo(s.entries, u, n)
    BY <1>2, <1>3, <1>4 DEF StateUpTo, EntriesUpTo
  <2>2. First(n \div Ratio) \in Int
    BY GroupRows
  <2>3. \A i \in 0..(StateRows - 1) : First(n \div Ratio) + i < n =>
            EntryCell(t, First(n \div Ratio) + i) = EntryCell(u, First(n \div Ratio) + i)
    BY <1>1, <2>2
  <2>4. PendingUpTo(s.rows, u, n)
    BY <1>4, <2>3 DEF StateUpTo, PendingUpTo
  <2> QED
    BY <2>1, <2>4 DEF StateUpTo
<1> QED
  BY <1>1, <1>2, <1>3, <1>4

LEMMA FreshCompressor ==
    ASSUME NEW t, NEW s
    PROVE  StateUpTo(StartOf(s, 0), t, 0)
<1>1. StartOf(s, 0) = [rows |-> FreshRows, entries |-> NoEntries]
  BY DEF StartOf
<1>2. 0 \div Ratio = 0
  <2>1. 0 = Ratio * 0 + 0
    BY RowsOfState
  <2> QED
    BY <2>1, RowsOfState, Quotient
<1>3. EntriesUpTo(NoEntries, t, 0)
  BY <1>2 DEF EntriesUpTo
<1>4. PendingUpTo(FreshRows, t, 0)
  BY <1>2 DEF PendingUpTo, FreshRows, EntryCell
<1> QED
  BY <1>1, <1>3, <1>4 DEF StateUpTo

(* A run of the compressor from the state of a text makes that of the longer *)
(* one; at position 0 from whatever an earlier text left.                    *)
LEMMA CompressFollows ==
    ASSUME NEW t \in Seq(Token), NEW tokens \in Seq(Token), Len(t) + Len(tokens) <= NCtx,
           NEW s \in States, t # <<>> => StateUpTo(s, t, Len(t))
    PROVE  /\ Compress(s, Len(t), tokens) \in States
           /\ StateUpTo(Compress(s, Len(t), tokens), t \o tokens, Len(t) + Len(tokens))
<1>1. PICK L \in Nat, n \in Nat, u \in Seq(Token) :
          L = Len(t) /\ n = Len(tokens) /\ u = t \o tokens
  BY LenProperties, Continued
<1>2. /\ \A j \in 1..L : u[j] = t[j]
      /\ \A i \in 1..n : u[L + i] = tokens[i] /\ tokens[i] \in Token
  BY <1>1, Continued, ElementOfSeq
<1>3. PICK f \in [0..n -> States] :
          /\ f[0] = StartOf(s, L)
          /\ \A i \in 1..n : f[i] = CompressOne(f[i - 1], L + i - 1, tokens[i])
          /\ Compress(s, L, tokens) = f[n]
  BY <1>1, CompressSteps
<1> DEFINE T == {i \in 0..n : StateUpTo(f[i], u, L + i)}
<1>4. 0 \in T
  <2>1. CASE L = 0
    <3>1. StateUpTo(f[0], u, 0)
      BY <1>3, <2>1, FreshCompressor
    <3> QED
      BY <2>1, <3>1
  <2>2. CASE L # 0
    <3>1. t # <<>>
      BY <1>1, <2>2, EmptySeq
    <3>2. StateUpTo(s, u, L)
      BY <1>1, <1>2, <3>1, SameEntries
    <3>3. f[0] = s
      BY <1>3, <2>2 DEF StartOf
    <3>4. L + 0 = L
      BY <1>1
    <3> QED
      BY <3>2, <3>3, <3>4
  <2> QED
    BY <2>1, <2>2
<1>5. ASSUME NEW i \in 1..n, i - 1 \in T PROVE i \in T
  <2>1. PICK m \in Nat : m = L + i - 1
    <3> HIDE DEF T
    <3>1. L + i - 1 \in Nat
      OBVIOUS
    <3> QED
      BY <3>1
  <2>2. m = L + (i - 1) /\ m + 1 = L + i /\ m + 1 <= NCtx
    BY <1>1, <2>1, AttentionAssumption
  <2>3. f[i - 1] \in States /\ StateUpTo(f[i - 1], u, m)
    BY <1>5, <2>2
  <2>4. tokens[i] \in Token /\ tokens[i] = u[m + 1]
    BY <1>2, <2>2
  <2>5. StateUpTo(CompressOne(f[i - 1], m, tokens[i]), u, m + 1)
    BY <2>2, <2>3, <2>4, CompressOneFollows
  <2>6. f[i] = CompressOne(f[i - 1], m, tokens[i])
    BY <1>3, <2>1
  <2>7. StateUpTo(f[i], u, L + i)
    BY <2>2, <2>5, <2>6
  <2> QED
    BY <2>7
<1>6. \A i \in 0..n : i \in T
  <2> HIDE DEF T
  <2> QED
    BY <1>1, <1>4, <1>5, AllUpTo
<1>7. n \in 0..n
  BY <1>1
<1> QED
  BY <1>1, <1>3, <1>6, <1>7

-----------------------------------------------------------------------------
(* The ring of the window. *)

(* Two positions less than a window apart that share a place are the same. *)
LEMMA PlacesApart ==
    ASSUME NEW b \in Nat, b > 0, NEW x \in Nat, NEW y \in Nat, x < y, x % b = y % b
    PROVE  x + b <= y
<1>1. PICK g \in Nat, h \in Nat, q \in Nat :
          g = x \div b /\ h = y \div b /\ q = x % b /\ x = b * g + q /\ y = b * h + q
  <2>1. PICK g \in Nat, q \in Nat : g = x \div b /\ q = x % b /\ x = b * g + q
    BY Division
  <2>2. PICK h \in Nat : h = y \div b /\ y = b * h + q
    BY <2>1, Division
  <2> QED
    BY <2>1, <2>2
<1>2. ASSUME h < g PROVE FALSE
  <2>1. b * h + b <= b * g /\ b * h \in Nat /\ b * g \in Nat
    BY <1>2, Multiples
  <2> QED
    BY <1>1, <2>1
<1>3. ~(h = g)
  BY <1>1
<1>4. g < h
  BY <1>2, <1>3
<1>5. b * g + b <= b * h /\ b * h \in Nat /\ b * g \in Nat
  BY <1>4, Multiples
<1> QED
  BY <1>1, <1>5

LEMMA RingFollows ==
    ASSUME NEW t \in Seq(Token), NEW tokens \in Seq(Token), NEW r, RingFor(r, t)
    PROVE  RingFor(WriteRing(StartRing(r, Len(t)), Len(t), tokens), t \o tokens)
<1>1. PICK L \in Nat, n \in Nat, u \in Seq(Token) :
          L = Len(t) /\ n = Len(tokens) /\ u = t \o tokens
  BY LenProperties, Continued
<1>2. /\ \A j \in 1..L : u[j] = t[j]
      /\ \A i \in 1..n : u[L + i] = tokens[i]
      /\ Len(u) = L + n
  BY <1>1, Continued
<1>3. PICK W \in Nat : W = WindowSize /\ W > 0
  BY CompressedAssumption
<1>4. PICK ring0 : ring0 = StartRing(r, L)
  OBVIOUS
<1>5. PICK new : new = WriteRing(ring0, L, tokens)
  OBVIOUS
<1>6. ASSUME NEW p \in Nat, p < L + n, p + W >= L + n
      PROVE  new[p % W] = u[p + 1]
  <2>1. PICK q \in 0..(W - 1) : q = p % W
    BY <1>3
  <2> DEFINE writers == {i \in 1..Len(tokens) : (L + i - 1) % WindowSize = q}
             top == CHOOSE i \in writers : \A k \in writers : k <= i
  <2>2. new[q] = IF writers = {} THEN ring0[q] ELSE tokens[top]
    <3>1. new = WriteRing(ring0, L, tokens) /\ q \in 0..(WindowSize - 1)
      BY <1>3, <1>5
    <3> QED
      BY ONLY <3>1 DEF WriteRing
  <2>3. \A i : i \in writers <=> i \in 1..n /\ (L + i - 1) % W = q
    BY <1>1, <1>3
  <2> HIDE DEF writers
  <2>4. ASSUME NEW i \in writers PROVE i \in 1..n /\ L + i - 1 <= p
    <3>0. i \in 1..n /\ (L + i - 1) % W = q
      BY <2>3, <2>4
    <3>1. i \in 1..n /\ L + i - 1 \in Nat /\ (L + i - 1) % W = p % W
      BY <2>1, <3>0
    <3>2. CASE p < L + i - 1
      <4>1. p + W <= L + i - 1
        BY <1>3, <3>1, <3>2, PlacesApart
      <4> QED
        BY <1>6, <3>1, <4>1
    <3> QED
      BY <3>1, <3>2
  <2>5. CASE p < L
    <3>1. writers = {}
      <4> SUFFICES ASSUME NEW i \in writers PROVE FALSE
        OBVIOUS
      <4>1. L + i - 1 <= p /\ i \in 1..n
        BY <2>4
      <4>2. L <= L + i - 1
        BY <4>1
      <4> QED
        BY <2>5, <4>1, <4>2
    <3>2. ring0 = r
      BY <1>4, <2>5 DEF StartRing
    <3>3. p \in 0..(Len(t) - 1) /\ p + WindowSize >= Len(t)
      BY <1>1, <1>3, <1>6, <2>5
    <3>4. r[p % WindowSize] = t[p + 1]
      BY <3>3 DEF RingFor
    <3>5. p + 1 \in 1..L
      BY <2>5
    <3> QED
      BY <1>2, <1>3, <2>1, <2>2, <3>1, <3>2, <3>4, <3>5
  <2>6. CASE ~(p < L)
    <3>1. PICK i \in 1..n : L + i - 1 = p /\ p + 1 = L + i
      <4>1. p - L + 1 \in 1..n /\ L + (p - L + 1) - 1 = p /\ p + 1 = L + (p - L + 1)
        BY <1>6, <2>6
      <4> QED
        BY <4>1
    <3>2. i \in writers
      BY <2>1, <2>3, <3>1
    <3>3. ASSUME NEW k \in writers PROVE k <= i
      <4>1. k \in 1..n /\ L + k - 1 <= p
        BY <2>4
      <4> QED
        BY <3>1, <4>1
    <3>4. top \in writers /\ \A k \in writers : k <= top
      BY <3>2, <3>3
    <3> HIDE DEF top
    <3>5. top = i
      <4>1. i <= top /\ top <= i /\ top \in 1..n
        BY <2>4, <3>2, <3>3, <3>4
      <4> QED
        BY <4>1
    <3>6. new[q] = tokens[i]
      BY <2>2, <3>2, <3>5
    <3>7. u[L + i] = tokens[i]
      BY <1>2
    <3>8. u[p + 1] = tokens[i]
      BY <3>1, <3>7
    <3> QED
      BY ONLY <2>1, <3>6, <3>8
  <2> QED
    BY <2>5, <2>6
<1>7. RingFor(new, u)
  <2> SUFFICES ASSUME NEW p \in 0..(Len(u) - 1), p + WindowSize >= Len(u)
               PROVE  new[p % WindowSize] = u[p + 1]
    BY DEF RingFor
  <2>1. p \in Nat /\ p < L + n /\ p + W >= L + n
    BY <1>2, <1>3
  <2> QED
    BY <1>3, <1>6, <2>1
<1> QED
  BY <1>1, <1>4, <1>5, <1>7

-----------------------------------------------------------------------------
(* There are entries with the best scores to select. *)

LEMMA BestExists ==
    ASSUME NEW A, IsFiniteSet(A), A # {}, NEW score, \A x \in A : score[x] \in Int
    PROVE  \E x \in A : \A y \in A : score[x] >= score[y]
<1> DEFINE Has(B) == \E x \in B : \A y \in B : score[x] >= score[y]
           T == {m \in 0..Cardinality(A) :
                    \A B \in SUBSET A : B # {} /\ Cardinality(B) = m => Has(B)}
<1>1. Cardinality(A) \in Nat
  BY FS_CardinalityType
<1>2. \A B \in SUBSET A : IsFiniteSet(B)
  BY FS_Subset
<1>3. 0 \in T
  BY <1>1, <1>2, FS_EmptySet
<1>4. ASSUME NEW m \in 1..Cardinality(A), m - 1 \in T
      PROVE  m \in T
  <2> SUFFICES ASSUME NEW B \in SUBSET A, B # {}, Cardinality(B) = m
               PROVE  Has(B)
    BY <1>1
  <2>1. PICK b \in B : TRUE
    OBVIOUS
  <2>2. PICK C \in SUBSET A : C = B \ {b}
    OBVIOUS
  <2>3. Cardinality(C) = m - 1
    BY <1>2, <2>1, <2>2, FS_RemoveElement
  <2>4. score[b] \in Int /\ \A y \in C : score[y] \in Int /\ y \in B
    BY <2>1, <2>2
  <2>5. CASE C = {}
    <3>1. \A y \in B : y = b
      BY <2>2, <2>5
    <3>2. \A y \in B : score[b] >= score[y]
      BY <2>4, <3>1
    <3> QED
      BY <2>1, <3>2
  <2>6. CASE C # {}
    <3>1. Has(C)
      BY <1>4, <2>3, <2>6
    <3>2. PICK x \in C : \A y \in C : score[x] >= score[y]
      BY <3>1
    <3>3. \A y \in B : y = b \/ y \in C
      BY <2>2
    <3>4. CASE score[b] >= score[x]
      <4>1. ASSUME NEW y \in B PROVE score[b] >= score[y]
        BY <2>4, <3>2, <3>3, <3>4
      <4> QED
        BY <2>1, <4>1
    <3>5. CASE ~(score[b] >= score[x])
      <4>1. ASSUME NEW y \in B PROVE score[x] >= score[y]
        BY <2>4, <3>2, <3>3, <3>5
      <4> QED
        BY <2>4, <3>2, <4>1
    <3> QED
      BY <3>4, <3>5
  <2> QED
    BY <2>5, <2>6
<1>5. \A m \in 0..Cardinality(A) : m \in T
  <2> HIDE DEF T
  <2> QED
    BY <1>1, <1>3, <1>4, AllUpTo
<1>6. Cardinality(A) \in T
  BY <1>1, <1>5
<1> QED
  BY <1>6

LEMMA TopExists ==
    ASSUME NEW A, IsFiniteSet(A), NEW score, \A x \in A : score[x] \in Int,
           NEW k \in Nat, k <= Cardinality(A)
    PROVE  \E S \in SUBSET A :
               Cardinality(S) = k /\ \A i \in S, j \in A \ S : score[i] >= score[j]
<1> DEFINE Top(S) == \A i \in S, j \in A \ S : score[i] >= score[j]
           T == {m \in 0..k : \E S \in SUBSET A : Cardinality(S) = m /\ Top(S)}
<1>1. Cardinality(A) \in Nat
  BY FS_CardinalityType
<1>2. 0 \in T
  <2>1. Cardinality({}) = 0 /\ Top({}) /\ {} \in SUBSET A
    BY FS_EmptySet
  <2> QED
    BY <2>1
<1>3. ASSUME NEW m \in 1..k, m - 1 \in T
      PROVE  m \in T
  <2>1. PICK S \in SUBSET A : Cardinality(S) = m - 1 /\ Top(S)
    BY <1>3
  <2>2. IsFiniteSet(S) /\ IsFiniteSet(A \ S)
    <3>1. A \ S \in SUBSET A
      OBVIOUS
    <3> QED
      BY <3>1, FS_Subset
  <2>3. A \ S # {}
    <3>1. S # A
      BY <1>1, <2>1
    <3> QED
      BY <3>1
  <2>4. PICK x \in A \ S : \A y \in A \ S : score[x] >= score[y]
    BY <2>2, <2>3, BestExists
  <2>5. PICK U \in SUBSET A : U = S \cup {x}
    OBVIOUS
  <2>6. Cardinality(U) = m
    <3>1. x \notin S
      BY <2>4
    <3>2. Cardinality(S \cup {x}) = Cardinality(S) + 1
      BY <2>2, <3>1, FS_AddElement
    <3>3. Cardinality(U) = m - 1 + 1
      BY <2>1, <2>5, <3>2
    <3> QED
      BY <3>3
  <2>7. Top(U)
    BY <2>1, <2>4, <2>5
  <2> QED
    BY <2>6, <2>7
<1>4. \A m \in 0..k : m \in T
  <2> HIDE DEF T
  <2> QED
    BY <1>2, <1>3, AllUpTo
<1>5. k \in T
  BY <1>4
<1> QED
  BY <1>5

LEMMA BestEntriesAmong ==
    ASSUME NEW score, NEW m \in Nat, DOMAIN score = 0..(m - 1),
           \A c \in 0..(m - 1) : score[c] \in Int
    PROVE  BestEntries(score) \subseteq 0..(m - 1)
<1>1. PICK D : D = 0..(m - 1)
  OBVIOUS
<1>2. IsFiniteSet(D) /\ Cardinality(D) \in Nat
  BY <1>1, FS_Interval, FS_CardinalityType
<1>3. DOMAIN score = D /\ \A c \in D : score[c] \in Int
  BY <1>1
<1>4. CASE Cardinality(D) <= TopK
  BY <1>1, <1>3, <1>4 DEF BestEntries
<1>5. CASE ~(Cardinality(D) <= TopK)
  <2>1. TopK \in Nat /\ TopK <= Cardinality(D)
    BY <1>2, <1>5, AttentionAssumption
  <2>2. \E S \in SUBSET D :
            Cardinality(S) = TopK /\ \A i \in S, j \in D \ S : score[i] >= score[j]
    BY <1>2, <1>3, <2>1, TopExists
  <2>3. BestEntries(score) \in SUBSET D
    BY <1>3, <1>5, <2>2 DEF BestEntries
  <2> QED
    BY <1>1, <2>3
<1> QED
  BY <1>4, <1>5

(* An attending row gets its window and its entries from its text alone.     *)
WindowView(u) == [q \in WindowOf(At(u)) |-> u[q + 1]]
EntryTable(u, position) == [c \in Available(position) |-> EntryOf(u, c)]
EntriesView(e, query, position) == [c \in SelectEntries(e, query, position) |-> e[c]]
CompressedView(u) ==
    [window |-> WindowView(u),
     entries |-> EntriesView(EntryTable(u, At(u)), u[Len(u)], At(u))]

LEMMA GroupsGrow ==
    ASSUME NEW b \in Nat, b > 0, NEW x \in Nat, NEW y \in Nat, x <= y
    PROVE  x \div b \in Nat /\ x \div b <= y \div b
<1>1. PICK g \in Nat, h \in Nat, p \in Nat, q \in Nat :
          /\ g = x \div b /\ p = x % b /\ x = b * g + p /\ p < b
          /\ h = y \div b /\ q = y % b /\ y = b * h + q /\ q < b
  BY Division
<1>2. ASSUME h < g PROVE FALSE
  <2>1. b * h + b <= b * g /\ b * h \in Nat /\ b * g \in Nat
    BY <1>2, Multiples
  <2> QED
    BY ONLY <1>1, <2>1, x \in Nat, y \in Nat, x <= y, b \in Nat
<1> QED
  BY <1>1, <1>2

LEMMA EntriesSeeText ==
    ASSUME NEW s \in Seq(Token), Len(s) <= NCtx, NEW e \in [Entries -> EntryRows],
           EntriesUpTo(e, s, Len(s)), NEW n \in 1..Len(s), NEW u, u = SubSeq(s, 1, n)
    PROVE  EntriesView(e, s[n], n - 1) = EntriesView(EntryTable(u, n - 1), s[n], n - 1)
<1>0. PICK entry : entry = EntryTable(u, n - 1)
  OBVIOUS
<1>1. /\ Len(s) \in Nat /\ n \in Nat /\ s[n] \in Token /\ NCtx \in Nat
      /\ \A j \in 1..n : s[j] = u[j]
  <2>1. n \in 0..Len(s) /\ Len(s) \in Nat
    BY LenProperties
  <2> QED
    BY <2>1, PrefixOf, ElementOfSeq, AttentionAssumption
<1>2. PICK k \in Nat : k = n \div Ratio /\ k <= Len(s) \div Ratio /\ k <= NCtx \div Ratio
                       /\ Len(s) \div Ratio \in Nat /\ NCtx \div Ratio \in Nat
  <2>1. PICK b \in Nat : b = Ratio /\ b > 0
    BY RowsOfState
  <2>2. n <= Len(s) /\ n <= NCtx /\ NCtx <= NCtx /\ Len(s) <= Len(s)
    BY <1>1
  <2>3. n \div b \in Nat /\ n \div b <= Len(s) \div b
    BY ONLY <1>1, <2>1, <2>2, GroupsGrow
  <2>4. n \div b <= NCtx \div b
    BY ONLY <1>1, <2>1, <2>2, GroupsGrow
  <2>5. Len(s) \div b \in Nat /\ NCtx \div b \in Nat
    BY ONLY <1>1, <2>1, <2>2, GroupsGrow
  <2> QED
    BY <2>1, <2>3, <2>4, <2>5
<1>3. Available(n - 1) = 0..(k - 1)
  <2>1. n - 1 + 1 = n
    BY <1>1
  <2> QED
    BY <1>2, <2>1 DEF Available
<1>4. \A c \in 0..(k - 1) : c \in Entries /\ c \in 0..((Len(s) \div Ratio) - 1)
  BY <1>2 DEF Entries
<1>5. \A c \in 0..(k - 1) : EntryOf(s, c) = EntryOf(u, c)
  <2>1. n \in Nat /\ \A j \in 1..n : s[j] = u[j]
    BY <1>1
  <2>2. \A c \in 0..((n \div Ratio) - 1) : EntryOf(s, c) = EntryOf(u, c)
    BY ONLY <2>1, SameEntries
  <2> QED
    BY <1>2, <2>2
<1>6. \A c \in 0..(k - 1) : e[c] = entry[c]
  BY <1>0, <1>3, <1>4, <1>5 DEF EntriesUpTo, EntryTable
<1>7. Available(n - 1) \cap Entries = 0..(k - 1)
  BY <1>3, <1>4
<1>8. PICK score : score = [c \in 0..(k - 1) |-> EntryScore(s[n], e[c])]
  OBVIOUS
<1>9. [c \in 0..(k - 1) |-> EntryScore(s[n], entry[c])] = score
  <2>1. \A c \in 0..(k - 1) : EntryScore(s[n], entry[c]) = EntryScore(s[n], e[c])
    BY <1>6
  <2> QED
    BY <1>8, <2>1
<1>10. \A c \in 0..(k - 1) : e[c] \in EntryRows
  BY <1>4
<1>11. \A c \in 0..(k - 1) : score[c] \in Int
  BY <1>1, <1>8, <1>10, CompressedAssumption
<1>12. BestEntries(score) \subseteq 0..(k - 1)
  BY <1>8, <1>11, BestEntriesAmong
<1>13. PICK S : S = IF Indexed THEN BestEntries(score) ELSE 0..(k - 1)
  OBVIOUS
<1>14. S \subseteq 0..(k - 1)
  BY <1>12, <1>13
<1>15. SelectEntries(e, s[n], n - 1) = S
  BY <1>7, <1>8, <1>13 DEF SelectEntries
<1>16. SelectEntries(entry, s[n], n - 1) = S
  BY <1>7, <1>9, <1>13 DEF SelectEntries
<1>17. \A c \in S : e[c] = entry[c]
  BY <1>6, <1>14
<1> QED
  BY <1>0, <1>15, <1>16, <1>17 DEF EntriesView

LEMMA CompressedRowSees ==
    ASSUME NEW t \in Seq(Token), NEW tokens \in Seq(Token), Len(t) + Len(tokens) <= NCtx,
           NEW r, RingFor(r, t), NEW e \in [Entries -> EntryRows],
           EntriesUpTo(e, t \o tokens, Len(t) + Len(tokens)), NEW i \in 1..Len(tokens)
    PROVE  AttendCompressed(r, e, Len(t), tokens, i) =
               CompressedView(SubSeq(t \o tokens, 1, Len(t) + i))
<1>0. PICK u : u = SubSeq(t \o tokens, 1, Len(t) + i)
  OBVIOUS
<1>1. PICK s \in Seq(Token), n \in Nat : s = t \o tokens /\ n = Len(t) + i
  <2>1. Len(t) + i \in Nat
    BY LenProperties
  <2> QED
    BY <2>1, Continued
<1>2. /\ Len(s) = Len(t) + Len(tokens) /\ n \in 1..Len(s) /\ s[n] = tokens[i]
      /\ Len(s) <= NCtx /\ Len(t) + i - 1 = n - 1
  BY <1>1, Continued
<1>3. u = SubSeq(s, 1, n)
  BY <1>0, <1>1
<1>4. At(u) = n - 1 /\ u[Len(u)] = s[n]
  BY ONLY <1>2, <1>3, s \in Seq(Token), n \in Nat, PrefixCells
<1>5. Window(StartRing(r, Len(t)), Len(t), tokens, At(u)) = WindowView(u)
  <2>1. PICK L \in Nat, k \in Nat : L = Len(t) /\ k = Len(tokens) /\ Len(s) = L + k
    BY <1>1, <1>2, Continued
  <2>2. PICK W \in Nat : W = WindowSize /\ W > 0
    BY CompressedAssumption
  <2>3. /\ At(u) = L + i - 1 /\ L + i - 1 \in Nat /\ i \in Nat /\ i >= 1
        /\ \A j \in 1..(L + i) : u[j] = (t \o tokens)[j]
        /\ \A j \in 1..L : (t \o tokens)[j] = t[j]
        /\ \A j \in 1..k : (t \o tokens)[L + j] = tokens[j]
    BY <1>0, <2>1, TextOfRow, Continued DEF At
  <2>4. PICK ring0 : ring0 = StartRing(r, L)
    OBVIOUS
  <2>5. ASSUME NEW q \in WindowOf(L + i - 1)
        PROVE  (IF q >= L THEN tokens[q - L + 1] ELSE ring0[q % WindowSize]) = u[q + 1]
    <3>1. q \in Nat /\ q <= L + i - 1 /\ q + W >= L + i
      <4>1. PICK x \in Nat : x = L + i - 1 /\ x + 1 = L + i
        BY <2>3
      <4>2. q \in WindowOf(x)
        BY <4>1
      <4>3. q \in Nat /\ q <= x /\ q + W >= x + 1
        BY ONLY <2>2, <4>2, x \in Nat, W \in Nat DEF WindowOf, Larger
      <4> QED
        BY <4>1, <4>3
    <3>2. CASE q >= L
      <4>1. PICK j \in 1..k : j = q - L + 1 /\ q + 1 = L + j /\ L + j \in 1..(L + i)
        <5>1. /\ q - L + 1 \in 1..k /\ q + 1 = L + (q - L + 1)
              /\ L + (q - L + 1) \in 1..(L + i)
          BY <2>1, <2>3, <3>1, <3>2
        <5> QED
          BY <5>1
      <4>2. u[L + j] = tokens[j]
        BY <2>3, <4>1
      <4> QED
        BY <3>2, <4>1, <4>2
    <3>3. CASE ~(q >= L)
      <4>1. L # 0 /\ q \in 0..(L - 1) /\ q + W >= L /\ q + 1 \in 1..L /\ q + 1 \in 1..(L + i)
        BY <2>3, <3>1, <3>3
      <4>2. ring0 = r
        BY <2>4, <4>1 DEF StartRing
      <4>3. r[q % WindowSize] = t[q + 1]
        BY <2>1, <2>2, <4>1 DEF RingFor
      <4>4. u[q + 1] = t[q + 1]
        BY <2>3, <4>1
      <4> QED
        BY <3>3, <4>2, <4>3, <4>4
    <3> QED
      BY <3>2, <3>3
  <2>6. Window(ring0, L, tokens, L + i - 1) = [q \in WindowOf(L + i - 1) |-> u[q + 1]]
    BY <2>5 DEF Window
  <2> QED
    BY <2>1, <2>3, <2>4, <2>6 DEF WindowView
<1>6. EntriesUpTo(e, s, Len(s))
  BY <1>1, <1>2
<1>7. EntriesView(e, s[n], n - 1) = EntriesView(EntryTable(u, n - 1), s[n], n - 1)
  BY ONLY <1>2, <1>3, <1>6, s \in Seq(Token), e \in [Entries -> EntryRows], EntriesSeeText
<1>8. AttendCompressed(r, e, Len(t), tokens, i) =
          [window |-> Window(StartRing(r, Len(t)), Len(t), tokens, n - 1),
           entries |-> EntriesView(e, s[n], n - 1)]
  BY <1>2 DEF AttendCompressed, EntriesView
<1>10. CompressedView(u) =
          [window |-> WindowView(u),
           entries |-> EntriesView(EntryTable(u, n - 1), s[n], n - 1)]
  BY <1>4 DEF CompressedView
<1> QED
  BY <1>0, <1>4, <1>5, <1>7, <1>8, <1>10

-----------------------------------------------------------------------------
(* The n-gram history. *)

Histories == [1..(NgramSize - 1) -> Token \cup {Zero, Eos}]

(* The history without its oldest token, and one more behind it. *)
LEMMA Shifted ==
    ASSUME NEW S, NEW m \in Nat, m >= 1, NEW h \in [1..m -> S], NEW x \in S
    PROVE  /\ Append(Tail(h), x) \in [1..m -> S]
           /\ \A i \in 1..(m - 1) : Append(Tail(h), x)[i] = h[i + 1]
           /\ Append(Tail(h), x)[m] = x
<1>1. h \in Seq(S) /\ Len(h) = m
  <2>1. h \in Seq(S)
    BY SeqDef
  <2>2. DOMAIN h = 1..Len(h) /\ Len(h) \in Nat
    BY <2>1, LenProperties
  <2> QED
    BY <2>1, <2>2, SameInterval
<1>2. h # <<>>
  BY <1>1, EmptySeq
<1>3. /\ Tail(h) \in Seq(S) /\ Len(Tail(h)) = m - 1
      /\ \A i \in 1..(m - 1) : Tail(h)[i] = h[i + 1]
  BY <1>1, <1>2, HeadTailProperties
<1>4. /\ Append(Tail(h), x) \in Seq(S) /\ Len(Append(Tail(h), x)) = m - 1 + 1
      /\ \A i \in 1..(m - 1) : Append(Tail(h), x)[i] = Tail(h)[i]
      /\ Append(Tail(h), x)[m - 1 + 1] = x
  BY <1>3, AppendProperties
<1>5. m - 1 + 1 = m
  OBVIOUS
<1>6. Append(Tail(h), x) \in [1..m -> S]
  BY <1>4, <1>5, LenProperties
<1> QED
  BY <1>3, <1>4, <1>5, <1>6

LEMMA NextHistoryTyped ==
    ASSUME NEW h \in Histories, NEW token \in Token
    PROVE  NextHistory(h, token) \in Histories
<1>1. PICK m \in Nat : m = NgramSize - 1 /\ m >= 1
  BY RecurrentAssumption
<1>2. token \in Token \cup {Zero, Eos}
  OBVIOUS
<1>3. Append(Tail(h), token) \in Histories
  BY <1>1, <1>2, Shifted DEF Histories
<1>4. EosHistory \in Histories
  BY DEF EosHistory, Histories
<1> QED
  BY <1>3, <1>4 DEF NextHistory

LEMMA HistoryStep ==
    ASSUME NEW s \in Seq(Token), NEW n \in Nat, n + 1 \in 1..Len(s)
    PROVE  /\ HistoryAt(s, n) \in Histories
           /\ NextHistory(HistoryAt(s, n), s[n + 1]) = HistoryAt(s, n + 1)
<1>1. PICK m \in Nat : m = NgramSize - 1 /\ m >= 1
  BY RecurrentAssumption
<1>2. PICK S : S = Token \cup {Zero, Eos}
  OBVIOUS
<1>3. Len(s) \in Nat /\ \A j \in 1..(n + 1) : s[j] \in Token
  <2>1. \A j \in 1..(n + 1) : j \in 1..Len(s)
    BY LenProperties
  <2> QED
    BY <2>1, LenProperties, ElementOfSeq
<1> DEFINE Cut(x, j) == j < 1 \/ (\E k \in j..x : s[k] = Eos)
           Val(x, j) == IF Cut(x, j) THEN Eos ELSE s[j]
<1>4. \A x : HistoryAt(s, x) = [i \in 1..m |-> Val(x, x - m + i)]
  BY <1>1 DEF HistoryAt
<1>5. \A x, j \in Int : x <= n + 1 /\ j <= x => Val(x, j) \in S
  BY <1>2, <1>3
<1>6. HistoryAt(s, n) \in [1..m -> S]
  <2>1. \A i \in 1..m : n - m + i \in Int /\ n - m + i <= n /\ n <= n + 1 /\ n \in Int
    BY <1>1
  <2> HIDE DEF Val
  <2>2. \A i \in 1..m : Val(n, n - m + i) \in S
    BY <1>5, <2>1
  <2> QED
    BY <1>4, <2>2
<1>7. PICK h \in [1..m -> S] : h = HistoryAt(s, n)
  BY <1>6
<1>8. PICK token \in Token : token = s[n + 1]
  BY <1>3
<1>9. CASE token = Eos
  <2>1. \A i \in 1..m : Cut(n + 1, n + 1 - m + i)
    <3>1. \A i \in 1..m : n + 1 \in (n + 1 - m + i)..(n + 1)
      BY <1>1
    <3> QED
      BY <1>8, <1>9, <3>1
  <2>2. \A i \in 1..m : Val(n + 1, n + 1 - m + i) = Eos
    BY <2>1
  <2> HIDE DEF Val
  <2>3. HistoryAt(s, n + 1) = [i \in 1..m |-> Eos]
    <3>1. HistoryAt(s, n + 1) = [i \in 1..m |-> Val(n + 1, n + 1 - m + i)]
      BY <1>4
    <3> QED
      BY <2>2, <3>1
  <2>4. NextHistory(h, token) = [i \in 1..m |-> Eos]
    BY <1>1, <1>9 DEF NextHistory, EosHistory
  <2> QED
    BY <1>1, <1>2, <1>6, <1>7, <1>8, <2>3, <2>4 DEF Histories
<1>10. CASE token # Eos
  <2>1. PICK a \in [1..m -> S] : a = Append(Tail(h), token)
                                 /\ (\A i \in 1..(m - 1) : a[i] = h[i + 1]) /\ a[m] = token
    <3>1. token \in S
      BY <1>2
    <3>2. Append(Tail(h), token) \in [1..m -> S]
      BY <1>1, <3>1, Shifted
    <3>3. /\ \A i \in 1..(m - 1) : Append(Tail(h), token)[i] = h[i + 1]
          /\ Append(Tail(h), token)[m] = token
      BY <1>1, <3>1, Shifted
    <3> QED
      BY <3>2, <3>3
  <2>2. NextHistory(h, token) = a
    BY <1>10, <2>1 DEF NextHistory
  <2>3. ASSUME NEW i \in 1..m PROVE a[i] = Val(n + 1, n + 1 - m + i)
    <3>1. CASE i = m
      <4>1. n + 1 - m + i = n + 1 /\ ~Cut(n + 1, n + 1)
        BY <1>1, <1>8, <1>10, <3>1
      <4> QED
        BY <1>8, <2>1, <3>1, <4>1
    <3>2. CASE i # m
      <4>1. PICK j \in Int : j = n + 1 - m + i /\ j = n - m + (i + 1) /\ j <= n
                             /\ i \in 1..(m - 1) /\ i + 1 \in 1..m
        <5>1. /\ n + 1 - m + i \in Int /\ n + 1 - m + i = n - m + (i + 1)
              /\ n + 1 - m + i <= n /\ i \in 1..(m - 1) /\ i + 1 \in 1..m
          BY <1>1, <3>2
        <5> QED
          BY <5>1
      <4>2. h[i + 1] = Val(n, j)
        <5> HIDE DEF Val
        <5> QED
          BY <1>4, <1>7, <4>1
      <4>3. Cut(n, j) <=> Cut(n + 1, j)
        <5>1. \A k \in j..n : k \in j..(n + 1)
          BY <4>1
        <5>2. \A k \in j..(n + 1) : k \in j..n \/ k = n + 1
          BY <4>1
        <5> QED
          BY <1>8, <1>10, <5>1, <5>2
      <4>4. Val(n, j) = Val(n + 1, j)
        BY <4>3
      <4> HIDE DEF Val, Cut
      <4> QED
        BY <2>1, <4>1, <4>2, <4>4
    <3> QED
      BY <3>1, <3>2
  <2> HIDE DEF Val
  <2>4. HistoryAt(s, n + 1) = a
    <3>1. HistoryAt(s, n + 1) = [i \in 1..m |-> Val(n + 1, n + 1 - m + i)]
      BY ONLY <1>4
    <3>2. a \in [1..m -> S]
      BY <2>1
    <3>3. a = [i \in 1..m |-> a[i]]
      BY ONLY <3>2
    <3>4. [i \in 1..m |-> a[i]] = [i \in 1..m |-> Val(n + 1, n + 1 - m + i)]
      BY ONLY <2>3
    <3> QED
      BY ONLY <3>1, <3>3, <3>4
  <2> QED
    BY <1>1, <1>2, <1>6, <1>7, <1>8, <2>2, <2>4 DEF Histories
<1> QED
  BY <1>9, <1>10

(* The history of a text, token by token from that of its beginning. *)
LEMMA HistoryFollows ==
    ASSUME NEW t \in Seq(Token), NEW tokens \in Seq(Token), NEW n \in 0..Len(tokens),
           NEW h, h = HistoryAt(t \o tokens, Len(t)), h \in Histories
    PROVE  HistoryAfter(h, tokens, n) = HistoryAt(t \o tokens, Len(t) + n)
<1>1. PICK L \in Nat, s \in Seq(Token) : L = Len(t) /\ s = t \o tokens
  BY Continued
<1>2. /\ Len(tokens) \in Nat /\ n \in Nat /\ n <= Len(tokens) /\ Len(s) = L + Len(tokens)
      /\ \A i \in 1..n : s[L + i] = tokens[i]
  BY <1>1, Continued
<1>3. PICK f : HistoryRun(f, Histories, h, tokens, n)
  <2>1. \A x \in Histories, token \in Token : NextHistory(x, token) \in Histories
    BY NextHistoryTyped
  <2> QED
    BY ONLY <2>1, h \in Histories, tokens \in Seq(Token), n \in 0..Len(tokens), HistorySteps
<1>8. /\ f[0] = h /\ \A i \in 1..n : f[i] = NextHistory(f[i - 1], tokens[i])
      /\ HistoryAfter(h, tokens, n) = f[n]
  BY <1>3 DEF HistoryRun
<1> DEFINE T == {i \in 0..n : f[i] = HistoryAt(s, L + i)}
<1>4. 0 \in T
  BY <1>1, <1>2, <1>8
<1>5. ASSUME NEW i \in 1..n, i - 1 \in T PROVE i \in T
  <2>1. f[i - 1] = HistoryAt(s, L + (i - 1))
    BY <1>5
  <2>2. PICK x \in Nat : x = L + (i - 1) /\ x + 1 = L + i /\ x + 1 \in 1..Len(s)
    <3>1. L + (i - 1) \in Nat /\ L + (i - 1) + 1 = L + i /\ L + i \in 1..Len(s)
      BY <1>2
    <3> QED
      BY <3>1
  <2>3. NextHistory(HistoryAt(s, x), s[x + 1]) = HistoryAt(s, x + 1)
    BY <2>2, HistoryStep
  <2>4. s[x + 1] = tokens[i]
    BY <1>2, <2>2
  <2>5. f[i] = HistoryAt(s, L + i)
    BY <1>8, <2>1, <2>2, <2>3, <2>4
  <2> QED
    BY <2>5
<1>6. \A i \in 0..n : i \in T
  <2> HIDE DEF T
  <2> QED
    BY <1>2, <1>4, <1>5, AllUpTo
<1>7. n \in 0..n
  BY <1>2
<1> QED
  BY <1>1, <1>6, <1>7, <1>8

(* The history a run starts with. *)
LEMMA StartOfHistory ==
    ASSUME NEW t \in Seq(Token), NEW g, GramsFor(g, t), NEW tokens \in Seq(Token)
    PROVE  /\ GramsStarted(g).history = HistoryAt(t \o tokens, Len(t))
           /\ GramsStarted(g).history \in Histories
<1>1. PICK m \in Nat : m = NgramSize - 1 /\ m >= 1
  BY RecurrentAssumption
<1>2. PICK L \in Nat, s \in Seq(Token) :
          L = Len(t) /\ s = t \o tokens /\ \A j \in 1..L : s[j] = t[j] /\ t[j] \in Token
  <2>1. \A j \in 1..Len(t) : t[j] \in Token
    BY ElementOfSeq
  <2>2. /\ Len(t) \in Nat /\ t \o tokens \in Seq(Token)
        /\ \A j \in 1..Len(t) : (t \o tokens)[j] = t[j]
    BY Continued
  <2> QED
    BY <2>1, <2>2
<1>3. CASE t = <<>>
  <2>1. L = 0
    BY <1>2, <1>3
  <2>2. GramsStarted(g).history = EosHistory
    BY <1>3 DEF GramsFor, NoGrams, GramsStarted
  <2>3. \A i \in 1..m : 0 - m + i < 1
    BY <1>1
  <2>4. HistoryAt(s, 0) = EosHistory
    BY <1>1, <2>3 DEF HistoryAt, EosHistory
  <2>5. EosHistory \in Histories
    BY DEF EosHistory, Histories
  <2> QED
    BY <1>2, <2>1, <2>2, <2>4, <2>5
<1>4. CASE t # <<>>
  <2>1. GramsStarted(g).history = HistoryAt(t, L)
    BY <1>2, <1>4 DEF GramsFor, GramsStarted
  <2>2. ASSUME NEW i \in 1..m, NEW j \in Int, j = L - m + i
        PROVE  (IF j < 1 \/ (\E k \in j..L : t[k] = Eos) THEN Eos ELSE t[j]) =
               (IF j < 1 \/ (\E k \in j..L : s[k] = Eos) THEN Eos ELSE s[j])
    <3>1. j <= L
      BY <1>1, <2>2
    <3>2. CASE j < 1
      BY <3>2
    <3>3. CASE ~(j < 1)
      <4>1. \A k \in j..L : k \in 1..L
        BY <3>3
      <4>2. \A k \in j..L : s[k] = t[k]
        BY <1>2, <4>1
      <4>3. s[j] = t[j]
        BY <3>1, <4>2
      <4> QED
        BY <3>3, <4>2, <4>3
    <3> QED
      BY <3>2, <3>3
  <2>3. HistoryAt(t, L) = HistoryAt(s, L)
    <3>1. \A i \in 1..m : L - m + i \in Int
      BY <1>1
    <3> QED
      BY <1>1, <2>2, <3>1 DEF HistoryAt
  <2>4. HistoryAt(t, L) \in Histories
    <3>1. ASSUME NEW i \in 1..m, NEW j \in Int, j = L - m + i
          PROVE  (IF j < 1 \/ (\E k \in j..L : t[k] = Eos) THEN Eos ELSE t[j])
                    \in Token \cup {Zero, Eos}
      BY <1>1, <1>2, <3>1
    <3>2. \A i \in 1..m : L - m + i \in Int
      BY <1>1
    <3> QED
      BY <1>1, <3>1, <3>2 DEF HistoryAt, Histories
  <2> QED
    BY <1>2, <2>1, <2>3, <2>4
<1> QED
  BY <1>3, <1>4

LEMMA GramsSeeText ==
    ASSUME NEW t \in Seq(Token), NEW g, GramsFor(g, t), NEW tokens \in Seq(Token),
           NEW i \in 1..Len(tokens)
    PROVE  GramsSee(g, tokens, i) = GramOf(SubSeq(t \o tokens, 1, Len(t) + i))
<1>0. PICK u : u = SubSeq(t \o tokens, 1, Len(t) + i)
  OBVIOUS
<1>1. PICK m \in Nat : m = NgramSize - 1 /\ m >= 1 /\ NgramSize = m + 1 /\ NgramSize \in Nat
  BY RecurrentAssumption
<1>2. PICK s \in Seq(Token), n \in Nat : s = t \o tokens /\ n = Len(t) + (i - 1)
  <2>1. Len(t) + (i - 1) \in Nat
    BY LenProperties
  <2> QED
    BY <2>1, Continued
<1>3. /\ Len(u) = n + 1 /\ n + 1 \in 1..Len(s) /\ u[n + 1] = tokens[i]
      /\ \A j \in 1..(n + 1) : u[j] = s[j]
  <2>1. Len(t) + i = n + 1 /\ Len(t) + i \in 1..Len(s)
    BY <1>2, Continued
  <2> QED
    BY <1>0, <1>2, <2>1, TextOfRow
<1>4. PICK h \in Histories : h = GramsStarted(g).history /\ h = HistoryAt(s, Len(t))
  BY <1>2, StartOfHistory
<1>5. PICK a \in Histories : a = HistoryAfter(h, tokens, i - 1) /\ a = HistoryAt(s, n)
  <2>1. i - 1 \in 0..Len(tokens)
    BY LenProperties
  <2>2. HistoryAfter(h, tokens, i - 1) = HistoryAt(s, n)
    BY <1>2, <1>4, <2>1, HistoryFollows
  <2>3. HistoryAt(s, n) \in Histories
    BY <1>3, HistoryStep
  <2> QED
    BY <2>2, <2>3
<1>6. PICK S : S = Token \cup {Zero, Eos}
  OBVIOUS
<1>7. a \in [1..m -> S] /\ tokens[i] \in S /\ tokens[i] \in Token
  BY <1>1, <1>5, <1>6, ElementOfSeq DEF Histories
<1>8. PICK x : x = Append(a, tokens[i])
  OBVIOUS
<1>9. /\ x \in [1..NgramSize -> S] /\ x[m + 1] = tokens[i]
      /\ \A y \in 1..m : x[y] = a[y]
  <2>1. a \in Seq(S)
    BY <1>7, SeqDef
  <2>2. Len(a) = m
    <3>1. DOMAIN a = 1..Len(a) /\ Len(a) \in Nat /\ DOMAIN a = 1..m
      BY <1>7, <2>1, LenProperties
    <3> QED
      BY <3>1, SameInterval
  <2>3. /\ x \in Seq(S) /\ Len(x) = m + 1 /\ x[m + 1] = tokens[i]
        /\ \A y \in 1..m : x[y] = a[y]
    <3>1. PICK token \in S : token = tokens[i]
      BY <1>7
    <3>2. /\ Append(a, token) \in Seq(S) /\ Len(Append(a, token)) = Len(a) + 1
          /\ Append(a, token)[Len(a) + 1] = token
          /\ \A y \in 1..Len(a) : Append(a, token)[y] = a[y]
      BY <2>1, AppendProperties
    <3> QED
      BY <1>8, <2>2, <3>1, <3>2
  <2>4. x \in [1..(m + 1) -> S]
    BY <2>3, LenProperties
  <2> QED
    BY <1>1, <2>3, <2>4
<1>10. ASSUME NEW y \in 1..NgramSize, NEW j \in Int, j = n + 1 - NgramSize + y
       PROVE  x[y] = IF j < 1 \/ (\E k \in j..n : u[k] = Eos) THEN Eos ELSE u[j]
  <2>1. CASE y = m + 1
    <3>1. j = n + 1 /\ ~(j < 1) /\ j..n = {}
      BY <1>1, <1>10, <2>1
    <3> QED
      BY <1>3, <1>9, <2>1, <3>1
  <2>2. CASE y # m + 1
    <3>1. y \in 1..m /\ j = n - m + y /\ j <= n
      BY <1>1, <1>10, <2>2
    <3>2. x[y] = IF j < 1 \/ (\E k \in j..n : s[k] = Eos) THEN Eos ELSE s[j]
      BY <1>1, <1>5, <1>9, <3>1 DEF HistoryAt
    <3>3. CASE j < 1
      BY <3>2, <3>3
    <3>4. CASE ~(j < 1)
      <4>1. \A k \in j..n : k \in 1..(n + 1)
        BY <3>4
      <4>2. \A k \in j..n : s[k] = u[k]
        BY <1>3, <4>1
      <4>3. s[j] = u[j]
        <5>1. j \in j..n
          BY <3>1
        <5> QED
          BY <4>2, <5>1
      <4> QED
        BY <3>2, <3>4, <4>2, <4>3
    <3> QED
      BY <3>3, <3>4
  <2> QED
    BY <2>1, <2>2
<1>11. GramOf(u) = x
  <2>1. PICK l \in Nat : l = Len(u) /\ l = n + 1 /\ l - 1 = n
    BY <1>3
  <2>2. ASSUME NEW y \in 1..NgramSize
        PROVE  x[y] = LET j == l - NgramSize + y IN
                      IF j < 1 \/ (\E k \in j..(l - 1) : u[k] = Eos) THEN Eos ELSE u[j]
    <3>0. NgramSize \in Nat /\ l = n + 1
      BY <1>1, <2>1
    <3>1. PICK j \in Int : j = n + 1 - NgramSize + y /\ j = l - NgramSize + y
      <4>1. n + 1 - NgramSize + y \in Int /\ n + 1 - NgramSize + y = l - NgramSize + y
        BY ONLY <3>0, n \in Nat, l \in Nat, y \in 1..NgramSize
      <4> QED
        BY <4>1
    <3>2. x[y] = IF j < 1 \/ (\E k \in j..n : u[k] = Eos) THEN Eos ELSE u[j]
      BY <1>10, <3>1
    <3> QED
      BY <2>1, <3>1, <3>2
  <2>3. x = [y \in 1..NgramSize |-> x[y]]
    BY <1>9
  <2> DEFINE GramAt(len, y) ==
                LET j == len - NgramSize + y IN
                IF j < 1 \/ (\E k \in j..(len - 1) : u[k] = Eos) THEN Eos ELSE u[j]
  <2>4. GramOf(u) = [y \in 1..NgramSize |-> GramAt(Len(u), y)]
    BY DEF GramOf
  <2>5. \A y \in 1..NgramSize : x[y] = GramAt(l, y)
    BY <2>2
  <2> HIDE DEF GramAt
  <2> QED
    BY <2>1, <2>3, <2>4, <2>5
<1>12. GramsSee(g, tokens, i) = x
  BY <1>4, <1>5, <1>8 DEF GramsSee
<1> QED
  BY <1>0, <1>11, <1>12

LEMMA GramsFollow ==
    ASSUME NEW t \in Seq(Token), NEW g, GramsFor(g, t), NEW tokens \in Seq(Token),
           Len(tokens) >= 1
    PROVE  GramsFor(GramsAfter(g, tokens), t \o tokens)
<1>1. /\ t \o tokens \in Seq(Token) /\ Len(t \o tokens) = Len(t) + Len(tokens)
      /\ Len(t) \in Nat /\ Len(tokens) \in Nat /\ Len(tokens) \in 0..Len(tokens)
  BY Continued
<1>2. t \o tokens # <<>>
  BY <1>1, EmptySeq
<1>3. HistoryAfter(GramsStarted(g).history, tokens, Len(tokens)) =
          HistoryAt(t \o tokens, Len(t \o tokens))
  BY <1>1, StartOfHistory, HistoryFollows
<1> QED
  BY <1>2, <1>3 DEF GramsFor, GramsAfter

-----------------------------------------------------------------------------
(* One run: its rows see their texts, and the state stands for the text that *)
(* the run has made longer.                                                  *)

Follows(n) == out = [i \in 1..n |-> Expected(kind, SubSeq(text, 1, Len(text) - n + i))]

TextInv ==
    /\ kind \in Kind
    /\ text \in Seq(Token) /\ Len(text) <= MaxText[kind]
    /\ CachesFor(keys, latent, text, kind)
    /\ AuxiliaryFor(auxiliary, text, kind)

RunText(tokens) ==
    [i \in 1..Len(tokens) |-> Expected(kind, SubSeq(text \o tokens, 1, Len(text) + i))]

LEMMA DenseRun ==
    ASSUME TextInv, NEW tokens \in Seq(Token), NEW rows, RowsFor(rows, tokens),
           Len(text) + Len(rows) <= NCtx, RunDense(tokens, rows, Len(text))
    PROVE  out' = RunText(tokens) /\ KeysFor(keys', text \o tokens)
<1> DEFINE s == text \o tokens
<1>1. /\ s \in Seq(Token) /\ Len(s) = Len(text) + Len(tokens)
      /\ Len(text) \in Nat /\ Len(tokens) \in Nat
  BY Continued DEF TextInv
<1>2. kind = "dense" /\ KeysFor(keys, text) /\ text \in Seq(Token)
  BY DEF TextInv, RunDense, CachesFor
<1>3. KeysFor(keys', s)
  BY <1>2, KeysAppended DEF RunDense
<1>4. DOMAIN tokens = 1..Len(tokens)
  BY LenProperties
<1> HIDE DEF s
<1>5. ASSUME NEW i \in 1..Len(tokens)
      PROVE  Attend(keys', Len(text) + i - 1) = Expected(kind, SubSeq(s, 1, Len(text) + i))
  <2> DEFINE n == Len(text) + i
             u == SubSeq(s, 1, n)
  <2>1. n \in 1..Len(s)
    BY <1>1
  <2>2. u = SubSeq(s, 1, n)
    OBVIOUS
  <2> HIDE DEF n, u
  <2>3. Attend(keys', n - 1) = DenseView(u)
    BY <1>1, <1>3, <2>1, <2>2, DenseRowSees
  <2>4. Expected(kind, u) = DenseView(u)
    BY <1>2 DEF Expected, DenseView
  <2>5. Attend(keys', n - 1) = Expected(kind, u)
    BY <2>3, <2>4
  <2> QED
    BY <2>5 DEF n, u
<1>6. out' = [i \in 1..Len(tokens) |-> Attend(keys', Len(text) + i - 1)]
  BY <1>4 DEF RunDense
<1> QED
  BY <1>3, <1>5, <1>6 DEF RunText, s

LEMMA SparseRun ==
    ASSUME TextInv, NEW tokens \in Seq(Token), NEW rows, RowsFor(rows, tokens),
           Len(text) + Len(rows) <= NCtx, RunSparse(tokens, rows, Len(text))
    PROVE  /\ out' = RunText(tokens)
           /\ KeysFor(keys', text \o tokens) /\ CellsFor(index', text \o tokens)
<1> DEFINE s == text \o tokens
<1>1. /\ s \in Seq(Token) /\ Len(s) = Len(text) + Len(tokens)
      /\ Len(text) \in Nat /\ Len(tokens) \in Nat
      /\ \A i \in 1..Len(tokens) : s[Len(text) + i] = tokens[i]
  BY Continued DEF TextInv
<1>2. /\ kind = "sparse" /\ text \in Seq(Token)
      /\ KeysFor(keys, text) /\ CellsFor(index, text)
  BY DEF TextInv, RunSparse, CachesFor, AuxiliaryFor, auxiliary
<1>3. Len(rows) \in Nat /\ Len(tokens) <= Len(rows) /\ NCtx \in Nat
      /\ Len(text) + Len(tokens) <= NCtx
  BY <1>1, LenProperties, AttentionAssumption DEF RowsFor
<1>4. KeysFor(keys', s)
  BY <1>2, KeysAppended DEF RunSparse
<1>5. CellsFor(index', s)
  BY <1>2, <1>3, IndexWritten DEF RunSparse
<1>6. DOMAIN tokens = 1..Len(tokens)
  BY LenProperties
<1> HIDE DEF s
<1> DEFINE Sees(i) == AttendSparse(keys', Len(text), rows,
                          Select(index', tokens[i], Len(text) + i - 1), Len(text) + i - 1)
<1>7. ASSUME NEW i \in 1..Len(tokens)
      PROVE  Sees(i) = Expected(kind, SubSeq(s, 1, Len(text) + i))
  <2> DEFINE n == Len(text) + i
             u == SubSeq(s, 1, n)
  <2>1. n \in 1..Len(s) /\ n <= NCtx /\ n <= Len(text) + Len(rows) /\ s[n] = tokens[i]
    BY <1>1, <1>3
  <2>2. u = SubSeq(s, 1, n)
    OBVIOUS
  <2> HIDE DEF n, u
  <2>3. AttendSparse(keys', Len(text), rows, Select(index', s[n], n - 1), n - 1)
          = SparseView(u)
    BY <1>1, <1>3, <1>4, <1>5, <2>1, <2>2, SparseRowSees
  <2>4. Expected(kind, u) = SparseView(u)
    BY <1>2 DEF Expected, SparseView, ChosenView
  <2>5. Sees(i) = AttendSparse(keys', Len(text), rows, Select(index', s[n], n - 1), n - 1)
    BY <2>1 DEF n
  <2> HIDE DEF Sees
  <2>6. Sees(i) = Expected(kind, u)
    BY <2>3, <2>4, <2>5
  <2> QED
    BY <2>6 DEF n, u
<1>8. out' = [i \in 1..Len(tokens) |-> Sees(i)]
  BY <1>6 DEF RunSparse
<1> HIDE DEF Sees
<1> QED
  BY <1>4, <1>5, <1>7, <1>8 DEF RunText, s

LEMMA LatentRun ==
    ASSUME TextInv, NEW tokens \in Seq(Token), NEW rows, RowsFor(rows, tokens),
           Len(text) + Len(tokens) <= NCtx, RunLatent(tokens, rows, Len(text))
    PROVE  /\ out' = RunText(tokens)
           /\ CellsFor(latent', text \o tokens) /\ CellsFor(index', text \o tokens)
<1> DEFINE s == text \o tokens
<1>1. /\ s \in Seq(Token) /\ Len(s) = Len(text) + Len(tokens)
      /\ Len(text) \in Nat /\ Len(tokens) \in Nat
      /\ \A i \in 1..Len(tokens) : s[Len(text) + i] = tokens[i]
  BY Continued DEF TextInv
<1>2. /\ kind = "latent" /\ text \in Seq(Token)
      /\ CellsFor(latent, text) /\ CellsFor(index, text)
  BY DEF TextInv, RunLatent, CachesFor, AuxiliaryFor, auxiliary
<1>3. CellsFor(latent', s)
  BY <1>2, LatentWritten DEF RunLatent
<1>4. CellsFor(index', s)
  BY <1>2, IndexWritten DEF RunLatent
<1>5. DOMAIN tokens = 1..Len(tokens)
  BY LenProperties
<1> HIDE DEF s
<1> DEFINE Sees(i) == AttendLatent(latent',
                          Select(index', tokens[i], Len(text) + i - 1), Len(text) + i - 1)
<1>6. ASSUME NEW i \in 1..Len(tokens)
      PROVE  Sees(i) = Expected(kind, SubSeq(s, 1, Len(text) + i))
  <2> DEFINE n == Len(text) + i
             u == SubSeq(s, 1, n)
  <2>1. n \in 1..Len(s) /\ s[n] = tokens[i]
    BY <1>1
  <2>2. n <= NCtx /\ u = SubSeq(s, 1, n)
    BY <1>1, AttentionAssumption
  <2> HIDE DEF n, u
  <2>3. AttendLatent(latent', Select(index', s[n], n - 1), n - 1)
          = ChosenView(u)
    BY <1>1, <1>3, <1>4, <2>1, <2>2, LatentRowSees
  <2>4. Expected(kind, u) = ChosenView(u)
    BY <1>2 DEF Expected, ChosenView
  <2>5. Sees(i) = AttendLatent(latent', Select(index', s[n], n - 1), n - 1)
    BY <2>1 DEF n
  <2> HIDE DEF Sees
  <2>6. Sees(i) = Expected(kind, u)
    BY <2>3, <2>4, <2>5
  <2> QED
    BY <2>6 DEF n, u
<1>7. out' = [i \in 1..Len(tokens) |-> Sees(i)]
  BY <1>5 DEF RunLatent
<1> HIDE DEF Sees
<1> QED
  BY <1>3, <1>4, <1>6, <1>7 DEF RunText, s

LEMMA RecurrentRun ==
    ASSUME TextInv, NEW tokens \in Seq(Token), Len(tokens) >= 1,
           NEW rows, RowsFor(rows, tokens), RunRecurrent(tokens, rows)
    PROVE  /\ out' = RunText(tokens)
           /\ absorbed' = text \o tokens
           /\ ConvFor(conv', text \o tokens, ConvKernel - 1) /\ LastFor(last', text \o tokens)
<1> DEFINE s == text \o tokens
<1>0. /\ ConvKernel \in Nat /\ ConvKernel >= 1 /\ 1 \in Nat
      /\ ConvKernel - 1 \in Nat /\ ConvKernel - 1 = (ConvKernel - 1) * 1
  BY RecurrentAssumption
<1>1. /\ kind = "recurrent" /\ text \in Seq(Token)
      /\ absorbed = text /\ ConvFor(conv, text, ConvKernel - 1) /\ LastFor(last, text)
  BY DEF TextInv, RunRecurrent, AuxiliaryFor, auxiliary
<1>2. Len(tokens) \in Nat /\ Len(tokens) \in 1..Len(tokens) /\ DOMAIN tokens = 1..Len(tokens)
  BY LenProperties
<1>3. absorbed' = s
  <2>1. absorbed' = text \o SubSeq(rows, 1, Len(tokens))
    BY <1>1, RealRows DEF RunRecurrent, AbsorbRows
  <2>2. text \o SubSeq(rows, 1, Len(tokens)) = SubSeq(s, 1, Len(text) + Len(tokens))
    BY <1>1, <1>2, RowsUpTo
  <2>3. s \in Seq(Token) /\ Len(s) = Len(text) + Len(tokens)
    BY <1>1, Continued
  <2> HIDE DEF s
  <2>4. SubSeq(s, 1, Len(s)) = s
    BY <2>3, SubSeqFull
  <2> QED
    BY <2>1, <2>2, <2>3, <2>4
<1>4. ConvFor(conv', s, ConvKernel - 1)
  BY <1>0, <1>1, ConvFollows DEF RunRecurrent
<1>5. LastFor(last', s)
  BY <1>1, LastFollows DEF RunRecurrent
<1> DEFINE Sees(i) == [absorbed |-> text \o SubSeq(rows, 1, i),
                       conv |-> ConvSees(conv, rows, i, ConvKernel, 1),
                       shift |-> ShiftSees(last, rows, i)]
<1>6. ASSUME NEW i \in 1..Len(tokens)
      PROVE  Sees(i) = Expected(kind, SubSeq(s, 1, Len(text) + i))
  <2> DEFINE u == SubSeq(s, 1, Len(text) + i)
  <2>1. text \o SubSeq(rows, 1, i) = u
    BY <1>1, RowsUpTo
  <2>2. ConvSees(conv, rows, i, ConvKernel, 1) = LastOf(u, ConvKernel, 1)
    BY <1>0, <1>1, ConvSeesText
  <2>3. u = SubSeq(text \o tokens, 1, Len(text) + i)
    OBVIOUS
  <2> HIDE DEF u
  <2>4. ShiftSees(last, rows, i) = ShiftView(u)
    BY <1>1, <2>3, ShiftSeesText
  <2>5. Expected(kind, u) = [absorbed |-> u, conv |-> LastOf(u, ConvKernel, 1),
                       shift |-> ShiftView(u)]
    BY <1>1 DEF Expected, ShiftView
  <2>6. Sees(i) = Expected(kind, u)
    BY <2>1, <2>2, <2>4, <2>5
  <2> QED
    BY <2>6 DEF u
<1>7. out' = [i \in 1..Len(tokens) |-> Sees(i)]
  BY <1>1, <1>2 DEF RunRecurrent
<1> HIDE DEF Sees
<1> QED
  BY <1>3, <1>4, <1>5, <1>6, <1>7 DEF RunText

LEMMA CompressedRun ==
    ASSUME TextInv, NEW tokens \in Seq(Token), Len(text) + Len(tokens) <= NCtx,
           RunCompressed(tokens, Len(text))
    PROVE  /\ out' = RunText(tokens)
           /\ StateFor(state', text \o tokens) /\ RingFor(ring', text \o tokens)
<1> DEFINE s == text \o tokens
<1>1. /\ kind = "compressed" /\ text \in Seq(Token)
      /\ state \in States /\ (text # <<>> => StateUpTo(state, text, Len(text)))
      /\ RingFor(ring, text)
  BY DEF TextInv, RunCompressed, AuxiliaryFor, auxiliary, StateFor
<1>2. Len(s) = Len(text) + Len(tokens)
  BY <1>1, Continued
<1>3. state' = Compress(state, Len(text), tokens)
  BY DEF RunCompressed
<1>4. state' \in States /\ StateUpTo(state', s, Len(s))
  BY <1>1, <1>2, <1>3, CompressFollows
<1>5. RingFor(ring', s)
  BY <1>1, RingFollows DEF RunCompressed
<1>6. PICK e : e = state'.entries
  OBVIOUS
<1>7. e \in [Entries -> EntryRows] /\ EntriesUpTo(e, s, Len(text) + Len(tokens))
  BY <1>2, <1>4, <1>6 DEF States, StateUpTo
<1> HIDE DEF s
<1>8. ASSUME NEW i \in 1..Len(tokens)
      PROVE  AttendCompressed(ring, e, Len(text), tokens, i) =
                 Expected(kind, SubSeq(s, 1, Len(text) + i))
  <2>1. PICK u : u = SubSeq(s, 1, Len(text) + i)
    OBVIOUS
  <2>2. AttendCompressed(ring, e, Len(text), tokens, i) = CompressedView(u)
    <3>1. text \in Seq(Token) /\ RingFor(ring, text) /\ Len(text) + Len(tokens) <= NCtx
      BY <1>1
    <3>2. /\ EntriesUpTo(e, text \o tokens, Len(text) + Len(tokens))
          /\ u = SubSeq(text \o tokens, 1, Len(text) + i)
      BY <1>7, <2>1 DEF s
    <3>3. e \in [Entries -> EntryRows]
      BY <1>7
    <3> QED
      BY ONLY <3>1, <3>2, <3>3, tokens \in Seq(Token), i \in 1..Len(tokens), CompressedRowSees
  <2>3. Expected(kind, u) = CompressedView(u)
    BY <1>1 DEF Expected, CompressedView, WindowView, EntriesView, EntryTable
  <2> QED
    BY <2>1, <2>2, <2>3
<1>9. DOMAIN tokens = 1..Len(tokens)
  BY LenProperties
<1>10. out' = [i \in 1..Len(tokens) |-> AttendCompressed(ring, e, Len(text), tokens, i)]
  BY <1>6, <1>9 DEF RunCompressed
<1>11. out' = RunText(tokens)
  BY <1>8, <1>10 DEF RunText, s
<1> QED
  BY <1>4, <1>5, <1>11 DEF StateFor, s

LEMMA NgramRun ==
    ASSUME TextInv, NEW tokens \in Seq(Token), Len(tokens) >= 1,
           NEW rows, RowsFor(rows, tokens), RunNgram(tokens, rows)
    PROVE  /\ out' = RunText(tokens)
           /\ GramsFor(grams', text \o tokens)
           /\ ConvFor(taps', text \o tokens, (DilatedKernel - 1) * Dilation)
<1> DEFINE s == text \o tokens
<1>1. PICK m \in Nat : m = (DilatedKernel - 1) * Dilation
  <2>1. PICK a \in Nat : a = DilatedKernel - 1
    BY RecurrentAssumption
  <2>2. a * Dilation \in Nat
    BY RecurrentAssumption
  <2> QED
    BY <2>1, <2>2
<1>2. DilatedKernel \in Nat /\ DilatedKernel >= 1 /\ Dilation \in Nat
  BY RecurrentAssumption
<1>3. /\ kind = "ngram" /\ text \in Seq(Token)
      /\ GramsFor(grams, text) /\ ConvFor(taps, text, m)
  BY <1>1 DEF TextInv, RunNgram, AuxiliaryFor, auxiliary
<1>4. GramsFor(grams', s)
  BY <1>3, GramsFollow DEF RunNgram
<1>5. ConvFor(taps', s, m)
  BY <1>3, ConvFollows DEF RunNgram
<1> DEFINE Sees(i) == [grams |-> GramsSee(grams, tokens, i),
                       taps |-> ConvSees(taps, rows, i, DilatedKernel, Dilation)]
<1>6. ASSUME NEW i \in 1..Len(tokens)
      PROVE  Sees(i) = Expected(kind, SubSeq(s, 1, Len(text) + i))
  <2>1. PICK u : u = SubSeq(s, 1, Len(text) + i)
    OBVIOUS
  <2>2. GramsSee(grams, tokens, i) = GramOf(u)
    BY ONLY <1>3, <2>1, tokens \in Seq(Token), i \in 1..Len(tokens), GramsSeeText
  <2>3. ConvSees(taps, rows, i, DilatedKernel, Dilation) = LastOf(u, DilatedKernel, Dilation)
    BY <1>1, <1>2, <1>3, <2>1, ConvSeesText
  <2>4. Expected(kind, u) = [grams |-> GramOf(u), taps |-> LastOf(u, DilatedKernel, Dilation)]
    BY <1>3 DEF Expected
  <2> QED
    BY <2>1, <2>2, <2>3, <2>4
<1>7. DOMAIN tokens = 1..Len(tokens)
  BY LenProperties
<1>8. out' = [i \in 1..Len(tokens) |-> Sees(i)]
  BY <1>7 DEF RunNgram
<1> HIDE DEF Sees
<1>9. out' = RunText(tokens)
  BY <1>6, <1>8 DEF RunText
<1> QED
  BY <1>1, <1>4, <1>5, <1>9

LEMMA KindsApart ==
    ASSUME TextInv, NEW tokens, NEW rows, Run(tokens, rows, Len(text))
    PROVE  /\ kind' = kind
           /\ kind = "dense" => RunDense(tokens, rows, Len(text))
           /\ kind = "sparse" => RunSparse(tokens, rows, Len(text))
           /\ kind = "latent" => RunLatent(tokens, rows, Len(text))
           /\ kind = "compressed" => RunCompressed(tokens, Len(text))
           /\ kind = "recurrent" => RunRecurrent(tokens, rows)
           /\ kind = "ngram" => RunNgram(tokens, rows)
BY DEF Run, RunDense, RunSparse, RunLatent, RunCompressed, RunRecurrent, RunNgram

LEMMA RunFollows ==
    ASSUME TextInv, NEW tokens \in Seq(Token), Len(tokens) >= 1,
           NEW rows, RowsFor(rows, tokens),
           Len(text) + Len(tokens) <= NCtx,
           kind \in {"dense", "sparse"} => Len(text) + Len(rows) <= NCtx,
           Run(tokens, rows, Len(text))
    PROVE  /\ kind' = kind /\ out' = RunText(tokens)
           /\ CachesFor(keys', latent', text \o tokens, kind)
           /\ AuxiliaryFor(auxiliary', text \o tokens, kind)
<1>1. kind' = kind
  BY KindsApart
<1>2. CASE kind = "dense"
  <2>1. out' = RunText(tokens) /\ KeysFor(keys', text \o tokens)
    BY <1>2, DenseRun, KindsApart
  <2> QED
    BY <1>1, <1>2, <2>1 DEF CachesFor, AuxiliaryFor
<1>3. CASE kind = "sparse"
  <2>1. /\ out' = RunText(tokens)
        /\ KeysFor(keys', text \o tokens) /\ CellsFor(index', text \o tokens)
    BY <1>3, SparseRun, KindsApart
  <2> QED
    BY <1>1, <1>3, <2>1 DEF CachesFor, AuxiliaryFor, auxiliary
<1>4. CASE kind = "latent"
  <2>1. /\ out' = RunText(tokens)
        /\ CellsFor(latent', text \o tokens) /\ CellsFor(index', text \o tokens)
    BY <1>4, LatentRun, KindsApart
  <2> QED
    BY <1>1, <1>4, <2>1 DEF CachesFor, AuxiliaryFor, auxiliary
<1>5. CASE kind = "recurrent"
  <2>1. /\ out' = RunText(tokens)
        /\ absorbed' = text \o tokens
        /\ ConvFor(conv', text \o tokens, ConvKernel - 1) /\ LastFor(last', text \o tokens)
    BY <1>5, RecurrentRun, KindsApart
  <2> QED
    BY <1>1, <1>5, <2>1 DEF CachesFor, AuxiliaryFor, auxiliary
<1>6. CASE kind = "compressed"
  <2>1. /\ out' = RunText(tokens)
        /\ StateFor(state', text \o tokens) /\ RingFor(ring', text \o tokens)
    BY <1>6, CompressedRun, KindsApart
  <2> QED
    BY <1>1, <1>6, <2>1 DEF CachesFor, AuxiliaryFor, auxiliary
<1>7. CASE kind = "ngram"
  <2>1. /\ out' = RunText(tokens)
        /\ GramsFor(grams', text \o tokens)
        /\ ConvFor(taps', text \o tokens, (DilatedKernel - 1) * Dilation)
    BY <1>7, NgramRun, KindsApart
  <2> QED
    BY <1>1, <1>7, <2>1 DEF CachesFor, AuxiliaryFor, auxiliary
<1>8. kind \in Kinds
  BY StreamAssumption DEF TextInv
<1> QED
  BY <1>2, <1>3, <1>4, <1>5, <1>6, <1>7, <1>8 DEF Kinds

(* The run, and the text that grows with it. *)
LEMMA RunExtends ==
    ASSUME TextInv, NEW tokens \in Seq(Token), Len(tokens) >= 1,
           NEW rows, RowsFor(rows, tokens),
           Len(text) + Len(tokens) <= MaxText[kind], Len(text) + Len(tokens) <= NCtx,
           kind \in {"dense", "sparse"} => Len(text) + Len(rows) <= NCtx,
           Run(tokens, rows, Len(text)), text' = text \o tokens
    PROVE  TextInv' /\ Follows(Len(tokens))' /\ kind' = kind
           /\ Len(text') = Len(text) + Len(tokens)
           /\ Len(text) \in Nat /\ Len(tokens) \in Nat
<1>1. /\ text' \in Seq(Token) /\ Len(text') = Len(text) + Len(tokens)
      /\ Len(text) \in Nat /\ Len(tokens) \in Nat
  BY Continued DEF TextInv
<1>2. /\ kind' = kind /\ out' = RunText(tokens)
      /\ CachesFor(keys', latent', text \o tokens, kind)
      /\ AuxiliaryFor(auxiliary', text \o tokens, kind)
  BY RunFollows
<1>3. TextInv'
  BY <1>1, <1>2 DEF TextInv
<1>4. ASSUME NEW i \in 1..Len(tokens)
      PROVE  Expected(kind', SubSeq(text', 1, Len(text') - Len(tokens) + i))
               = Expected(kind, SubSeq(text \o tokens, 1, Len(text) + i))
  <2>1. Len(text') - Len(tokens) + i = Len(text) + i
    BY <1>1
  <2> QED
    BY <1>2, <2>1
<1>5. Follows(Len(tokens))'
  BY <1>2, <1>4 DEF Follows, RunText
<1> QED
  BY <1>1, <1>2, <1>3, <1>5

-----------------------------------------------------------------------------
(* The inductive invariant.  A checkpoint stands for the text it was taken   *)
(* of, which is why replaying the accepted drafts from it is right.          *)

DraftInv ==
    /\ draft = [stage |-> draft.stage, start |-> draft.start,
                saved |-> draft.saved, replay |-> draft.replay]
    /\ draft.stage = "verified" =>
           /\ draft.start \in 0..Len(text)
           /\ AuxiliaryFor(draft.saved, SubSeq(text, 1, draft.start), kind)
    /\ draft.stage = "restored" =>
           /\ draft.replay \in Seq(Token) /\ Len(draft.replay) >= 1
           /\ Len(text) + Len(draft.replay) <= MaxText[kind]

OutInv ==
    \E n \in 0..Len(text) :
        Follows(n) /\ (draft.stage = "verified" => draft.start = Len(text) - n)

StreamInv == TextInv /\ DraftInv /\ OutInv

LEMMA TextRoom ==
    ASSUME TextInv
    PROVE  MaxText[kind] \in 0..NCtx /\ NCtx \in Nat /\ Len(text) \in Nat
BY StreamAssumption, AttentionAssumption, LenProperties DEF TextInv

LEMMA PaddingFits ==
    ASSUME RoomForRows, TextInv, NEW tokens \in Seq(Token), Len(tokens) >= 1,
           Len(text) + Len(tokens) <= MaxText[kind]
    PROVE  /\ Len(text) + Len(tokens) <= NCtx
           /\ kind \in {"dense", "sparse"} => Len(text) + Len(Padded(tokens)) <= NCtx
<1>1. MaxText[kind] \in 0..NCtx /\ NCtx \in Nat /\ Len(text) \in Nat /\ Len(tokens) \in Nat
      /\ GraphLen \in Nat
  BY TextRoom, LenProperties, StreamAssumption
<1>2. Len(Padded(tokens)) = IF StaticPadded /\ Len(tokens) < GraphLen
                            THEN GraphLen ELSE Len(tokens)
  BY PaddedRows
<1>3. kind \in {"dense", "sparse"} /\ StaticPadded => MaxText[kind] + GraphLen - 1 <= NCtx
  BY DEF RoomForRows
<1> QED
  BY <1>1, <1>2, <1>3

LEMMA FollowsNothing ==
    ASSUME out = <<>>
    PROVE  Follows(0)
BY DEF Follows

LEMMA FreshState ==
    /\ \A k, c, layers : CachesFor(k, c, <<>>, layers)
    /\ \A layers : AuxiliaryFor(<<ZeroIndex, ZeroState, EmptyRing, <<>>, ZeroConv, Zero,
                                  NoGrams, ZeroTaps>>, <<>>, layers)
<1>1. Len(<<>>) = 0 /\ 0..(Len(<<>>) - 1) = {}
  OBVIOUS
<1>2. \A k : KeysFor(k, <<>>) /\ CellsFor(k, <<>>)
  BY <1>1 DEF KeysFor, CellsFor
<1>3. ConvFor(ZeroConv, <<>>, ConvKernel - 1)
  <2>1. ConvKernel - 1 \in Nat
    BY RecurrentAssumption
  <2>2. \A i \in 1..(ConvKernel - 1) : Before(<<>>, Len(<<>>) - (ConvKernel - 1) + i) = Filler
    BY <2>1 DEF Before
  <2> QED
    BY <2>2 DEF ConvFor, ZeroConv, Fillers
<1>4. LastFor(Zero, <<>>)
  BY DEF LastFor
<1>5. ConvFor(ZeroTaps, <<>>, (DilatedKernel - 1) * Dilation)
  <2>1. PICK m \in Nat : m = (DilatedKernel - 1) * Dilation
    <3>1. PICK a \in Nat : a = DilatedKernel - 1
      BY RecurrentAssumption
    <3>2. a * Dilation \in Nat
      BY RecurrentAssumption
    <3> QED
      BY <3>1, <3>2
  <2>2. \A i \in 1..m : Before(<<>>, Len(<<>>) - m + i) = Filler
    BY DEF Before
  <2> QED
    BY <2>1, <2>2 DEF ConvFor, ZeroTaps, Fillers
<1>6. GramsFor(NoGrams, <<>>)
  BY DEF GramsFor
<1>7. RingFor(EmptyRing, <<>>)
  BY <1>1 DEF RingFor
<1>8. StateFor(ZeroState, <<>>)
  <2>1. ZeroedRows \in EntryRows /\ NoEntry \in EntryRows
    BY DEF ZeroedRows, NoEntry, EntryRows, Cell
  <2>2. NoEntries \in [Entries -> EntryRows]
    BY <2>1 DEF NoEntries
  <2> QED
    BY <2>1, <2>2 DEF StateFor, States, ZeroState
<1> QED
  BY <1>2, <1>3, <1>4, <1>5, <1>6, <1>7, <1>8 DEF CachesFor, AuxiliaryFor

LEMMA CachesOfPrefix ==
    ASSUME NEW t \in Seq(Token), NEW n \in 0..Len(t), NEW k, NEW c, NEW layers,
           CachesFor(k, c, t, layers)
    PROVE  CachesFor(k, c, SubSeq(t, 1, n), layers)
<1>1. /\ Len(SubSeq(t, 1, n)) = n /\ Len(t) \in Nat
      /\ \A i \in 1..n : SubSeq(t, 1, n)[i] = t[i]
  BY PrefixOf, LenProperties
<1>2. \A j \in 0..(n - 1) : j \in 0..(Len(t) - 1) /\ SubSeq(t, 1, n)[j + 1] = t[j + 1]
  BY <1>1
<1>3. KeysFor(k, t) => KeysFor(k, SubSeq(t, 1, n))
  BY <1>1, <1>2 DEF KeysFor
<1>4. CellsFor(c, t) => CellsFor(c, SubSeq(t, 1, n))
  BY <1>1, <1>2 DEF CellsFor
<1> QED
  BY <1>3, <1>4 DEF CachesFor

LEMMA InitHolds ==
    ASSUME Init
    PROVE  StreamInv
<1>1. text = <<>> /\ kind \in Kind /\ kind \in Kinds
  BY StreamAssumption DEF Init
<1>2. Len(text) = 0 /\ text \in Seq(Token)
  BY <1>1, EmptySeq
<1>3. MaxText[kind] \in 0..NCtx
  BY <1>1, StreamAssumption
<1>4. CachesFor(keys, latent, text, kind) /\ AuxiliaryFor(auxiliary, text, kind)
  BY <1>1, FreshState DEF Init, auxiliary
<1>5. TextInv
  BY <1>1, <1>2, <1>3, <1>4, AttentionAssumption DEF TextInv
<1>6. DraftInv /\ draft.stage = "none"
  BY DEF Init, NoDraft, DraftInv
<1>7. Follows(0)
  BY FollowsNothing DEF Init
<1> QED
  BY <1>2, <1>5, <1>6, <1>7 DEF StreamInv, OutInv

-----------------------------------------------------------------------------
(* Each step keeps the invariant. *)

(* A run with its padding, from any state of the invariant. *)
LEMMA PaddedRun ==
    ASSUME RoomForRows, TextInv,
           NEW tokens \in Seq(Token), Len(tokens) >= 1,
           Len(text) + Len(tokens) <= MaxText[kind],
           Run(tokens, Padded(tokens), Len(text)), text' = text \o tokens
    PROVE  TextInv' /\ Follows(Len(tokens))' /\ kind' = kind
           /\ Len(text') = Len(text) + Len(tokens)
           /\ Len(text) \in Nat /\ Len(tokens) \in Nat
<1>1. RowsFor(Padded(tokens), tokens)
  BY PaddedRows
<1>2. /\ Len(text) + Len(tokens) <= NCtx
      /\ kind \in {"dense", "sparse"} => Len(text) + Len(Padded(tokens)) <= NCtx
  BY PaddingFits
<1> QED
  BY <1>1, <1>2, RunExtends

(* No verification under way, and the last run's rows follow the text. *)
LEMMA Settled ==
    ASSUME TextInv', draft' = NoDraft, NEW n \in Nat, n <= Len(text'), Follows(n)'
    PROVE  StreamInv'
<1>1. Len(text') \in Nat
  BY LenProperties DEF TextInv
<1>2. draft'.stage = "none" /\ DraftInv'
  BY DEF NoDraft, DraftInv
<1>3. OutInv'
  BY <1>1, <1>2 DEF OutInv
<1> QED
  BY <1>2, <1>3 DEF StreamInv

LEMMA ResetKeeps ==
    ASSUME TextInv, Reset
    PROVE  StreamInv'
<1>1. text' = <<>> /\ kind' = kind /\ draft' = NoDraft
  BY DEF Reset, Idle
<1>2. Len(text') = 0 /\ text' \in Seq(Token)
  BY <1>1, EmptySeq
<1>3. MaxText[kind] \in 0..NCtx /\ NCtx \in Nat
  BY TextRoom
<1>4. CachesFor(keys', latent', text', kind') /\ AuxiliaryFor(auxiliary', text', kind')
  BY <1>1, FreshState DEF Reset, auxiliary
<1>5. TextInv'
  BY <1>1, <1>2, <1>3, <1>4 DEF TextInv
<1>6. Follows(0)'
  BY DEF Follows, Reset
<1> QED
  BY <1>1, <1>2, <1>5, <1>6, Settled

LEMMA PrefillKeeps ==
    ASSUME RoomForRows, TextInv, NEW tokens \in Chunk, PrefillChunk(tokens)
    PROVE  StreamInv'
<1>1. tokens \in Seq(Token) /\ Len(tokens) >= 1
  BY ChunkIsSeq
<1>2. /\ Len(text) + Len(tokens) <= MaxText[kind] /\ text' = text \o tokens
      /\ Run(tokens, Padded(tokens), Len(text)) /\ draft' = NoDraft
  BY DEF PrefillChunk, Fits, Idle
<1>3. /\ TextInv' /\ Follows(Len(tokens))' /\ Len(text') = Len(text) + Len(tokens)
      /\ Len(text) \in Nat /\ Len(tokens) \in Nat
  BY <1>1, <1>2, PaddedRun
<1> QED
  BY <1>2, <1>3, Settled

LEMMA RefusedKeeps ==
    ASSUME TextInv, NEW tokens \in Chunk, PrefillRefused(tokens)
    PROVE  StreamInv'
<1>1. /\ kind = "latent" /\ kind' = kind /\ text' = text /\ draft' = NoDraft
      /\ keys' = keys /\ latent' = latent /\ out' = <<>>
      /\ index' = WriteIndex(index, Len(text), tokens)
  BY DEF PrefillRefused, Idle, caches
<1>2. Len(text) \in Nat /\ Len(text) <= NCtx
  BY TextRoom DEF TextInv
<1>3. CellsFor(index, text)
  BY <1>1 DEF TextInv, AuxiliaryFor, auxiliary
<1>4. ASSUME NEW j \in 0..(Len(text) - 1)
      PROVE  index'[j] = index[j]
  BY <1>1, <1>2, AttentionAssumption DEF WriteIndex
<1>5. CellsFor(index', text)
  BY <1>3, <1>4 DEF CellsFor
<1>6. AuxiliaryFor(auxiliary', text, "latent")
  BY <1>5 DEF AuxiliaryFor, auxiliary
<1>7. TextInv'
  BY <1>1, <1>6 DEF TextInv
<1>8. Follows(0)'
  BY <1>1 DEF Follows
<1> QED
  BY <1>1, <1>2, <1>7, <1>8, Settled

LEMMA DecodeKeeps ==
    ASSUME TextInv, NEW token \in Token, Decode(token)
    PROVE  StreamInv'
<1> DEFINE tokens == <<token>>
<1>1. tokens \in Seq(Token) /\ Len(tokens) = 1
  OBVIOUS
<1>2. text' = text \o tokens
  BY AppendIsConcat DEF Decode, TextInv
<1> HIDE DEF tokens
<1>3. /\ Len(text) + Len(tokens) <= MaxText[kind] /\ Len(text) + Len(tokens) <= NCtx
      /\ Run(tokens, tokens, Len(text)) /\ draft' = NoDraft
  BY DEF Decode, Fits, Idle, tokens
<1>4. RowsFor(tokens, tokens)
  BY <1>1, TokensAreRows
<1>5. Len(tokens) >= 1
  BY <1>1
<1>6. kind \in {"dense", "sparse"} => Len(text) + Len(tokens) <= NCtx
  BY <1>3
<1>7. /\ TextInv' /\ Follows(Len(tokens))' /\ Len(text') = Len(text) + Len(tokens)
      /\ Len(text) \in Nat /\ Len(tokens) \in Nat
  BY <1>1, <1>2, <1>3, <1>4, <1>5, <1>6, RunExtends
<1> QED
  BY <1>3, <1>7, Settled

LEMMA VerifyKeeps ==
    ASSUME RoomForRows, TextInv, NEW tokens \in Chunk, Verify(tokens)
    PROVE  StreamInv'
<1>1. tokens \in Seq(Token) /\ Len(tokens) >= 1
  BY ChunkIsSeq
<1>2. /\ Len(text) + Len(tokens) <= MaxText[kind] /\ text' = text \o tokens
      /\ Run(tokens, Padded(tokens), Len(text))
  BY DEF Verify, Fits
<1>3. /\ TextInv' /\ Follows(Len(tokens))' /\ Len(text') = Len(text) + Len(tokens)
      /\ Len(text) \in Nat /\ Len(tokens) \in Nat /\ kind' = kind
  BY <1>1, <1>2, PaddedRun
<1>4. draft' = [stage |-> "verified", start |-> Len(text), saved |-> auxiliary,
                replay |-> <<>>]
  BY DEF Verify, NoDraft
<1>5. SubSeq(text', 1, Len(text)) = text
  <2>1. text \in Seq(Token) /\ text' \in Seq(Token)
    BY <1>3 DEF TextInv
  <2>2. Len(text) \in 0..Len(text')
    BY <1>3
  <2>3. /\ SubSeq(text', 1, Len(text)) \in Seq(Token)
        /\ Len(SubSeq(text', 1, Len(text))) = Len(text)
        /\ \A i \in 1..Len(text) : SubSeq(text', 1, Len(text))[i] = text'[i]
    BY <2>1, <2>2, PrefixOf
  <2>4. \A i \in 1..Len(text) : text'[i] = text[i]
    BY <1>1, <1>2, <2>1, Continued
  <2> QED
    BY <2>1, <2>3, <2>4, SeqEqual
<1>6. AuxiliaryFor(auxiliary, text, kind)
  BY DEF TextInv
<1>7. DraftInv'
  <2>1. draft'.stage = "verified" /\ draft'.start = Len(text) /\ draft'.saved = auxiliary
    BY <1>4
  <2>2. AuxiliaryFor(draft'.saved, SubSeq(text', 1, draft'.start), kind')
    BY <1>3, <1>5, <1>6, <2>1
  <2>3. draft'.start \in 0..Len(text')
    BY <1>3, <2>1
  <2> QED
    BY <1>4, <2>1, <2>2, <2>3 DEF DraftInv
<1>8. OutInv'
  <2>1. Len(tokens) \in 0..Len(text') /\ Len(text) = Len(text') - Len(tokens)
    BY <1>3
  <2> QED
    BY <1>3, <1>4, <2>1 DEF OutInv
<1> QED
  BY <1>3, <1>7, <1>8 DEF StreamInv

LEMMA AcceptKeeps ==
    ASSUME TextInv, OutInv, AcceptAll
    PROVE  StreamInv'
<1>1. /\ draft' = NoDraft /\ kind' = kind /\ text' = text /\ out' = out
      /\ keys' = keys /\ latent' = latent /\ auxiliary' = auxiliary
  BY DEF AcceptAll, caches
<1>2. TextInv'
  BY <1>1 DEF TextInv
<1>3. PICK n \in 0..Len(text) : Follows(n)
  BY DEF OutInv
<1>4. n \in Nat /\ n <= Len(text') /\ Follows(n)'
  BY <1>1, <1>3, TextRoom DEF Follows
<1> QED
  BY <1>1, <1>2, <1>4, Settled

(* Prefixes of a prefix. *)
LEMMA PrefixOfPrefix ==
    ASSUME NEW t \in Seq(Token), NEW n \in 0..Len(t), NEW m \in 0..n
    PROVE  SubSeq(SubSeq(t, 1, n), 1, m) = SubSeq(t, 1, m)
<1> DEFINE p == SubSeq(t, 1, n)
<1>1. Len(t) \in Nat
  BY LenProperties
<1>2. p \in Seq(Token) /\ Len(p) = n /\ \A i \in 1..n : p[i] = t[i]
  BY PrefixOf
<1> HIDE DEF p
<1>3. /\ SubSeq(p, 1, m) \in Seq(Token) /\ Len(SubSeq(p, 1, m)) = m
      /\ \A i \in 1..m : SubSeq(p, 1, m)[i] = p[i]
  BY <1>2, PrefixOf
<1>4. m \in 0..Len(t)
  BY <1>1
<1>5. /\ SubSeq(t, 1, m) \in Seq(Token) /\ Len(SubSeq(t, 1, m)) = m
      /\ \A i \in 1..m : SubSeq(t, 1, m)[i] = t[i]
  BY <1>4, PrefixOf
<1>6. \A i \in 1..m : i \in 1..n
  BY <1>1
<1>7. SubSeq(p, 1, m) = SubSeq(t, 1, m)
  BY <1>2, <1>3, <1>5, <1>6, SeqEqual
<1> QED
  BY <1>7 DEF p

(* A shorter text, as long as the auxiliary state stands for it. *)
LEMMA Shortened ==
    ASSUME TextInv, NEW n \in 0..Len(text), text' = SubSeq(text, 1, n), kind' = kind,
           keys' = keys, latent' = latent,
           AuxiliaryFor(auxiliary', SubSeq(text, 1, n), kind)
    PROVE  TextInv' /\ Len(text') = n /\ n \in Nat
<1>1. text \in Seq(Token) /\ Len(text) \in Nat /\ MaxText[kind] \in Nat
  BY TextRoom DEF TextInv
<1>2. text' \in Seq(Token) /\ Len(text') = n
  BY <1>1, PrefixOf
<1>3. CachesFor(keys, latent, SubSeq(text, 1, n), kind)
  BY <1>1, CachesOfPrefix DEF TextInv
<1> QED
  BY <1>1, <1>2, <1>3 DEF TextInv

LEMMA RewindKeeps ==
    ASSUME TextInv, DraftInv, OutInv, NEW kept \in 1..GraphLen, RewindLength(kept)
    PROVE  StreamInv'
<1> DEFINE n == draft.start + kept
<1>1. /\ draft.stage = "verified" /\ kind = "dense" /\ n < Len(text)
      /\ text' = SubSeq(text, 1, n) /\ out' = SubSeq(out, 1, kept)
      /\ draft' = NoDraft /\ kind' = kind /\ keys' = keys /\ latent' = latent
  BY DEF RewindLength, caches
<1>2. PICK m \in 0..Len(text) : Follows(m) /\ draft.start = Len(text) - m
  BY <1>1 DEF OutInv
<1>3. /\ Len(text) \in Nat /\ kept \in Nat /\ kept >= 1 /\ kept <= m
      /\ m \in Nat /\ n \in 0..Len(text) /\ draft.start \in Nat
  BY <1>1, <1>2, TextRoom, StreamAssumption
<1>4. AuxiliaryFor(auxiliary', SubSeq(text, 1, n), kind)
  BY <1>1 DEF AuxiliaryFor
<1> HIDE DEF n
<1>5. TextInv' /\ Len(text') = n /\ n \in Nat
  BY <1>1, <1>3, <1>4, Shortened
<1>6. out' = [i \in 1..kept |-> out[i]]
  <2> DEFINE S == {out[i] : i \in 1..m}
  <2>1. DOMAIN out = 1..m
    BY <1>2 DEF Follows
  <2>2. \A i \in 1..kept : i \in 1..m
    BY <1>3
  <2>3. \A i \in 1..kept : out[i] \in S
    BY <2>2
  <2> HIDE DEF S
  <2>4. 1 \in Int /\ kept \in Int
    BY <1>3
  <2>5. SubSeq(out, 1, kept) \in Seq(S)
    BY <2>3, <2>4, SubSeqProperties
  <2>6. Len(SubSeq(out, 1, kept)) = IF 1 <= kept THEN kept - 1 + 1 ELSE 0
    BY <2>3, <2>4, SubSeqProperties
  <2>7. \A i \in 1..(kept - 1 + 1) : SubSeq(out, 1, kept)[i] = out[1 + i - 1]
    BY <2>3, <2>4, SubSeqProperties
  <2>8. Len(SubSeq(out, 1, kept)) = kept
    BY <1>3, <2>6
  <2>9. \A i \in 1..kept : SubSeq(out, 1, kept)[i] = out[i]
    BY <1>3, <2>7
  <2>10. SubSeq(out, 1, kept) \in [1..kept -> S]
    BY <2>5, <2>8, LenProperties
  <2> QED
    BY <1>1, <2>9, <2>10
<1>7. ASSUME NEW i \in 1..kept
      PROVE  out[i] = Expected(kind', SubSeq(text', 1, Len(text') - kept + i))
  <2>1. i \in 1..m /\ Len(text) - m + i = draft.start + i
        /\ Len(text') - kept + i = draft.start + i /\ draft.start + i \in 0..n
    BY <1>2, <1>3, <1>5 DEF n
  <2>2. out[i] = Expected(kind, SubSeq(text, 1, draft.start + i))
    BY <1>2, <2>1 DEF Follows
  <2>3. SubSeq(text', 1, draft.start + i) = SubSeq(text, 1, draft.start + i)
    BY <1>1, <1>3, <2>1, PrefixOfPrefix DEF TextInv
  <2> QED
    BY <1>1, <2>1, <2>2, <2>3
<1>8. Follows(kept)'
  BY <1>6, <1>7 DEF Follows
<1>9. kept <= Len(text')
  BY <1>3, <1>5 DEF n
<1> QED
  BY <1>1, <1>3, <1>5, <1>8, <1>9, Settled

LEMMA PartOf ==
    ASSUME NEW t \in Seq(Token), NEW start \in 0..Len(t), NEW kept \in Nat,
           start + kept < Len(t)
    PROVE  /\ SubSeq(t, start + 1, start + kept) \in Seq(Token)
           /\ Len(SubSeq(t, start + 1, start + kept)) = kept
<1>1. PICK n \in Nat : n = Len(t)
  BY LenProperties
<1>2. PICK from \in Int, to \in Int :
          from = start + 1 /\ to = start + kept /\ 1 <= from /\ to <= n
  BY <1>1
<1>3. \A i \in from..to : t[i] \in Token
  BY <1>1, <1>2, ElementOfSeq
<1>4. SubSeq(t, from, to) \in Seq(Token)
  BY <1>3, SubSeqProperties
<1>5. Len(SubSeq(t, from, to)) = IF from <= to THEN to - from + 1 ELSE 0
  BY <1>3, SubSeqProperties
<1>6. Len(SubSeq(t, from, to)) = kept
  BY <1>1, <1>2, <1>5
<1> QED
  BY <1>2, <1>4, <1>6

LEMMA RestoreKeeps ==
    ASSUME TextInv, DraftInv, NEW kept \in 1..GraphLen, Restore(kept)
    PROVE  StreamInv'
<1> DEFINE replay == SubSeq(text, draft.start + 1, draft.start + kept)
<1>1. /\ draft.stage = "verified" /\ draft.start + kept < Len(text)
      /\ text' = SubSeq(text, 1, draft.start) /\ out' = <<>>
      /\ kind' = kind /\ keys' = keys /\ latent' = latent
      /\ draft' = [draft EXCEPT !.stage = "restored", !.replay = replay]
  BY DEF Restore, caches
<1>2. /\ draft.start \in 0..Len(text) /\ Len(text) \in Nat /\ text \in Seq(Token)
      /\ kept \in Nat /\ kept >= 1 /\ MaxText[kind] \in Nat /\ Len(text) <= MaxText[kind]
  BY <1>1, TextRoom, StreamAssumption DEF DraftInv, TextInv
<1>3. AuxiliaryFor(auxiliary', SubSeq(text, 1, draft.start), kind)
  BY <1>1 DEF DraftInv, Restore, AuxiliaryFor, auxiliary
<1>4. TextInv' /\ Len(text') = draft.start
  BY <1>1, <1>2, <1>3, Shortened
<1>5. replay \in Seq(Token) /\ Len(replay) = kept
  BY <1>1, <1>2, PartOf
<1> HIDE DEF replay
<1>6. draft' = [stage |-> "restored", start |-> draft.start, saved |-> draft.saved,
                replay |-> replay]
  BY <1>1 DEF DraftInv
<1>7. DraftInv'
  <2>1. draft'.stage = "restored" /\ draft'.replay = replay
    BY <1>6
  <2>2. Len(text') + Len(draft'.replay) <= MaxText[kind']
    BY <1>1, <1>2, <1>4, <1>5, <2>1
  <2> QED
    BY <1>2, <1>5, <1>6, <2>1, <2>2 DEF DraftInv
<1>8. OutInv'
  <2>1. Follows(0)'
    BY <1>1 DEF Follows
  <2>2. 0 \in 0..Len(text') /\ draft'.stage # "verified"
    BY <1>2, <1>4, <1>6
  <2> QED
    BY <2>1, <2>2 DEF OutInv
<1> QED
  BY <1>4, <1>7, <1>8 DEF StreamInv

LEMMA ReplayKeeps ==
    ASSUME RoomForRows, TextInv, DraftInv, Replay
    PROVE  StreamInv'
<1>1. PICK tokens \in Seq(Token) : tokens = draft.replay
  BY DEF DraftInv, Replay
<1>2. /\ text' = text \o tokens
      /\ Run(tokens, Padded(tokens), Len(text)) /\ draft' = NoDraft
  BY <1>1 DEF Replay
<1>3. Len(tokens) >= 1 /\ Len(text) + Len(tokens) <= MaxText[kind]
  BY <1>1 DEF DraftInv, Replay
<1>4. /\ TextInv' /\ Follows(Len(tokens))' /\ Len(text') = Len(text) + Len(tokens)
      /\ Len(text) \in Nat /\ Len(tokens) \in Nat
  BY <1>2, <1>3, PaddedRun
<1> QED
  BY <1>2, <1>4, Settled

LEMMA StepKeeps ==
    ASSUME RoomForRows, StreamInv, [Next]_vars
    PROVE  StreamInv'
<1>2. TextInv /\ DraftInv /\ OutInv
  BY DEF StreamInv
<1>3. CASE Reset
  BY <1>2, <1>3, ResetKeeps
<1>4. ASSUME NEW tokens \in Chunk, PrefillChunk(tokens) PROVE StreamInv'
  BY <1>2, <1>4, PrefillKeeps
<1>5. ASSUME NEW tokens \in Chunk, PrefillRefused(tokens) PROVE StreamInv'
  BY <1>2, <1>5, RefusedKeeps
<1>6. ASSUME NEW tokens \in Chunk, Verify(tokens) PROVE StreamInv'
  BY <1>2, <1>6, VerifyKeeps
<1>7. ASSUME NEW token \in Token, Decode(token) PROVE StreamInv'
  BY <1>2, <1>7, DecodeKeeps
<1>8. ASSUME NEW kept \in 1..GraphLen, RewindLength(kept) PROVE StreamInv'
  BY <1>2, <1>8, RewindKeeps
<1>9. ASSUME NEW kept \in 1..GraphLen, Restore(kept) PROVE StreamInv'
  BY <1>2, <1>9, RestoreKeeps
<1>10. CASE AcceptAll
  BY <1>2, <1>10, AcceptKeeps
<1>11. CASE Replay
  BY <1>2, <1>11, ReplayKeeps
<1>12. CASE UNCHANGED vars
  BY <1>2, <1>12 DEF vars, caches, auxiliary, StreamInv, TextInv, DraftInv, OutInv, Follows
<1> QED
  BY <1>3, <1>4, <1>5, <1>6, <1>7, <1>8, <1>9, <1>10, <1>11, <1>12 DEF Next

LEMMA InvariantSuffices ==
    ASSUME StreamInv
    PROVE  OutputsFollowText
<1>1. PICK n \in 0..Len(text) : Follows(n)
  BY DEF StreamInv, OutInv
<1>2. n \in Nat
  BY <1>1, TextRoom DEF StreamInv
<1>3. DOMAIN out = 1..n
  BY <1>1 DEF Follows
<1>4. Len(out) = n
  BY <1>2, <1>3
<1> QED
  BY <1>1, <1>3, <1>4 DEF Follows, OutputsFollowText

-----------------------------------------------------------------------------
(* Every row of a run is computed from its text alone, whatever chunks,      *)
(* decode steps and verified or rejected drafts produced it, and whatever    *)
(* earlier texts left behind, for models with layers of any kind; the        *)
(* kernels that append padding are given room for it.                        *)
THEOREM RowsFollowText ==
    ASSUME RoomForRows
    PROVE  Spec => []OutputsFollowText
<1>1. Init => StreamInv
  BY InitHolds
<1>2. StreamInv /\ [Next]_vars => StreamInv'
  BY StepKeeps
<1>3. StreamInv => OutputsFollowText
  BY InvariantSuffices
<1> QED
  BY <1>1, <1>2, <1>3, PTL DEF Spec

-----------------------------------------------------------------------------
(* Types.  They need no room for the padding: an append that reaches past    *)
(* its head's region still writes cells.                                     *)

Kept == Token \cup {Zero}
TapsSize == (DilatedKernel - 1) * Dilation

AuxType(aux) ==
    /\ aux[1] \in [0..(NCtx - 1) -> Kept]
    /\ aux[2] \in States
    /\ aux[3] \in [0..(WindowSize - 1) -> Kept]
    /\ aux[4] \in Seq(Token)
    /\ aux[5] \in [1..(ConvKernel - 1) -> Kept]
    /\ aux[6] \in Kept
    /\ aux[7].history \in Histories
    /\ aux[8] \in [1..TapsSize -> Kept]

MemoryType ==
    /\ keys \in [Memory -> Cell] /\ latent \in [0..(NCtx - 1) -> Cell]
    /\ AuxType(auxiliary)

TextType == kind \in Kind /\ text \in Seq(Token) /\ Len(text) <= MaxText[kind]

(* A checkpoint has the types of what it was taken of, and what is replayed  *)
(* from it fits.                                                             *)
DraftType ==
    /\ draft = [stage |-> draft.stage, start |-> draft.start,
                saved |-> draft.saved, replay |-> draft.replay]
    /\ draft.stage \in {"none", "verified", "restored"}
    /\ draft.stage # "none" => draft.start \in 0..Len(text)
    /\ draft.stage = "verified" => AuxType(draft.saved)
    /\ draft.stage = "restored" =>
           /\ draft.replay \in Seq(Token) /\ Len(draft.replay) >= 1
           /\ Len(text) + Len(draft.replay) <= MaxText[kind]

StreamType == TextType /\ MemoryType /\ DraftType

LEMMA LastWriter ==
    ASSUME NEW A, IsFiniteSet(A), A # {}, A \subseteq Int
    PROVE  (CHOOSE x \in A : \A y \in A : y <= x) \in A
<1> DEFINE score == [x \in A |-> x]
<1>1. \A x \in A : score[x] \in Int
  OBVIOUS
<1>2. \A x \in A : score[x] = x
  OBVIOUS
<1> HIDE DEF score
<1>3. PICK x \in A : \A y \in A : score[x] >= score[y]
  BY <1>1, BestExists
<1>4. \A y \in A : y <= x
  <2>1. ASSUME NEW y \in A PROVE y <= x
    <3>1. x \in Int /\ y \in Int /\ x >= y
      BY <1>2, <1>3
    <3> QED
      BY <3>1
  <2> QED
    BY <2>1
<1> QED
  BY <1>4

LEMMA KeysTyped ==
    ASSUME NEW k \in [Memory -> Cell], NEW past \in Nat, NEW rows \in Seq(Cell)
    PROVE  AppendRows(k, past, rows) \in [Memory -> Cell]
<1>1. SUFFICES ASSUME NEW i \in Memory
               PROVE  (IF Writers(i, past, rows) = {} THEN k[i]
                       ELSE LET h == CHOOSE h \in Writers(i, past, rows) :
                                        \A g \in Writers(i, past, rows) : g <= h
                            IN  rows[i - Row(h, past) + 1]) \in Cell
  BY DEF AppendRows
<1>2. CASE Writers(i, past, rows) = {}
  BY <1>2
<1>3. CASE Writers(i, past, rows) # {}
  <2>1. PICK W : W = Writers(i, past, rows)
    OBVIOUS
  <2>2. W \subseteq KvHead /\ IsFiniteSet(W)
    <3>1. W \subseteq KvHead
      BY <2>1 DEF Writers
    <3>2. IsFiniteSet(KvHead)
      BY AttentionAssumption, FS_Interval DEF KvHead
    <3> QED
      BY <3>1, <3>2, FS_Subset
  <2>3. W # {} /\ W \subseteq Int
    BY <1>3, <2>1, <2>2 DEF KvHead
  <2>4. PICK h \in W : h = CHOOSE x \in W : \A g \in W : g <= x
    BY <2>2, <2>3, LastWriter
  <2>5. Row(h, past) <= i /\ i < Row(h, past) + Len(rows) /\ h \in KvHead
    BY <2>1, <2>2 DEF Writers
  <2>6. PICK x \in Nat, n \in Nat, j \in Nat : x = Row(h, past) /\ n = Len(rows) /\ j = i
    <3>1. h * NCtx \in Nat
      BY <2>5, AttentionAssumption DEF KvHead
    <3>2. Row(h, past) \in Nat /\ i \in Nat
      BY <3>1 DEF Row, Memory
    <3> QED
      BY <3>2, LenProperties
  <2>7. j - x + 1 \in 1..n
    BY <2>5, <2>6
  <2>8. rows[i - Row(h, past) + 1] \in Cell
    BY <2>6, <2>7, ElementOfSeq
  <2> QED
    BY <1>3, <2>1, <2>4, <2>8
<1> QED
  BY <1>2, <1>3

LEMMA CellsTyped ==
    ASSUME NEW S, NEW c \in [0..(NCtx - 1) -> S], NEW start \in Nat, NEW rows \in Seq(S)
    PROVE  [j \in 0..(NCtx - 1) |->
               IF start <= j /\ j < start + Len(rows) THEN rows[j - start + 1] ELSE c[j]]
               \in [0..(NCtx - 1) -> S]
<1>1. ASSUME NEW j \in 0..(NCtx - 1), start <= j, j < start + Len(rows)
      PROVE  rows[j - start + 1] \in S
  <2>1. j - start + 1 \in 1..Len(rows)
    BY <1>1, LenProperties
  <2> QED
    BY <2>1, ElementOfSeq
<1> QED
  BY <1>1

LEMMA RingTyped ==
    ASSUME NEW r \in [0..(WindowSize - 1) -> Kept], NEW start \in Nat, NEW tokens \in Seq(Token)
    PROVE  WriteRing(StartRing(r, start), start, tokens) \in [0..(WindowSize - 1) -> Kept]
<1>1. PICK ring0 \in [0..(WindowSize - 1) -> Kept] : ring0 = StartRing(r, start)
  BY DEF StartRing, EmptyRing, Kept
<1>2. ASSUME NEW p \in 0..(WindowSize - 1)
      PROVE  WriteRing(ring0, start, tokens)[p] \in Kept
  <2> DEFINE W == {i \in 1..Len(tokens) : (start + i - 1) % WindowSize = p}
             top == CHOOSE i \in W : \A k \in W : k <= i
  <2>1. WriteRing(ring0, start, tokens)[p] = IF W = {} THEN ring0[p] ELSE tokens[top]
    BY DEF WriteRing
  <2>2. W \subseteq 1..Len(tokens) /\ IsFiniteSet(1..Len(tokens)) /\ W \subseteq Int
    BY LenProperties, FS_Interval
  <2> HIDE DEF W
  <2>3. IsFiniteSet(W)
    BY <2>2, FS_Subset
  <2>4. CASE W = {}
    BY <2>1, <2>4
  <2>5. CASE W # {}
    <3>1. top \in W
      BY <2>2, <2>3, <2>5, LastWriter
    <3> HIDE DEF top
    <3>2. tokens[top] \in Token
      BY <2>2, <3>1, ElementOfSeq
    <3> QED
      BY <2>1, <2>5, <3>2 DEF Kept
  <2> QED
    BY <2>4, <2>5
<1>3. WriteRing(ring0, start, tokens) =
          [p \in 0..(WindowSize - 1) |-> WriteRing(ring0, start, tokens)[p]]
  BY DEF WriteRing
<1>4. WriteRing(ring0, start, tokens) \in [0..(WindowSize - 1) -> Kept]
  BY <1>2, <1>3
<1> QED
  BY <1>1, <1>4

LEMMA ConvTyped ==
    ASSUME NEW tokens \in Seq(Token), Len(tokens) >= 1, NEW rows, RowsFor(rows, tokens),
           NEW m \in Nat, NEW c \in [1..m -> Kept]
    PROVE  ConvState(c, rows, Len(tokens)) \in [1..m -> Kept]
<1> DEFINE w == c \o rows
<1>1. PICK n \in Nat : n = Len(tokens)
  BY LenProperties
<1>2. Kept \subseteq Cell
  BY DEF Kept, Cell
<1>3. c \in Seq(Cell) /\ Len(c) = m
  <2>1. c \in [1..m -> Cell]
    BY <1>2
  <2>2. c \in Seq(Cell)
    BY <2>1, SeqDef
  <2>3. DOMAIN c = 1..Len(c) /\ Len(c) \in Nat
    BY <2>2, LenProperties
  <2> QED
    BY <2>2, <2>3, SameInterval
<1>4. /\ rows \in Seq(Cell) /\ Len(rows) \in Nat /\ n <= Len(rows)
      /\ \A i \in 1..n : rows[i] = tokens[i] /\ tokens[i] \in Token
  BY <1>1, LenProperties, ElementOfSeq DEF RowsFor
<1>5. \A i \in 1..(m + Len(rows)) : w[i] = IF i <= m THEN c[i] ELSE rows[i - m]
  BY <1>3, <1>4, ConcatProperties
<1> HIDE DEF w
<1>6. ASSUME NEW i \in 1..(m + n)
      PROVE  w[i] \in Kept
  <2>1. i \in 1..(m + Len(rows)) /\ i \in Nat
    BY <1>4
  <2>2. CASE i <= m
    <3>1. i \in 1..m
      BY <2>2
    <3> QED
      BY <1>5, <2>1, <2>2, <3>1
  <2>3. CASE ~(i <= m)
    <3>1. PICK x \in 1..n : x = i - m
      <4>1. i - m \in 1..n
        BY <2>3
      <4> QED
        BY <4>1
    <3>2. w[i] = rows[x]
      BY <1>5, <2>1, <2>3, <3>1
    <3> QED
      BY <1>4, <3>2 DEF Kept
  <2> QED
    BY <2>2, <2>3
<1>7. PICK from \in Nat, to \in Int : from = n + 1 /\ to = n + m
  OBVIOUS
<1>8. /\ to = from + m - 1 /\ \A i \in from..to : i \in 1..(m + n)
      /\ \A i \in 1..m : from + i - 1 \in 1..(m + n)
  BY <1>7
<1>9. ConvState(c, rows, Len(tokens)) = SubSeq(w, from, to)
  BY <1>1, <1>3, <1>7, RealRows DEF ConvState, w
<1>10. PICK d : d = SubSeq(w, from, to)
  OBVIOUS
<1>11. d \in Seq(Cell) /\ Len(d) = m /\ \A i \in 1..m : d[i] = w[from + i - 1]
  <2>1. \A i \in from..to : w[i] \in Cell
    BY <1>2, <1>6, <1>8
  <2>2. to = from + m - 1
    BY <1>8
  <2> QED
    BY ONLY <1>10, <2>1, <2>2, from \in Nat, to \in Int, m \in Nat, CellsBetween
<1>12. d \in [1..m -> Cell]
  BY <1>11, LenProperties
<1>13. \A i \in 1..m : d[i] \in Kept
  BY <1>6, <1>8, <1>11
<1> QED
  BY <1>9, <1>10, <1>12, <1>13

LEMMA GramsTyped ==
    ASSUME NEW g, g.history \in Histories, NEW tokens \in Seq(Token)
    PROVE  GramsAfter(g, tokens).history \in Histories
<1>1. PICK h \in Histories : h = GramsStarted(g).history
  <2>1. EosHistory \in Histories
    BY DEF EosHistory, Histories
  <2> QED
    BY <2>1 DEF GramsStarted
<1>2. PICK n \in Nat : n = Len(tokens) /\ n \in 0..Len(tokens)
  BY LenProperties
<1>3. \A x \in Histories, token \in Token : NextHistory(x, token) \in Histories
  BY NextHistoryTyped
<1>4. PICK f : HistoryRun(f, Histories, h, tokens, n)
  BY ONLY <1>2, <1>3, h \in Histories, tokens \in Seq(Token), HistorySteps
<1>5. HistoryAfter(h, tokens, n) \in Histories
  BY <1>4 DEF HistoryRun
<1> QED
  BY <1>1, <1>2, <1>5 DEF GramsAfter

(* A run leaves every piece of state in its type. *)
LEMMA RunTyped ==
    ASSUME MemoryType, text \in Seq(Token), NEW tokens \in Seq(Token), Len(tokens) >= 1,
           NEW rows, RowsFor(rows, tokens), Run(tokens, rows, Len(text))
    PROVE  MemoryType' /\ kind' = kind
<1>1. /\ Len(text) \in Nat /\ rows \in Seq(Cell) /\ tokens \in Seq(Kept)
      /\ Len(tokens) \in 1..Len(tokens) /\ Len(tokens) \in Nat
  <2>1. Token \subseteq Kept
    BY DEF Kept
  <2>2. tokens \in Seq(Kept)
    BY <2>1, SeqMonotonic
  <2>3. Len(tokens) \in Nat /\ Len(text) \in Nat
    BY LenProperties
  <2> QED
    BY <2>2, <2>3 DEF RowsFor
<1>2. kind' = kind
  BY DEF Run
<1>3. /\ keys \in [Memory -> Cell] /\ latent \in [0..(NCtx - 1) -> Cell]
      /\ index \in [0..(NCtx - 1) -> Kept] /\ state \in States
      /\ ring \in [0..(WindowSize - 1) -> Kept] /\ absorbed \in Seq(Token)
      /\ conv \in [1..(ConvKernel - 1) -> Kept] /\ last \in Kept
      /\ grams.history \in Histories /\ taps \in [1..TapsSize -> Kept]
  BY DEF MemoryType, AuxType, auxiliary
<1>4. CASE RunDense(tokens, rows, Len(text))
  <2>1. keys' \in [Memory -> Cell]
    BY <1>1, <1>3, <1>4, KeysTyped DEF RunDense
  <2> QED
    BY <1>2, <1>3, <1>4, <2>1 DEF RunDense, MemoryType, AuxType, auxiliary
<1>5. WriteIndex(index, Len(text), tokens) \in [0..(NCtx - 1) -> Kept]
  BY <1>1, <1>3, CellsTyped DEF WriteIndex
<1>6. CASE RunSparse(tokens, rows, Len(text))
  <2>1. keys' \in [Memory -> Cell] /\ index' \in [0..(NCtx - 1) -> Kept]
    BY <1>1, <1>3, <1>5, <1>6, KeysTyped DEF RunSparse
  <2> QED
    BY <1>2, <1>3, <1>6, <2>1 DEF RunSparse, MemoryType, AuxType, auxiliary
<1>7. CASE RunLatent(tokens, rows, Len(text))
  <2>1. latent' \in [0..(NCtx - 1) -> Cell]
    BY <1>1, <1>3, <1>7, CellsTyped DEF RunLatent, WriteLatent
  <2>2. index' \in [0..(NCtx - 1) -> Kept]
    BY <1>5, <1>7 DEF RunLatent
  <2> QED
    BY <1>2, <1>3, <1>7, <2>1, <2>2 DEF RunLatent, MemoryType, AuxType, auxiliary
<1>8. CASE RunCompressed(tokens, Len(text))
  <2>1. state' \in States
    <3>1. Compress(state, Len(text), tokens) \in States
      <4>1. PICK f \in [0..Len(tokens) -> States] :
                Compress(state, Len(text), tokens) = f[Len(tokens)]
        BY <1>1, <1>3, CompressSteps
      <4> QED
        BY <1>1, <4>1
    <3> QED
      BY <1>8, <3>1 DEF RunCompressed
  <2>2. ring' \in [0..(WindowSize - 1) -> Kept]
    BY <1>1, <1>3, <1>8, RingTyped DEF RunCompressed
  <2> QED
    BY <1>2, <1>3, <1>8, <2>1, <2>2 DEF RunCompressed, MemoryType, AuxType, auxiliary, caches
<1>9. CASE RunRecurrent(tokens, rows)
  <2>1. absorbed' \in Seq(Token)
    <3>1. absorbed' = absorbed \o SubSeq(rows, 1, Len(tokens))
      BY <1>9, RealRows DEF RunRecurrent, AbsorbRows
    <3>2. absorbed \o SubSeq(rows, 1, Len(tokens)) =
              SubSeq(absorbed \o tokens, 1, Len(absorbed) + Len(tokens))
      BY <1>1, <1>3, RowsUpTo
    <3>3. SubSeq(absorbed \o tokens, 1, Len(absorbed) + Len(tokens)) \in Seq(Token)
      BY <1>1, <1>3, TextOfRow
    <3> QED
      BY <3>1, <3>2, <3>3
  <2>2. conv' \in [1..(ConvKernel - 1) -> Kept]
    <3>1. ConvKernel - 1 \in Nat
      BY RecurrentAssumption
    <3> QED
      BY <1>3, <1>9, <3>1, ConvTyped DEF RunRecurrent
  <2>3. last' \in Kept
    <3>1. last' = tokens[Len(tokens)]
      BY <1>1, <1>9, RealRows DEF RunRecurrent, ShiftState, RowsFor
    <3> QED
      BY <1>1, <3>1, ElementOfSeq DEF Kept
  <2> QED
    BY <1>2, <1>3, <1>9, <2>1, <2>2, <2>3 DEF RunRecurrent, MemoryType, AuxType, auxiliary, caches
<1>10. CASE RunNgram(tokens, rows)
  <2>1. grams'.history \in Histories
    BY <1>3, <1>10, GramsTyped DEF RunNgram
  <2>2. taps' \in [1..TapsSize -> Kept]
    <3>1. TapsSize \in Nat
      <4>1. PICK a \in Nat : a = DilatedKernel - 1
        BY RecurrentAssumption
      <4>2. a * Dilation \in Nat
        BY RecurrentAssumption
      <4> QED
        BY <4>1, <4>2 DEF TapsSize
    <3> QED
      BY <1>3, <1>10, <3>1, ConvTyped DEF RunNgram
  <2> QED
    BY <1>2, <1>3, <1>10, <2>1, <2>2 DEF RunNgram, MemoryType, AuxType, auxiliary, caches
<1> QED
  BY <1>2, <1>4, <1>6, <1>7, <1>8, <1>9, <1>10 DEF Run

LEMMA ZeroedTyped ==
    AuxType(<<ZeroIndex, ZeroState, EmptyRing, <<>>, ZeroConv, Zero, NoGrams, ZeroTaps>>)
<1>1. ZeroState \in States
  <2>1. ZeroedRows \in EntryRows /\ NoEntry \in EntryRows
    BY DEF ZeroedRows, NoEntry, EntryRows, Cell
  <2>2. NoEntries \in [Entries -> EntryRows]
    BY <2>1 DEF NoEntries
  <2> QED
    BY <2>1, <2>2 DEF States, ZeroState
<1>2. NoGrams.history \in Histories
  BY StreamAssumption DEF NoGrams, Fillers, Histories
<1>3. /\ ZeroIndex \in [0..(NCtx - 1) -> Kept] /\ EmptyRing \in [0..(WindowSize - 1) -> Kept]
      /\ ZeroConv \in [1..(ConvKernel - 1) -> Kept] /\ ZeroTaps \in [1..TapsSize -> Kept]
  BY StreamAssumption DEF ZeroIndex, EmptyRing, ZeroConv, ZeroTaps, Fillers, TapsSize, Kept
<1>4. Zero \in Kept /\ <<>> \in Seq(Token)
  BY EmptySeq DEF Kept
<1> QED
  BY <1>1, <1>2, <1>3, <1>4 DEF AuxType

LEMMA InitTyped ==
    ASSUME Init
    PROVE  StreamType
<1>1. text = <<>> /\ kind \in Kind /\ MaxText[kind] \in 0..NCtx
  BY StreamAssumption DEF Init
<1>2. TextType
  <2>1. Len(text) = 0 /\ text \in Seq(Token)
    BY <1>1, EmptySeq
  <2> QED
    BY <1>1, <2>1, AttentionAssumption DEF TextType
<1>3. AuxType(auxiliary)
  <2>1. auxiliary = <<ZeroIndex, ZeroState, EmptyRing, <<>>, ZeroConv, Zero, NoGrams, ZeroTaps>>
    BY DEF Init, auxiliary
  <2> QED
    BY <2>1, ZeroedTyped
<1>4. MemoryType
  BY <1>3 DEF Init, MemoryType, EmptyMemory, ZeroIndex, Cell
<1>5. DraftType
  BY DEF Init, NoDraft, DraftType
<1> QED
  BY <1>2, <1>4, <1>5 DEF StreamType

(* A run that makes the text longer and ends a verification, if there is one. *)
LEMMA RunKeepsTypes ==
    ASSUME TextType, MemoryType, NEW tokens \in Seq(Token), Len(tokens) >= 1,
           Len(text) + Len(tokens) <= MaxText[kind],
           NEW rows, RowsFor(rows, tokens), Run(tokens, rows, Len(text)),
           text' = text \o tokens
    PROVE  /\ TextType' /\ MemoryType' /\ kind' = kind
           /\ draft' = NoDraft => StreamType'
<1>1. text \in Seq(Token)
  BY DEF TextType
<1>2. MemoryType' /\ kind' = kind
  BY <1>1, RunTyped
<1>3. TextType'
  BY <1>1, <1>2, Continued DEF TextType
<1>4. draft' = NoDraft => DraftType'
  BY DEF NoDraft, DraftType
<1> QED
  BY <1>2, <1>3, <1>4 DEF StreamType

LEMMA TypesStep ==
    ASSUME StreamType, [Next]_vars
    PROVE  StreamType'
<1>1. /\ TextType /\ MemoryType /\ DraftType
      /\ text \in Seq(Token) /\ Len(text) \in Nat /\ MaxText[kind] \in 0..NCtx /\ NCtx \in Nat
      /\ GraphLen \in Nat
  BY LenProperties, StreamAssumption, AttentionAssumption DEF StreamType, TextType
<1>2. CASE Reset
  <2>1. text' = <<>> /\ kind' = kind /\ draft' = NoDraft /\ keys' = keys /\ latent' = latent
    BY <1>2 DEF Reset, Idle, caches
  <2>2. auxiliary' = <<ZeroIndex, ZeroState, EmptyRing, <<>>, ZeroConv, Zero, NoGrams, ZeroTaps>>
    BY <1>2 DEF Reset, auxiliary
  <2>3. MemoryType'
    BY <1>1, <2>1, <2>2, ZeroedTyped DEF MemoryType
  <2>4. TextType'
    <3>1. Len(text') = 0 /\ text' \in Seq(Token)
      BY <2>1, EmptySeq
    <3> QED
      BY <1>1, <2>1, <3>1 DEF TextType
  <2>5. DraftType'
    BY <2>1 DEF NoDraft, DraftType
  <2> QED
    BY <2>3, <2>4, <2>5 DEF StreamType
<1>3. ASSUME NEW tokens \in Chunk, PrefillChunk(tokens) PROVE StreamType'
  <2>1. tokens \in Seq(Token) /\ Len(tokens) >= 1 /\ RowsFor(Padded(tokens), tokens)
    BY ChunkIsSeq, PaddedRows
  <2>2. /\ Len(text) + Len(tokens) <= MaxText[kind] /\ text' = text \o tokens
        /\ Run(tokens, Padded(tokens), Len(text)) /\ draft' = NoDraft
    BY <1>3 DEF PrefillChunk, Fits, Idle
  <2> QED
    BY <1>1, <2>1, <2>2, RunKeepsTypes
<1>4. ASSUME NEW tokens \in Chunk, PrefillRefused(tokens) PROVE StreamType'
  <2>1. /\ kind' = kind /\ text' = text /\ draft' = NoDraft
        /\ keys' = keys /\ latent' = latent
        /\ index' = WriteIndex(index, Len(text), tokens)
        /\ UNCHANGED <<state, ring, absorbed, conv, last, grams, taps>>
    BY <1>4 DEF PrefillRefused, Idle, caches
  <2>2. index' \in [0..(NCtx - 1) -> Kept]
    <3>1. tokens \in Seq(Kept)
      BY ChunkIsSeq, SeqMonotonic DEF Kept
    <3>2. index \in [0..(NCtx - 1) -> Kept]
      BY <1>1 DEF MemoryType, AuxType, auxiliary
    <3> QED
      BY <1>1, <2>1, <3>1, <3>2, CellsTyped DEF WriteIndex
  <2>3. MemoryType'
    BY <1>1, <2>1, <2>2 DEF MemoryType, AuxType, auxiliary
  <2>4. TextType' /\ DraftType'
    BY <1>1, <2>1 DEF TextType, NoDraft, DraftType
  <2> QED
    BY <2>3, <2>4 DEF StreamType
<1>5. ASSUME NEW tokens \in Chunk, Verify(tokens) PROVE StreamType'
  <2>1. tokens \in Seq(Token) /\ Len(tokens) >= 1 /\ RowsFor(Padded(tokens), tokens)
    BY ChunkIsSeq, PaddedRows
  <2>2. /\ Len(text) + Len(tokens) <= MaxText[kind] /\ text' = text \o tokens
        /\ Run(tokens, Padded(tokens), Len(text))
    BY <1>5 DEF Verify, Fits
  <2>3. TextType' /\ MemoryType' /\ kind' = kind
    BY <1>1, <2>1, <2>2, RunKeepsTypes
  <2>4. draft' = [stage |-> "verified", start |-> Len(text), saved |-> auxiliary,
                  replay |-> <<>>]
    BY <1>5 DEF Verify, NoDraft
  <2>5. AuxType(auxiliary)
    BY <1>1 DEF MemoryType
  <2>6. Len(text) \in 0..Len(text')
    BY <1>1, <2>1, <2>2, Continued
  <2>7. draft'.stage = "verified" /\ draft'.start = Len(text) /\ draft'.saved = auxiliary
    BY <2>4
  <2>8. AuxType(draft'.saved) /\ draft'.start \in 0..Len(text')
    BY <2>5, <2>6, <2>7
  <2>9. DraftType'
    BY <2>4, <2>7, <2>8 DEF DraftType
  <2> QED
    BY <2>3, <2>9 DEF StreamType
<1>6. ASSUME NEW token \in Token, Decode(token) PROVE StreamType'
  <2> DEFINE tokens == <<token>>
  <2>1. tokens \in Seq(Token) /\ Len(tokens) = 1
    OBVIOUS
  <2>2. text' = text \o tokens
    BY <1>1, <1>6, AppendIsConcat DEF Decode
  <2> HIDE DEF tokens
  <2>3. /\ Len(text) + Len(tokens) <= MaxText[kind]
        /\ Run(tokens, tokens, Len(text)) /\ draft' = NoDraft
    BY <1>6 DEF Decode, Fits, Idle, tokens
  <2>4. RowsFor(tokens, tokens) /\ Len(tokens) >= 1
    BY <2>1, TokensAreRows
  <2> QED
    BY <1>1, <2>1, <2>2, <2>3, <2>4, RunKeepsTypes
<1>7. ASSUME NEW kept \in 1..GraphLen, RewindLength(kept) PROVE StreamType'
  <2>1. /\ draft.stage = "verified" /\ text' = SubSeq(text, 1, draft.start + kept)
        /\ draft.start + kept < Len(text) /\ draft' = NoDraft /\ kind' = kind
        /\ keys' = keys /\ latent' = latent /\ auxiliary' = auxiliary
    BY <1>7 DEF RewindLength, caches
  <2>2. draft.start + kept \in 0..Len(text)
    BY <1>1, <2>1 DEF DraftType
  <2>3. text' \in Seq(Token) /\ Len(text') <= Len(text) /\ Len(text') \in Nat
    BY <1>1, <2>1, <2>2, PrefixOf
  <2>4. TextType' /\ MemoryType' /\ DraftType'
    BY <1>1, <2>1, <2>3 DEF TextType, MemoryType, NoDraft, DraftType
  <2> QED
    BY <2>4 DEF StreamType
<1>8. ASSUME NEW kept \in 1..GraphLen, Restore(kept) PROVE StreamType'
  <2> DEFINE replay == SubSeq(text, draft.start + 1, draft.start + kept)
  <2>1. /\ draft.stage = "verified" /\ draft.start + kept < Len(text)
        /\ text' = SubSeq(text, 1, draft.start)
        /\ kind' = kind /\ keys' = keys /\ latent' = latent
        /\ draft' = [draft EXCEPT !.stage = "restored", !.replay = replay]
    BY <1>8 DEF Restore, caches
  <2>2. draft.start \in 0..Len(text) /\ kept \in Nat /\ kept >= 1 /\ AuxType(draft.saved)
    BY <1>1, <2>1 DEF DraftType
  <2>3. text' \in Seq(Token) /\ Len(text') = draft.start
    BY <1>1, <2>1, <2>2, PrefixOf
  <2>4. replay \in Seq(Token) /\ Len(replay) = kept
    BY <1>1, <2>1, <2>2, PartOf
  <2> HIDE DEF replay
  <2>5. draft' = [stage |-> "restored", start |-> draft.start, saved |-> draft.saved,
                  replay |-> replay]
    BY <1>1, <2>1 DEF DraftType
  <2>6. AuxType(auxiliary')
    BY <1>8, <2>2 DEF Restore, AuxType, auxiliary
  <2>7. MemoryType'
    BY <1>1, <2>1, <2>6 DEF MemoryType
  <2>8. TextType'
    BY <1>1, <2>1, <2>2, <2>3 DEF TextType
  <2>9. DraftType'
    <3>1. draft'.stage = "restored" /\ draft'.replay = replay /\ draft'.start = draft.start
      BY <2>5
    <3>2. Len(text') + Len(draft'.replay) <= MaxText[kind']
      BY <1>1, <2>1, <2>2, <2>3, <2>4, <3>1 DEF TextType
    <3>3. draft'.start \in 0..Len(text')
      BY <2>2, <2>3, <3>1
    <3> QED
      BY <2>2, <2>4, <2>5, <3>1, <3>2, <3>3 DEF DraftType
  <2> QED
    BY <2>7, <2>8, <2>9 DEF StreamType
<1>9. CASE AcceptAll
  <2>1. /\ draft' = NoDraft /\ kind' = kind /\ text' = text
        /\ keys' = keys /\ latent' = latent /\ auxiliary' = auxiliary
    BY <1>9 DEF AcceptAll, caches
  <2> QED
    BY <1>1, <2>1 DEF StreamType, TextType, MemoryType, NoDraft, DraftType
<1>10. CASE Replay
  <2>1. PICK tokens \in Seq(Token) : tokens = draft.replay
    BY <1>1, <1>10 DEF DraftType, Replay
  <2>2. /\ text' = text \o tokens /\ Run(tokens, Padded(tokens), Len(text))
        /\ draft' = NoDraft
    BY <1>10, <2>1 DEF Replay
  <2>3. Len(tokens) >= 1 /\ Len(text) + Len(tokens) <= MaxText[kind]
    BY <1>1, <1>10, <2>1 DEF DraftType, Replay
  <2>4. RowsFor(Padded(tokens), tokens)
    BY PaddedRows
  <2> QED
    BY <1>1, <2>2, <2>3, <2>4, RunKeepsTypes
<1>11. CASE UNCHANGED vars
  BY <1>1, <1>11 DEF vars, caches, auxiliary, StreamType, TextType, MemoryType, DraftType
<1> QED
  BY <1>2, <1>3, <1>4, <1>5, <1>6, <1>7, <1>8, <1>9, <1>10, <1>11 DEF Next

LEMMA TypesSuffice ==
    ASSUME StreamType
    PROVE  StreamTypeOK
<1>1. TextType /\ MemoryType /\ DraftType
  BY DEF StreamType
<1>2. /\ index \in [0..(NCtx - 1) -> Kept] /\ state \in States
      /\ ring \in [0..(WindowSize - 1) -> Kept] /\ absorbed \in Seq(Token)
      /\ conv \in [1..(ConvKernel - 1) -> Kept] /\ last \in Kept
      /\ grams.history \in Histories /\ taps \in [1..TapsSize -> Kept]
  BY <1>1 DEF MemoryType, AuxType, auxiliary
<1>3. state.rows \in EntryRows /\ state.entries \in [Entries -> EntryRows]
  BY <1>2 DEF States
<1>4. Len(text) \in Nat
  BY <1>1, LenProperties DEF TextType
<1>5. draft.stage # "none" => draft.start <= Len(text)
  BY <1>1, <1>4 DEF DraftType
<1> QED
  BY <1>1, <1>2, <1>3, <1>5
  DEF StreamTypeOK, TextType, MemoryType, DraftType, Kept, TapsSize, Histories

(* Every piece of state keeps its type, checkpoints and padded appends       *)
(* included, whatever runs, verifications and resets follow one another.     *)
THEOREM StreamTypeCorrect == Spec => []StreamTypeOK
<1>1. Init => StreamType
  BY InitTyped
<1>2. StreamType /\ [Next]_vars => StreamType'
  BY TypesStep
<1>3. StreamType => StreamTypeOK
  BY TypesSuffice
<1> QED
  BY <1>1, <1>2, <1>3, PTL DEF Spec
=============================================================================
