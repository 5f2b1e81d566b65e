---------------------------- MODULE SparseIndexer ----------------------------
(***************************************************************************)
(* The sparse attention of CUDA: kernels/cuda/qsa.cu.  Consecutive keys    *)
(* are a group of `ratio'; each complete group has one pooled row, and a   *)
(* query attends to the `budget' keys of the groups with the best scores   *)
(* and to the incomplete group after them.                                 *)
(***************************************************************************)
EXTENDS DeviceAttention
LOCAL INSTANCE SequencesExt

CONSTANTS
    IndexLogit(_, _),   \* the score of a query and a complete group
    IndexGroups,        \* 8: groups a block scores
    SortTile            \* 8192: groups that are sorted at once

ASSUME IndexerAssumption == {IndexGroups, SortTile} \subseteq Nat \ {0}

Slots(a) == a.budget + a.ratio - 1
Absent == -1            \* a slot without a key
NoGroup == [score |-> NegInf, id |-> Absent]

\* The mask must hide what a causal one hides; else nothing is done.
ValidateCausalMask(a) == \A index \in 0..(a.queries * Keys(a) - 1) :
    MaskHides(a, a.mask, index) <=> MaskHides(a, "causal", index)

\* A block of each query and each head, and one more that keeps the key.
AppendQueryRaw(l, M, b) ==
    IF b[2] = l.a.indexHeads THEN [M EXCEPT !.raw[l.a.past + b[1]] = <<"raw", l.a.past + b[1]>>]
    ELSE [M EXCEPT !.index[b[1], b[2]] = <<"query", l.a.past + b[1]>>]

\* The groups that have become complete: the mean of their keys.
NewGroups(a) == Keys(a) \div a.ratio - a.past \div a.ratio
PoolComplete(l, M, b) ==
    LET group == l.a.past \div l.a.ratio + b
    IN [M EXCEPT !.pooled[group] = [i \in 0..(l.a.ratio - 1) |-> M.raw[group * l.a.ratio + i]]]
PooledFrom(a, group) == [i \in 0..(a.ratio - 1) |-> <<"raw", group * a.ratio + i>>]

IndexScores(l, M, b) ==
    LET a == l.a
        total == Keys(a) \div a.ratio
        mine == (b[2] * IndexGroups)..(Least((b[2] + 1) * IndexGroups, total) - 1)
        visible(g) == g < (a.past + b[1] + 1) \div a.ratio
        whole(g) == /\ M.pooled[g] = PooledFrom(a, g)
                    /\ \A h \in 0..(a.indexHeads - 1) : M.index[b[1], h] = <<"query", a.past + b[1]>>
    IN [M EXCEPT !.groups = [c \in DOMAIN @ |->
          IF c[1] = b[1] /\ c[2] \in mine
          THEN IF ~visible(c[2]) THEN NegInf ELSE IF whole(c[2]) THEN IndexLogit(b[1], c[2]) ELSE Garbage
          ELSE @[c]]]
-----------------------------------------------------------------------------
(* The best groups of a row *)

\* The elements of a sequence by their rank: how many of them go before.
Ranked(s, rank) == [r \in DOMAIN s |-> s[CHOOSE x \in DOMAIN s : Cardinality(rank[x]) = r - 1]]
\* cub::BlockRadixSort: descending, equal scores in the order they had.
SortDescending(s) ==
    Ranked(s, [x \in DOMAIN s |-> {y \in DOMAIN s :
        s[y].score > s[x].score \/ (s[y].score = s[x].score /\ y < x)}])

Groups(M, row, complete, base, size) ==
    [r \in 1..size |-> LET id == base + r - 1
                       IN [score |-> IF id < complete THEN M.groups[row, id] ELSE NegInf, id |-> id]]

\* All groups at once, padded to the tile.
BlockBest(M, row, complete, keep) == SubSeq(SortDescending(Groups(M, row, complete, 0, SortTile)), 1, keep)

\* Tile by tile: the best so far stand before those of the tile.
StreamingBest(M, row, complete, keep) ==
    LET tile(best, base) ==
            LET sorted == SortDescending(Groups(M, row, complete, base, SortTile))
                next == [r \in 1..keep |-> IF r <= SortTile THEN sorted[r] ELSE NoGroup]
            IN SubSeq(SortDescending(best \o next), 1, keep)
    IN FoldLeft(tile, [r \in 1..keep |-> NoGroup],
                [t \in 1..Chunks(complete, SortTile) |-> (t - 1) * SortTile])

\* Their keys and those of the incomplete group, in ascending order.
BlockTopk(l, M, row) ==
    LET a == l.a
        visible == Least(Keys(a), a.past + row + 1)
        complete == visible \div a.ratio
        top == Least(a.budget \div a.ratio, complete)
        keep == a.budget \div a.ratio
        best == IF Keys(a) \div a.ratio > SortTile
                THEN StreamingBest(M, row, complete, keep)
                ELSE BlockBest(M, row, complete, Least(keep, SortTile))
        tokens == {(best[r].id * a.ratio) + j : r \in 1..top, j \in 0..(a.ratio - 1)}
                    \cup {(complete * a.ratio) + j : j \in 0..((visible % a.ratio) - 1)}
        nth(s) == CHOOSE t \in tokens : Cardinality({u \in tokens : u < t}) = s
        count == top * a.ratio + (visible % a.ratio)
    IN [M EXCEPT !.ids[row] = [s \in 0..(Slots(a) - 1) |-> IF s < count THEN nth(s) ELSE Absent]]
-----------------------------------------------------------------------------
(* The attention to them *)

\* The key of a slot, if there is one that the query sees.
ActiveId(l, M, row, slot) ==
    LET a == l.a
        id == IF slot < Slots(a) THEN M.ids[row][slot] ELSE Absent
    IN IF id \in 0..(Keys(a) - 1) /\ id <= a.past + row /\ ~MaskHides(a, a.mask, row * Keys(a) + id)
       THEN id ELSE Absent
SlotScore(l, M, row, h, slot, dot) ==
    LET id == ActiveId(l, M, row, slot)
    IN Raw(IF id = Absent THEN NegInf ELSE DeviceScore(l, CacheRow(l.a, M.K, h, id), h, row, id, dot))
SlotValues(l, M, row, h, slots, probabilities) ==
    LET live == {s \in slots : ActiveId(l, M, row, s) # Absent}
    IN {<<s, CacheRow(l.a, M.V, h, ActiveId(l, M, row, s)), probabilities[s].x>> : s \in live}

\* The lanes of a warp share the dimensions.
WarpDot(a) == {t \in (0..(Warp - 1)) \X (0..(a.dk - 1)) : t[2] \in Stride(t[1], a.dk, Warp)}

\* In one launch: a block of a query and a head.
SelectedAttention(l, M, b) ==
    LET slots == 0..(Slots(l.a) - 1)
        dot == WarpDot(l.a)
        row == Normalized([s \in slots |-> SlotScore(l, M, b[1], b[2], s, dot)])
    IN SetRow(M, b[2], b[1], RowOf(row, SlotValues(l, M, b[1], b[2], slots, row)))

\* In three: the slots of a head in parts, or tiles of slots for all heads of a group.
SelectedScoresPartitioned(l, M, b) ==
    LET width == Chunks(Slots(l.a), Partitions)
        dot == WarpDot(l.a)
        begin == Least(Slots(l.a), b[3] * width)
        mine == begin..(begin + Least(width, Slots(l.a) - begin) - 1)
    IN [M EXCEPT !.S = [c \in DOMAIN @ |->
          IF c[1] = b[2] /\ c[2] = b[1] /\ c[3] \in mine
          THEN SlotScore(l, M, b[1], b[2], c[3], dot) ELSE @[c]]]
GroupOf(a, kv) == {h \in 0..(a.heads - 1) : HeadOf(a, h) = kv}
SlotTiles(a) == [t \in 1..Chunks(Slots(a), SelectTile) |->
               {s \in ((t - 1) * SelectTile)..(t * SelectTile - 1) : s < Slots(a)}]
SelectedScoresGqa(l, M, b) ==
    LET dot == WarpDot(l.a)
        mine == UNION {SlotTiles(l.a)[t] : t \in DOMAIN SlotTiles(l.a)}
    IN [M EXCEPT !.S = [c \in DOMAIN @ |->
          IF c[1] \in GroupOf(l.a, b[2]) /\ c[2] = b[1] /\ c[3] \in mine
          THEN SlotScore(l, M, b[1], c[1], c[3], dot) ELSE @[c]]]
NormalizeSelected(l, M, b) ==
    LET row == Normalized(ScoreRow(M, b[2], b[1], Slots(l.a)))
    IN [M EXCEPT !.S = [c \in DOMAIN @ |->
          IF c[1] = b[2] /\ c[2] = b[1] /\ c[3] < Slots(l.a) THEN row[c[3]] ELSE @[c]]]
SelectedValuesGqa(l, M, b) ==
    LET row(h) == ScoreRow(M, h, b[1], Slots(l.a))
        add(acc, tile) == [h \in DOMAIN acc |-> acc[h] \cup SlotValues(l, M, b[1], h, tile, row(h))]
        sums == FoldLeft(add, [h \in GroupOf(l.a, b[2]) |-> {}], SlotTiles(l.a))
    IN [M EXCEPT !.O = [o \in DOMAIN @ |->
          IF o[1] \in DOMAIN sums /\ o[2] = b[1] THEN RowOf(row(o[1]), sums[o[1]]) ELSE @[o]]]
SelectedValuesFeatureTiles(l, M, b) ==
    LET row == ScoreRow(M, b[2], b[1], Slots(l.a))
    IN SetPart(M, b[2], b[1], b[3], RowOf(row, SlotValues(l, M, b[1], b[2], 0..(Slots(l.a) - 1), row)))
=============================================================================
