---------------------------- MODULE Nvfp4Matmul ----------------------------
(***************************************************************************)
(* kernels/cpu/matmul/matmul_nvfp4.cpp: NVFP4 weights, nibbles with a scale *)
(* for every half Block of a row and one more for the row.  The package is *)
(* "rows", or the "pairs" that the expert cache hands out: four rows side  *)
(* by side, group by group.  c.acc16 is MOLLM_NVFP4_FP16_ACT, which is on  *)
(* unless it is set to 0.  The kernels apply the activation themselves,    *)
(* and here a negative length means no columns at all.                     *)
(***************************************************************************)
EXTENDS MatmulLayouts

Each == Block \div 2    \* the 16 values of a group

\* A nibble of a row: its group, its byte in the group, and which half.
GroupNibbles(k) == (0..(k \div Each - 1)) \X (0..(Each \div 2 - 1)) \X Nibble

PackNvfp4Pairs(rows, n, k) ==
    [t \in 0..(n \div Quad - 1), g \in 0..(k \div Each - 1),
     r \in 0..(Quad - 1), byte \in 0..(Each \div 2 - 1), h \in Nibble |->
        rows[t * Quad + r, g * (Each \div 2) + byte, h]]
HasPairs(c) == c.package = "pairs"
Nvfp4Weight(c, t) ==
    LET rows == RowMajorNibbles(t, c.n, c.k)
    IN [rows |-> rows, scales |-> RowMajorScales(t, c.n, c.k \div Each),
        row |-> [r \in 0..(c.n - 1) |-> r],
        pairs |-> IF HasPairs(c) THEN PackNvfp4Pairs(rows, c.n, c.k) ELSE <<>>]

\* nvfp4_block_ptr
Nvfp4Code(c, W, n, b) ==
    IF HasPairs(c) THEN W.pairs[n \div Quad, b[1], n % Quad, b[2], b[3]]
    ELSE W.rows[n, b[1] * (Each \div 2) + b[2], b[3]]
Nvfp4Scale(W, row, n, group) == Append(W.scales[row, group], W.row[n])
-----------------------------------------------------------------------------
(* Kernels *)

PositionOf(b) == b[1] * Each + 2 * b[2] + b[3]

Nvfp4Range(c, A, W, m, n) ==
    {<<b, A[m, PositionOf(b)], Exact, Nvfp4Code(c, W, n, b), Nvfp4Scale(W, n, n, b[1])>> :
        b \in GroupNibbles(c.k)}

\* The sums of a few rows: by fours, then a pair, then one; <<slot, row>> of each.
SlotsOf(rows) ==
    LET blocks == rows \div Quad
        pair == blocks * Quad
        single == pair + (IF rows - pair >= 2 THEN 2 ELSE 0)
    IN  {<<x[1] * Quad + x[2], x[1] * Quad + x[2]>> : x \in (0..(blocks - 1)) \X (0..(Quad - 1))}
        \cup {<<pair + x, pair + x>> : x \in IF rows - pair >= 2 THEN {0, 1} ELSE {}}
        \cup {<<single, single>> : x \in IF (rows - pair) % 2 = 1 THEN {0} ELSE {}}
Nvfp4SmallM(c, A, W, m, n) ==
    UNION {Nvfp4Range(c, A, W, slot[2], n) : slot \in {s \in SlotsOf(c.m) : s[1] = m}}

\* Four columns at a time, from the first of the range.
QuadFrom(j, n) == j.nb + ((n - j.nb) \div Quad) * Quad
InQuad(j, n) == QuadFrom(j, n) + Quad - 1 < j.ne
FourRows(c, a, s, W, first, lane) ==
    {<<b, a[b], s[b], W.rows[first + lane, b[1] * (Each \div 2) + b[2], b[3]],
       Nvfp4Scale(W, first + lane, first + lane, b[1])>> : b \in GroupNibbles(c.k)}

Nvfp4GemvFour(c, A, W, j, n) ==
    LET first == QuadFrom(j, n)
        a == [b \in GroupNibbles(c.k) |-> A[0, PositionOf(b)]]
        s == [b \in GroupNibbles(c.k) |-> Exact]
    IN  IF InQuad(j, n) THEN FourRows(c, a, s, W, first, n - first) ELSE Nvfp4Range(c, A, W, 0, n)
\* The same on the activation as FP16; the tail converts it back.
Nvfp4GemvFourF16(c, A, W, j, n) ==
    LET half == [i \in 0..(c.k - 1) |-> A[0, i]]
        first == QuadFrom(j, n)
        a == [b \in GroupNibbles(c.k) |-> half[PositionOf(b)]]
        s == [b \in GroupNibbles(c.k) |-> Exact]
    IN  IF InQuad(j, n) THEN FourRows(c, a, s, W, first, n - first)
        ELSE Nvfp4Range(c, [r \in {0}, i \in DOMAIN half |-> half[i]], W, 0, n)
\* Two groups share a scale of the quantised activation.
Nvfp4GemvFourQ8(c, x, W, j, n) ==
    LET first == QuadFrom(j, n)
        a == [b \in GroupNibbles(c.k) |-> x.q[0, PositionOf(b)]]
        s == [b \in GroupNibbles(c.k) |-> x.s[0, b[1] \div 2]]
    IN  IF InQuad(j, n) THEN FourRows(c, a, s, W, first, n - first)
        ELSE FourRows(c, a, s, W, n, 0)
Nvfp4GemvFourQ8Pair(c, x, W, j, n) ==
    LET first == QuadFrom(j, n)
        code(b) == IF InQuad(j, n) THEN W.pairs[first \div Quad, b[1], n - first, b[2], b[3]]
                   ELSE Nvfp4Code(c, W, n, b)
    IN  {<<b, x.q[0, PositionOf(b)], x.s[0, b[1] \div 2], code(b), Nvfp4Scale(W, n, n, b[1])>> :
            b \in GroupNibbles(c.k)}
-----------------------------------------------------------------------------
(* matmul_dispatch_nvfp4 *)

QuadGrain(c) == Chunks(Most(Quad, c.n \div c.threads), Quad) * Quad
Nvfp4Jobs(c) ==
    IF c.threads > 1 /\ c.n > Few THEN ByColumns(c, QuadGrain(c)) ELSE Whole(c)
Nvfp4Q8Kernel(c) == IF HasPairs(c) THEN "nvfp4_q8_pair" ELSE "nvfp4_q8"
Nvfp4Kernel(c) ==
    CASE Neon(c) /\ c.m = 1 /\ c.act.len = 0 -> Nvfp4Q8Kernel(c)
      [] Neon(c) /\ c.m = 1 /\ c.act.len # 0 /\ ~HasPairs(c) ->
           IF c.acc16 THEN "nvfp4_f16" ELSE "nvfp4_four"
      [] Neon(c) /\ c.m \in 2..Few -> "nvfp4_small_m"
      [] OTHER -> "nvfp4"
Nvfp4Plan(c) == [kernel |-> Nvfp4Kernel(c), jobs |-> Nvfp4Jobs(c), act |-> "fused"]

Nvfp4Products(c, kernel, j, A, W, m, n) ==
    LET x == QuantizeBlocks(A, 1, c.k, c.k)
    IN  CASE kernel = "nvfp4_q8" -> Nvfp4GemvFourQ8(c, x, W, j, n)
          [] kernel = "nvfp4_q8_pair" -> Nvfp4GemvFourQ8Pair(c, x, W, j, n)
          [] kernel = "nvfp4_f16" -> Nvfp4GemvFourF16(c, A, W, j, n)
          [] kernel = "nvfp4_four" -> Nvfp4GemvFour(c, A, W, j, n)
          [] kernel = "nvfp4_small_m" -> Nvfp4SmallM(c, A, W, m, n)
          [] kernel = "nvfp4" -> Nvfp4Range(c, A, W, m, n)

\* How often the activation is applied to column n: once among the columns asked
\* for; the four-column kernels look at the quad before they look at the column.
Among(act, n) == n >= act.begin /\ n < act.begin + act.len
Nvfp4FusedActs(c, kernel, j, n) ==
    LET first == QuadFrom(j, n)
        skipped == c.act.len <= 0 \/ first + Quad - 1 < c.act.begin
                     \/ first >= c.act.begin + c.act.len
        four == kernel \in {"nvfp4_four", "nvfp4_f16"} /\ InQuad(j, n)
    IN  IF kernel \notin {"nvfp4_q8", "nvfp4_q8_pair"} /\ Among(c.act, n) /\ ~(four /\ skipped)
        THEN 1 ELSE 0

\* kernel_matmul_nvfp4_gemv_batch
Nvfp4Batch(c) ==
    /\ c.format = "nvfp4" /\ Neon(c) /\ c.batch >= 2 /\ c.threads >= 2 /\ c.k % Each = 0
Nvfp4BatchJobs(c) == ByColumns(c, QuadGrain(c))
=============================================================================
