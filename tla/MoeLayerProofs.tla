--------------------------- MODULE MoeLayerProofs ---------------------------
(***************************************************************************)
(* The MoE layer over the expert cache, for every number of layers and     *)
(* experts, every capacity, every setting of the policy, every timing of   *)
(* reads and predictions.                                                  *)
(***************************************************************************)
EXTENDS MoeLayer, SequenceTheorems, FiniteSetTheorems, WellFoundedInduction,
        NaturalsInduction, TLAPS

-----------------------------------------------------------------------------
(***************************************************************************)
(* Induction along 0..n, over a set of numbers.                            *)
(***************************************************************************)
LEMMA AllUpTo ==
    ASSUME NEW n \in Nat, NEW S, 0 \in S, \A i \in 1..n : i - 1 \in S => i \in S
    PROVE  \A i \in 0..n : i \in S
<1> DEFINE Out == (0..n) \ S
<1> SUFFICES ASSUME Out # {} PROVE FALSE
  OBVIOUS
<1>1. PICK R : R = OpToRel(<, Nat)
  OBVIOUS
<1>2. IsWellFoundedOn(R, Nat)
  BY <1>1, NatLessThanWellFounded
<1>3. \A x, y \in Nat : x < y => <<x, y>> \in R
  BY <1>1 DEF OpToRel
<1>4. Out \subseteq Nat
  OBVIOUS
<1>5. PICK i \in Out : \A m \in Out : ~(<<m, i>> \in R)
  BY <1>2, <1>4, WFMin
<1>6. i # 0 /\ i \in 0..n
  BY <1>5
<1>7. i \in 1..n /\ i - 1 \in 0..n /\ i - 1 \in Nat /\ i \in Nat /\ i - 1 < i
  BY <1>6
<1>8. i - 1 \notin Out
  BY <1>3, <1>5, <1>7
<1> QED
  BY <1>5, <1>7, <1>8

(* A set of numbers up to n that is not empty has a greatest. *)
LEMMA GreatestExists ==
    ASSUME NEW n \in Nat, NEW s \in SUBSET (1..n), s # {}
    PROVE  Max(s) \in s /\ \A y \in s : Max(s) >= y
<1> DEFINE T == {m \in 0..n : \A q \in SUBSET (1..m) : q # {} => \E x \in q : \A y \in q : x >= y}
<1>1. 0 \in T
  <2>1. \A q \in SUBSET (1..0) : q = {}
    OBVIOUS
  <2>2. \A q \in SUBSET (1..0) : q # {} => \E x \in q : \A y \in q : x >= y
    BY <2>1
  <2>3. 0 \in 0..n
    OBVIOUS
  <2> QED
    BY <2>2, <2>3
<1>2. ASSUME NEW m \in 1..n, m - 1 \in T PROVE m \in T
  <2>1. ASSUME NEW q \in SUBSET (1..m), q # {}
        PROVE  \E x \in q : \A y \in q : x >= y
    <3>1. CASE m \in q
      BY <3>1
    <3>2. CASE m \notin q
      <4>1. q \in SUBSET (1..(m - 1))
        BY <3>2
      <4> QED
        BY <1>2, <2>1, <4>1
    <3> QED
      BY <3>1, <3>2
  <2> QED
    BY <2>1
<1>3. n \in T
  <2> HIDE DEF T
  <2>1. \A i \in 0..n : i \in T
    BY <1>1, <1>2, AllUpTo
  <2> QED
    BY <2>1
<1>4. \E x \in s : \A y \in s : x >= y
  BY <1>3
<1> QED
  BY <1>4 DEF Max

(***************************************************************************)
(* Folds.  The iteration of a fold over a sequence of length n is defined  *)
(* on the sets of its places; it has a solution, since every place is the  *)
(* greatest of its set once.                                               *)
(***************************************************************************)
Iteration(g, S, m, start, step) ==
    /\ g \in [SUBSET (1..m) -> S]
    /\ \A s \in SUBSET (1..m) :
           g[s] = IF s = {} THEN start ELSE step[Max(s)][g[s \ {Max(s)}]]

LEMMA IterationExists ==
    ASSUME NEW n \in Nat, NEW S, NEW start \in S, NEW step \in [1..n -> [S -> S]]
    PROVE  \E g : Iteration(g, S, n, start, step)
<1> DEFINE T == {m \in 0..n : \E g : Iteration(g, S, m, start, step)}
<1>1. 0 \in T
  <2>1. PICK g : g = [s \in SUBSET (1..0) |-> start]
    OBVIOUS
  <2>2. \A s \in SUBSET (1..0) : s = {}
    OBVIOUS
  <2>3. Iteration(g, S, 0, start, step)
    BY <2>1, <2>2 DEF Iteration
  <2> QED
    BY <2>3
<1>2. ASSUME NEW m \in 1..n, m - 1 \in T
      PROVE  m \in T
  <2>1. PICK g : Iteration(g, S, m - 1, start, step)
    BY <1>2
  <2>2. /\ g \in [SUBSET (1..(m - 1)) -> S]
        /\ \A s \in SUBSET (1..(m - 1)) :
               g[s] = IF s = {} THEN start ELSE step[Max(s)][g[s \ {Max(s)}]]
    BY <2>1 DEF Iteration
  <2>3. step[m] \in [S -> S]
    OBVIOUS
  <2>4. \A s \in SUBSET (1..m) : /\ s \ {m} \in SUBSET (1..(m - 1))
                                 /\ m \notin s => s \in SUBSET (1..(m - 1))
    OBVIOUS
  <2>5. PICK h : h = [s \in SUBSET (1..m) |-> IF m \in s THEN step[m][g[s \ {m}]] ELSE g[s]]
    OBVIOUS
  <2>6. h \in [SUBSET (1..m) -> S]
    BY <2>2, <2>3, <2>4, <2>5
  <2>7. ASSUME NEW s \in SUBSET (1..m)
        PROVE  h[s] = IF s = {} THEN start ELSE step[Max(s)][h[s \ {Max(s)}]]
    <3>1. CASE s = {}
      BY <2>2, <2>4, <2>5, <3>1
    <3>2. CASE s # {} /\ m \in s
      <4>0. m \in Nat
        OBVIOUS
      <4>1. Max(s) \in s /\ \A y \in s : Max(s) >= y
        BY <3>2, <4>0, GreatestExists
      <4>5. Max(s) \in 1..m /\ Max(s) >= m
        BY <3>2, <4>1
      <4>2. Max(s) = m
        BY <4>0, <4>5
      <4>3. s \ {m} \in SUBSET (1..m) /\ m \notin s \ {m} /\ (s \ {m}) \ {m} = s \ {m}
        OBVIOUS
      <4>4. h[s \ {m}] = g[s \ {m}]
        BY <2>5, <4>3
      <4> QED
        BY <2>5, <3>2, <4>2, <4>4
    <3>3. CASE s # {} /\ m \notin s
      <4>1. s \in SUBSET (1..(m - 1)) /\ m - 1 \in Nat
        BY <2>4, <3>3
      <4>2. Max(s) \in s
        BY <3>3, <4>1, GreatestExists
      <4>3. s \ {Max(s)} \in SUBSET (1..m) /\ m \notin s \ {Max(s)}
        BY <3>3
      <4>4. h[s] = g[s] /\ h[s \ {Max(s)}] = g[s \ {Max(s)}]
        BY <2>5, <3>3, <4>3
      <4>5. g[s] = step[Max(s)][g[s \ {Max(s)}]]
        BY <2>2, <3>3, <4>1
      <4> QED
        BY <3>3, <4>4, <4>5
    <3> QED
      BY <3>1, <3>2, <3>3
  <2>8. Iteration(h, S, m, start, step)
    BY <2>6, <2>7 DEF Iteration
  <2> QED
    BY <2>8
<1>3. \A i \in 0..n : i \in T
  <2> HIDE DEF T
  <2> QED
    BY <1>1, <1>2, AllUpTo
<1> QED
  BY <1>3

(* The places of a fold, up to one of them. *)
LEMMA PlacesUpTo ==
    ASSUME NEW n \in Nat, NEW i \in 1..n
    PROVE  /\ 1..i \in SUBSET (1..n) /\ 1..i # {} /\ Max(1..i) = i
           /\ (1..i) \ {Max(1..i)} = 1..(i - 1)
<1>1. i \in Nat /\ 1..i \in SUBSET (1..n) /\ i \in 1..i /\ 1..i # {}
  OBVIOUS
<1>2. Max(1..i) \in 1..i /\ Max(1..i) >= i
  BY <1>1, GreatestExists
<1>3. Max(1..i) = i
  BY <1>1, <1>2
<1> QED
  BY <1>1, <1>3

LEMMA LeastExists ==
    ASSUME NEW S \in SUBSET Nat, S # {}
    PROVE  Min(S) \in S /\ \A y \in S : Min(S) <= y
<1>1. PICK R : R = OpToRel(<, Nat)
  OBVIOUS
<1>2. IsWellFoundedOn(R, Nat)
  BY <1>1, NatLessThanWellFounded
<1>3. \A x, y \in Nat : x < y => <<x, y>> \in R
  BY <1>1 DEF OpToRel
<1>4. PICK i \in S : \A m \in S : ~(<<m, i>> \in R)
  BY <1>2, WFMin
<1>5. ASSUME NEW m \in S PROVE i <= m
  <2>1. ~(m < i) /\ m \in Nat /\ i \in Nat
    BY <1>3, <1>4
  <2> QED
    BY <2>1
<1> QED
  BY <1>5 DEF Min

-----------------------------------------------------------------------------
(* Sequences without repetition. *)
Distinct(s) == \A i, j \in DOMAIN s : s[i] = s[j] => i = j

LEMMA RemovalPlaces ==
    ASSUME NEW S, NEW s \in Seq(S), NEW i \in 1..Len(s)
    PROVE  /\ RemoveAt(s, i) \in Seq(S) /\ Len(RemoveAt(s, i)) = Len(s) - 1
           /\ \A j \in 1..(Len(s) - 1) : RemoveAt(s, i)[j] = IF j < i THEN s[j] ELSE s[j + 1]
<1>1. PICK a : a = SubSeq(s, 1, i - 1)
  OBVIOUS
<1>2. PICK b : b = SubSeq(s, i + 1, Len(s))
  OBVIOUS
<1>3. Len(s) \in Nat /\ i \in Nat /\ i >= 1 /\ i <= Len(s)
  BY LenProperties
<1>4. a \in Seq(S) /\ Len(a) = i - 1 /\ \A j \in 1..(i - 1) : a[j] = s[j]
  <2>1. \A j \in 1..(i - 1) : j \in 1..Len(s)
    BY <1>3
  <2> QED
    BY <1>1, <1>3, <2>1
<1>5. b \in Seq(S) /\ Len(b) = Len(s) - i /\ \A j \in 1..(Len(s) - i) : b[j] = s[i + j]
  <2>1. \A j \in (i + 1)..Len(s) : j \in 1..Len(s)
    BY <1>3
  <2> QED
    BY <1>2, <1>3, <2>1
<1>6. RemoveAt(s, i) = a \o b
  BY <1>1, <1>2 DEF RemoveAt
<1>7. a \o b \in Seq(S) /\ Len(a \o b) = Len(s) - 1
  <2>1. a \o b \in Seq(S) /\ Len(a \o b) = Len(a) + Len(b)
    BY ONLY <1>4, <1>5, ConcatProperties
  <2> QED
    BY <1>3, <1>4, <1>5, <2>1
<1>8. ASSUME NEW j \in 1..(Len(s) - 1)
      PROVE  (a \o b)[j] = IF j < i THEN s[j] ELSE s[j + 1]
  <2>1. CASE j < i
    <3>1. j \in 1..(i - 1)
      BY <1>3, <2>1
    <3>2. j \in 1..Len(a) /\ j \in 1..(Len(a) + Len(b)) /\ j <= Len(a)
      BY <1>3, <1>4, <1>5, <3>1
    <3>3. (a \o b)[j] = a[j]
      BY <1>4, <1>5, <3>2, ConcatProperties
    <3> QED
      BY <1>4, <2>1, <3>1, <3>3
  <2>2. CASE ~(j < i)
    <3>1. /\ j - (i - 1) \in 1..(Len(s) - i) /\ i + (j - (i - 1)) = j + 1
          /\ j > i - 1 /\ j \in 1..((i - 1) + (Len(s) - i))
      BY <1>3, <2>2
    <3>2. (a \o b)[j] = b[j - Len(a)]
      BY <1>3, <1>4, <1>5, <3>1, ConcatProperties
    <3>3. (a \o b)[j] = b[j - (i - 1)]
      BY <1>4, <3>2
    <3>4. b[j - (i - 1)] = s[i + (j - (i - 1))]
      BY <1>5, <3>1
    <3> QED
      BY <2>2, <3>1, <3>3, <3>4
  <2> QED
    BY <2>1, <2>2
<1> QED
  BY <1>6, <1>7, <1>8

LEMMA FirstPlace ==
    ASSUME NEW S, NEW s \in Seq(S), NEW p, p \in ToSet(s)
    PROVE  \E i \in 1..Len(s) : s[i] = p /\ RemoveFirst(s, p) = RemoveAt(s, i)
<1>1. Len(s) \in Nat /\ DOMAIN s = 1..Len(s)
  BY LenProperties
<1>2. PICK I : I = {i \in 1..Len(s) : s[i] = p}
  OBVIOUS
<1>3. I # {} /\ I \in SUBSET Nat /\ \E i \in 1..Len(s) : s[i] = p
  BY <1>1, <1>2 DEF ToSet
<1>4. Min(I) \in I
  BY <1>3, LeastExists
<1>5. SelectInSeq(s, LAMBDA v : v = p) = Min(I)
  BY <1>2, <1>3 DEF SelectInSeq
<1>6. RemoveFirst(s, p) = RemoveAt(s, Min(I))
  BY <1>3, <1>5 DEF RemoveFirst
<1> QED
  BY <1>2, <1>4, <1>6

LEMMA WithoutType ==
    ASSUME NEW S, NEW s \in Seq(S), NEW p
    PROVE  RemoveFirst(s, p) \in Seq(S)
<1>1. CASE p \in ToSet(s)
  BY <1>1, FirstPlace, RemovalPlaces
<1>2. CASE p \notin ToSet(s)
  <2>1. ~ \E i \in 1..Len(s) : s[i] = p
    BY <1>2, LenProperties DEF ToSet
  <2> QED
    BY <2>1 DEF RemoveFirst
<1> QED
  BY <1>1, <1>2

LEMMA WithoutAbsent ==
    ASSUME NEW S, NEW s \in Seq(S), NEW p, p \notin ToSet(s)
    PROVE  RemoveFirst(s, p) = s
<1>1. ~ \E i \in 1..Len(s) : s[i] = p
  BY LenProperties DEF ToSet
<1> QED
  BY <1>1 DEF RemoveFirst

LEMMA Without ==
    ASSUME NEW S, NEW s \in Seq(S), NEW p, p \in ToSet(s), Distinct(s)
    PROVE  /\ Distinct(RemoveFirst(s, p)) /\ ToSet(RemoveFirst(s, p)) = ToSet(s) \ {p}
           /\ Len(RemoveFirst(s, p)) = Len(s) - 1
<1>1. PICK i \in 1..Len(s) : s[i] = p /\ RemoveFirst(s, p) = RemoveAt(s, i)
  BY FirstPlace
<1>2. PICK r : r = RemoveAt(s, i)
  OBVIOUS
<1>3. /\ r \in Seq(S) /\ Len(r) = Len(s) - 1
      /\ \A j \in 1..(Len(s) - 1) : r[j] = IF j < i THEN s[j] ELSE s[j + 1]
  BY <1>2, RemovalPlaces
<1>4. /\ Len(s) \in Nat /\ DOMAIN s = 1..Len(s) /\ DOMAIN r = 1..(Len(s) - 1)
      /\ i \in Nat /\ i <= Len(s)
  BY <1>3, LenProperties
<1>5. Distinct(r)
  <2>1. SUFFICES ASSUME NEW j \in DOMAIN r, NEW k \in DOMAIN r, r[j] = r[k]
                 PROVE  j = k
    BY DEF Distinct
  <2>2. PICK x \in 1..Len(s) : r[j] = s[x] /\ x = IF j < i THEN j ELSE j + 1
    BY <1>3, <1>4
  <2>3. PICK y \in 1..Len(s) : r[k] = s[y] /\ y = IF k < i THEN k ELSE k + 1
    BY <1>3, <1>4
  <2>4. x = y
    BY <1>4, <2>1, <2>2, <2>3 DEF Distinct
  <2>5. j \in Nat /\ k \in Nat
    BY <1>4
  <2> QED
    BY <1>4, <2>2, <2>3, <2>4, <2>5
<1>6. ToSet(r) = ToSet(s) \ {p}
  <2>1. ASSUME NEW j \in DOMAIN r PROVE r[j] \in ToSet(s) \ {p}
    <3>1. PICK x \in 1..Len(s) : r[j] = s[x] /\ x # i
      BY <1>3, <1>4
    <3> QED
      BY <1>1, <1>4, <3>1 DEF Distinct, ToSet
  <2>2. ASSUME NEW x \in DOMAIN s, s[x] # p PROVE s[x] \in ToSet(r)
    <3>1. x # i /\ x \in Nat
      BY <1>1, <1>4, <2>2
    <3>2. PICK j \in 1..(Len(s) - 1) : x = IF j < i THEN j ELSE j + 1
      <4>1. CASE x < i
        <5>1. x \in 1..(Len(s) - 1)
          BY <1>4, <4>1
        <5> QED
          BY <4>1, <5>1
      <4>2. CASE x > i
        <5>1. x - 1 \in 1..(Len(s) - 1) /\ ~(x - 1 < i) /\ x = (x - 1) + 1
          BY <1>4, <4>2
        <5> QED
          BY <5>1
      <4> QED
        BY <1>4, <3>1, <4>1, <4>2
    <3>3. r[j] = s[x]
      BY <1>3, <3>2
    <3> QED
      BY <1>4, <3>3 DEF ToSet
  <2> QED
    BY <2>1, <2>2 DEF ToSet
<1> QED
  BY <1>1, <1>2, <1>3, <1>5, <1>6

LEMMA With ==
    ASSUME NEW S, NEW s \in Seq(S), NEW p \in S
    PROVE  /\ Append(s, p) \in Seq(S) /\ Len(Append(s, p)) = Len(s) + 1
           /\ ToSet(Append(s, p)) = ToSet(s) \cup {p}
           /\ Distinct(s) /\ p \notin ToSet(s) => Distinct(Append(s, p))
<1>1. PICK r : r = Append(s, p)
  OBVIOUS
<1>2. /\ r \in Seq(S) /\ Len(r) = Len(s) + 1 /\ r[Len(s) + 1] = p
      /\ \A i \in 1..Len(s) : r[i] = s[i]
  BY <1>1, AppendProperties
<1>3. Len(s) \in Nat /\ DOMAIN s = 1..Len(s) /\ DOMAIN r = 1..(Len(s) + 1)
  BY <1>2, LenProperties
<1>4. \A i \in DOMAIN r : i \in DOMAIN s \/ i = Len(s) + 1
  BY <1>3
<1>5. \A i \in DOMAIN s : i \in DOMAIN r /\ i # Len(s) + 1
  BY <1>3
<1>6. Len(s) + 1 \in DOMAIN r
  BY <1>3
<1>7. ToSet(r) = ToSet(s) \cup {p}
  BY <1>2, <1>3, <1>4, <1>5, <1>6 DEF ToSet
<1>8. Distinct(s) /\ p \notin ToSet(s) => Distinct(r)
  BY <1>2, <1>3, <1>4, <1>5 DEF ToSet, Distinct
<1> QED
  BY <1>1, <1>2, <1>7, <1>8

(* As many elements as places. *)
LEMMA DistinctLength ==
    ASSUME NEW S, NEW s \in Seq(S), Distinct(s)
    PROVE  IsFiniteSet(ToSet(s)) /\ Cardinality(ToSet(s)) = Len(s)
<1>1. Len(s) \in Nat /\ DOMAIN s = 1..Len(s)
  BY LenProperties
<1>2. s \in Bijection(1..Len(s), ToSet(s))
  <2>1. s \in [1..Len(s) -> ToSet(s)]
    BY <1>1 DEF ToSet
  <2>2. \A a, b \in 1..Len(s) : s[a] = s[b] => a = b
    BY <1>1 DEF Distinct
  <2>3. \A t \in ToSet(s) : \E a \in 1..Len(s) : s[a] = t
    BY <1>1 DEF ToSet
  <2> QED
    BY <2>1, <2>2, <2>3 DEF Bijection, Injection, Surjection, IsInjective
<1>3. ExistsBijection(1..Len(s), ToSet(s))
  BY <1>2 DEF ExistsBijection
<1> QED
  BY <1>1, <1>3, FS_NatBijection, FS_CountingElements

(* A sequence in which one more element takes place p, the last dropping out. *)
LEMMA InsertionPlaces ==
    ASSUME NEW S, NEW s \in Seq(S), NEW p \in 1..Len(s), NEW x \in S
    PROVE  /\ Front(InsertAt(s, p, x)) \in [1..Len(s) -> S]
           /\ \A j \in 1..Len(s) : Front(InsertAt(s, p, x))[j] =
                  IF j < p THEN s[j] ELSE IF j = p THEN x ELSE s[j - 1]
<1>1. PICK a : a = SubSeq(s, 1, p - 1)
  OBVIOUS
<1>2. PICK b : b = SubSeq(s, p, Len(s))
  OBVIOUS
<1>3. Len(s) \in Nat /\ p \in Nat /\ p >= 1 /\ p <= Len(s)
  BY LenProperties
<1>4. a \in Seq(S) /\ Len(a) = p - 1 /\ \A j \in 1..(p - 1) : a[j] = s[j]
  <2>1. \A j \in 1..(p - 1) : j \in 1..Len(s)
    BY <1>3
  <2> QED
    BY <1>1, <1>3, <2>1
<1>5. b \in Seq(S) /\ Len(b) = Len(s) - p + 1
      /\ \A j \in 1..(Len(s) - p + 1) : b[j] = s[p + j - 1]
  <2>1. \A j \in p..Len(s) : j \in 1..Len(s)
    BY <1>3
  <2> QED
    BY <1>2, <1>3, <2>1
<1>6. PICK c : c = a \o <<x>>
  OBVIOUS
<1>7. c \in Seq(S) /\ Len(c) = p /\ c[p] = x /\ \A j \in 1..(p - 1) : c[j] = s[j]
  <2>1. c = Append(a, x)
    BY <1>4, <1>6, AppendIsConcat
  <2>2. /\ c \in Seq(S) /\ Len(c) = Len(a) + 1 /\ c[Len(a) + 1] = x
        /\ \A j \in 1..Len(a) : c[j] = a[j]
    BY <1>4, <2>1, AppendProperties
  <2>3. Len(a) + 1 = p
    BY <1>3, <1>4
  <2> QED
    BY <1>4, <2>2, <2>3
<1>8. PICK d : d = c \o b
  OBVIOUS
<1>9. d \in Seq(S) /\ Len(d) = Len(s) + 1
  <2>1. d \in Seq(S) /\ Len(d) = Len(c) + Len(b)
    BY ONLY <1>5, <1>7, <1>8, ConcatProperties
  <2> QED
    BY <1>3, <1>5, <1>7, <2>1
<1>10. InsertAt(s, p, x) = d
  BY <1>1, <1>2, <1>6, <1>8 DEF InsertAt
<1>11. ASSUME NEW j \in 1..Len(s)
       PROVE  d[j] = IF j < p THEN s[j] ELSE IF j = p THEN x ELSE s[j - 1]
  <2>1. CASE j <= p
    <3>1. j \in 1..Len(c) /\ j \in 1..(Len(c) + Len(b)) /\ j <= Len(c)
      BY <1>3, <1>5, <1>7, <2>1
    <3>2. d[j] = c[j]
      BY <1>5, <1>7, <1>8, <3>1, ConcatProperties
    <3>3. j < p => j \in 1..(p - 1)
      BY <1>3
    <3> QED
      BY <1>3, <1>7, <2>1, <3>2, <3>3
  <2>2. CASE j > p
    <3>1. /\ j - p \in 1..(Len(s) - p + 1) /\ p + (j - p) - 1 = j - 1
          /\ j \in 1..(p + (Len(s) - p + 1)) /\ ~(j <= p)
      BY <1>3, <2>2
    <3>2. d[j] = b[j - Len(c)]
      BY <1>3, <1>5, <1>7, <1>8, <3>1, ConcatProperties
    <3>3. d[j] = b[j - p] /\ b[j - p] = s[p + (j - p) - 1]
      BY <1>5, <1>7, <3>1, <3>2
    <3> QED
      BY <2>2, <3>1, <3>3
  <2> QED
    BY <1>3, <2>1, <2>2
<1>12. PICK r : r = Front(d)
  OBVIOUS
<1>13. r \in [1..Len(s) -> S] /\ \A j \in 1..Len(s) : r[j] = d[j]
  <2>1. \A j \in 1..Len(s) : j \in 1..Len(d)
    BY <1>3, <1>9
  <2>2. r = SubSeq(d, 1, Len(s))
    BY <1>3, <1>9, <1>12 DEF Front
  <2>3. r \in Seq(S) /\ Len(r) = Len(s) /\ \A j \in 1..Len(s) : r[j] = d[j]
    BY <1>3, <1>9, <2>1, <2>2
  <2> QED
    BY <2>3, LenProperties
<1> QED
  BY <1>10, <1>11, <1>12, <1>13

-----------------------------------------------------------------------------
(***************************************************************************)
(* The choice of the best.  The standing of id e among the ids below n is  *)
(* the number of those that are better.                                    *)
(***************************************************************************)
Above(score, n, e) == {f \in 0..(n - 1) : Better(score, f, e)}
Standing(score, n, e) == Cardinality(Above(score, n, e))
Eligibles(score, n) == {e \in 0..(n - 1) : score[e] > MinusInf}

LEMMA StandingType ==
    ASSUME NEW score, NEW n \in Nat, NEW e
    PROVE  IsFiniteSet(Above(score, n, e)) /\ Standing(score, n, e) \in Nat
<1>1. IsFiniteSet(0..(n - 1))
  BY FS_Interval
<1>2. Above(score, n, e) \in SUBSET (0..(n - 1))
  BY DEF Above
<1> QED
  BY <1>1, <1>2, FS_Subset, FS_CardinalityType DEF Standing

(* Fewer are better than the better one. *)
LEMMA StandingOrder ==
    ASSUME NEW m \in Nat, NEW score \in [0..(m - 1) -> Int], NEW n \in 0..m,
           NEW e \in 0..(n - 1), NEW f \in 0..(n - 1), Better(score, e, f)
    PROVE  Standing(score, n, e) < Standing(score, n, f)
<1>1. score[e] \in Int /\ score[f] \in Int /\ e \in Int /\ f \in Int /\ n \in Nat
  BY SMT
<1>2. ASSUME NEW x \in Above(score, n, e) PROVE x \in Above(score, n, f)
  <2>1. x \in 0..(n - 1) /\ x \in Int /\ score[x] \in Int /\ Better(score, x, e)
    BY DEF Above
  <2> QED
    BY <1>1, <2>1 DEF Above, Better
<1>3. e \in Above(score, n, f) /\ e \notin Above(score, n, e)
  BY <1>1 DEF Above, Better
<1>4. IsFiniteSet(Above(score, n, f)) /\ Standing(score, n, f) \in Nat
      /\ Standing(score, n, e) \in Nat
  BY <1>1, StandingType
<1>5. Above(score, n, e) \in SUBSET Above(score, n, f)
  BY <1>2
<1>6. /\ Standing(score, n, e) <= Standing(score, n, f)
      /\ Standing(score, n, e) # Standing(score, n, f)
  BY <1>3, <1>4, <1>5, FS_Subset DEF Standing
<1> QED
  BY <1>4, <1>6

LEMMA BetterTotal ==
    ASSUME NEW m \in Nat, NEW score \in [0..(m - 1) -> Int],
           NEW e \in 0..(m - 1), NEW f \in 0..(m - 1), e # f
    PROVE  Better(score, e, f) \/ Better(score, f, e)
BY DEF Better

LEMMA StandingsDiffer ==
    ASSUME NEW m \in Nat, NEW score \in [0..(m - 1) -> Int], NEW n \in 0..m,
           NEW e \in 0..(n - 1), NEW f \in 0..(n - 1), e # f
    PROVE  Standing(score, n, e) # Standing(score, n, f)
<1>1. e \in 0..(m - 1) /\ f \in 0..(m - 1) /\ n \in Nat
  OBVIOUS
<1>2. Standing(score, n, e) \in Nat /\ Standing(score, n, f) \in Nat
  BY <1>1, StandingType
<1>3. Standing(score, n, e) < Standing(score, n, f) \/ Standing(score, n, f) < Standing(score, n, e)
  BY <1>1, BetterTotal, StandingOrder
<1> QED
  BY <1>2, <1>3

(* One more id: the others lose a place where it is strictly better. *)
LEMMA StandingGrows ==
    ASSUME NEW m \in Nat, NEW score \in [0..(m - 1) -> Int], NEW n \in 1..m, NEW e \in 0..(n - 2)
    PROVE  Standing(score, n, e) =
               Standing(score, n - 1, e) + (IF score[n - 1] > score[e] THEN 1 ELSE 0)
<1>1. n \in Nat /\ n - 1 \in Nat /\ e \in Int /\ score[e] \in Int /\ score[n - 1] \in Int
      /\ ~(n - 1 < e) /\ n - 1 # e
  OBVIOUS
<1>2. IsFiniteSet(Above(score, n - 1, e)) /\ Standing(score, n - 1, e) \in Nat
  BY <1>1, StandingType
<1>3. n - 1 \notin Above(score, n - 1, e)
  BY <1>1 DEF Above
<1>4. \A x : x \in 0..(n - 1) <=> (x \in 0..((n - 1) - 1) \/ x = n - 1)
  BY <1>1
<1>5. Better(score, n - 1, e) <=> score[n - 1] > score[e]
  BY <1>1 DEF Better
<1>6. Above(score, n, e) = IF score[n - 1] > score[e] THEN Above(score, n - 1, e) \cup {n - 1}
                           ELSE Above(score, n - 1, e)
  BY <1>4, <1>5 DEF Above
<1>7. PICK A : A = Above(score, n - 1, e)
  OBVIOUS
<1>8. Cardinality(A \cup {n - 1}) = Cardinality(A) + 1
  BY <1>2, <1>3, <1>7, FS_AddElement
<1>9. Cardinality(A) \in Nat
  BY <1>2, <1>7 DEF Standing
<1> QED
  BY <1>6, <1>7, <1>8, <1>9 DEF Standing

(* The list of the k best ids below n: its place i holds the one with i - 1  *)
(* better ones, if there are so many above MinusInf.                         *)
NoCandidate == [value |-> MinusInf, id |-> 0]
Holds(a, score, n, i) ==
    /\ a.id \in 0..(n - 1) /\ score[a.id] > MinusInf
    /\ Standing(score, n, a.id) = i - 1 /\ a.value = score[a.id]
Best(acc, score, n, k) ==
    /\ acc \in [1..k -> [value : Int, id : Int]]
    /\ \A e \in 0..(n - 1) :
           score[e] > MinusInf /\ Standing(score, n, e) < k
               => Holds(acc[Standing(score, n, e) + 1], score, n, Standing(score, n, e) + 1)
                  /\ acc[Standing(score, n, e) + 1].id = e
    /\ \A i \in 1..k : IF i <= Cardinality(Eligibles(score, n)) THEN Holds(acc[i], score, n, i)
                                                              ELSE acc[i] = NoCandidate

LEMMA EligiblesType ==
    ASSUME NEW score, NEW n \in Nat
    PROVE  IsFiniteSet(Eligibles(score, n)) /\ Cardinality(Eligibles(score, n)) \in Nat
<1>1. IsFiniteSet(0..(n - 1))
  BY FS_Interval
<1>2. Eligibles(score, n) \in SUBSET (0..(n - 1))
  BY DEF Eligibles
<1> QED
  BY <1>1, <1>2, FS_Subset, FS_CardinalityType

LEMMA EligiblesGrow ==
    ASSUME NEW m \in Nat, NEW score \in [0..(m - 1) -> Int], NEW n \in 1..m, MinusInf \in Int
    PROVE  Cardinality(Eligibles(score, n)) =
               Cardinality(Eligibles(score, n - 1)) + (IF score[n - 1] > MinusInf THEN 1 ELSE 0)
<1>1. n \in Nat /\ n - 1 \in Nat /\ score[n - 1] \in Int
  OBVIOUS
<1>2. PICK A : A = Eligibles(score, n - 1)
  OBVIOUS
<1>3. IsFiniteSet(A) /\ Cardinality(A) \in Nat
  BY <1>1, <1>2, EligiblesType
<1>4. n - 1 \notin A
  BY <1>1, <1>2 DEF Eligibles
<1>5. \A x : x \in 0..(n - 1) <=> (x \in 0..((n - 1) - 1) \/ x = n - 1)
  BY <1>1
<1>6. Eligibles(score, n) = IF score[n - 1] > MinusInf THEN A \cup {n - 1} ELSE A
  BY <1>2, <1>5 DEF Eligibles
<1>7. Cardinality(A \cup {n - 1}) = Cardinality(A) + 1
  BY <1>3, <1>4, FS_AddElement
<1> QED
  BY <1>2, <1>3, <1>6, <1>7

(* Whoever counts at all stands below the number of those who count. *)
LEMMA StandingBelow ==
    ASSUME NEW m \in Nat, NEW score \in [0..(m - 1) -> Int], NEW n \in 0..m, MinusInf \in Int,
           NEW e \in 0..(n - 1), score[e] > MinusInf
    PROVE  Standing(score, n, e) < Cardinality(Eligibles(score, n))
<1>1. n \in Nat /\ e \in Int /\ score[e] \in Int
  OBVIOUS
<1>2. ASSUME NEW x \in Above(score, n, e) PROVE x \in Eligibles(score, n)
  <2>1. x \in 0..(n - 1) /\ score[x] \in Int /\ score[x] >= score[e]
    BY <1>1 DEF Above, Better
  <2> QED
    BY <1>1, <2>1 DEF Eligibles
<1>3. e \in Eligibles(score, n) /\ e \notin Above(score, n, e)
  BY <1>1 DEF Eligibles, Above, Better
<1>4. /\ IsFiniteSet(Eligibles(score, n)) /\ Cardinality(Eligibles(score, n)) \in Nat
      /\ Standing(score, n, e) \in Nat
  BY <1>1, EligiblesType, StandingType
<1>5. Above(score, n, e) \in SUBSET Eligibles(score, n)
  BY <1>2
<1>6. /\ Standing(score, n, e) <= Cardinality(Eligibles(score, n))
      /\ Standing(score, n, e) # Cardinality(Eligibles(score, n))
  BY <1>3, <1>4, <1>5, FS_Subset DEF Standing
<1> QED
  BY <1>4, <1>6

(* The ids at the first places of the list are different, and so as many as  *)
(* the places.                                                               *)
LEMMA PlacesDiffer ==
    ASSUME NEW score, NEW n, NEW k \in Nat,
           NEW acc \in [1..k -> [value : Int, id : Int]], NEW j \in 0..k,
           \A i \in 1..j : Holds(acc[i], score, n, i),
           NEW A, IsFiniteSet(A), \A i \in 1..j : acc[i].id \in A
    PROVE  j <= Cardinality(A)
<1>1. PICK f : f = [i \in 1..j |-> acc[i].id]
  OBVIOUS
<1>2. ASSUME NEW a \in 1..j, NEW b \in 1..j, f[a] = f[b] PROVE a = b
  <2>1. Holds(acc[a], score, n, a) /\ Holds(acc[b], score, n, b) /\ acc[a].id = acc[b].id
    BY <1>1, <1>2
  <2>2. a - 1 = b - 1 /\ a \in Int /\ b \in Int
    BY <2>1 DEF Holds
  <2> QED
    BY <2>2
<1>3. f \in [1..j -> A]
  BY <1>1
<1>4. f \in Injection(1..j, A)
  BY <1>2, <1>3 DEF Injection, IsInjective
<1>5. Cardinality(1..j) = j /\ j \in Nat
  BY FS_Interval
<1> QED
  BY <1>4, <1>5, FS_Injection

Covered(acc, j, A) == \A a \in A : \E i \in 1..j : a = acc[i].id
LEMMA PlacesAll ==
    ASSUME NEW score, NEW n, NEW k \in Nat,
           NEW acc \in [1..k -> [value : Int, id : Int]], NEW j \in 0..k,
           \A i \in 1..j : Holds(acc[i], score, n, i),
           NEW A, IsFiniteSet(A), \A i \in 1..j : acc[i].id \in A,
           Covered(acc, j, A)
    PROVE  j = Cardinality(A)
<1>1. PICK f : f = [i \in 1..j |-> acc[i].id]
  OBVIOUS
<1>2. f \in [1..j -> A]
  BY <1>1
<1>3. f \in Surjection(1..j, A)
  BY <1>1, <1>2 DEF Surjection, Covered
<1>4. ExistsSurjection(1..j, A)
  BY <1>3 DEF ExistsSurjection
<1>5. Cardinality(A) <= j /\ j \in Nat
  BY <1>4, FS_SurjCardinalityBound
<1>6. j <= Cardinality(A) /\ Cardinality(A) \in Nat
  BY PlacesDiffer, FS_CardinalityType
<1> QED
  BY <1>5, <1>6

LEMMA StandingOfLast ==
    ASSUME NEW m \in Nat, NEW score \in [0..(m - 1) -> Int], NEW n \in 1..m, NEW f
    PROVE  f \in Above(score, n, n - 1) <=> f \in 0..(n - 2) /\ score[f] >= score[n - 1]
<1>1. n \in Nat /\ score[n - 1] \in Int /\ ~(n - 1 < n - 1)
  OBVIOUS
<1>2. f \in 0..(n - 1) => score[f] \in Int /\ (f \in 0..(n - 2) \/ f = n - 1)
  OBVIOUS
<1>3. f \in 0..(n - 2) => f \in 0..(n - 1) /\ f < n - 1
  BY <1>1
<1> QED
  BY <1>1, <1>2, <1>3 DEF Above, Better

(* One more candidate, not better than any on the full list. *)
LEMMA BestKeeps ==
    ASSUME NEW m \in Nat, NEW score \in [0..(m - 1) -> Int], NEW n \in 1..m,
           NEW k \in Nat \ {0}, MinusInf \in Int, NEW acc, Best(acc, score, n - 1, k),
           score[n - 1] >= MinusInf, \A i \in 1..k : acc[i].value >= score[n - 1]
    PROVE  Best(acc, score, n, k)
<1> DEFINE v == score[n - 1]
           N == Cardinality(Eligibles(score, n - 1))
           M == Cardinality(Eligibles(score, n))
<1>1. /\ n \in Nat /\ n - 1 \in Nat /\ n - 1 \in 0..m /\ v \in Int /\ n - 1 \in 0..(n - 1)
      /\ n \in 0..m
  OBVIOUS
<1>2. /\ acc \in [1..k -> [value : Int, id : Int]]
      /\ \A e \in 0..((n - 1) - 1) :
           score[e] > MinusInf /\ Standing(score, n - 1, e) < k
               => Holds(acc[Standing(score, n - 1, e) + 1], score, n - 1, Standing(score, n - 1, e) + 1)
                  /\ acc[Standing(score, n - 1, e) + 1].id = e
      /\ \A i \in 1..k : IF i <= N THEN Holds(acc[i], score, n - 1, i) ELSE acc[i] = NoCandidate
  BY DEF Best
<1>3. N \in Nat /\ M \in Nat /\ M = N + (IF v > MinusInf THEN 1 ELSE 0)
  BY <1>1, EligiblesType, EligiblesGrow
<1>4. (n - 1) - 1 = n - 2
  BY <1>1
<1>5. ASSUME v > MinusInf PROVE k <= N
  <2>1. k \in 1..k /\ acc[k].value >= v
    OBVIOUS
  <2>2. acc[k].value # MinusInf
    BY <1>1, <1>2, <1>5, <2>1
  <2> QED
    BY <1>2, <2>1, <2>2 DEF NoCandidate
<1>6. ASSUME v > MinusInf PROVE Standing(score, n, n - 1) >= k
  <2>1. ASSUME NEW i \in 1..k
        PROVE  Holds(acc[i], score, n - 1, i) /\ acc[i].id \in Above(score, n, n - 1)
    <3>1. Holds(acc[i], score, n - 1, i)
      BY <1>2, <1>3, <1>5, <1>6
    <3>2. acc[i].id \in 0..(n - 2) /\ score[acc[i].id] >= v
      BY <1>4, <3>1 DEF Holds
    <3> QED
      BY <3>1, <3>2, StandingOfLast
  <2>2. IsFiniteSet(Above(score, n, n - 1)) /\ Standing(score, n, n - 1) \in Nat
    BY <1>1, StandingType
  <2>3. k \in Nat /\ k \in 0..k
    OBVIOUS
  <2>4. PICK A : A = Above(score, n, n - 1)
    OBVIOUS
  <2>5. k <= Cardinality(A)
    <3>1. acc \in [1..k -> [value : Int, id : Int]]
      BY <1>2
    <3>2. IsFiniteSet(A) /\ (\A i \in 1..k : acc[i].id \in A)
      BY <2>1, <2>2, <2>4
    <3>3. \A i \in 1..k : Holds(acc[i], score, n - 1, i)
      BY <2>1
    <3>4. PICK q : q = n - 1
      OBVIOUS
    <3>5. q \in 0..m
      BY <1>1, <3>4
    <3>6. \A i \in 1..k : Holds(acc[i], score, q, i)
      BY <3>3, <3>4
    <3> QED
      BY ONLY <2>3, <3>1, <3>2, <3>5, <3>6, PlacesDiffer
  <2> QED
    BY <2>2, <2>3, <2>4, <2>5 DEF Standing
<1>7. ASSUME NEW e \in 0..(n - 2), ~(v > score[e])
      PROVE  Standing(score, n, e) = Standing(score, n - 1, e)
  <2>1. Standing(score, n - 1, e) \in Nat
    BY <1>1, StandingType
  <2>2. Standing(score, n, e) = Standing(score, n - 1, e) + 0
    BY <1>7, StandingGrows
  <2> QED
    BY <2>1, <2>2
<1>8. ASSUME NEW i \in 1..k, Holds(acc[i], score, n - 1, i)
      PROVE  Holds(acc[i], score, n, i)
  <2>1. acc[i].id \in 0..(n - 2) /\ score[acc[i].id] = acc[i].value /\ acc[i].value \in Int
    BY <1>2, <1>4, <1>8 DEF Holds
  <2>2. ~(v > score[acc[i].id])
    BY <1>1, <2>1
  <2>3. acc[i].id \in 0..(n - 1)
    BY <1>1, <2>1
  <2> QED
    BY <1>7, <1>8, <2>1, <2>2, <2>3 DEF Holds
<1>9. ASSUME NEW e \in 0..(n - 1), score[e] > MinusInf, Standing(score, n, e) < k
      PROVE  Holds(acc[Standing(score, n, e) + 1], score, n, Standing(score, n, e) + 1)
             /\ acc[Standing(score, n, e) + 1].id = e
  <2>1. Standing(score, n, e) \in Nat /\ Standing(score, n - 1, e) \in Nat /\ k \in Nat
    BY <1>1, StandingType
  <2>2. e # n - 1
    <3>1. Standing(score, n, e) < k
      BY <1>9
    <3>2. SUFFICES ASSUME e = n - 1 PROVE FALSE
      OBVIOUS
    <3>3. v > MinusInf
      BY <1>9, <3>2
    <3>4. Standing(score, n, n - 1) >= k
      BY <1>6, <3>3
    <3> QED
      BY ONLY <2>1, <3>1, <3>2, <3>4
  <2>3. e \in 0..(n - 2) /\ score[e] \in Int
    BY <1>1, <2>2
  <2>4. Standing(score, n, e) = Standing(score, n - 1, e) + (IF v > score[e] THEN 1 ELSE 0)
    BY <2>3, StandingGrows
  <2>5. Standing(score, n - 1, e) < k
    BY <1>9, <2>1, <2>4
  <2>6. Holds(acc[Standing(score, n - 1, e) + 1], score, n - 1, Standing(score, n - 1, e) + 1)
        /\ acc[Standing(score, n - 1, e) + 1].id = e
    BY <1>2, <1>4, <1>9, <2>3, <2>5
  <2>7. Standing(score, n - 1, e) + 1 \in 1..k
    BY <2>1, <2>5
  <2>8. acc[Standing(score, n - 1, e) + 1].value = score[e]
    BY <2>6 DEF Holds
  <2>9. ~(v > score[e])
    BY <1>1, <2>3, <2>7, <2>8
  <2> QED
    BY <1>7, <1>8, <2>3, <2>6, <2>7, <2>9
<1>10. ASSUME NEW i \in 1..k
       PROVE  IF i <= M THEN Holds(acc[i], score, n, i) ELSE acc[i] = NoCandidate
  <2>1. i <= M => i <= N
    BY <1>3, <1>5
  <2>2. ~(i <= M) => ~(i <= N)
    BY <1>3
  <2> QED
    BY <1>2, <1>8, <2>1, <2>2
<1> QED
  BY <1>2, <1>9, <1>10 DEF Best

(* One more candidate, better than the one at place p and no one before it. *)
LEMMA BestTakes ==
    ASSUME NEW m \in Nat, NEW score \in [0..(m - 1) -> Int], NEW n \in 1..m,
           NEW k \in Nat \ {0}, MinusInf \in Int, NEW acc, Best(acc, score, n - 1, k),
           NEW p \in 1..k, score[n - 1] > acc[p].value,
           \A i \in 1..(p - 1) : acc[i].value >= score[n - 1],
           NEW new \in [1..k -> [value : Int, id : Int]],
           \A j \in 1..k : new[j] = IF j < p THEN acc[j]
                                    ELSE IF j = p THEN [value |-> score[n - 1], id |-> n - 1]
                                    ELSE acc[j - 1]
    PROVE  Best(new, score, n, k)
<1> DEFINE v == score[n - 1]
           N == Cardinality(Eligibles(score, n - 1))
           M == Cardinality(Eligibles(score, n))
<1>1. /\ n \in Nat /\ n - 1 \in Nat /\ n - 1 \in 0..m /\ v \in Int /\ n - 1 \in 0..(n - 1)
      /\ n \in 0..m
      /\ k \in Nat /\ p \in Nat /\ p >= 1 /\ p <= k /\ p - 1 \in 0..k /\ (n - 1) - 1 = n - 2
  OBVIOUS
<1>2. /\ acc \in [1..k -> [value : Int, id : Int]]
      /\ \A e \in 0..(n - 2) :
           score[e] > MinusInf /\ Standing(score, n - 1, e) < k
               => Holds(acc[Standing(score, n - 1, e) + 1], score, n - 1, Standing(score, n - 1, e) + 1)
                  /\ acc[Standing(score, n - 1, e) + 1].id = e
      /\ \A i \in 1..k : IF i <= N THEN Holds(acc[i], score, n - 1, i) ELSE acc[i] = NoCandidate
  BY <1>1 DEF Best
<1>3. N \in Nat /\ M \in Nat /\ M = N + (IF v > MinusInf THEN 1 ELSE 0)
  BY <1>1, EligiblesType, EligiblesGrow
<1>4. v > MinusInf /\ M = N + 1
  <2>1. acc[p].value \in Int
    BY <1>2
  <2>2. p <= N => acc[p].value > MinusInf
    BY <1>2 DEF Holds
  <2>3. ~(p <= N) => acc[p].value = MinusInf
    BY <1>2 DEF NoCandidate
  <2> QED
    BY <1>1, <1>3, <2>1, <2>2, <2>3
<1>5. ASSUME NEW i \in 1..(p - 1)
      PROVE  /\ i \in 1..k /\ i <= N /\ Holds(acc[i], score, n - 1, i)
             /\ acc[i].id \in 0..(n - 2) /\ score[acc[i].id] >= v
  <2>1. i \in 1..k /\ acc[i].value \in Int /\ acc[i].value >= v
    BY <1>1, <1>2
  <2>2. acc[i].value # MinusInf
    BY <1>1, <1>4, <2>1
  <2>3. i <= N /\ Holds(acc[i], score, n - 1, i)
    BY <1>2, <2>1, <2>2 DEF NoCandidate
  <2> QED
    BY <1>1, <2>1, <2>3 DEF Holds
<1>6. ASSUME NEW f \in 0..(n - 2), score[f] >= v
      PROVE  Standing(score, n - 1, f) < p - 1
  <2>1. /\ f \in 0..((n - 1) - 1) /\ score[f] \in Int /\ score[f] > MinusInf
        /\ Standing(score, n - 1, f) \in Nat
    BY <1>1, <1>4, <1>6, StandingType
  <2>2. CASE p <= N
    <3>1. Holds(acc[p], score, n - 1, p)
      BY <1>2, <2>2
    <3>2. PICK e \in 0..((n - 1) - 1) : e = acc[p].id
      BY <3>1 DEF Holds
    <3>3. score[e] = acc[p].value /\ Standing(score, n - 1, e) = p - 1 /\ score[e] \in Int
      BY <1>1, <3>1, <3>2 DEF Holds
    <3>4. Better(score, f, e)
      BY <1>1, <1>6, <2>1, <3>3 DEF Better
    <3>5. Standing(score, n - 1, f) < Standing(score, n - 1, e)
      BY <1>1, <2>1, <3>4, StandingOrder
    <3> QED
      BY <3>3, <3>5
  <2>3. CASE ~(p <= N)
    <3>1. Standing(score, n - 1, f) < N
      BY <1>1, <2>1, StandingBelow
    <3> QED
      BY <1>1, <1>3, <2>1, <2>3, <3>1
  <2> QED
    BY <2>2, <2>3
<1>7. Standing(score, n, n - 1) = p - 1
  <2>1. PICK A : A = Above(score, n, n - 1)
    OBVIOUS
  <2>2. IsFiniteSet(A) /\ Standing(score, n, n - 1) = Cardinality(A)
    BY <1>1, <2>1, StandingType DEF Standing
  <2>3. \A i \in 1..(p - 1) : acc[i].id \in A
    BY <1>5, <2>1, StandingOfLast
  <2>4. ASSUME NEW a \in A PROVE \E i \in 1..(p - 1) : a = acc[i].id
    <3>1. a \in 0..(n - 2) /\ score[a] >= v
      BY <2>1, StandingOfLast
    <3>2. Standing(score, n - 1, a) < p - 1 /\ Standing(score, n - 1, a) \in Nat
      BY <1>1, <1>6, <3>1, StandingType
    <3>3. PICK r : r = Standing(score, n - 1, a)
      OBVIOUS
    <3>4. r < p - 1 /\ r \in Nat
      BY ONLY <3>2, <3>3
    <3>5. r < k /\ r + 1 \in 1..(p - 1)
      BY ONLY <1>1, <3>4
    <3>6. PICK w : w = score[a]
      OBVIOUS
    <3>7. w \in Int /\ w >= v
      BY <1>1, <3>1, <3>6
    <3>8. w > MinusInf
      BY ONLY MinusInf \in Int, <1>1, <1>4, <3>7
    <3>9. acc[r + 1].id = a
      BY <1>2, <3>1, <3>3, <3>5, <3>6, <3>8
    <3> QED
      BY <3>5, <3>9
  <2>5. \A i \in 1..(p - 1) : Holds(acc[i], score, n - 1, i)
    BY <1>5
  <2>6. p - 1 = Cardinality(A)
    <3>1. acc \in [1..k -> [value : Int, id : Int]]
      BY <1>2
    <3>2. IsFiniteSet(A)
      BY <2>2
    <3>3. PICK q, j : q = n - 1 /\ j = p - 1
      OBVIOUS
    <3>4. q \in 0..m /\ k \in Nat /\ j \in 0..k
      BY <1>1, <3>3
    <3>5. /\ \A i \in 1..j : Holds(acc[i], score, q, i)
          /\ \A i \in 1..j : acc[i].id \in A
      BY <2>3, <2>5, <3>3
    <3>6. Covered(acc, j, A)
      BY <2>4, <3>3 DEF Covered
    <3>7. j = Cardinality(A)
      BY ONLY <3>1, <3>2, <3>4, <3>5, <3>6, PlacesAll
    <3> QED
      BY <3>3, <3>7
  <2> QED
    BY <2>2, <2>6
<1>8. ASSUME NEW e \in 0..(n - 2)
      PROVE  /\ Standing(score, n - 1, e) \in Nat
             /\ Standing(score, n, e) =
                    Standing(score, n - 1, e) + (IF v > score[e] THEN 1 ELSE 0)
  BY <1>1, StandingType, StandingGrows
<1>9. ASSUME NEW i \in 1..k, i < p PROVE Holds(new[i], score, n, i)
  <2>1. i \in 1..(p - 1) /\ new[i] = acc[i]
    <3>1. i \in 1..(p - 1)
      BY ONLY <1>1, <1>9
    <3> QED
      BY <1>9, <3>1
  <2>2. Holds(acc[i], score, n - 1, i) /\ acc[i].id \in 0..(n - 2) /\ score[acc[i].id] >= v
    BY <1>5, <2>1
  <2>3. acc[i].id \in 0..(n - 1) /\ score[acc[i].id] \in Int
    <3>1. \A x \in 0..(n - 2) : x \in 0..(n - 1) /\ x \in 0..(m - 1)
      BY ONLY <1>1, n \in 1..m, m \in Nat
    <3> QED
      BY <2>2, <3>1
  <2>4. Standing(score, n, acc[i].id) = Standing(score, n - 1, acc[i].id)
    <3>1. PICK e \in 0..(n - 2) : e = acc[i].id
      BY <2>2
    <3>2. ~(v > score[e])
      <4>1. PICK a, b : a = score[e] /\ b = v
        OBVIOUS
      <4>2. a \in Int /\ b \in Int /\ a >= b
        BY <1>1, <2>2, <2>3, <3>1, <4>1
      <4>3. ~(b > a)
        BY ONLY <4>2
      <4> QED
        BY <4>1, <4>3
    <3>3. Standing(score, n - 1, e) \in Nat /\ Standing(score, n, e) = Standing(score, n - 1, e) + 0
      BY <1>8, <3>2
    <3> QED
      BY <3>1, <3>3
  <2> QED
    BY <2>1, <2>2, <2>3, <2>4 DEF Holds
<1>10. Holds(new[p], score, n, p) /\ new[p].id = n - 1
  <2>1. new[p] = [value |-> v, id |-> n - 1]
    BY <1>1
  <2> QED
    BY <1>1, <1>4, <1>7, <2>1 DEF Holds
<1>11. ASSUME NEW i \in 1..k, i > p, i - 1 <= N PROVE Holds(new[i], score, n, i)
  <2>1. i - 1 \in 1..k /\ new[i] = acc[i - 1] /\ i \in Nat
    BY <1>1, <1>11
  <2>2. Holds(acc[i - 1], score, n - 1, i - 1)
    BY <1>2, <1>11, <2>1
  <2>3. PICK e \in 0..(n - 2) : e = acc[i - 1].id
    BY <1>1, <2>2 DEF Holds
  <2>4. /\ score[e] > MinusInf /\ Standing(score, n - 1, e) = i - 2 /\ acc[i - 1].value = score[e]
        /\ score[e] \in Int /\ e \in 0..(n - 1)
    <3>1. e \in 0..(m - 1) /\ e \in 0..(n - 1)
      BY ONLY <1>1, n \in 1..m, m \in Nat, <2>3
    <3>2. (i - 1) - 1 = i - 2 /\ score[e] \in Int
      BY <2>1, <3>1
    <3> QED
      BY <2>2, <2>3, <3>1, <3>2 DEF Holds
  <2>5. v > score[e]
    <3>1. ASSUME ~(v > score[e]) PROVE FALSE
      <4>1. score[e] >= v
        <5>1. PICK a, b : a = score[e] /\ b = v
          OBVIOUS
        <5>2. a \in Int /\ b \in Int /\ ~(b > a)
          BY ONLY <1>1, <2>4, <3>1, <5>1
        <5>3. a >= b
          BY ONLY <5>2
        <5> QED
          BY ONLY <5>1, <5>3
      <4>2. Standing(score, n - 1, e) < p - 1
        BY <1>6, <2>3, <4>1
      <4>3. PICK r : r = Standing(score, n - 1, e)
        OBVIOUS
      <4>4. r < p - 1 /\ r = i - 2
        BY ONLY <2>4, <4>2, <4>3
      <4> QED
        BY ONLY <1>1, <1>11, <2>1, <4>4
    <3> QED
      BY <3>1
  <2>6. Standing(score, n, e) = i - 1
    <3>1. Standing(score, n, e) = Standing(score, n - 1, e) + 1
      BY <1>8, <2>3, <2>5
    <3>2. PICK r : r = Standing(score, n - 1, e)
      OBVIOUS
    <3>3. r = i - 2
      BY ONLY <2>4, <3>2
    <3>4. r + 1 = i - 1
      BY ONLY <2>1, <3>3
    <3> QED
      BY ONLY <3>1, <3>2, <3>4
  <2> QED
    BY <2>1, <2>3, <2>4, <2>6 DEF Holds
<1>12. ASSUME NEW i \in 1..k
       PROVE  IF i <= M THEN Holds(new[i], score, n, i) ELSE new[i] = NoCandidate
  <2>1. CASE i < p
    <3>1. i \in 1..(p - 1)
      BY <1>1, <2>1
    <3>2. i <= M
      BY <1>3, <1>4, <1>5, <3>1
    <3> QED
      BY <1>9, <2>1, <3>2
  <2>2. CASE i = p
    <3>1. p - 1 <= N
      <4>1. CASE p = 1
        BY <1>3, <4>1
      <4>2. CASE p > 1
        <5>1. p - 1 \in 1..(p - 1)
          BY <1>1, <4>2
        <5> QED
          BY <1>5, <5>1
      <4> QED
        BY <1>1, <4>1, <4>2
    <3>2. i <= M
      BY <1>1, <1>3, <1>4, <2>2, <3>1
    <3> QED
      BY <1>10, <2>2, <3>2
  <2>3. CASE i > p
    <3>1. i - 1 \in 1..k /\ ~(i < p) /\ i # p
      BY ONLY <1>1, <2>3, i \in 1..k
    <3>2. new[i] = acc[i - 1]
      BY <3>1
    <3>3. PICK a, b : a = M /\ b = N
      OBVIOUS
    <3>4. a = b + 1 /\ b \in Nat
      BY ONLY <1>3, <1>4, <3>3
    <3>5. i <= a <=> i - 1 <= b
      BY ONLY <1>1, <3>4, i \in 1..k
    <3> QED
      BY <1>2, <1>11, <2>3, <3>1, <3>2, <3>3, <3>5
  <2> QED
    BY <1>1, <2>1, <2>2, <2>3
<1>13. ASSUME NEW e \in 0..(n - 1), score[e] > MinusInf, Standing(score, n, e) < k
       PROVE  Holds(new[Standing(score, n, e) + 1], score, n, Standing(score, n, e) + 1)
              /\ new[Standing(score, n, e) + 1].id = e
  <2>1. PICK r : r = Standing(score, n, e)
    OBVIOUS
  <2>2. r \in Nat /\ r + 1 \in 1..k
    <3>1. r \in Nat /\ r < k
      BY <1>1, <1>13, <2>1, StandingType
    <3> QED
      BY ONLY <1>1, <3>1
  <2>3. r + 1 <= M
    <3>1. r < M
      BY <1>1, <1>13, <2>1, StandingBelow
    <3> QED
      BY <1>3, <2>2, <3>1
  <2>4. Holds(new[r + 1], score, n, r + 1)
    BY <1>12, <2>2, <2>3
  <2>5. new[r + 1].id \in 0..(n - 1) /\ Standing(score, n, new[r + 1].id) = r
    BY <2>2, <2>4 DEF Holds
  <2>6. new[r + 1].id = e
    BY <1>1, <2>1, <2>5, StandingsDiffer
  <2> QED
    BY <2>1, <2>4, <2>6
<1> QED
  BY <1>12, <1>13 DEF Best

Candidates(k) == [1..k -> [value : Int, id : Int]]

\* new is acc with x in place p.
Taken(new, acc, x, p, k) ==
    \A j \in 1..k : new[j] = IF j < p THEN acc[j] ELSE IF j = p THEN x ELSE acc[j - 1]

LEMMA InsertBestPlaces ==
    ASSUME NEW k \in Nat, NEW acc \in Candidates(k), NEW value \in Int, NEW id \in Int,
           NEW p \in 1..k, value > acc[p].value, \A i \in 1..(p - 1) : ~(value > acc[i].value)
    PROVE  /\ InsertBest(acc, value, id) \in Candidates(k)
           /\ Taken(InsertBest(acc, value, id), acc, [value |-> value, id |-> id], p, k)
<1> DEFINE worse == {n \in DOMAIN acc : value > acc[n].value}
<1>1. DOMAIN acc = 1..k /\ acc \in [1..k -> [value : Int, id : Int]]
  BY DEF Candidates
<1>2. p \in worse /\ \A y \in worse : p <= y
  <2>1. p \in worse
    BY <1>1
  <2>2. ASSUME NEW y \in worse PROVE p <= y
    <3>1. y \in 1..k /\ value > acc[y].value
      BY <1>1
    <3>2. y \notin 1..(p - 1)
      BY <3>1
    <3> QED
      BY <3>1, <3>2
  <2> QED
    BY <2>1, <2>2
<1>3. \A x \in worse : (\A y \in worse : x <= y) => x = p
  <2>1. worse \subseteq 1..k
    BY <1>1
  <2>2. ASSUME NEW x \in worse, \A y \in worse : x <= y PROVE x = p
    <3>1. x <= p /\ p <= x /\ x \in Int /\ p \in Int
      BY <1>2, <2>1, <2>2
    <3> QED
      BY ONLY <3>1
  <2> QED
    BY <2>2
<1>4. InsertBest(acc, value, id) = Front(InsertAt(acc, p, [value |-> value, id |-> id]))
  <2>1. worse # {} /\ (CHOOSE x \in worse : \A y \in worse : x <= y) = p
    <3> HIDE DEF worse
    <3> QED
      BY <1>2, <1>3
  <2> QED
    BY <2>1 DEF InsertBest
<1>6. [value |-> value, id |-> id] \in [value : Int, id : Int]
  OBVIOUS
<1>7. PICK T : T = [value : Int, id : Int]
  OBVIOUS
<1>5. acc \in Seq(T) /\ Len(acc) = k
  <2>1. acc \in [1..k -> T]
    BY <1>1, <1>7
  <2> HIDE <1>7
  <2>2. acc \in Seq(T)
    BY <2>1, SeqDef
  <2> QED
    BY <2>1, <2>2, LenProperties
<1>8. PICK x : x = [value |-> value, id |-> id]
  OBVIOUS
<1>9. acc \in Seq(T) /\ x \in T /\ p \in 1..Len(acc)
  BY <1>5, <1>6, <1>7, <1>8
<1>10. /\ Front(InsertAt(acc, p, x)) \in [1..Len(acc) -> T]
       /\ \A j \in 1..Len(acc) : Front(InsertAt(acc, p, x))[j] =
              IF j < p THEN acc[j] ELSE IF j = p THEN x ELSE acc[j - 1]
  BY ONLY <1>9, InsertionPlaces
<1> QED
  BY <1>4, <1>5, <1>7, <1>8, <1>10 DEF Candidates, Taken

(* Either no place is worse, or there is a first one. *)
LEMMA FirstWorse ==
    ASSUME NEW k \in Nat, NEW acc \in Candidates(k), NEW value \in Int
    PROVE  \/ \A i \in 1..k : ~(value > acc[i].value)
           \/ \E p \in 1..k : /\ value > acc[p].value
                              /\ \A i \in 1..(p - 1) : ~(value > acc[i].value)
<1>1. PICK W : W = {i \in 1..k : value > acc[i].value}
  OBVIOUS
<1>2. CASE W = {}
  BY <1>1, <1>2
<1>3. CASE W # {}
  <2>1. W \in SUBSET Nat
    BY <1>1
  <2>2. PICK p : p = Min(W)
    OBVIOUS
  <2>3. p \in W /\ \A y \in W : p <= y
    BY <1>3, <2>1, <2>2, LeastExists
  <2>4. ASSUME NEW i \in 1..(p - 1) PROVE ~(value > acc[i].value)
    <3>1. p \in 1..k
      BY <1>1, <2>3
    <3>2. i \in 1..k /\ ~(p <= i)
      BY ONLY <3>1, k \in Nat, i \in 1..(p - 1)
    <3> QED
      BY <1>1, <2>3, <3>2
  <2> QED
    BY <1>1, <2>3, <2>4
<1> QED
  BY <1>2, <1>3

LEMMA InsertBestSame ==
    ASSUME NEW k \in Nat, NEW acc \in Candidates(k), NEW value \in Int, NEW id \in Int,
           \A i \in 1..k : ~(value > acc[i].value)
    PROVE  InsertBest(acc, value, id) = acc
<1>1. {n \in DOMAIN acc : value > acc[n].value} = {}
  BY DEF Candidates
<1> QED
  BY <1>1 DEF InsertBest

LEMMA InsertBestType ==
    ASSUME NEW k \in Nat, NEW acc \in Candidates(k), NEW value \in Int, NEW id \in Int
    PROVE  InsertBest(acc, value, id) \in Candidates(k)
<1>1. CASE \A i \in 1..k : ~(value > acc[i].value)
  BY <1>1, InsertBestSame
<1>2. CASE ~ \A i \in 1..k : ~(value > acc[i].value)
  <2>1. PICK p \in 1..k : /\ value > acc[p].value
                          /\ \A i \in 1..(p - 1) : ~(value > acc[i].value)
    BY <1>2, FirstWorse
  <2> QED
    BY <2>1, InsertBestPlaces
<1> QED
  BY <1>1, <1>2

LEMMA BestStep ==
    ASSUME NEW m \in Nat, NEW score \in [0..(m - 1) -> Int], NEW n \in 1..m,
           NEW k \in Nat \ {0}, MinusInf \in Int, NEW acc, Best(acc, score, n - 1, k),
           score[n - 1] >= MinusInf
    PROVE  Best(InsertBest(acc, score[n - 1], n - 1), score, n, k)
<1>1. PICK v, d : v = score[n - 1] /\ d = n - 1
  OBVIOUS
<1>2. v \in Int /\ d \in Int /\ k \in Nat /\ acc \in Candidates(k)
  BY <1>1 DEF Best, Candidates
<1>3. CASE \A i \in 1..k : ~(v > acc[i].value)
  <2>1. InsertBest(acc, v, d) = acc
    BY <1>2, <1>3, InsertBestSame
  <2>2. ASSUME NEW i \in 1..k PROVE acc[i].value >= v
    <3>1. PICK a : a = acc[i].value
      OBVIOUS
    <3>2. a \in Int /\ ~(v > a)
      BY <1>2, <1>3, <3>1 DEF Candidates
    <3>3. a >= v
      BY ONLY <1>2, <3>2
    <3> QED
      BY <3>1, <3>3
  <2> QED
    BY <1>1, <2>1, <2>2, BestKeeps
<1>4. CASE ~ \A i \in 1..k : ~(v > acc[i].value)
  <2>1. PICK p \in 1..k : v > acc[p].value /\ \A i \in 1..(p - 1) : ~(v > acc[i].value)
    BY <1>2, <1>4, FirstWorse
  <2>2. PICK new : new = InsertBest(acc, v, d)
    OBVIOUS
  <2>3. new \in Candidates(k) /\ Taken(new, acc, [value |-> v, id |-> d], p, k)
    BY ONLY k \in Nat \ {0}, <1>2, <2>1, <2>2, InsertBestPlaces
  <2>4. ASSUME NEW i \in 1..(p - 1) PROVE acc[i].value >= v
    <3>1. PICK a : a = acc[i].value
      OBVIOUS
    <3>2. i \in 1..k
      BY ONLY <1>2, p \in 1..k, i \in 1..(p - 1)
    <3>3. a \in Int /\ ~(v > a)
      BY <1>2, <2>1, <3>1, <3>2 DEF Candidates
    <3>4. a >= v
      BY ONLY <1>2, <3>3
    <3> QED
      BY <3>1, <3>4
  <2>5. new \in [1..k -> [value : Int, id : Int]]
    BY <2>3 DEF Candidates
  <2>6. Best(new, score, n, k)
    BY <1>1, <2>1, <2>3, <2>4, <2>5, BestTakes DEF Taken
  <2> QED
    BY <1>1, <2>2, <2>6
<1> QED
  BY <1>3, <1>4

LEMMA NoneIsBest ==
    ASSUME NEW score, NEW k \in Nat, MinusInf \in Int
    PROVE  [i \in 1..k |-> NoCandidate] \in Candidates(k)
           /\ Best([i \in 1..k |-> NoCandidate], score, 0, k)
<1>1. NoCandidate \in [value : Int, id : Int]
  BY DEF NoCandidate
<1>2. 0..(0 - 1) = {}
  OBVIOUS
<1>3. Eligibles(score, 0) = {} /\ Cardinality({}) = 0
  BY <1>2, FS_EmptySet DEF Eligibles
<1>4. \A i \in 1..k : ~(i <= 0)
  OBVIOUS
<1> QED
  BY <1>1, <1>2, <1>3, <1>4 DEF Best, Candidates

(* The list that the fold of BestIds ends with. *)
LEMMA BestFold ==
    ASSUME NEW n \in Nat, NEW score \in [0..(n - 1) -> Int], NEW k \in Nat \ {0}, MinusInf \in Int,
           \A e \in 0..(n - 1) : score[e] >= MinusInf
    PROVE  \E acc : /\ acc \in Candidates(k) /\ Best(acc, score, n, k)
                    /\ BestIds(score, n, k) = [i \in 1..k |-> acc[i].id]
<1> DEFINE none == [i \in 1..k |-> [value |-> MinusInf, id |-> 0]]
           Eqn(g) == g = [s \in SUBSET (DOMAIN [i \in 1..n |-> i]) |->
                             IF s = {} THEN none
                             ELSE InsertBest(g[s \ {Max(s)}], score[[i \in 1..n |-> i][Max(s)] - 1],
                                             [i \in 1..n |-> i][Max(s)] - 1)]
           c == CHOOSE g : Eqn(g)
<1>1. none \in Candidates(k) /\ Best(none, score, 0, k)
  BY NoneIsBest DEF NoCandidate
<1>2. PICK step : step = [i \in 1..n |-> [acc \in Candidates(k) |->
                                            InsertBest(acc, score[i - 1], i - 1)]]
  OBVIOUS
<1>3. ASSUME NEW i \in 1..n
      PROVE  score[i - 1] \in Int /\ i - 1 \in Int /\ score[i - 1] >= MinusInf /\ i - 1 \in 0..(n - 1)
  <2>1. i - 1 \in 0..(n - 1)
    OBVIOUS
  <2> QED
    BY <2>1
<1>4. step \in [1..n -> [Candidates(k) -> Candidates(k)]]
  <2>1. ASSUME NEW i \in 1..n, NEW acc \in Candidates(k)
        PROVE  InsertBest(acc, score[i - 1], i - 1) \in Candidates(k)
    BY <1>3, InsertBestType
  <2> QED
    BY <1>2, <2>1
<1>5. PICK f : Iteration(f, Candidates(k), n, none, step)
  <2> HIDE DEF none
  <2> QED
    BY <1>1, <1>4, IterationExists
<1>6. /\ f \in [SUBSET (1..n) -> Candidates(k)]
      /\ \A s \in SUBSET (1..n) :
             f[s] = IF s = {} THEN none ELSE step[Max(s)][f[s \ {Max(s)}]]
  BY <1>5 DEF Iteration
<1>7. DOMAIN [i \in 1..n |-> i] = 1..n
  OBVIOUS
<1>8. ASSUME NEW s \in SUBSET (1..n), s # {}
      PROVE  /\ Max(s) \in 1..n /\ s \ {Max(s)} \in SUBSET (1..n)
             /\ [i \in 1..n |-> i][Max(s)] = Max(s)
  <2>1. Max(s) \in s
    BY <1>8, GreatestExists
  <2> QED
    BY <2>1
<1>9. Eqn(f)
  <2>1. ASSUME NEW s \in SUBSET (1..n)
        PROVE  f[s] = IF s = {} THEN none
                      ELSE InsertBest(f[s \ {Max(s)}], score[[i \in 1..n |-> i][Max(s)] - 1],
                                      [i \in 1..n |-> i][Max(s)] - 1)
    <3>1. CASE s = {}
      BY <1>6, <3>1
    <3>2. CASE s # {}
      <4>1. PICK x : x = Max(s)
        OBVIOUS
      <4>2. x \in 1..n /\ f[s \ {x}] \in Candidates(k) /\ [i \in 1..n |-> i][x] = x
        BY <1>6, <1>8, <3>2, <4>1
      <4>3. f[s] = step[x][f[s \ {x}]]
        BY <1>6, <3>2, <4>1
      <4>4. f[s] = InsertBest(f[s \ {x}], score[x - 1], x - 1)
        BY <1>2, <4>2, <4>3
      <4> QED
        BY <3>2, <4>1, <4>2, <4>4
    <3> QED
      BY <3>1, <3>2
  <2> QED
    BY <1>6, <1>7, <2>1
<1>10. Eqn(c)
  <2> HIDE DEF Eqn
  <2> QED
    BY <1>9
<1>11. ASSUME NEW s \in SUBSET (1..n)
       PROVE  c[s] = IF s = {} THEN none
                     ELSE InsertBest(c[s \ {Max(s)}], score[Max(s) - 1], Max(s) - 1)
  <2>1. CASE s = {}
    BY <1>7, <1>10, <2>1
  <2>2. CASE s # {}
    <3>1. [i \in 1..n |-> i][Max(s)] = Max(s)
      BY <1>8, <2>2
    <3>2. s \in SUBSET (DOMAIN [i \in 1..n |-> i])
      BY <1>7
    <3>3. c[s] = InsertBest(c[s \ {Max(s)}], score[[i \in 1..n |-> i][Max(s)] - 1],
                                      [i \in 1..n |-> i][Max(s)] - 1)
      BY <1>10, <2>2, <3>2
    <3> QED
      BY <2>2, <3>1, <3>3
  <2> QED
    BY <2>1, <2>2
<1>12. BestIds(score, n, k) = [i \in 1..k |-> c[1..n][i].id]
  BY <1>7 DEF BestIds, FoldLeft, MapThenFoldSet
<1> DEFINE T == {i \in 0..n : c[1..i] \in Candidates(k) /\ Best(c[1..i], score, i, k)}
<1> HIDE DEF c, Eqn
<1>13. 0 \in T
  <2>1. 1..0 = {} /\ 1..0 \in SUBSET (1..n) /\ 0 \in 0..n
    OBVIOUS
  <2>2. c[1..0] = none
    BY <1>11, <2>1
  <2> QED
    BY <1>1, <2>1, <2>2
<1>14. ASSUME NEW i \in 1..n, i - 1 \in T PROVE i \in T
  <2>1. PICK b : b = c[1..(i - 1)]
    OBVIOUS
  <2>2. b \in Candidates(k) /\ Best(b, score, i - 1, k)
    BY <1>14, <2>1
  <2>3. 1..i \in SUBSET (1..n) /\ 1..i # {} /\ Max(1..i) = i /\ (1..i) \ {Max(1..i)} = 1..(i - 1)
    BY PlacesUpTo
  <2>4. c[1..i] = InsertBest(b, score[i - 1], i - 1)
    BY <1>11, <2>1, <2>3
  <2>5. InsertBest(b, score[i - 1], i - 1) \in Candidates(k)
    BY <1>3, <2>2, InsertBestType
  <2>6. Best(InsertBest(b, score[i - 1], i - 1), score, i, k)
    BY <1>3, <2>2, BestStep
  <2>7. i \in 0..n
    OBVIOUS
  <2> QED
    BY <2>4, <2>5, <2>6, <2>7
<1>15. n \in T
  <2> HIDE DEF T
  <2>1. \A i \in 0..n : i \in T
    BY <1>13, <1>14, AllUpTo
  <2> QED
    BY <2>1
<1> QED
  BY <1>12, <1>15

(* BestIds finds the k best. *)
BestAreFound(ids, score, n, k) ==
    /\ ids \in [1..k -> 0..(n - 1)]
    /\ \A i \in 1..k : score[ids[i]] > MinusInf /\ Standing(score, n, ids[i]) = i - 1
    /\ \A e \in 0..(n - 1) :
           score[e] > MinusInf /\ Standing(score, n, e) < k => ids[Standing(score, n, e) + 1] = e

LEMMA BestIdsStand ==
    ASSUME NEW n \in Nat, NEW score \in [0..(n - 1) -> Int], NEW k \in Nat \ {0}, MinusInf \in Int,
           \A e \in 0..(n - 1) : score[e] >= MinusInf, k <= Cardinality(Eligibles(score, n))
    PROVE  BestAreFound(BestIds(score, n, k), score, n, k)
<1>1. PICK acc : /\ acc \in Candidates(k) /\ Best(acc, score, n, k)
                 /\ BestIds(score, n, k) = [i \in 1..k |-> acc[i].id]
  BY BestFold
<1>2. ASSUME NEW i \in 1..k PROVE Holds(acc[i], score, n, i)
  <2>1. i <= Cardinality(Eligibles(score, n))
    BY EligiblesType
  <2> QED
    BY <1>1, <2>1 DEF Best
<1>3. ASSUME NEW e \in 0..(n - 1), score[e] > MinusInf, Standing(score, n, e) < k
      PROVE  acc[Standing(score, n, e) + 1].id = e /\ Standing(score, n, e) + 1 \in 1..k
  <2>1. Standing(score, n, e) \in Nat
    BY StandingType
  <2>2. PICK r : r = Standing(score, n, e)
    OBVIOUS
  <2>3. r + 1 \in 1..k
    BY ONLY <1>3, <2>1, <2>2, k \in Nat \ {0}
  <2> QED
    BY <1>1, <1>3, <2>2, <2>3 DEF Best
<1> QED
  BY <1>1, <1>2, <1>3 DEF Holds, BestAreFound

-----------------------------------------------------------------------------
(***************************************************************************)
(* The groups of experts.                                                  *)
(***************************************************************************)
LEMMA Quotient ==
    ASSUME NEW a \in Nat, NEW b \in Nat \ {0}
    PROVE  /\ a \div b \in Nat
           /\ b * (a \div b) <= a
           /\ a < b * (a \div b) + b
BY SMT

LEMMA QuotientIs ==
    ASSUME NEW g \in Nat, NEW b \in Nat \ {0}, NEW i \in 0..(b - 1)
    PROVE  (g * b + i) \div b = g
BY SMT

LEMMA GroupFacts ==
    /\ NExperts \in Nat \ {0} /\ TopK \in Nat \ {0} /\ TopK <= NExperts /\ MinusInf \in Int
    /\ NGroups \in Nat \ {0} /\ TopGroups \in Nat \ {0} /\ TopGroups <= NGroups
    /\ PerGroup \in Nat \ {0}
    /\ \A e \in ExpertId : GroupOf(e) \in Group
    /\ \A g \in Group, i \in 0..(PerGroup - 1) :
           g * PerGroup + i \in ExpertId /\ GroupOf(g * PerGroup + i) = g
<1>1. /\ NExperts \in Nat \ {0} /\ TopK \in Nat \ {0} /\ TopK <= NExperts /\ MinusInf \in Int
      /\ NGroups \in Nat \ {0} /\ NGroups <= NExperts /\ TopGroups \in Nat \ {0}
      /\ TopGroups <= NGroups
  BY RoutingAssumption
<1>2. PICK P : P = PerGroup
  OBVIOUS
<1>3. P \in Nat /\ NGroups * P <= NExperts /\ NExperts < NGroups * P + NGroups
  <2>1. /\ NExperts \div NGroups \in Nat
        /\ NGroups * (NExperts \div NGroups) <= NExperts
        /\ NExperts < NGroups * (NExperts \div NGroups) + NGroups
    BY <1>1, Quotient
  <2> QED
    BY <1>2, <2>1 DEF PerGroup
<1>4. P \in Nat \ {0}
  BY <1>1, <1>3
<1>5. ASSUME NEW e \in ExpertId PROVE GroupOf(e) \in Group
  <2>1. e \in Nat
    BY <1>1 DEF ExpertId
  <2>2. e \div P \in Nat
    BY <1>4, <2>1, Quotient
  <2>3. PICK q : q = e \div P
    OBVIOUS
  <2>4. GroupOf(e) = IF q < NGroups - 1 THEN q ELSE NGroups - 1
    BY <1>2, <2>3 DEF GroupOf
  <2> QED
    BY <1>1, <2>2, <2>3, <2>4 DEF Group
<1>6. ASSUME NEW g \in Group, NEW i \in 0..(P - 1)
      PROVE  g * P + i \in ExpertId /\ GroupOf(g * P + i) = g
  <2>1. g \in Nat /\ g <= NGroups - 1 /\ i \in Nat /\ i <= P - 1
    BY <1>1, <1>4 DEF Group
  <2>2. PICK x : x = g * P
    OBVIOUS
  <2>3. x \in Nat /\ x + P <= NGroups * P
    <3>1. x \in Nat
      BY <1>4, <2>1, <2>2
    <3>2. x + P = (g + 1) * P
      BY <1>4, <2>1, <2>2
    <3>3. (g + 1) * P <= NGroups * P
      BY <1>1, <1>4, <2>1
    <3> QED
      BY <3>1, <3>2, <3>3
  <2>4. x + i \in ExpertId
    <3>1. PICK y : y = NGroups * P
      OBVIOUS
    <3>2. y \in Int /\ y <= NExperts /\ x + P <= y
      BY <1>1, <1>3, <2>3, <3>1
    <3> QED
      BY ONLY <1>1, <1>4, <2>1, <2>3, <3>2 DEF ExpertId
  <2>5. (x + i) \div P = g
    BY <1>4, <2>1, <2>2, QuotientIs
  <2>6. GroupOf(x + i) = IF g < NGroups - 1 THEN g ELSE NGroups - 1
    BY <1>2, <2>5 DEF GroupOf
  <2>7. GroupOf(x + i) = g
    BY <1>1, <2>1, <2>6
  <2> QED
    BY <2>2, <2>4, <2>7
<1> QED
  BY <1>1, <1>2, <1>4, <1>5, <1>6

LEMMA BestMember ==
    ASSUME NEW score \in [ExpertId -> Int], NEW S \in SUBSET ExpertId, S # {}
    PROVE  \E e \in S : \A f \in S : score[e] >= score[f]
<1>1. NExperts \in Nat /\ ExpertId = 0..(NExperts - 1) /\ NExperts \in 0..NExperts
  BY GroupFacts DEF ExpertId
<1>2. PICK R : R = {Standing(score, NExperts, e) : e \in S}
  OBVIOUS
<1>3. R \in SUBSET Nat /\ R # {}
  BY <1>1, <1>2, StandingType
<1>4. PICK r : r = Min(R)
  OBVIOUS
<1>5. r \in R /\ \A x \in R : r <= x
  BY <1>3, <1>4, LeastExists
<1>6. PICK e \in S : Standing(score, NExperts, e) = r
  BY <1>2, <1>5
<1>7. ASSUME NEW f \in S PROVE score[e] >= score[f]
  <2>1. PICK a, b : a = score[e] /\ b = score[f]
    OBVIOUS
  <2>2. a \in Int /\ b \in Int
    BY <2>1
  <2>3. Standing(score, NExperts, f) \in Nat /\ r <= Standing(score, NExperts, f) /\ r \in Nat
    BY <1>2, <1>3, <1>5
  <2>4. ~Better(score, f, e)
    BY <1>1, <1>6, <2>3, StandingOrder
  <2>5. ~(b > a)
    BY <2>1, <2>4 DEF Better
  <2>6. a >= b
    BY ONLY <2>2, <2>5
  <2> QED
    BY <2>1, <2>6
<1> QED
  BY <1>7

LEMMA GroupScoreType ==
    ASSUME NEW score \in Scores, NEW g \in Group
    PROVE  GroupScore(score, g) \in Int /\ GroupScore(score, g) > MinusInf
<1> DEFINE members == {e \in ExpertId : GroupOf(e) = g}
           first == CHOOSE e \in members : \A f \in members : score[e] >= score[f]
           rest == members \ {first}
           second == CHOOSE e \in rest : \A f \in rest : score[e] >= score[f]
<1>1. score \in [ExpertId -> Int]
      /\ \A e, f \in ExpertId : score[e] > MinusInf /\ score[e] + score[f] > MinusInf
  BY MoeAssumption
<1>2. members # {}
  <2>1. 0 \in 0..(PerGroup - 1)
    BY GroupFacts
  <2> QED
    BY <2>1, GroupFacts
<1>3. first \in members
  <2>1. \E e \in members : \A f \in members : score[e] >= score[f]
    BY <1>1, <1>2, BestMember
  <2> HIDE DEF members
  <2> QED
    BY <2>1
<1>4. rest # {} => second \in rest
  <2>1. rest # {} => \E e \in rest : \A f \in rest : score[e] >= score[f]
    BY <1>1, BestMember
  <2> HIDE DEF rest
  <2> QED
    BY <2>1
<1>5. GroupScore(score, g) = IF rest = {} THEN score[first] ELSE score[first] + score[second]
  BY DEF GroupScore
<1>6. first \in ExpertId /\ (rest # {} => second \in ExpertId)
  BY <1>3, <1>4
<1> HIDE DEF first, second, rest
<1> QED
  BY <1>1, <1>5, <1>6

(* The groups that are kept are the best ones. *)
LEMMA KeptAreBest ==
    ASSUME NEW score \in Scores
    PROVE  /\ ToSet(BestIds([g \in Group |-> GroupScore(score, g)], NGroups, TopGroups))
                  = BestGroups(score)
           /\ \E G \in [1..TopGroups -> Group] :
                  /\ \A i, j \in 1..TopGroups : G[i] = G[j] => i = j
                  /\ \A i \in 1..TopGroups : G[i] \in BestGroups(score)
<1>1. PICK gs : gs = [g \in Group |-> GroupScore(score, g)]
  OBVIOUS
<1>2. PICK n, k : n = NGroups /\ k = TopGroups
  OBVIOUS
<1>3. n \in Nat /\ k \in Nat \ {0} /\ k <= n /\ MinusInf \in Int /\ Group = 0..(n - 1)
  BY <1>2, GroupFacts DEF Group
<1>4. gs \in [0..(n - 1) -> Int] /\ \A g \in 0..(n - 1) : gs[g] > MinusInf
  BY <1>1, <1>3, GroupScoreType
<1>5. Eligibles(gs, n) = 0..(n - 1)
  BY <1>4 DEF Eligibles
<1>6. Cardinality(0..(n - 1)) = n
  BY <1>3, FS_Interval
<1>7. \A g \in 0..(n - 1) : gs[g] >= MinusInf
  BY <1>3, <1>4
<1>8. PICK ids : ids = BestIds(gs, n, k)
  OBVIOUS
<1>9. BestAreFound(ids, gs, n, k)
  BY <1>3, <1>4, <1>5, <1>6, <1>7, <1>8, BestIdsStand
<1>10. BestGroups(score) = {g \in 0..(n - 1) : Standing(gs, n, g) < k}
  BY <1>1, <1>2, <1>3 DEF BestGroups, Standing, Above
<1>11. /\ ids \in [1..k -> 0..(n - 1)]
       /\ \A i \in 1..k : Standing(gs, n, ids[i]) = i - 1
       /\ \A e \in 0..(n - 1) : Standing(gs, n, e) < k => ids[Standing(gs, n, e) + 1] = e
  BY <1>4, <1>9 DEF BestAreFound
<1>12. ASSUME NEW i \in 1..k PROVE ids[i] \in BestGroups(score)
  <2>1. i - 1 < k
    BY <1>3
  <2> QED
    BY <1>10, <1>11, <2>1
<1>13. ASSUME NEW g \in BestGroups(score) PROVE g \in ToSet(ids)
  <2>1. PICK r : r = Standing(gs, n, g)
    OBVIOUS
  <2>2. g \in 0..(n - 1) /\ r \in Nat /\ r < k /\ ids[r + 1] = g
    BY <1>3, <1>10, <1>11, <2>1, StandingType
  <2>3. r + 1 \in 1..k
    BY ONLY <1>3, <2>2
  <2> QED
    BY <1>11, <2>2, <2>3 DEF ToSet
<1>14. ToSet(ids) = BestGroups(score)
  BY <1>11, <1>12, <1>13 DEF ToSet
<1>15. \A i, j \in 1..k : ids[i] = ids[j] => i = j
  <2>1. SUFFICES ASSUME NEW i \in 1..k, NEW j \in 1..k, ids[i] = ids[j] PROVE i = j
    OBVIOUS
  <2>2. i - 1 = j - 1
    BY <1>11, <2>1
  <2> QED
    BY <1>3, <2>2
<1>16. ToSet(BestIds(gs, n, k)) = BestGroups(score)
  BY <1>8, <1>14
<1>17. ids \in [1..TopGroups -> Group]
  BY <1>2, <1>3, <1>11
<1>18. \E G \in [1..TopGroups -> Group] :
           /\ \A i, j \in 1..TopGroups : G[i] = G[j] => i = j
           /\ \A i \in 1..TopGroups : G[i] \in BestGroups(score)
  BY ONLY <1>2, <1>12, <1>15, <1>17, Zenon
<1> QED
  BY ONLY <1>1, <1>2, <1>16, <1>18, Zenon

(* Without groups every expert may be chosen. *)
LEMMA EveryGroupIsBest ==
    ASSUME NEW score \in Scores, ~Grouped
    PROVE  Eligible(score) = ExpertId
<1>1. ASSUME NEW g \in Group PROVE g \in BestGroups(score)
  <2>1. PICK A : A = {h \in Group : Better([x \in Group |-> GroupScore(score, x)], h, g)}
    OBVIOUS
  <2>2. A \in SUBSET Group /\ g \notin A
    <3>1. GroupScore(score, g) \in Int /\ g \in Int
      BY GroupScoreType, GroupFacts DEF Group
    <3>2. ~Better([x \in Group |-> GroupScore(score, x)], g, g)
      BY <3>1 DEF Better
    <3> QED
      BY <2>1, <3>2
  <2>3. IsFiniteSet(Group) /\ Cardinality(Group) = NGroups
    BY GroupFacts, FS_Interval DEF Group
  <2>4. /\ IsFiniteSet(A) /\ Cardinality(A) \in Nat /\ Cardinality(A) <= NGroups
        /\ Cardinality(A) # NGroups
    BY <2>2, <2>3, FS_Subset, FS_CardinalityType
  <2>5. TopGroups = NGroups
    BY GroupFacts DEF Grouped
  <2>6. Cardinality(A) < TopGroups
    BY <2>4, <2>5, GroupFacts
  <2> QED
    BY <2>1, <2>6 DEF BestGroups
<1> QED
  BY <1>1, GroupFacts DEF Eligible

(* There are enough experts to choose from. *)
LEMMA EnoughEligible ==
    ASSUME NEW score \in Scores
    PROVE  /\ IsFiniteSet(Eligible(score)) /\ Cardinality(Eligible(score)) \in Nat
           /\ TopK <= Cardinality(Eligible(score))
<1>1. IsFiniteSet(ExpertId) /\ Cardinality(ExpertId) = NExperts
  BY GroupFacts, FS_Interval DEF ExpertId
<1>2. IsFiniteSet(Eligible(score)) /\ Cardinality(Eligible(score)) \in Nat
  <2>1. Eligible(score) \in SUBSET ExpertId
    BY DEF Eligible
  <2> QED
    BY <1>1, <2>1, FS_Subset, FS_CardinalityType
<1>3. CASE Grouped
  <2>1. PICK G \in [1..TopGroups -> Group] :
            /\ \A i, j \in 1..TopGroups : G[i] = G[j] => i = j
            /\ \A i \in 1..TopGroups : G[i] \in BestGroups(score)
    BY KeptAreBest
  <2>2. PICK I, J : I = 1..TopGroups /\ J = 0..(PerGroup - 1)
    OBVIOUS
  <2>3. PICK f : f = [r \in I \X J |-> G[r[1]] * PerGroup + r[2]]
    OBVIOUS
  <2>4. ASSUME NEW i \in I, NEW j \in J
        PROVE  /\ f[<<i, j>>] = G[i] * PerGroup + j
               /\ f[<<i, j>>] \in Eligible(score) /\ GroupOf(f[<<i, j>>]) = G[i]
    <3>1. f[<<i, j>>] = G[i] * PerGroup + j
      BY <2>3
    <3>2. G[i] \in Group /\ G[i] \in BestGroups(score)
      BY <2>1, <2>2
    <3> QED
      BY <2>2, <3>1, <3>2, GroupFacts DEF Eligible
  <2>5. f \in [I \X J -> Eligible(score)]
    BY <2>3, <2>4
  <2>6. ASSUME NEW i \in I, NEW j \in J, NEW h \in I, NEW k \in J, f[<<i, j>>] = f[<<h, k>>]
        PROVE  i = h /\ j = k
    <3>1. G[i] = G[h]
      BY <2>4, <2>6
    <3>2. i = h
      BY <2>1, <2>2, <3>1
    <3>3. PICK x : x = G[i] * PerGroup
      OBVIOUS
    <3>4. x + j = x + k
      BY <2>4, <2>6, <3>1, <3>2, <3>3
    <3>5. x \in Int /\ j \in Int /\ k \in Int
      <4>1. G[i] \in Int
        BY <2>2, GroupFacts DEF Group
      <4> QED
        BY <2>2, <3>3, <4>1, GroupFacts
    <3> QED
      BY <3>2, <3>4, <3>5
  <2>7. f \in Injection(I \X J, Eligible(score))
    <3>1. \A a, b \in I \X J : f[a] = f[b] => a = b
      BY <2>6
    <3> QED
      BY <2>5, <3>1 DEF Injection, IsInjective
  <2>8. /\ IsFiniteSet(I) /\ Cardinality(I) = TopGroups
        /\ IsFiniteSet(J) /\ Cardinality(J) = PerGroup
    BY <2>2, GroupFacts, FS_Interval
  <2>9. Cardinality(I \X J) = TopGroups * PerGroup
    BY <2>8, FS_Product
  <2>10. Cardinality(I \X J) <= Cardinality(Eligible(score))
    BY <1>2, <2>7, FS_Injection
  <2>11. TopK <= TopGroups * PerGroup
    BY <1>3, GroupsAreLargeEnough
  <2>12. PICK z : z = TopGroups * PerGroup
    OBVIOUS
  <2>13. z \in Int
    BY <2>12, GroupFacts
  <2>14. TopK <= z /\ z <= Cardinality(Eligible(score)) /\ TopK \in Int
    BY <2>9, <2>10, <2>11, <2>12, GroupFacts
  <2> QED
    BY ONLY <1>2, <2>13, <2>14
<1>4. CASE ~Grouped
  <2>1. Eligible(score) = ExpertId
    BY <1>4, EveryGroupIsBest
  <2> QED
    BY <1>1, <1>2, <2>1, GroupFacts
<1> QED
  BY <1>2, <1>3, <1>4

LEMMA MaskedIs ==
    ASSUME NEW score \in Scores
    PROVE  \A e \in ExpertId :
               Masked(score)[e] = IF e \in Eligible(score) THEN score[e] ELSE MinusInf
<1>1. CASE Grouped
  <2>1. Masked(score) = [e \in ExpertId |-> IF GroupOf(e) \in BestGroups(score) THEN score[e]
                                            ELSE MinusInf]
    BY <1>1, KeptAreBest DEF Masked
  <2> QED
    BY <2>1 DEF Eligible
<1>2. CASE ~Grouped
  <2>1. Masked(score) = score
    BY <1>2 DEF Masked
  <2>2. Eligible(score) = ExpertId
    BY <1>2, EveryGroupIsBest
  <2> QED
    BY <2>1, <2>2
<1> QED
  BY <1>1, <1>2

(* select_moe_routes finds the best experts of the best groups, best first.  *)
THEOREM SelectIsBest ==
    ASSUME NEW score \in Scores
    PROVE  SelectRoutes(score) = BestRoute(score) /\ SelectRoutes(score) \in [1..TopK -> ExpertId]
<1>1. PICK w : w = Masked(score)
  OBVIOUS
<1>2. PICK n, k : n = NExperts /\ k = TopK
  OBVIOUS
<1>3. n \in Nat /\ n \in 0..n /\ k \in Nat \ {0} /\ MinusInf \in Int /\ ExpertId = 0..(n - 1)
  BY <1>2, GroupFacts DEF ExpertId
<1>4. PICK E : E = Eligible(score)
  OBVIOUS
<1>5. score \in [ExpertId -> Int] /\ \A e \in ExpertId : score[e] > MinusInf
  BY MoeAssumption
<1>6. E \in SUBSET ExpertId
  BY <1>4 DEF Eligible
<1>7. w \in [0..(n - 1) -> Int] /\ \A e \in 0..(n - 1) : w[e] = IF e \in E THEN score[e] ELSE MinusInf
  <2>1. \A e \in ExpertId : w[e] = IF e \in E THEN score[e] ELSE MinusInf
    BY <1>1, <1>4, MaskedIs
  <2>2. w = [e \in ExpertId |-> w[e]]
    BY <1>1, <1>5 DEF Masked
  <2>3. \A e \in ExpertId : w[e] \in Int
    BY <1>3, <1>5, <2>1
  <2> QED
    BY <1>3, <2>1, <2>2, <2>3
<1>8. /\ \A e \in 0..(n - 1) : w[e] >= MinusInf
      /\ \A e \in 0..(n - 1) : e \in E <=> w[e] > MinusInf
  BY <1>3, <1>5, <1>7
<1>9. Eligibles(w, n) = E
  BY <1>3, <1>6, <1>8 DEF Eligibles
<1>10. PICK ids : ids = BestIds(w, n, k)
  OBVIOUS
<1>11. k <= Cardinality(E) /\ Cardinality(E) \in Nat
  BY <1>2, <1>4, EnoughEligible
<1>12. BestAreFound(ids, w, n, k)
  BY <1>3, <1>7, <1>8, <1>9, <1>10, <1>11, BestIdsStand
<1>13. /\ ids \in [1..k -> 0..(n - 1)]
       /\ \A i \in 1..k : ids[i] \in E /\ Standing(w, n, ids[i]) = i - 1
  BY <1>8, <1>12 DEF BestAreFound
<1>14. ASSUME NEW e \in E
       PROVE  {y \in E : Better(score, y, e)} = Above(w, n, e)
  <2>1. e \in 0..(n - 1) /\ w[e] = score[e] /\ score[e] > MinusInf /\ score[e] \in Int
    BY <1>3, <1>5, <1>6, <1>7
  <2>2. ASSUME NEW y \in 0..(n - 1)
        PROVE  Better(w, y, e) <=> y \in E /\ Better(score, y, e)
    <3>1. CASE y \in E
      <4>1. w[y] = score[y]
        BY <1>7, <3>1
      <4> QED
        BY <2>1, <3>1, <4>1 DEF Better
    <3>2. CASE y \notin E
      <4>1. w[y] = MinusInf
        BY <1>7, <3>2
      <4> QED
        BY <1>3, <2>1, <3>2, <4>1 DEF Better
    <3> QED
      BY <3>1, <3>2
  <2> QED
    BY <1>3, <1>6, <2>2 DEF Above
<1>15. ASSUME NEW i \in 1..k
       PROVE  (CHOOSE x \in E : Cardinality({y \in E : Better(score, y, x)}) = i - 1) = ids[i]
  <2>1. ids[i] \in E /\ Cardinality({y \in E : Better(score, y, ids[i])}) = i - 1
    BY <1>13, <1>14 DEF Standing
  <2>2. ASSUME NEW x \in E, Cardinality({y \in E : Better(score, y, x)}) = i - 1
        PROVE  x = ids[i]
    <3>1. Standing(w, n, x) = Standing(w, n, ids[i])
      BY <1>13, <1>14, <2>2 DEF Standing
    <3>2. x \in 0..(n - 1) /\ ids[i] \in 0..(n - 1)
      BY <1>3, <1>6, <1>13
    <3> QED
      BY <1>3, <1>7, <3>1, <3>2, StandingsDiffer
  <2> QED
    BY <2>1, <2>2
<1>16. PICK r : r = Ranked(score, E)
  OBVIOUS
<1>17. r = [i \in 1..Cardinality(E) |->
                CHOOSE x \in E : Cardinality({y \in E : Better(score, y, x)}) = i - 1]
  BY <1>16 DEF Ranked, Sorted
<1>18. \A i \in 1..k : i \in 1..Cardinality(E) /\ r[i] = ids[i]
  <2>1. SUFFICES ASSUME NEW i \in 1..k PROVE i \in 1..Cardinality(E) /\ r[i] = ids[i]
    OBVIOUS
  <2>2. i \in 1..Cardinality(E)
    BY ONLY <1>3, <1>11, i \in 1..k
  <2>3. r[i] = CHOOSE x \in E : Cardinality({y \in E : Better(score, y, x)}) = i - 1
    BY <1>17, <2>2
  <2> QED
    BY <1>15, <2>2, <2>3
<1>19. SubSeq(r, 1, k) = ids
  <2>1. SubSeq(r, 1, k) = [i \in 1..k |-> r[i]]
    BY <1>3
  <2> QED
    BY <1>13, <1>18, <2>1
<1>20. SelectRoutes(score) = ids /\ BestRoute(score) = SubSeq(r, 1, k)
  BY <1>1, <1>2, <1>4, <1>10, <1>16 DEF SelectRoutes, BestRoute
<1> QED
  BY <1>2, <1>3, <1>13, <1>19, <1>20

-----------------------------------------------------------------------------
(***************************************************************************)
(* The contributions to a token's output, in the order of the experts.     *)
(***************************************************************************)
Earlier(route, k) ==
    {j \in 1..TopK : route[j] < route[k] \/ (route[j] = route[k] /\ j < k)}

LEMMA EarlierDiffer ==
    ASSUME NEW route \in [1..TopK -> ExpertId], NEW j \in 1..TopK, NEW k \in 1..TopK,
           Cardinality(Earlier(route, j)) = Cardinality(Earlier(route, k))
    PROVE  j = k
<1>1. TopK \in Nat /\ IsFiniteSet(1..TopK)
  BY GroupFacts, FS_Interval
<1>2. \A i \in 1..TopK : route[i] \in Int /\ i \in Int
  BY GroupFacts DEF ExpertId
<1>3. ASSUME NEW a \in 1..TopK, NEW b \in 1..TopK, a \in Earlier(route, b)
      PROVE  Cardinality(Earlier(route, a)) # Cardinality(Earlier(route, b))
  <2>1. route[a] < route[b] \/ (route[a] = route[b] /\ a < b)
    BY <1>3 DEF Earlier
  <2>2. ASSUME NEW x \in Earlier(route, a) PROVE x \in Earlier(route, b)
    <3>1. x \in 1..TopK /\ (route[x] < route[a] \/ (route[x] = route[a] /\ x < a))
      BY DEF Earlier
    <3> QED
      BY <1>2, <2>1, <3>1 DEF Earlier
  <2>3. a \notin Earlier(route, a)
    BY <1>2 DEF Earlier
  <2>4. Earlier(route, b) \in SUBSET (1..TopK)
    BY DEF Earlier
  <2>5. IsFiniteSet(Earlier(route, b)) /\ Earlier(route, a) \in SUBSET Earlier(route, b)
    BY <1>1, <2>2, <2>4, FS_Subset
  <2> QED
    BY <1>3, <2>3, <2>5, FS_Subset
<1>4. ASSUME j # k PROVE j \in Earlier(route, k) \/ k \in Earlier(route, j)
  BY <1>2, <1>4 DEF Earlier
<1> QED
  BY <1>3, <1>4

(* The route that c others precede is the next in order. *)
LEMMA InOrderIs ==
    ASSUME NEW route \in [1..TopK -> ExpertId], NEW k \in 1..TopK, NEW c \in Nat,
           Cardinality(Earlier(route, k)) = c
    PROVE  c + 1 \in 1..TopK /\ InOrder(route)[c + 1] = k
<1>1. TopK \in Nat /\ IsFiniteSet(1..TopK) /\ Cardinality(1..TopK) = TopK
  BY GroupFacts, FS_Interval
<1>2. Earlier(route, k) \in SUBSET (1..TopK) /\ k \notin Earlier(route, k)
  <2>1. route[k] \in Int /\ k \in Int
    BY GroupFacts DEF ExpertId
  <2> QED
    BY <2>1 DEF Earlier
<1>3. c <= TopK /\ c # TopK
  BY <1>1, <1>2, FS_Subset
<1>4. c + 1 \in 1..TopK
  BY ONLY <1>1, <1>3, c \in Nat
<1>5. InOrder(route)[c + 1] =
          CHOOSE x \in 1..TopK : Cardinality({y \in 1..TopK :
              route[y] < route[x] \/ (route[y] = route[x] /\ y < x)}) = (c + 1) - 1
  BY <1>1, <1>4 DEF InOrder, Sorted
<1>6. (c + 1) - 1 = c
  OBVIOUS
<1>7. ASSUME NEW x \in 1..TopK, Cardinality(Earlier(route, x)) = c PROVE x = k
  BY <1>7, EarlierDiffer
<1>8. (CHOOSE x \in 1..TopK : Cardinality(Earlier(route, x)) = c) = k
  BY <1>7
<1> QED
  BY <1>4, <1>5, <1>6, <1>8 DEF Earlier

(* The first c contributions in order. *)
Turn(route, n) == <<route[InOrder(route)[n]], InOrder(route)[n]>>
FirstTurns(route, c) == [n \in 1..c |-> Turn(route, n)]

(* The routes to an expert below e, and those to e up to the rank i. *)
Turned(route, e, i) == {k \in 1..TopK : route[k] < e \/ (route[k] = e /\ k <= i)}
Turns(route, e, i) == Cardinality(Turned(route, e, i))

LEMMA TurnsType ==
    ASSUME NEW route, NEW e, NEW i
    PROVE  IsFiniteSet(Turned(route, e, i)) /\ Turns(route, e, i) \in Nat
           /\ Turns(route, e, i) <= TopK
<1>1. TopK \in Nat /\ IsFiniteSet(1..TopK) /\ Cardinality(1..TopK) = TopK
  BY GroupFacts, FS_Interval
<1>2. Turned(route, e, i) \in SUBSET (1..TopK)
  BY DEF Turned
<1> QED
  BY <1>1, <1>2, FS_Subset, FS_CardinalityType DEF Turns

LEMMA NextTurn ==
    ASSUME NEW route \in [1..TopK -> ExpertId], NEW e \in Int, NEW i \in 1..TopK
    PROVE  IF route[i] = e
           THEN /\ Turns(route, e, i) = Turns(route, e, i - 1) + 1
                /\ Turn(route, Turns(route, e, i)) = <<e, i>>
           ELSE Turns(route, e, i) = Turns(route, e, i - 1)
<1>1. \A k \in 1..TopK : route[k] \in Int /\ k \in Int
  BY GroupFacts DEF ExpertId
<1>2. PICK A, c : A = Turned(route, e, i - 1) /\ c = Cardinality(A)
  OBVIOUS
<1>3. IsFiniteSet(A) /\ c \in Nat /\ Turns(route, e, i - 1) = c
  BY <1>2, TurnsType DEF Turns
<1>4. \A k \in 1..TopK : k <= i <=> (k <= i - 1 \/ k = i)
  BY <1>1
<1>5. CASE route[i] = e
  <2>1. Turned(route, e, i) = A \cup {i}
    BY <1>1, <1>2, <1>4, <1>5 DEF Turned
  <2>2. i \notin A
    BY <1>1, <1>2, <1>5 DEF Turned
  <2>3. Turns(route, e, i) = c + 1
    <3>1. Cardinality(A \cup {i}) = Cardinality(A) + 1
      BY ONLY <1>3, <2>2, FS_AddElement
    <3> QED
      BY <1>2, <2>1, <3>1 DEF Turns
  <2>4. \A k \in 1..TopK : k < i <=> k <= i - 1
    BY <1>1
  <2>5. A = Earlier(route, i)
    BY <1>2, <1>5, <2>4 DEF Turned, Earlier
  <2>6. InOrder(route)[c + 1] = i
    BY <1>2, <1>3, <2>5, InOrderIs
  <2> QED
    BY <1>3, <1>5, <2>3, <2>6 DEF Turn
<1>6. CASE route[i] # e
  <2>1. Turned(route, e, i) = A
    BY <1>1, <1>2, <1>4, <1>6 DEF Turned
  <2> QED
    BY <1>2, <1>3, <1>6, <2>1 DEF Turns
<1> QED
  BY <1>5, <1>6

LEMMA AppendTurn ==
    ASSUME NEW route, NEW c \in Nat
    PROVE  Append(FirstTurns(route, c), Turn(route, c + 1)) = FirstTurns(route, c + 1)
<1>1. PICK T : T = {Turn(route, n) : n \in 1..(c + 1)}
  OBVIOUS
<1>2. PICK s, x : s = FirstTurns(route, c) /\ x = Turn(route, c + 1)
  OBVIOUS
<1>3. s \in [1..c -> T] /\ \A n \in 1..c : s[n] = Turn(route, n)
  <2>1. \A n \in 1..c : n \in 1..(c + 1)
    OBVIOUS
  <2> QED
    BY <1>1, <1>2, <2>1 DEF FirstTurns
<1>4. x \in T
  <2>1. c + 1 \in 1..(c + 1)
    OBVIOUS
  <2> QED
    BY <1>1, <1>2, <2>1
<1>5. s \in Seq(T) /\ Len(s) = c
  <2>1. s \in Seq(T)
    BY <1>3, SeqDef
  <2> QED
    BY <1>3, <2>1, LenProperties
<1>6. PICK r : r = Append(s, x)
  OBVIOUS
<1>7. /\ r \in Seq(T) /\ Len(r) = c + 1 /\ r[c + 1] = x
      /\ \A n \in 1..c : r[n] = s[n]
  BY <1>4, <1>5, <1>6, AppendProperties
<1>8. r = [n \in 1..(c + 1) |-> r[n]]
  BY <1>7, LenProperties
<1>9. ASSUME NEW n \in 1..(c + 1) PROVE r[n] = Turn(route, n)
  <2>1. n \in 1..c \/ n = c + 1
    OBVIOUS
  <2> QED
    BY <1>2, <1>3, <1>7, <2>1
<1> QED
  BY <1>2, <1>6, <1>8, <1>9 DEF FirstTurns

(* Adding the contributions of one expert to the output o of token t. *)
Increased(t, o, e, v) ==
    FoldLeftDomain(LAMBDA x, k : IF routes[t][k] = e THEN Append(x, v[<<t, k>>]) ELSE x,
                   o, routes[t])

LEMMA IncreasedIs ==
    ASSUME NEW t, NEW e \in Int, NEW v, routes[t] \in [1..TopK -> ExpertId],
           \A k \in 1..TopK : routes[t][k] = e => v[<<t, k>>] = <<e, k>>,
           NEW o, o = FirstTurns(routes[t], Turns(routes[t], e, 0))
    PROVE  Increased(t, o, e, v) = FirstTurns(routes[t], Turns(routes[t], e, TopK))
<1> DEFINE Eqn(g) == g = [s \in SUBSET (DOMAIN [i \in DOMAIN routes[t] |-> i]) |->
                             IF s = {} THEN o
                             ELSE IF routes[t][[i \in DOMAIN routes[t] |-> i][Max(s)]] = e
                                  THEN Append(g[s \ {Max(s)}],
                                          v[<<t, [i \in DOMAIN routes[t] |-> i][Max(s)]>>])
                                  ELSE g[s \ {Max(s)}]]
           c == CHOOSE g : Eqn(g)
<1>1. PICK R, n : R = routes[t] /\ n = TopK
  OBVIOUS
<1>2. n \in Nat /\ R \in [1..n -> ExpertId] /\ DOMAIN R = 1..n
  BY <1>1, GroupFacts
<1>3. PICK T : T = {Turn(R, i) : i \in 1..n} \cup {<<e, i>> : i \in 1..n}
  OBVIOUS
<1>4. o \in Seq(T)
  <2>1. PICK b : b = Turns(R, e, 0)
    OBVIOUS
  <2>2. b \in Nat /\ b <= n
    BY <1>1, <2>1, TurnsType
  <2>3. \A i \in 1..b : i \in 1..n
    BY ONLY <1>2, <2>2
  <2>4. o = [i \in 1..b |-> Turn(R, i)]
    BY <1>1, <2>1 DEF FirstTurns
  <2>5. o \in [1..b -> T]
    BY <1>3, <2>3, <2>4
  <2> QED
    BY <2>2, <2>5, SeqDef
<1>5. PICK step : step = [i \in 1..n |-> [x \in Seq(T) |->
                              IF R[i] = e THEN Append(x, v[<<t, i>>]) ELSE x]]
  OBVIOUS
<1>6. step \in [1..n -> [Seq(T) -> Seq(T)]]
  <2>1. ASSUME NEW i \in 1..n, NEW x \in Seq(T), R[i] = e
        PROVE  Append(x, v[<<t, i>>]) \in Seq(T)
    <3>1. v[<<t, i>>] = <<e, i>>
      BY <1>1, <2>1
    <3>2. v[<<t, i>>] \in T
      BY <1>3, <3>1
    <3> QED
      BY <3>2, AppendProperties
  <2> QED
    BY <1>5, <2>1
<1>7. PICK f : Iteration(f, Seq(T), n, o, step)
  BY <1>2, <1>4, <1>6, IterationExists
<1>8. /\ f \in [SUBSET (1..n) -> Seq(T)]
      /\ \A s \in SUBSET (1..n) :
             f[s] = IF s = {} THEN o ELSE step[Max(s)][f[s \ {Max(s)}]]
  BY <1>7 DEF Iteration
<1>9. DOMAIN [i \in DOMAIN routes[t] |-> i] = 1..n
  BY <1>1, <1>2
<1>10. ASSUME NEW s \in SUBSET (1..n), s # {}
       PROVE  /\ Max(s) \in 1..n /\ s \ {Max(s)} \in SUBSET (1..n)
              /\ [i \in DOMAIN routes[t] |-> i][Max(s)] = Max(s)
  <2>1. Max(s) \in s
    BY <1>2, <1>10, GreatestExists
  <2> QED
    BY <1>1, <1>2, <2>1
<1>11. Eqn(f)
  <2>1. ASSUME NEW s \in SUBSET (1..n)
        PROVE  f[s] = IF s = {} THEN o
                      ELSE IF routes[t][[i \in DOMAIN routes[t] |-> i][Max(s)]] = e
                                  THEN Append(f[s \ {Max(s)}],
                                          v[<<t, [i \in DOMAIN routes[t] |-> i][Max(s)]>>])
                                  ELSE f[s \ {Max(s)}]
    <3>1. CASE s = {}
      BY <1>8, <3>1
    <3>2. CASE s # {}
      <4>1. PICK x : x = Max(s)
        OBVIOUS
      <4>2. x \in 1..n /\ f[s \ {x}] \in Seq(T) /\ [i \in DOMAIN routes[t] |-> i][x] = x
        BY <1>8, <1>10, <3>2, <4>1
      <4>3. f[s] = step[x][f[s \ {x}]]
        BY <1>8, <3>2, <4>1
      <4>4. f[s] = IF R[x] = e THEN Append(f[s \ {x}], v[<<t, x>>]) ELSE f[s \ {x}]
        BY <1>5, <4>2, <4>3
      <4> QED
        BY <1>1, <3>2, <4>1, <4>2, <4>4
    <3> QED
      BY <3>1, <3>2
  <2> QED
    BY <1>8, <1>9, <2>1
<1>12. Eqn(c)
  <2> HIDE DEF Eqn
  <2> QED
    BY <1>11
<1>13. ASSUME NEW s \in SUBSET (1..n)
       PROVE  c[s] = IF s = {} THEN o
                     ELSE IF R[Max(s)] = e THEN Append(c[s \ {Max(s)}], v[<<t, Max(s)>>])
                     ELSE c[s \ {Max(s)}]
  <2> HIDE DEF c
  <2>1. CASE s = {}
    BY <1>9, <1>12, <2>1
  <2>2. CASE s # {}
    <3>1. [i \in DOMAIN routes[t] |-> i][Max(s)] = Max(s)
      BY <1>10, <2>2
    <3>2. s \in SUBSET (DOMAIN [i \in DOMAIN routes[t] |-> i])
      BY <1>9
    <3>3. c[s] = IF routes[t][[i \in DOMAIN routes[t] |-> i][Max(s)]] = e
                                  THEN Append(c[s \ {Max(s)}],
                                          v[<<t, [i \in DOMAIN routes[t] |-> i][Max(s)]>>])
                                  ELSE c[s \ {Max(s)}]
      BY <1>12, <2>2, <3>2
    <3>4. PICK m : m = Max(s)
      OBVIOUS
    <3>5. [i \in DOMAIN routes[t] |-> i][m] = m
      BY <3>1, <3>4
    <3>6. c[s] = IF R[m] = e THEN Append(c[s \ {m}], v[<<t, m>>]) ELSE c[s \ {m}]
      BY <1>1, <3>3, <3>4, <3>5
    <3> QED
      BY <2>2, <3>4, <3>6
  <2> QED
    BY <2>1, <2>2
<1>14. Increased(t, o, e, v) = c[1..n]
  BY <1>9 DEF Increased, FoldLeftDomain, FoldLeft, MapThenFoldSet
<1> DEFINE I == {i \in 0..n : c[1..i] = FirstTurns(R, Turns(R, e, i))}
<1> HIDE DEF c, Eqn
<1>15. 0 \in I
  <2>1. 1..0 = {} /\ 1..0 \in SUBSET (1..n) /\ 0 \in 0..n
    BY <1>2
  <2>2. c[1..0] = o
    BY <1>13, <2>1
  <2> QED
    BY <1>1, <2>1, <2>2
<1>16. ASSUME NEW i \in 1..n, i - 1 \in I PROVE i \in I
  <2>1. PICK b : b = Turns(R, e, i - 1)
    OBVIOUS
  <2>2. c[1..(i - 1)] = FirstTurns(R, b)
    BY <1>16, <2>1
  <2>3. 1..i \in SUBSET (1..n) /\ 1..i # {} /\ Max(1..i) = i /\ (1..i) \ {Max(1..i)} = 1..(i - 1)
    BY <1>2, PlacesUpTo
  <2>4. c[1..i] = IF R[i] = e THEN Append(FirstTurns(R, b), v[<<t, i>>]) ELSE FirstTurns(R, b)
    BY <1>13, <2>2, <2>3
  <2>5. IF R[i] = e THEN Turns(R, e, i) = b + 1 /\ Turn(R, Turns(R, e, i)) = <<e, i>>
                    ELSE Turns(R, e, i) = b
    BY <1>1, <1>2, <2>1, NextTurn
  <2>6. b \in Nat /\ i \in 0..n
    BY <1>2, <2>1, TurnsType
  <2>7. CASE R[i] = e
    <3>1. v[<<t, i>>] = Turn(R, b + 1)
      BY <1>1, <2>5, <2>7
    <3>2. c[1..i] = FirstTurns(R, b + 1)
      BY <2>4, <2>6, <2>7, <3>1, AppendTurn
    <3> QED
      BY <2>5, <2>6, <2>7, <3>2
  <2>8. CASE R[i] # e
    BY <2>4, <2>5, <2>6, <2>8
  <2> QED
    BY <2>7, <2>8
<1>17. n \in I
  <2> HIDE DEF I
  <2>1. \A i \in 0..n : i \in I
    BY <1>2, <1>15, <1>16, AllUpTo
  <2> QED
    BY <1>2, <2>1
<1> QED
  BY <1>1, <1>14, <1>17

(* The output when the experts below e have been added. *)
Added(v, e) == [t \in DOMAIN v |-> FirstTurns(v[t], Turns(v[t], e, 0))]

LEMMA AddRoutesIs ==
    ASSUME NEW e \in Int, NEW v, NEW n, routes \in [1..n -> [1..TopK -> ExpertId]],
           \A r \in RoutesOf(routes, e) : v[r] = <<e, r[2]>>
    PROVE  AddRoutes(Added(routes, e), e, v) = Added(routes, e + 1)
<1>1. ASSUME NEW t \in 1..n
      PROVE  Increased(t, Added(routes, e)[t], e, v) = FirstTurns(routes[t], Turns(routes[t], e + 1, 0))
  <2>1. routes[t] \in [1..TopK -> ExpertId]
    OBVIOUS
  <2>2. ASSUME NEW k \in 1..TopK, routes[t][k] = e PROVE v[<<t, k>>] = <<e, k>>
    <3>1. <<t, k>> \in RoutesOf(routes, e)
      BY <2>2 DEF RoutesOf
    <3>2. v[<<t, k>>] = <<e, <<t, k>>[2]>>
      BY <3>1
    <3> QED
      BY <3>2
  <2>3. Added(routes, e)[t] = FirstTurns(routes[t], Turns(routes[t], e, 0))
    BY DEF Added
  <2>4. Increased(t, Added(routes, e)[t], e, v) = FirstTurns(routes[t], Turns(routes[t], e, TopK))
    BY <2>1, <2>2, <2>3, IncreasedIs
  <2>5. Turned(routes[t], e, TopK) = Turned(routes[t], e + 1, 0)
    <3>1. \A k \in 1..TopK : routes[t][k] \in Int /\ k \in Int /\ k <= TopK /\ ~(k <= 0)
      BY <2>1, GroupFacts DEF ExpertId
    <3>2. \A k \in 1..TopK : (routes[t][k] < e \/ routes[t][k] = e) <=> routes[t][k] < e + 1
      BY <3>1
    <3> QED
      BY <3>1, <3>2 DEF Turned
  <2> QED
    BY <2>4, <2>5 DEF Turns
<1>2. DOMAIN Added(routes, e) = 1..n /\ DOMAIN routes = 1..n
  BY DEF Added
<1>3. AddRoutes(Added(routes, e), e, v) = [t \in 1..n |-> Increased(t, Added(routes, e)[t], e, v)]
  BY <1>2 DEF AddRoutes, Increased
<1>4. Added(routes, e + 1) = [t \in 1..n |-> FirstTurns(routes[t], Turns(routes[t], e + 1, 0))]
  BY <1>2 DEF Added
<1> QED
  BY <1>1, <1>3, <1>4

-----------------------------------------------------------------------------
(***************************************************************************)
(* The cache.  What is resident is in both lists, once; nothing exceeds    *)
(* its share.                                                              *)
(***************************************************************************)
CacheType ==
    [entry : [Pair -> EntryType], arrival : Seq(Pair), recency : Seq(Pair),
     active : Layer \cup {-1}, width : [Layer -> Nat], retained : [Layer -> SUBSET ExpertId]]

Residents(c) == {p \in Pair : Resident(c, p)}
Room(c, global) ==
    IF global THEN Len(c.arrival) <= Capacity
    ELSE \A l \in Layer : Cardinality(OfLayer(c, l)) <= Share
Shape(c, global) ==
    /\ c \in CacheType
    /\ Distinct(c.arrival) /\ ToSet(c.arrival) = Residents(c)
    /\ Distinct(c.recency) /\ ToSet(c.recency) = Residents(c)
    /\ \A p \in Pair : ~Resident(c, p) => c.entry[p].pins = 0
    /\ Room(c, global)

(* What a request may not change: the leases and what is busy; and nothing   *)
(* becomes resident without being current, or stale.                         *)
Follows(c, d) ==
    /\ d.active = c.active
    /\ \A p \in Pair : d.entry[p].pins = c.entry[p].pins
    /\ \A p \in Pair : Busy(c, p) => d.entry[p].state = c.entry[p].state
    /\ \A p \in Pair : Resident(d, p) /\ (Resident(c, p) => c.entry[p].current)
                           => d.entry[p].current

(* What a prediction may not take.                                           *)
Kept(c, p) ==
    Contained(c, p) /\ c.entry[p].current /\ ~c.entry[p].speculative /\ ~Left(c, p)
Spared(c, d) ==
    \A p \in Pair : Kept(c, p) => Kept(d, p) /\ d.entry[p].state = c.entry[p].state

LEMMA FollowsSelf ==
    ASSUME NEW c
    PROVE  Follows(c, c) /\ Spared(c, c)
BY DEF Follows, Spared

LEMMA FollowsOn ==
    ASSUME NEW c, NEW d, NEW e, Follows(c, d), Follows(d, e)
    PROVE  Follows(c, e)
<1>1. \A p \in Pair : Busy(c, p) => Busy(d, p)
  BY DEF Follows, Busy
<1>2. \A p \in Pair : Resident(e, p) /\ (Resident(c, p) => c.entry[p].current)
                           => e.entry[p].current
  BY DEF Follows
<1> QED
  BY <1>1, <1>2 DEF Follows

LEMMA SparedOn ==
    ASSUME NEW c, NEW d, NEW e, Spared(c, d), Spared(d, e)
    PROVE  Spared(c, e)
BY DEF Spared

LEMMA EntryFacts ==
    ASSUME NEW c \in CacheType, NEW p \in Pair
    PROVE  /\ c.entry \in [Pair -> EntryType] /\ c.entry[p] \in EntryType
           /\ c.arrival \in Seq(Pair) /\ c.recency \in Seq(Pair)
           /\ c.active \in Layer \cup {-1}
           /\ NoEntry \in EntryType
BY DEF CacheType, EntryType, NoEntry

LEMMA LayerFacts ==
    /\ NLayers \in Nat \ {0} /\ Capacity \in Nat /\ Share \in Nat \ {0} /\ NLayers * Share <= Capacity
    /\ Layer \subseteq Nat /\ -1 \notin Layer /\ NoPair \notin Pair
    /\ \A p \in Pair : p[1] \in Layer /\ p[2] \in ExpertId /\ p = <<p[1], p[2]>>
<1>1. NLayers \in Nat \ {0} /\ Capacity \in Nat /\ Capacity >= NLayers
  BY PolicyAssumption
<1>2. /\ Share \in Nat /\ NLayers * Share <= Capacity /\ Capacity < NLayers * Share + NLayers
  BY <1>1, Quotient DEF Share
<1>3. Share # 0
  BY <1>1, <1>2
<1> QED
  BY <1>1, <1>2, <1>3 DEF Layer, Pair, NoPair

LEMMA RemovedType ==
    ASSUME NEW c \in CacheType, NEW p
    PROVE  Removed(c, p) \in CacheType
<1>1. RemoveFirst(c.arrival, p) \in Seq(Pair) /\ RemoveFirst(c.recency, p) \in Seq(Pair)
  BY WithoutType DEF CacheType
<1>2. [c.entry EXCEPT ![p] = NoEntry] \in [Pair -> EntryType]
  <2>1. PICK E, T, x : E = c.entry /\ T = EntryType /\ x = NoEntry
    OBVIOUS
  <2>2. E \in [Pair -> T] /\ x \in T
    BY <2>1 DEF CacheType, NoEntry, EntryType
  <2>3. [E EXCEPT ![p] = x] = [q \in Pair |-> IF q = p THEN x ELSE E[q]]
    BY <2>2
  <2> QED
    BY <2>1, <2>2, <2>3
<1> QED
  BY <1>1, <1>2 DEF Removed, CacheType

LEMMA TouchedType ==
    ASSUME NEW c \in CacheType, NEW p \in Pair
    PROVE  Touched(c, p) \in CacheType
<1>1. RemoveFirst(c.recency, p) \in Seq(Pair)
  BY WithoutType DEF CacheType
<1>2. Append(RemoveFirst(c.recency, p), p) \in Seq(Pair)
  BY <1>1, AppendProperties
<1>3. [c.entry EXCEPT ![p].current = TRUE] \in [Pair -> EntryType]
  <2>1. PICK E, T : E = c.entry /\ T = EntryType
    OBVIOUS
  <2>2. E \in [Pair -> T] /\ E[p] \in T
    BY <2>1 DEF CacheType
  <2>3. [E[p] EXCEPT !.current = TRUE] \in T
    BY <2>1, <2>2 DEF EntryType
  <2>4. [E EXCEPT ![p] = [E[p] EXCEPT !.current = TRUE]] \in [Pair -> T]
    BY ONLY <2>2, <2>3
  <2>5. [E EXCEPT ![p] = [E[p] EXCEPT !.current = TRUE]] = [E EXCEPT ![p].current = TRUE]
    OBVIOUS
  <2> QED
    BY <2>1, <2>4, <2>5
<1> QED
  BY <1>2, <1>3 DEF Touched, Used, CacheType

LEMMA AdmittedType ==
    ASSUME NEW c \in CacheType, NEW p \in Pair, NEW speculative \in BOOLEAN, NEW confidence \in 0..2
    PROVE  Admitted(c, p, speculative, confidence) \in CacheType
<1>1. Append(c.arrival, p) \in Seq(Pair) /\ Append(c.recency, p) \in Seq(Pair)
  BY AppendProperties DEF CacheType
<1>2. (p[2] \in c.retained[p[1]]) \in BOOLEAN
  OBVIOUS
<1>3. PICK e : e = [state |-> "loading", pins |-> 0, current |-> TRUE,
                    speculative |-> speculative, predicted |-> speculative,
                    confidence |-> IF speculative THEN confidence ELSE 0,
                    retained |-> p[2] \in c.retained[p[1]]]
  OBVIOUS
<1>4. e \in EntryType
  BY <1>3 DEF EntryType
<1>5. [c.entry EXCEPT ![p] = e] \in [Pair -> EntryType]
  BY <1>4 DEF CacheType
<1> QED
  BY <1>1, <1>3, <1>5 DEF Admitted, CacheType

LEMMA TouchedIs ==
    ASSUME NEW global, NEW c, Shape(c, global), NEW p \in Pair, Resident(c, p)
    PROVE  /\ Shape(Touched(c, p), global)
           /\ Touched(c, p).active = c.active
           /\ \A q \in Pair : q # p => Touched(c, p).entry[q] = c.entry[q]
           /\ Touched(c, p).entry[p] = [c.entry[p] EXCEPT !.current = TRUE]
<1> DEFINE d == Touched(c, p)
<1>1. c \in CacheType /\ d \in CacheType
  BY TouchedType DEF Shape
<1>2. /\ d.arrival = c.arrival /\ d.recency = Append(RemoveFirst(c.recency, p), p)
      /\ d.entry = [c.entry EXCEPT ![p].current = TRUE] /\ d.active = c.active
  BY <1>1 DEF Touched, Used, CacheType
<1>3. /\ \A q \in Pair : q # p => d.entry[q] = c.entry[q]
      /\ d.entry[p] = [c.entry[p] EXCEPT !.current = TRUE]
  BY <1>1, <1>2 DEF CacheType
<1>4. c.entry[p] \in EntryType
  BY <1>1, EntryFacts
<1>5. \A q \in Pair : /\ d.entry[q].state = c.entry[q].state
                      /\ d.entry[q].pins = c.entry[q].pins
  BY <1>3, <1>4 DEF EntryType
<1>6. Residents(d) = Residents(c)
  BY <1>5 DEF Residents, Resident
<1>7. PICK r : r = RemoveFirst(c.recency, p)
  OBVIOUS
<1>8. r \in Seq(Pair) /\ Distinct(r) /\ ToSet(r) = Residents(c) \ {p}
  <2>1. c.recency \in Seq(Pair) /\ p \in ToSet(c.recency) /\ Distinct(c.recency)
        /\ ToSet(c.recency) = Residents(c)
    BY <1>1, EntryFacts DEF Shape, Residents
  <2> QED
    BY <1>7, <2>1, Without, WithoutType
<1>9. Distinct(Append(r, p)) /\ ToSet(Append(r, p)) = Residents(c)
  <2>1. /\ ToSet(Append(r, p)) = ToSet(r) \cup {p}
        /\ Distinct(r) /\ p \notin ToSet(r) => Distinct(Append(r, p))
    BY <1>8, With
  <2>2. p \in Residents(c)
    BY DEF Residents
  <2> QED
    BY <1>8, <2>1, <2>2
<1>10. Room(d, global)
  <2>1. \A l : OfLayer(d, l) = OfLayer(c, l)
    BY <1>2 DEF OfLayer
  <2> QED
    BY <1>2, <2>1 DEF Shape, Room
<1>11. Shape(d, global)
  BY <1>1, <1>2, <1>5, <1>6, <1>7, <1>9, <1>10 DEF Shape, Resident
<1> QED
  BY <1>2, <1>3, <1>11

LEMMA LayerCount ==
    ASSUME NEW c \in CacheType, NEW l
    PROVE  IsFiniteSet(OfLayer(c, l)) /\ Cardinality(OfLayer(c, l)) \in Nat
<1>1. Len(c.arrival) \in Nat /\ DOMAIN c.arrival = 1..Len(c.arrival)
  BY EntryFacts, LenProperties DEF CacheType
<1>2. IsFiniteSet(ToSet(c.arrival))
  <2>1. PICK f, n : f = c.arrival /\ n = Len(c.arrival)
    OBVIOUS
  <2>2. f \in [1..n -> ToSet(f)] /\ n \in Nat
    <3>1. f \in Seq(Pair)
      BY <2>1 DEF CacheType
    <3> QED
      BY <1>1, <2>1, <3>1 DEF ToSet
  <2>3. f \in Surjection(1..n, ToSet(f))
    BY <1>1, <2>1, <2>2 DEF ToSet, Surjection
  <2>4. ExistsSurjection(1..n, ToSet(f))
    BY <2>3 DEF ExistsSurjection
  <2>5. \E m \in Nat : ExistsSurjection(1..m, ToSet(f))
    BY <2>2, <2>4
  <2> QED
    BY <2>1, <2>5, FS_NatSurjection
<1>3. OfLayer(c, l) \in SUBSET ToSet(c.arrival)
  BY DEF OfLayer
<1> QED
  BY <1>2, <1>3, FS_Subset, FS_CardinalityType

LEMMA RemovedIs ==
    ASSUME NEW global, NEW c, Shape(c, global), NEW p \in Pair, Resident(c, p), ~Busy(c, p)
    PROVE  /\ Shape(Removed(c, p), global)
           /\ Removed(c, p).active = c.active
           /\ \A q \in Pair : q # p => Removed(c, p).entry[q] = c.entry[q]
           /\ Removed(c, p).entry[p] = NoEntry /\ c.entry[p].pins = 0
           /\ Len(Removed(c, p).arrival) = Len(c.arrival) - 1
           /\ Cardinality(OfLayer(Removed(c, p), p[1])) = Cardinality(OfLayer(c, p[1])) - 1
<1> DEFINE d == Removed(c, p)
<1>1. c \in CacheType /\ d \in CacheType
  BY RemovedType DEF Shape
<1>2. /\ d.arrival = RemoveFirst(c.arrival, p) /\ d.recency = RemoveFirst(c.recency, p)
      /\ d.entry = [c.entry EXCEPT ![p] = NoEntry] /\ d.active = c.active
  BY <1>1 DEF Removed, CacheType
<1>3. /\ \A q \in Pair : q # p => d.entry[q] = c.entry[q]
      /\ d.entry[p] = NoEntry
  BY <1>1, <1>2 DEF CacheType
<1>4. c.entry[p].pins = 0
  BY DEF Busy
<1>5. Residents(d) = Residents(c) \ {p}
  BY <1>3 DEF Residents, Resident, NoEntry
<1>6. p \in Residents(c)
  BY DEF Residents
<1>7. /\ Distinct(d.arrival) /\ ToSet(d.arrival) = Residents(c) \ {p}
      /\ Len(d.arrival) = Len(c.arrival) - 1
  <2>1. c.arrival \in Seq(Pair) /\ p \in ToSet(c.arrival) /\ Distinct(c.arrival)
        /\ ToSet(c.arrival) = Residents(c)
    BY <1>1, <1>6, EntryFacts DEF Shape
  <2> QED
    BY <1>2, <2>1, Without
<1>8. Distinct(d.recency) /\ ToSet(d.recency) = Residents(c) \ {p}
  <2>1. c.recency \in Seq(Pair) /\ p \in ToSet(c.recency) /\ Distinct(c.recency)
        /\ ToSet(c.recency) = Residents(c)
    BY <1>1, <1>6, EntryFacts DEF Shape
  <2> QED
    BY <1>2, <2>1, Without
<1>9. \A q \in Pair : ~Resident(d, q) => d.entry[q].pins = 0
  <2>1. SUFFICES ASSUME NEW q \in Pair, ~Resident(d, q) PROVE d.entry[q].pins = 0
    OBVIOUS
  <2>2. CASE q = p
    BY <1>3, <2>2 DEF NoEntry
  <2>3. CASE q # p
    BY <1>3, <2>1, <2>3 DEF Shape, Resident
  <2> QED
    BY <2>2, <2>3
<1>10. \A l : OfLayer(d, l) = OfLayer(c, l) \ {p}
  BY <1>7 DEF OfLayer, Shape
<1>11. \A l : /\ IsFiniteSet(OfLayer(c, l)) /\ Cardinality(OfLayer(c, l)) \in Nat
              /\ Cardinality(OfLayer(d, l)) <= Cardinality(OfLayer(c, l))
  <2>1. SUFFICES ASSUME NEW l
                 PROVE  /\ IsFiniteSet(OfLayer(c, l)) /\ Cardinality(OfLayer(c, l)) \in Nat
                        /\ Cardinality(OfLayer(d, l)) <= Cardinality(OfLayer(c, l))
    OBVIOUS
  <2>2. IsFiniteSet(OfLayer(c, l)) /\ Cardinality(OfLayer(c, l)) \in Nat
    BY <1>1, LayerCount
  <2>3. OfLayer(d, l) \in SUBSET OfLayer(c, l)
    BY <1>10
  <2> QED
    BY <2>2, <2>3, FS_Subset
<1>12. Cardinality(OfLayer(d, p[1])) = Cardinality(OfLayer(c, p[1])) - 1
  <2>1. p \in OfLayer(c, p[1])
    BY <1>6 DEF OfLayer, Shape
  <2> QED
    BY <1>10, <1>11, <2>1, FS_RemoveElement
<1>13. Room(d, global)
  <2>1. CASE global
    <3>1. Len(c.arrival) <= Capacity /\ Len(c.arrival) \in Nat /\ Capacity \in Nat
      BY <1>1, <2>1, LayerFacts, EntryFacts, LenProperties DEF Shape, Room, CacheType
    <3> QED
      BY <1>7, <2>1, <3>1 DEF Room
  <2>2. CASE ~global
    <3>1. ASSUME NEW l \in Layer PROVE Cardinality(OfLayer(d, l)) <= Share
      <4>1. Cardinality(OfLayer(c, l)) <= Share /\ Share \in Nat
        BY <2>2, LayerFacts DEF Shape, Room
      <4>2. Cardinality(OfLayer(d, l)) \in Nat
        BY <1>1, LayerCount
      <4> QED
        BY <1>11, <4>1, <4>2
    <3> QED
      BY <2>2, <3>1 DEF Room
  <2> QED
    BY <2>1, <2>2
<1>14. Shape(d, global)
  BY <1>1, <1>5, <1>7, <1>8, <1>9, <1>13 DEF Shape
<1> QED
  BY <1>2, <1>3, <1>4, <1>7, <1>12, <1>14

HasRoom(c, l, global) ==
    IF global THEN Len(c.arrival) < Capacity ELSE Cardinality(OfLayer(c, l)) < Share

LEMMA AdmittedIs ==
    ASSUME NEW global, NEW c, Shape(c, global), NEW p \in Pair, ~Resident(c, p),
           NEW speculative \in BOOLEAN, NEW confidence \in 0..2, HasRoom(c, p[1], global)
    PROVE  /\ Shape(Admitted(c, p, speculative, confidence), global)
           /\ Admitted(c, p, speculative, confidence).active = c.active
           /\ \A q \in Pair : q # p => Admitted(c, p, speculative, confidence).entry[q] = c.entry[q]
           /\ Admitted(c, p, speculative, confidence).entry[p].state = "loading"
           /\ Admitted(c, p, speculative, confidence).entry[p].pins = 0
           /\ Admitted(c, p, speculative, confidence).entry[p].current
<1> DEFINE d == Admitted(c, p, speculative, confidence)
<1>1. c \in CacheType /\ d \in CacheType
  BY AdmittedType DEF Shape
<1>2. PICK e : e = [state |-> "loading", pins |-> 0, current |-> TRUE,
                    speculative |-> speculative, predicted |-> speculative,
                    confidence |-> IF speculative THEN confidence ELSE 0,
                    retained |-> p[2] \in c.retained[p[1]]]
  OBVIOUS
<1>3. /\ d.arrival = Append(c.arrival, p) /\ d.recency = Append(c.recency, p)
      /\ d.entry = [c.entry EXCEPT ![p] = e] /\ d.active = c.active
  BY <1>1, <1>2 DEF Admitted, CacheType
<1>4. e.state = "loading" /\ e.pins = 0 /\ e.current
  BY <1>2
<1>5. /\ \A q \in Pair : q # p => d.entry[q] = c.entry[q]
      /\ d.entry[p] = e
  BY <1>1, <1>3 DEF CacheType
<1>6. Residents(d) = Residents(c) \cup {p}
  BY <1>4, <1>5 DEF Residents, Resident
<1>7. p \notin Residents(c)
  BY DEF Residents
<1>8. /\ Distinct(d.arrival) /\ ToSet(d.arrival) = Residents(c) \cup {p}
      /\ Len(d.arrival) = Len(c.arrival) + 1
  <2>1. c.arrival \in Seq(Pair) /\ p \notin ToSet(c.arrival) /\ Distinct(c.arrival)
        /\ ToSet(c.arrival) = Residents(c)
    BY <1>1, <1>7, EntryFacts DEF Shape
  <2> QED
    BY <1>3, <2>1, With
<1>9. Distinct(d.recency) /\ ToSet(d.recency) = Residents(c) \cup {p}
  <2>1. c.recency \in Seq(Pair) /\ p \notin ToSet(c.recency) /\ Distinct(c.recency)
        /\ ToSet(c.recency) = Residents(c)
    BY <1>1, <1>7, EntryFacts DEF Shape
  <2> QED
    BY <1>3, <2>1, With
<1>10. \A q \in Pair : ~Resident(d, q) => d.entry[q].pins = 0
  <2>1. SUFFICES ASSUME NEW q \in Pair, ~Resident(d, q) PROVE d.entry[q].pins = 0
    OBVIOUS
  <2>2. CASE q = p
    BY <1>4, <1>5, <2>2
  <2>3. CASE q # p
    BY <1>5, <2>1, <2>3 DEF Shape, Resident
  <2> QED
    BY <2>2, <2>3
<1>11. \A l : OfLayer(d, l) = IF l = p[1] THEN OfLayer(c, l) \cup {p} ELSE OfLayer(c, l)
  BY <1>8 DEF OfLayer, Shape
<1>12. Room(d, global)
  <2>1. CASE global
    <3>1. Len(c.arrival) < Capacity /\ Len(c.arrival) \in Nat /\ Capacity \in Nat
      BY <1>1, <2>1, LayerFacts, EntryFacts, LenProperties DEF HasRoom, CacheType
    <3> QED
      BY <1>8, <2>1, <3>1 DEF Room
  <2>2. CASE ~global
    <3>1. ASSUME NEW l \in Layer PROVE Cardinality(OfLayer(d, l)) <= Share
      <4>1. IsFiniteSet(OfLayer(c, l)) /\ Cardinality(OfLayer(c, l)) \in Nat
        BY <1>1, LayerCount
      <4>2. CASE l = p[1]
        <5>1. Cardinality(OfLayer(c, l)) < Share /\ Share \in Nat
          BY <2>2, <4>2, LayerFacts DEF HasRoom
        <5>2. p \notin OfLayer(c, l)
          BY <1>7 DEF OfLayer, Shape
        <5>3. Cardinality(OfLayer(d, l)) = Cardinality(OfLayer(c, l)) + 1
          BY <1>11, <4>1, <4>2, <5>2, FS_AddElement
        <5> QED
          BY ONLY <4>1, <5>1, <5>3
      <4>3. CASE l # p[1]
        BY <1>11, <2>2, <4>3 DEF Shape, Room
      <4> QED
        BY <4>2, <4>3
    <3> QED
      BY <2>2, <3>1 DEF Room
  <2> QED
    BY <2>1, <2>2
<1>13. Shape(d, global)
  BY <1>1, <1>6, <1>8, <1>9, <1>10, <1>12 DEF Shape
<1> QED
  BY <1>3, <1>4, <1>5, <1>13

(* The victim of the scan of all entries is idle. *)
LEMMA ScanVictim ==
    ASSUME NEW c \in CacheType, setup.global, NEW l
    PROVE  VictimFor(c, l) = NoPair \/ (VictimFor(c, l) \in ToSet(c.arrival) /\ ~Busy(c, VictimFor(c, l)))
<1> DEFINE Eqn(g) == g = [s \in SUBSET (DOMAIN c.arrival) |->
                             IF s = {} THEN NoPair
                             ELSE IF /\ ~Busy(c, c.arrival[Max(s)])
                                     /\ \/ g[s \ {Max(s)}] = NoPair
                                        \/ VictimBefore(c, c.arrival[Max(s)], g[s \ {Max(s)}])
                                  THEN c.arrival[Max(s)] ELSE g[s \ {Max(s)}]]
           h == CHOOSE g : Eqn(g)
<1>1. PICK a, n : a = c.arrival /\ n = Len(c.arrival)
  OBVIOUS
<1>2. a \in Seq(Pair) /\ n \in Nat /\ DOMAIN a = 1..n /\ a \in [1..n -> Pair]
  BY <1>1, LenProperties DEF CacheType
<1>3. PICK S : S = Pair \cup {NoPair}
  OBVIOUS
<1>4. PICK step : step = [i \in 1..n |-> [b \in S |->
                             IF ~Busy(c, a[i]) /\ (b = NoPair \/ VictimBefore(c, a[i], b))
                             THEN a[i] ELSE b]]
  OBVIOUS
<1>5. step \in [1..n -> [S -> S]]
  <2>1. \A i \in 1..n : a[i] \in S
    BY <1>2, <1>3
  <2> QED
    BY <1>4, <2>1
<1>6. PICK f : Iteration(f, S, n, NoPair, step)
  <2>1. NoPair \in S
    BY <1>3
  <2> QED
    BY <1>2, <1>5, <2>1, IterationExists
<1>7. /\ f \in [SUBSET (1..n) -> S]
      /\ \A s \in SUBSET (1..n) :
             f[s] = IF s = {} THEN NoPair ELSE step[Max(s)][f[s \ {Max(s)}]]
  BY <1>6 DEF Iteration
<1>8. ASSUME NEW s \in SUBSET (1..n), s # {}
      PROVE  Max(s) \in 1..n /\ s \ {Max(s)} \in SUBSET (1..n)
  <2>1. Max(s) \in s
    BY <1>2, <1>8, GreatestExists
  <2> QED
    BY <2>1
<1>9. Eqn(f)
  <2>1. ASSUME NEW s \in SUBSET (1..n)
        PROVE  f[s] = IF s = {} THEN NoPair
                      ELSE IF /\ ~Busy(c, a[Max(s)])
                              /\ \/ f[s \ {Max(s)}] = NoPair
                                 \/ VictimBefore(c, a[Max(s)], f[s \ {Max(s)}])
                           THEN a[Max(s)] ELSE f[s \ {Max(s)}]
    <3>1. CASE s = {}
      BY <1>7, <3>1
    <3>2. CASE s # {}
      <4>1. PICK x : x = Max(s)
        OBVIOUS
      <4>2. x \in 1..n /\ f[s \ {x}] \in S
        BY <1>7, <1>8, <3>2, <4>1
      <4>3. f[s] = step[x][f[s \ {x}]]
        BY <1>7, <3>2, <4>1
      <4> QED
        BY <1>4, <3>2, <4>1, <4>2, <4>3
    <3> QED
      BY <3>1, <3>2
  <2> QED
    BY <1>1, <1>2, <1>7, <2>1
<1>10. Eqn(h)
  <2> HIDE DEF Eqn
  <2> QED
    BY <1>9
<1>11. ASSUME NEW s \in SUBSET (1..n)
       PROVE  h[s] = IF s = {} THEN NoPair
                     ELSE IF /\ ~Busy(c, a[Max(s)])
                             /\ \/ h[s \ {Max(s)}] = NoPair
                                \/ VictimBefore(c, a[Max(s)], h[s \ {Max(s)}])
                          THEN a[Max(s)] ELSE h[s \ {Max(s)}]
  <2> HIDE DEF h
  <2>1. s \in SUBSET (DOMAIN c.arrival)
    BY <1>1, <1>2
  <2>2. CASE s = {}
    BY <1>10, <2>1, <2>2
  <2>3. CASE s # {}
    <3>1. h[s] = IF /\ ~Busy(c, c.arrival[Max(s)])
                    /\ \/ h[s \ {Max(s)}] = NoPair
                       \/ VictimBefore(c, c.arrival[Max(s)], h[s \ {Max(s)}])
                 THEN c.arrival[Max(s)] ELSE h[s \ {Max(s)}]
      BY <1>10, <2>1, <2>3
    <3>2. c.arrival[Max(s)] = a[Max(s)]
      BY <1>1
    <3> QED
      BY ONLY <2>3, <3>1, <3>2, Zenon
  <2> QED
    BY <2>2, <2>3
<1>12. VictimFor(c, l) = h[1..n]
  BY <1>1, <1>2 DEF VictimFor, FoldLeft, MapThenFoldSet
<1> DEFINE I == {i \in 0..n : h[1..i] = NoPair \/ (h[1..i] \in ToSet(a) /\ ~Busy(c, h[1..i]))}
<1> HIDE DEF h, Eqn
<1>13. 0 \in I
  <2>1. 1..0 = {} /\ 1..0 \in SUBSET (1..n) /\ 0 \in 0..n
    BY <1>2
  <2> QED
    BY <1>11, <2>1
<1>14. ASSUME NEW i \in 1..n, i - 1 \in I PROVE i \in I
  <2>1. 1..i \in SUBSET (1..n) /\ 1..i # {} /\ Max(1..i) = i /\ (1..i) \ {Max(1..i)} = 1..(i - 1)
    BY <1>2, PlacesUpTo
  <2>2. \/ h[1..i] = a[i] /\ ~Busy(c, a[i])
        \/ h[1..i] = h[1..(i - 1)]
    BY <1>11, <2>1
  <2>3. a[i] \in ToSet(a) /\ i \in 0..n
    BY <1>2 DEF ToSet
  <2> QED
    BY <1>14, <2>2, <2>3
<1>15. n \in I
  <2> HIDE DEF I
  <2>1. \A i \in 0..n : i \in I
    BY <1>2, <1>13, <1>14, AllUpTo
  <2> QED
    BY <1>2, <2>1
<1> QED
  BY <1>1, <1>12, <1>15

(* The oldest of some residents. *)
LEMMA OldestExists ==
    ASSUME NEW c \in CacheType, Distinct(c.recency), NEW S, S # {}, S \subseteq ToSet(c.recency)
    PROVE  \E p \in S : \A q \in S \ {p} : Older(c, p, q)
<1>1. PICK a, n : a = c.recency /\ n = Len(c.recency)
  OBVIOUS
<1>2. a \in Seq(Pair) /\ n \in Nat /\ DOMAIN a = 1..n
  BY <1>1, LenProperties DEF CacheType
<1>3. PICK I : I = {i \in 1..n : a[i] \in S}
  OBVIOUS
<1>4. \A p \in S : \E i \in I : a[i] = p
  BY <1>1, <1>2, <1>3 DEF ToSet
<1>5. I # {} /\ I \in SUBSET Nat
  BY <1>3, <1>4
<1>6. PICK m : m = Min(I)
  OBVIOUS
<1>7. m \in I /\ \A y \in I : m <= y
  BY <1>5, <1>6, LeastExists
<1>8. ASSUME NEW q \in S \ {a[m]} PROVE Older(c, a[m], q)
  <2>1. PICK i \in I : a[i] = q
    BY <1>4
  <2>2. m # i /\ m <= i /\ m \in Int /\ i \in Int
    BY <1>3, <1>7, <1>8, <2>1
  <2>3. m < i
    BY ONLY <2>2
  <2> QED
    BY <1>1, <1>2, <1>3, <1>7, <2>1, <2>3 DEF Older
<1> QED
  BY <1>3, <1>7, <1>8

LEMMA VictimIs ==
    ASSUME NEW c, Shape(c, setup.global), NEW l, VictimFor(c, l) # NoPair
    PROVE  /\ VictimFor(c, l) \in Pair /\ Resident(c, VictimFor(c, l)) /\ ~Busy(c, VictimFor(c, l))
           /\ ~setup.global => VictimFor(c, l)[1] = l
<1>1. c \in CacheType /\ ToSet(c.arrival) = Residents(c) /\ ToSet(c.recency) = Residents(c)
      /\ Distinct(c.recency)
  BY DEF Shape
<1>2. CASE setup.global
  <2>1. VictimFor(c, l) \in Residents(c) /\ ~Busy(c, VictimFor(c, l))
    BY <1>1, <1>2, ScanVictim
  <2> QED
    BY <1>2, <2>1 DEF Residents
<1>3. CASE ~setup.global
  <2> DEFINE S == {p \in OfLayer(c, l) : ~Busy(c, p)}
  <2>1. VictimFor(c, l) = IF S = {} THEN NoPair
                          ELSE CHOOSE p \in S : \A q \in S \ {p} : Older(c, p, q)
    BY <1>3 DEF VictimFor
  <2>2. S \subseteq ToSet(c.recency)
    BY <1>1 DEF OfLayer
  <2>3. VictimFor(c, l) \in S
    <3> HIDE DEF S
    <3>1. S # {}
      BY <2>1
    <3>2. \E p \in S : \A q \in S \ {p} : Older(c, p, q)
      BY <1>1, <2>2, <3>1, OldestExists
    <3> QED
      BY <2>1, <3>1, <3>2
  <2> QED
    BY <1>1, <2>3 DEF OfLayer, Residents
<1> QED
  BY <1>2, <1>3

-----------------------------------------------------------------------------
(***************************************************************************)
(* Reserving and finding.                                                  *)
(***************************************************************************)
LEMMA ReservedType ==
    ASSUME NEW c \in CacheType, NEW p \in Pair, NEW speculative \in BOOLEAN, NEW confidence \in 0..2
    PROVE  Reserved(c, p, speculative, confidence) \in CacheType
<1>1. Removed(c, VictimFor(c, p[1])) \in CacheType
  BY RemovedType
<1>2. /\ Admitted(c, p, speculative, confidence) \in CacheType
      /\ Admitted(Removed(c, VictimFor(c, p[1])), p, speculative, confidence) \in CacheType
  BY <1>1, AdmittedType
<1> QED
  BY <1>2 DEF Reserved

\* Only p becomes resident, and nothing but p and one idle entry changes.
Reserves(c, d, p) ==
    /\ \A q \in Pair : q # p /\ Resident(d, q) => Resident(c, q)
    /\ \A q \in Pair : Resident(c, q) /\ Resident(d, q) => d.entry[q] = c.entry[q]

LEMMA AdmittedFollows ==
    ASSUME NEW global, NEW c, Shape(c, global), NEW p \in Pair, ~Resident(c, p),
           NEW speculative \in BOOLEAN, NEW confidence \in 0..2, HasRoom(c, p[1], global)
    PROVE  /\ Shape(Admitted(c, p, speculative, confidence), global)
           /\ Follows(c, Admitted(c, p, speculative, confidence))
           /\ Spared(c, Admitted(c, p, speculative, confidence))
           /\ Reserves(c, Admitted(c, p, speculative, confidence), p)
<1> DEFINE d == Admitted(c, p, speculative, confidence)
<1>1. /\ Shape(d, global) /\ d.active = c.active
      /\ \A q \in Pair : q # p => d.entry[q] = c.entry[q]
      /\ d.entry[p].state = "loading" /\ d.entry[p].pins = 0 /\ d.entry[p].current
  BY AdmittedIs
<1>2. c.entry[p].state = "absent" /\ c.entry[p].pins = 0
  BY DEF Shape, Resident
<1> HIDE DEF d
<1>3. Follows(c, d)
  <2>1. \A q \in Pair : d.entry[q].pins = c.entry[q].pins
    BY <1>1, <1>2
  <2>2. \A q \in Pair : Busy(c, q) => d.entry[q].state = c.entry[q].state
    BY <1>1, <1>2 DEF Busy
  <2>3. \A q \in Pair : Resident(d, q) /\ (Resident(c, q) => c.entry[q].current)
                            => d.entry[q].current
    BY <1>1 DEF Resident
  <2> QED
    BY <1>1, <2>1, <2>2, <2>3 DEF Follows
<1>4. Spared(c, d)
  BY <1>1, <1>2 DEF Spared, Kept, Contained, Left
<1>5. Reserves(c, d, p)
  BY <1>1, <1>2 DEF Reserves, Resident
<1> QED
  BY <1>1, <1>3, <1>4, <1>5 DEF d

LEMMA RemovedFollows ==
    ASSUME NEW global, NEW c, Shape(c, global), NEW v \in Pair, Resident(c, v), ~Busy(c, v)
    PROVE  /\ Shape(Removed(c, v), global) /\ Follows(c, Removed(c, v))
           /\ ~Kept(c, v) => Spared(c, Removed(c, v))
           /\ \A p : Reserves(c, Removed(c, v), p)
           /\ ~Resident(Removed(c, v), v)
<1> DEFINE d == Removed(c, v)
<1>1. /\ Shape(d, global) /\ d.active = c.active
      /\ \A q \in Pair : q # v => d.entry[q] = c.entry[q]
      /\ d.entry[v] = NoEntry /\ c.entry[v].pins = 0
  BY RemovedIs
<1>2. d.entry[v].state = "absent" /\ d.entry[v].pins = 0
  BY <1>1 DEF NoEntry
<1> HIDE DEF d
<1>3. Follows(c, d)
  <2>1. \A q \in Pair : d.entry[q].pins = c.entry[q].pins
    BY <1>1, <1>2
  <2>2. \A q \in Pair : Busy(c, q) => d.entry[q].state = c.entry[q].state
    BY <1>1
  <2>3. \A q \in Pair : Resident(d, q) /\ (Resident(c, q) => c.entry[q].current)
                            => d.entry[q].current
    BY <1>1, <1>2 DEF Resident
  <2> QED
    BY <1>1, <2>1, <2>2, <2>3 DEF Follows
<1>4. ~Kept(c, v) => Spared(c, d)
  BY <1>1, <1>2 DEF Spared, Kept, Contained, Left
<1>5. \A p : Reserves(c, d, p)
  BY <1>1, <1>2 DEF Reserves, Resident
<1> QED
  BY <1>1, <1>2, <1>3, <1>4, <1>5 DEF d, Resident

LEMMA ReservedIs ==
    ASSUME setup.global \in BOOLEAN, NEW c, Shape(c, setup.global), NEW p \in Pair, ~Resident(c, p),
           NEW speculative \in BOOLEAN, NEW confidence \in 0..2
    PROVE  /\ Shape(Reserved(c, p, speculative, confidence), setup.global)
           /\ Follows(c, Reserved(c, p, speculative, confidence))
           /\ speculative => Spared(c, Reserved(c, p, speculative, confidence))
           /\ Reserves(c, Reserved(c, p, speculative, confidence), p)
<1> DEFINE d == Reserved(c, p, speculative, confidence)
           v == VictimFor(c, p[1])
<1>1. c \in CacheType /\ p[1] \in Layer
  BY LayerFacts DEF Shape
<1>2. /\ Len(c.arrival) \in Nat /\ Capacity \in Nat /\ Share \in Nat
      /\ Cardinality(OfLayer(c, p[1])) \in Nat
  BY <1>1, LayerFacts, LayerCount, LenProperties DEF CacheType
<1>3. IF setup.global THEN Len(c.arrival) <= Capacity ELSE Cardinality(OfLayer(c, p[1])) <= Share
  BY <1>1 DEF Shape, Room
<1>4. CASE ~Full(c, p[1])
  <2>1. HasRoom(c, p[1], setup.global)
    BY <1>2, <1>3, <1>4 DEF Full, HasRoom
  <2>2. d = Admitted(c, p, speculative, confidence)
    BY <1>4 DEF Reserved
  <2> QED
    BY <2>1, <2>2, AdmittedFollows
<1>5. CASE Full(c, p[1]) /\ (v = NoPair \/ (speculative /\ ~Spare(c, v, confidence)))
  <2>1. d = c
    BY <1>5 DEF Reserved
  <2> QED
    BY <2>1, FollowsSelf DEF Reserves
<1>6. CASE Full(c, p[1]) /\ ~(v = NoPair \/ (speculative /\ ~Spare(c, v, confidence)))
  <2>1. PICK w : w = v
    OBVIOUS
  <2>2. /\ w \in Pair /\ Resident(c, w) /\ ~Busy(c, w) /\ (~setup.global => w[1] = p[1])
        /\ w # p
    BY <1>6, <2>1, VictimIs
  <2>3. PICK r : r = Removed(c, w)
    OBVIOUS
  <2>4. d = Admitted(r, p, speculative, confidence)
    BY <1>6, <2>1, <2>3 DEF Reserved
  <2>5. /\ Shape(r, setup.global) /\ Follows(c, r) /\ (~Kept(c, w) => Spared(c, r))
        /\ Reserves(c, r, p)
    BY <2>2, <2>3, RemovedFollows
  <2>6. /\ Len(r.arrival) = Len(c.arrival) - 1 /\ r.entry[p] = c.entry[p]
        /\ Cardinality(OfLayer(r, w[1])) = Cardinality(OfLayer(c, w[1])) - 1
    BY <2>2, <2>3, RemovedIs
  <2>7. HasRoom(r, p[1], setup.global)
    <3>1. CASE setup.global
      BY <1>2, <1>3, <2>6, <3>1 DEF HasRoom
    <3>2. CASE ~setup.global
      <4>1. Cardinality(OfLayer(r, p[1])) = Cardinality(OfLayer(c, p[1])) - 1
        BY <2>2, <2>6, <3>2
      <4> QED
        BY <1>2, <1>3, <3>2, <4>1 DEF HasRoom
    <3> QED
      BY <3>1, <3>2
  <2>8. ~Resident(r, p)
    BY <2>6 DEF Resident
  <2>9. Shape(d, setup.global) /\ Follows(r, d) /\ Spared(r, d) /\ Reserves(r, d, p)
    BY <2>4, <2>5, <2>7, <2>8, AdmittedFollows
  <2>10. Follows(c, d)
    BY <2>5, <2>9, FollowsOn
  <2>11. speculative => Spared(c, d)
    <3>1. speculative => ~Kept(c, w)
      BY <1>6, <2>1 DEF Spare, Kept, Stale
    <3> QED
      BY <2>5, <2>9, <3>1, SparedOn
  <2>12. Reserves(c, d, p)
    <3>1. \A q \in Pair : q # p /\ Resident(d, q) => Resident(c, q)
      BY <2>5, <2>9 DEF Reserves
    <3>2. ASSUME NEW q \in Pair, Resident(c, q), Resident(d, q) PROVE d.entry[q] = c.entry[q]
      <4>1. q # p
        BY <3>2
      <4>2. Resident(r, q)
        BY <2>9, <3>2, <4>1 DEF Reserves
      <4> QED
        BY <2>5, <2>9, <3>2, <4>2 DEF Reserves
    <3> QED
      BY <3>1, <3>2 DEF Reserves
  <2> QED
    BY <2>9, <2>10, <2>11, <2>12
<1> QED
  BY <1>4, <1>5, <1>6

(* A change that leaves alone what is resident. *)
LEMMA SameShape ==
    ASSUME NEW global, NEW c, Shape(c, global), NEW d \in CacheType,
           d.arrival = c.arrival, d.recency = c.recency,
           \A q \in Pair : Resident(d, q) <=> Resident(c, q),
           \A q \in Pair : ~Resident(c, q) => d.entry[q].pins = 0
    PROVE  Shape(d, global)
<1>1. Residents(d) = Residents(c)
  BY DEF Residents
<1>2. Room(d, global)
  <2>1. \A l : OfLayer(d, l) = OfLayer(c, l)
    BY DEF OfLayer
  <2> QED
    BY <2>1 DEF Shape, Room
<1> QED
  BY <1>1, <1>2 DEF Shape

Predicted(c, p, confidence) ==
    [c EXCEPT !.entry[p].predicted = TRUE,
              !.entry[p].confidence = IF @ < confidence THEN confidence ELSE @]

LEMMA PredictedIs ==
    ASSUME NEW c \in CacheType, NEW p \in Pair, NEW confidence \in 0..2
    PROVE  /\ Predicted(c, p, confidence) \in CacheType
           /\ Predicted(c, p, confidence).arrival = c.arrival
           /\ Predicted(c, p, confidence).recency = c.recency
           /\ Predicted(c, p, confidence).active = c.active
           /\ \A q \in Pair :
                  /\ Predicted(c, p, confidence).entry[q].state = c.entry[q].state
                  /\ Predicted(c, p, confidence).entry[q].pins = c.entry[q].pins
                  /\ Predicted(c, p, confidence).entry[q].current = c.entry[q].current
                  /\ Predicted(c, p, confidence).entry[q].speculative = c.entry[q].speculative
<1> DEFINE d == Predicted(c, p, confidence)
<1>1. PICK e : e = [c.entry[p] EXCEPT !.predicted = TRUE,
                                      !.confidence = IF @ < confidence THEN confidence ELSE @]
  OBVIOUS
<1>2. c.entry[p] \in EntryType /\ c.entry \in [Pair -> EntryType]
  BY EntryFacts
<1>3. /\ e \in EntryType /\ e.state = c.entry[p].state /\ e.pins = c.entry[p].pins
      /\ e.current = c.entry[p].current /\ e.speculative = c.entry[p].speculative
  BY <1>1, <1>2 DEF EntryType
<1>4. /\ d.entry = [c.entry EXCEPT ![p] = e]
      /\ d.arrival = c.arrival /\ d.recency = c.recency /\ d.active = c.active
      /\ d.width = c.width /\ d.retained = c.retained
  BY <1>1, <1>2 DEF Predicted, CacheType, EntryType
<1>5. d.entry \in [Pair -> EntryType] /\ \A q \in Pair : d.entry[q] = IF q = p THEN e ELSE c.entry[q]
  BY <1>2, <1>3, <1>4
<1>6. d \in CacheType
  BY <1>4, <1>5 DEF Predicted, CacheType
<1> QED
  BY <1>3, <1>4, <1>5, <1>6

LEMMA FoundType ==
    ASSUME NEW c \in CacheType, NEW p \in Pair, NEW speculative \in BOOLEAN, NEW confidence \in 0..2
    PROVE  Found(c, p, speculative, confidence) \in CacheType
<1>1. Removed(c, p) \in CacheType /\ Touched(c, p) \in CacheType
  BY RemovedType, TouchedType
<1>2. Predicted(Touched(c, p), p, confidence) \in CacheType
  BY <1>1, PredictedIs
<1> QED
  BY <1>1, <1>2 DEF Found, Predicted

LEMMA TouchedFollows ==
    ASSUME NEW global, NEW c, Shape(c, global), NEW p \in Pair, Resident(c, p)
    PROVE  /\ Shape(Touched(c, p), global)
           /\ Follows(c, Touched(c, p)) /\ Spared(c, Touched(c, p))
           /\ Touched(c, p).entry[p].current
           /\ \A q \in Pair : Touched(c, p).entry[q].state = c.entry[q].state
<1> DEFINE d == Touched(c, p)
<1>1. /\ Shape(d, global) /\ d.active = c.active
      /\ \A q \in Pair : q # p => d.entry[q] = c.entry[q]
      /\ d.entry[p] = [c.entry[p] EXCEPT !.current = TRUE]
  BY TouchedIs
<1>2. c.entry[p] \in EntryType
  BY EntryFacts DEF Shape
<1>3. /\ d.entry[p].state = c.entry[p].state /\ d.entry[p].pins = c.entry[p].pins
      /\ d.entry[p].current /\ d.entry[p].speculative = c.entry[p].speculative
  BY <1>1, <1>2 DEF EntryType
<1> HIDE DEF d
<1>4. Follows(c, d)
  BY <1>1, <1>3 DEF Follows, Resident
<1>5. Spared(c, d)
  BY <1>1, <1>3 DEF Spared, Kept, Contained, Left
<1> QED
  BY <1>1, <1>3, <1>4, <1>5 DEF d

LEMMA FoundIs ==
    ASSUME NEW global, NEW c, Shape(c, global), NEW p \in Pair, NEW speculative \in BOOLEAN,
           NEW confidence \in 0..2
    PROVE  /\ Shape(Found(c, p, speculative, confidence), global)
           /\ Follows(c, Found(c, p, speculative, confidence))
           /\ Spared(c, Found(c, p, speculative, confidence))
           /\ Resident(Found(c, p, speculative, confidence), p)
                  => Found(c, p, speculative, confidence).entry[p].current
<1> DEFINE d == Found(c, p, speculative, confidence)
<1>1. CASE c.entry[p].state = "failed" /\ ~Busy(c, p)
  <2>1. d = Removed(c, p)
    BY <1>1 DEF Found
  <2>2. Resident(c, p) /\ ~Kept(c, p)
    BY <1>1 DEF Resident, Kept, Contained
  <2> QED
    BY <1>1, <2>1, <2>2, RemovedFollows
<1>2. CASE ~(c.entry[p].state = "failed" /\ ~Busy(c, p)) /\ ~Resident(c, p)
  <2>1. d = c
    BY <1>2 DEF Found
  <2> QED
    BY <1>2, <2>1, FollowsSelf
<1>3. CASE ~(c.entry[p].state = "failed" /\ ~Busy(c, p)) /\ Resident(c, p)
  <2>1. PICK t : t = Touched(c, p)
    OBVIOUS
  <2>2. Shape(t, global) /\ Follows(c, t) /\ Spared(c, t) /\ t.entry[p].current
    BY <1>3, <2>1, TouchedFollows
  <2>3. CASE ~speculative
    <3>1. d = t
      BY <1>3, <2>1, <2>3 DEF Found
    <3> QED
      BY <2>2, <3>1
  <2>4. CASE speculative
    <3>1. PICK u : u = Predicted(t, p, confidence)
      OBVIOUS
    <3>2. d = u
      BY <1>3, <2>1, <2>4, <3>1 DEF Found, Predicted
    <3>3. t \in CacheType
      BY <2>2 DEF Shape
    <3>4. /\ u \in CacheType /\ u.arrival = t.arrival /\ u.recency = t.recency
          /\ u.active = t.active
          /\ \A q \in Pair : /\ u.entry[q].state = t.entry[q].state
                             /\ u.entry[q].pins = t.entry[q].pins
                             /\ u.entry[q].current = t.entry[q].current
                             /\ u.entry[q].speculative = t.entry[q].speculative
      BY <3>1, <3>3, PredictedIs
    <3>5. \A q \in Pair : Resident(u, q) <=> Resident(t, q)
      BY <3>4 DEF Resident
    <3>6. \A q \in Pair : ~Resident(t, q) => u.entry[q].pins = 0
      BY <2>2, <3>4 DEF Shape
    <3>7. Shape(u, global)
      BY <2>2, <3>4, <3>5, <3>6, SameShape
    <3>8. Follows(t, u)
      BY <3>4, <3>5 DEF Follows
    <3>9. Spared(t, u)
      BY <3>4 DEF Spared, Kept, Contained, Left
    <3> QED
      BY <2>2, <3>2, <3>4, <3>7, <3>8, <3>9, FollowsOn, SparedOn
  <2> QED
    BY <2>3, <2>4
<1> QED
  BY <1>1, <1>2, <1>3

(* All that is asked for is looked up. *)
FoundAll(start, places, l, ids, speculative, confidence) ==
    FoldLeftDomain(LAMBDA acc, i : IF i \in places
                                   THEN Found(acc, <<l, ids[i]>>, speculative, confidence[i])
                                   ELSE acc,
                   start, ids)

LEMMA FoundAllIs ==
    ASSUME NEW global, NEW start, Shape(start, global), NEW l \in Layer, NEW ids \in Seq(ExpertId),
           NEW places, NEW speculative \in BOOLEAN, NEW confidence,
           \A i \in 1..Len(ids) : confidence[i] \in 0..2,
           NEW d, d = FoundAll(start, places, l, ids, speculative, confidence)
    PROVE  /\ Shape(d, global) /\ Follows(start, d) /\ Spared(start, d)
           /\ \A i \in 1..Len(ids) : i \in places /\ Resident(d, <<l, ids[i]>>)
                                         => d.entry[<<l, ids[i]>>].current
<1> DEFINE Eqn(g) == g = [s \in SUBSET (DOMAIN [i \in DOMAIN ids |-> i]) |->
                             IF s = {} THEN start
                             ELSE IF [i \in DOMAIN ids |-> i][Max(s)] \in places
                                     THEN Found(g[s \ {Max(s)}], <<l, ids[[i \in DOMAIN ids |-> i][Max(s)]]>>,
                                                speculative, confidence[[i \in DOMAIN ids |-> i][Max(s)]])
                                     ELSE g[s \ {Max(s)}]]
           h == CHOOSE g : Eqn(g)
<1>1. PICK n : n = Len(ids)
  OBVIOUS
<1>2. n \in Nat /\ DOMAIN ids = 1..n /\ \A i \in 1..n : <<l, ids[i]>> \in Pair
  BY <1>1, LenProperties DEF Pair
<1>3. PICK step : step = [i \in 1..n |-> [x \in CacheType |->
        IF i \in places
           THEN Found(x, <<l, ids[i]>>, speculative, confidence[i])
           ELSE x]]
  OBVIOUS
<1>4. step \in [1..n -> [CacheType -> CacheType]]
  <2>1. ASSUME NEW i \in 1..n, NEW x \in CacheType
        PROVE  Found(x, <<l, ids[i]>>, speculative, confidence[i]) \in CacheType
    BY <1>2, FoundType
  <2> QED
    BY <1>3, <2>1
<1>5. start \in CacheType
  BY DEF Shape
<1>6. PICK f : Iteration(f, CacheType, n, start, step)
  BY <1>2, <1>4, <1>5, IterationExists
<1>7. /\ f \in [SUBSET (1..n) -> CacheType]
      /\ \A s \in SUBSET (1..n) :
             f[s] = IF s = {} THEN start ELSE step[Max(s)][f[s \ {Max(s)}]]
  BY <1>6 DEF Iteration
<1>8. DOMAIN [i \in DOMAIN ids |-> i] = 1..n
  BY <1>2
<1>9. ASSUME NEW s \in SUBSET (1..n), s # {}
      PROVE  /\ Max(s) \in 1..n /\ s \ {Max(s)} \in SUBSET (1..n)
             /\ [i \in DOMAIN ids |-> i][Max(s)] = Max(s)
  <2>1. Max(s) \in s
    BY <1>2, <1>9, GreatestExists
  <2> QED
    BY <1>2, <2>1
<1>10. Eqn(f)
  <2>1. ASSUME NEW s \in SUBSET (1..n)
        PROVE  f[s] = IF s = {} THEN start
                      ELSE IF [i \in DOMAIN ids |-> i][Max(s)] \in places
                              THEN Found(f[s \ {Max(s)}], <<l, ids[[i \in DOMAIN ids |-> i][Max(s)]]>>,
                                         speculative, confidence[[i \in DOMAIN ids |-> i][Max(s)]])
                              ELSE f[s \ {Max(s)}]
    <3>1. CASE s = {}
      BY <1>7, <3>1
    <3>2. CASE s # {}
      <4>1. PICK x : x = Max(s)
        OBVIOUS
      <4>2. x \in 1..n /\ f[s \ {x}] \in CacheType /\ [i \in DOMAIN ids |-> i][x] = x
        BY <1>7, <1>9, <3>2, <4>1
      <4>3. f[s] = step[x][f[s \ {x}]]
        BY <1>7, <3>2, <4>1
      <4>4. f[s] =
              IF x \in places
                 THEN Found(f[s \ {x}], <<l, ids[x]>>, speculative, confidence[x])
                 ELSE f[s \ {x}]
        BY <1>3, <4>2, <4>3
      <4> QED
        BY <3>2, <4>1, <4>2, <4>4
    <3> QED
      BY <3>1, <3>2
  <2> QED
    BY <1>7, <1>8, <2>1
<1>11. Eqn(h)
  <2> HIDE DEF Eqn
  <2> QED
    BY <1>10
<1>12. ASSUME NEW s \in SUBSET (1..n)
       PROVE  h[s] = IF s = {} THEN start
                     ELSE IF Max(s) \in places
                             THEN Found(h[s \ {Max(s)}], <<l, ids[Max(s)]>>,
                                        speculative, confidence[Max(s)])
                             ELSE h[s \ {Max(s)}]
  <2>1. s \in SUBSET (DOMAIN [i \in DOMAIN ids |-> i])
    BY <1>8
  <2>2. CASE s = {}
    BY <1>11, <2>1, <2>2
  <2>3. CASE s # {}
    <3>1. PICK x : x = [i \in DOMAIN ids |-> i][Max(s)]
      OBVIOUS
    <3>2. x = Max(s)
      BY <1>9, <2>3, <3>1
    <3>3. h[s] =
            IF [i \in DOMAIN ids |-> i][Max(s)] \in places
               THEN Found(h[s \ {Max(s)}], <<l, ids[[i \in DOMAIN ids |-> i][Max(s)]]>>,
                          speculative, confidence[[i \in DOMAIN ids |-> i][Max(s)]])
               ELSE h[s \ {Max(s)}]
      BY <1>11, <2>1, <2>3
    <3>4. h[s] =
            IF x \in places
               THEN Found(h[s \ {Max(s)}], <<l, ids[x]>>, speculative, confidence[x])
               ELSE h[s \ {Max(s)}]
      BY <3>1, <3>3
    <3> HIDE DEF h, Eqn
    <3> QED
      BY <2>3, <3>2, <3>4
  <2> QED
    BY <2>2, <2>3
<1>13. FoundAll(start, places, l, ids, speculative, confidence) = h[1..n]
  BY <1>8 DEF FoundAll, FoldLeftDomain, FoldLeft, MapThenFoldSet
<1> DEFINE I == {i \in 0..n : /\ Shape(h[1..i], global) /\ Follows(start, h[1..i]) /\ Spared(start, h[1..i])
                              /\ \A j \in 1..n : j <= i /\ j \in places
                                     /\ Resident(h[1..i], <<l, ids[j]>>)
                                         => h[1..i].entry[<<l, ids[j]>>].current}
<1> HIDE DEF h, Eqn
<1>14. 0 \in I
  <2>1. 1..0 = {} /\ 1..0 \in SUBSET (1..n) /\ 0 \in 0..n /\ \A j \in 1..n : ~(j <= 0)
    BY <1>2
  <2>2. h[1..0] = start
    BY <1>12, <2>1
  <2> QED
    BY <1>2, <2>1, <2>2, FollowsSelf
<1>15. ASSUME NEW i \in 1..n, i - 1 \in I PROVE i \in I
  <2>1. 1..i \in SUBSET (1..n) /\ 1..i # {} /\ Max(1..i) = i /\ (1..i) \ {Max(1..i)} = 1..(i - 1)
    BY <1>2, PlacesUpTo
  <2>2. PICK b : b = h[1..(i - 1)]
    OBVIOUS
  <2>3. h[1..i] = IF i \in places THEN Found(b, <<l, ids[i]>>, speculative, confidence[i]) ELSE b
    BY <1>12, <2>1, <2>2
  <2>4. i \in 0..n /\ <<l, ids[i]>> \in Pair /\ \A j \in 1..n : j <= i <=> (j <= i - 1 \/ j = i)
    BY <1>2
  <2>5. /\ Shape(b, global) /\ Follows(start, b) /\ Spared(start, b)
        /\ \A j \in 1..n : j <= i - 1 /\ j \in places /\ Resident(b, <<l, ids[j]>>)
                               => b.entry[<<l, ids[j]>>].current
    BY <1>15, <2>2
  <2>6. CASE i \in places
    <3>1. PICK d2 : d2 = Found(b, <<l, ids[i]>>, speculative, confidence[i])
      OBVIOUS
    <3>2. /\ Shape(d2, global) /\ Follows(b, d2) /\ Spared(b, d2)
          /\ Resident(d2, <<l, ids[i]>>) => d2.entry[<<l, ids[i]>>].current
      BY <1>1, <2>4, <2>5, <3>1, FoundIs
    <3>3. \A p \in Pair : Resident(d2, p) /\ (Resident(b, p) => b.entry[p].current)
                              => d2.entry[p].current
      BY <3>2 DEF Follows
    <3>4. \A j \in 1..n : j <= i /\ j \in places /\ Resident(d2, <<l, ids[j]>>)
                               => d2.entry[<<l, ids[j]>>].current
      BY <1>2, <2>4, <2>5, <3>2, <3>3
    <3>5. Follows(start, d2) /\ Spared(start, d2)
      BY <2>5, <3>2, FollowsOn, SparedOn
    <3>6. h[1..i] = d2
      BY <2>3, <2>6, <3>1
    <3> QED
      BY <2>4, <3>2, <3>4, <3>5, <3>6
  <2>7. CASE i \notin places
    <3>1. h[1..i] = b
      BY <2>3, <2>7
    <3> QED
      BY <2>4, <2>5, <2>7, <3>1
  <2> QED
    BY <2>6, <2>7
<1>16. n \in I
  <2> HIDE DEF I
  <2>1. \A i \in 0..n : i \in I
    BY <1>2, <1>14, <1>15, AllUpTo
  <2> QED
    BY <1>2, <2>1
<1> QED
  BY <1>1, <1>2, <1>13, <1>16

(* All that is missing is reserved. *)
ReservedAll(start, places, l, ids, speculative, confidence) ==
    FoldLeftDomain(LAMBDA acc, i : IF i \in places
                                   THEN Reserved(acc, <<l, ids[i]>>, speculative, confidence[i])
                                   ELSE acc,
                   start, ids)

LEMMA ReservedAllIs ==
    ASSUME setup.global \in BOOLEAN, NEW start, Shape(start, setup.global), NEW l \in Layer,
           NEW ids \in Seq(ExpertId), NEW places, NEW speculative \in BOOLEAN, NEW confidence,
           \A i \in 1..Len(ids) : confidence[i] \in 0..2,
           \A i \in 1..Len(ids) : i \in places => ~Resident(start, <<l, ids[i]>>),
           \A i, j \in 1..Len(ids) : i \in places /\ j \in places /\ ids[i] = ids[j] => i = j,
           NEW d, d = ReservedAll(start, places, l, ids, speculative, confidence)
    PROVE  Shape(d, setup.global) /\ Follows(start, d) /\ (speculative => Spared(start, d))
<1> DEFINE Eqn(g) == g = [s \in SUBSET (DOMAIN [i \in DOMAIN ids |-> i]) |->
                             IF s = {} THEN start
                             ELSE IF [i \in DOMAIN ids |-> i][Max(s)] \in places
                                     THEN Reserved(g[s \ {Max(s)}], <<l, ids[[i \in DOMAIN ids |-> i][Max(s)]]>>,
                                                speculative, confidence[[i \in DOMAIN ids |-> i][Max(s)]])
                                     ELSE g[s \ {Max(s)}]]
           h == CHOOSE g : Eqn(g)
<1>1. PICK n : n = Len(ids)
  OBVIOUS
<1>2. n \in Nat /\ DOMAIN ids = 1..n /\ \A i \in 1..n : <<l, ids[i]>> \in Pair
  BY <1>1, LenProperties DEF Pair
<1>3. PICK step : step = [i \in 1..n |-> [x \in CacheType |->
        IF i \in places
           THEN Reserved(x, <<l, ids[i]>>, speculative, confidence[i])
           ELSE x]]
  OBVIOUS
<1>4. step \in [1..n -> [CacheType -> CacheType]]
  <2>1. ASSUME NEW i \in 1..n, NEW x \in CacheType
        PROVE  Reserved(x, <<l, ids[i]>>, speculative, confidence[i]) \in CacheType
    BY <1>2, ReservedType
  <2> QED
    BY <1>3, <2>1
<1>5. start \in CacheType
  BY DEF Shape
<1>6. PICK f : Iteration(f, CacheType, n, start, step)
  BY <1>2, <1>4, <1>5, IterationExists
<1>7. /\ f \in [SUBSET (1..n) -> CacheType]
      /\ \A s \in SUBSET (1..n) :
             f[s] = IF s = {} THEN start ELSE step[Max(s)][f[s \ {Max(s)}]]
  BY <1>6 DEF Iteration
<1>8. DOMAIN [i \in DOMAIN ids |-> i] = 1..n
  BY <1>2
<1>9. ASSUME NEW s \in SUBSET (1..n), s # {}
      PROVE  /\ Max(s) \in 1..n /\ s \ {Max(s)} \in SUBSET (1..n)
             /\ [i \in DOMAIN ids |-> i][Max(s)] = Max(s)
  <2>1. Max(s) \in s
    BY <1>2, <1>9, GreatestExists
  <2> QED
    BY <1>2, <2>1
<1>10. Eqn(f)
  <2>1. ASSUME NEW s \in SUBSET (1..n)
        PROVE  f[s] = IF s = {} THEN start
                      ELSE IF [i \in DOMAIN ids |-> i][Max(s)] \in places
                              THEN Reserved(f[s \ {Max(s)}], <<l, ids[[i \in DOMAIN ids |-> i][Max(s)]]>>,
                                         speculative, confidence[[i \in DOMAIN ids |-> i][Max(s)]])
                              ELSE f[s \ {Max(s)}]
    <3>1. CASE s = {}
      BY <1>7, <3>1
    <3>2. CASE s # {}
      <4>1. PICK x : x = Max(s)
        OBVIOUS
      <4>2. x \in 1..n /\ f[s \ {x}] \in CacheType /\ [i \in DOMAIN ids |-> i][x] = x
        BY <1>7, <1>9, <3>2, <4>1
      <4>3. f[s] = step[x][f[s \ {x}]]
        BY <1>7, <3>2, <4>1
      <4>4. f[s] =
              IF x \in places
                 THEN Reserved(f[s \ {x}], <<l, ids[x]>>, speculative, confidence[x])
                 ELSE f[s \ {x}]
        BY <1>3, <4>2, <4>3
      <4> QED
        BY <3>2, <4>1, <4>2, <4>4
    <3> QED
      BY <3>1, <3>2
  <2> QED
    BY <1>7, <1>8, <2>1
<1>11. Eqn(h)
  <2> HIDE DEF Eqn
  <2> QED
    BY <1>10
<1>12. ASSUME NEW s \in SUBSET (1..n)
       PROVE  h[s] = IF s = {} THEN start
                     ELSE IF Max(s) \in places
                             THEN Reserved(h[s \ {Max(s)}], <<l, ids[Max(s)]>>,
                                        speculative, confidence[Max(s)])
                             ELSE h[s \ {Max(s)}]
  <2>1. s \in SUBSET (DOMAIN [i \in DOMAIN ids |-> i])
    BY <1>8
  <2>2. CASE s = {}
    BY <1>11, <2>1, <2>2
  <2>3. CASE s # {}
    <3>1. PICK x : x = [i \in DOMAIN ids |-> i][Max(s)]
      OBVIOUS
    <3>2. x = Max(s)
      BY <1>9, <2>3, <3>1
    <3>3. h[s] =
            IF [i \in DOMAIN ids |-> i][Max(s)] \in places
               THEN Reserved(h[s \ {Max(s)}], <<l, ids[[i \in DOMAIN ids |-> i][Max(s)]]>>,
                          speculative, confidence[[i \in DOMAIN ids |-> i][Max(s)]])
               ELSE h[s \ {Max(s)}]
      BY <1>11, <2>1, <2>3
    <3>4. h[s] =
            IF x \in places
               THEN Reserved(h[s \ {Max(s)}], <<l, ids[x]>>, speculative, confidence[x])
               ELSE h[s \ {Max(s)}]
      BY <3>1, <3>3
    <3> HIDE DEF h, Eqn
    <3> QED
      BY <2>3, <3>2, <3>4
  <2> QED
    BY <2>2, <2>3
<1>13. ReservedAll(start, places, l, ids, speculative, confidence) = h[1..n]
  BY <1>8 DEF ReservedAll, FoldLeftDomain, FoldLeft, MapThenFoldSet
<1> DEFINE I == {i \in 0..n : /\ Shape(h[1..i], setup.global) /\ Follows(start, h[1..i])
                              /\ speculative => Spared(start, h[1..i])
                              /\ \A j \in 1..n : ~(j <= i) /\ j \in places
                                     => ~Resident(h[1..i], <<l, ids[j]>>)}
<1> HIDE DEF h, Eqn
<1>14. 0 \in I
  <2>1. 1..0 = {} /\ 1..0 \in SUBSET (1..n) /\ 0 \in 0..n /\ \A j \in 1..n : ~(j <= 0)
    BY <1>2
  <2>2. h[1..0] = start
    BY <1>12, <2>1
  <2> QED
    BY <1>2, <2>1, <2>2, <1>1, FollowsSelf
<1>15. ASSUME NEW i \in 1..n, i - 1 \in I PROVE i \in I
  <2>1. 1..i \in SUBSET (1..n) /\ 1..i # {} /\ Max(1..i) = i /\ (1..i) \ {Max(1..i)} = 1..(i - 1)
    BY <1>2, PlacesUpTo
  <2>2. PICK b : b = h[1..(i - 1)]
    OBVIOUS
  <2>3. h[1..i] = IF i \in places THEN Reserved(b, <<l, ids[i]>>, speculative, confidence[i]) ELSE b
    BY <1>12, <2>1, <2>2
  <2>4. i \in 0..n /\ <<l, ids[i]>> \in Pair /\ \A j \in 1..n : j <= i <=> (j <= i - 1 \/ j = i)
    BY <1>2
  <2>5. /\ Shape(b, setup.global) /\ Follows(start, b)
        /\ speculative => Spared(start, b)
        /\ \A j \in 1..n : ~(j <= i - 1) /\ j \in places => ~Resident(b, <<l, ids[j]>>)
    BY <1>15, <2>2
  <2>6. CASE i \in places
    <3>1. PICK p : p = <<l, ids[i]>>
      OBVIOUS
    <3>2. PICK d2 : d2 = Reserved(b, p, speculative, confidence[i])
      OBVIOUS
    <3>3. ~(i <= i - 1)
      BY <1>2
    <3>4. p \in Pair /\ ~Resident(b, p)
      BY <2>4, <2>5, <2>6, <3>1, <3>3
    <3>5. /\ Shape(d2, setup.global) /\ Follows(b, d2) /\ (speculative => Spared(b, d2))
          /\ Reserves(b, d2, p)
      BY <1>1, <2>5, <3>2, <3>4, ReservedIs
    <3>6. ASSUME NEW j \in 1..n, ~(j <= i), j \in places PROVE ~Resident(d2, <<l, ids[j]>>)
      <4>1. ~(j <= i - 1) /\ j # i
        BY <2>4, <3>6
      <4>2. ids[j] # ids[i]
        BY <1>1, <2>6, <3>6, <4>1
      <4>3. <<l, ids[j]>> # p /\ <<l, ids[j]>> \in Pair
        BY <1>2, <3>1, <4>2
      <4> QED
        BY <2>5, <3>5, <3>6, <4>1, <4>3 DEF Reserves
    <3>7. Follows(start, d2) /\ (speculative => Spared(start, d2))
      BY <2>5, <3>5, FollowsOn, SparedOn
    <3>8. h[1..i] = d2
      BY <2>3, <2>6, <3>1, <3>2
    <3> QED
      BY <2>4, <3>5, <3>6, <3>7, <3>8
  <2>7. CASE i \notin places
    <3>1. h[1..i] = b
      BY <2>3, <2>7
    <3> QED
      BY <2>4, <2>5, <2>7, <3>1
  <2> QED
    BY <2>6, <2>7
<1>16. n \in I
  <2> HIDE DEF I
  <2>1. \A i \in 0..n : i \in I
    BY <1>2, <1>14, <1>15, AllUpTo
  <2> QED
    BY <1>2, <2>1
<1> QED
  BY <1>13, <1>16

(* Every id is at a first place. *)
LEMMA FirstPlacesFind ==
    ASSUME NEW ids \in Seq(ExpertId), NEW i \in 1..Len(ids)
    PROVE  \E j \in FirstPlaces(ids) : ids[j] = ids[i]
<1>1. PICK n : n = Len(ids)
  OBVIOUS
<1>2. n \in Nat /\ DOMAIN ids = 1..n
  BY <1>1, LenProperties
<1>3. PICK S : S = {j \in 1..n : ids[j] = ids[i]}
  OBVIOUS
<1>4. S \in SUBSET Nat /\ S # {}
  BY <1>1, <1>2, <1>3
<1>5. PICK m : m = Min(S)
  OBVIOUS
<1>6. m \in S /\ \A y \in S : m <= y
  BY <1>4, <1>5, LeastExists
<1>7. \A j \in 1..(m - 1) : ids[j] # ids[m]
  <2>1. ASSUME NEW j \in 1..(m - 1), ids[j] = ids[m]
        PROVE  FALSE
    <3>1. m \in 1..n /\ j \in 1..n /\ ids[j] = ids[i]
      BY <1>2, <1>3, <1>6, <2>1
    <3>2. m <= j
      BY <1>3, <1>6, <3>1
    <3> QED
      BY <3>1, <3>2, <2>1
  <2> QED
    BY <2>1
<1> QED
  BY <1>2, <1>3, <1>6, <1>7 DEF FirstPlaces

LEMMA FirstPlacesFacts ==
    ASSUME NEW ids \in Seq(ExpertId)
    PROVE  /\ FirstPlaces(ids) \subseteq 1..Len(ids) /\ IsFiniteSet(FirstPlaces(ids))
           /\ Cardinality(FirstPlaces(ids)) \in Nat
           /\ \A i, j \in FirstPlaces(ids) : ids[i] = ids[j] => i = j
<1>1. PICK n : n = Len(ids)
  OBVIOUS
<1>2. n \in Nat /\ DOMAIN ids = 1..n
  BY <1>1, LenProperties
<1>3. FirstPlaces(ids) \subseteq 1..n
  BY <1>2 DEF FirstPlaces
<1>4. IsFiniteSet(FirstPlaces(ids)) /\ Cardinality(FirstPlaces(ids)) \in Nat
  <2>1. IsFiniteSet(1..n)
    BY <1>2, FS_Interval
  <2> QED
    BY ONLY <1>3, <2>1, FS_Subset, FS_CardinalityType
<1>5. ASSUME NEW i \in FirstPlaces(ids), NEW j \in FirstPlaces(ids), ids[i] = ids[j], i < j
      PROVE  FALSE
  <2>1. i \in 1..(j - 1)
    BY <1>2, <1>3, <1>5
  <2> QED
    BY <1>5, <2>1 DEF FirstPlaces
<1>6. ASSUME NEW i \in FirstPlaces(ids), NEW j \in FirstPlaces(ids), ids[i] = ids[j]
      PROVE  i = j
  <2>1. i \in Int /\ j \in Int
    BY <1>2, <1>3
  <2> QED
    BY <1>5, <1>6, <2>1
<1> QED
  BY <1>1, <1>3, <1>4, <1>6

(***************************************************************************)
(* A request leaves what is borrowed or busy alone, a prediction also what *)
(* the running layer demanded; nothing it asked for is stale.              *)
(***************************************************************************)
LEMMA RequestedIs ==
    ASSUME setup.global \in BOOLEAN, NEW c, Shape(c, setup.global), NEW l \in Layer,
           NEW ids \in Seq(ExpertId), NEW speculative \in BOOLEAN, NEW confidence,
           \A i \in 1..Len(ids) : confidence[i] \in 0..2,
           NEW d, d = Requested(c, l, ids, speculative, confidence)
    PROVE  /\ Shape(d, setup.global)
           /\ speculative => Follows(c, d) /\ Spared(c, d)
           /\ ~speculative => Follows([c EXCEPT !.active = l], d)
           /\ \A i \in 1..Len(ids) :
                  Resident(d, <<l, ids[i]>>) => d.entry[<<l, ids[i]>>].current
<1>1. PICK n : n = Len(ids)
  OBVIOUS
<1>2. n \in Nat /\ DOMAIN ids = 1..n /\ \A i \in 1..n : <<l, ids[i]>> \in Pair
  BY <1>1, LenProperties DEF Pair
<1>3. PICK start : start = IF speculative THEN c ELSE [c EXCEPT !.active = l]
  OBVIOUS
<1>4. Shape(start, setup.global)
  <2>1. CASE speculative
    BY <1>3, <2>1
  <2>2. CASE ~speculative
    <3>1. start = [c EXCEPT !.active = l]
      BY <1>3, <2>2
    <3>2. c \in CacheType /\ \A q \in Pair : ~Resident(c, q) => c.entry[q].pins = 0
      BY DEF Shape
    <3>3. /\ start \in CacheType /\ start.arrival = c.arrival /\ start.recency = c.recency
          /\ start.entry = c.entry
      BY <3>1, <3>2 DEF CacheType
    <3>4. \A q \in Pair : (Resident(start, q) <=> Resident(c, q)) /\ start.entry[q] = c.entry[q]
      BY <3>3 DEF Resident
    <3> QED
      BY <3>2, <3>3, <3>4, SameShape
  <2> QED
    BY <2>1, <2>2
<1>5. PICK places : places = FirstPlaces(ids)
  OBVIOUS
<1>6. /\ places \subseteq 1..n /\ Cardinality(places) \in Nat
      /\ \A i, j \in places : ids[i] = ids[j] => i = j
  BY <1>1, <1>5, FirstPlacesFacts
<1>7. PICK found : found = FoundAll(start, places, l, ids, speculative, confidence)
  OBVIOUS
<1>8. /\ Shape(found, setup.global) /\ Follows(start, found) /\ Spared(start, found)
      /\ \A i \in 1..n : i \in places /\ Resident(found, <<l, ids[i]>>)
                             => found.entry[<<l, ids[i]>>].current
  BY <1>1, <1>4, <1>7, FoundAllIs
<1>9. PICK sized : sized = IF speculative THEN found ELSE [found EXCEPT !.width[l] = Cardinality(places)]
  OBVIOUS
<1>10. /\ sized \in CacheType /\ sized.entry = found.entry /\ sized.active = found.active
       /\ sized.arrival = found.arrival /\ sized.recency = found.recency
  <2>1. found \in CacheType
    BY <1>8 DEF Shape
  <2>2. CASE speculative
    BY <1>9, <2>1, <2>2
  <2>3. CASE ~speculative
    <3>1. PICK k : k = Cardinality(places)
      OBVIOUS
    <3>2. sized = [found EXCEPT !.width[l] = k] /\ k \in Nat
      BY <1>6, <1>9, <2>3, <3>1
    <3> QED
      BY <2>1, <3>2 DEF CacheType
  <2> QED
    BY <2>2, <2>3
<1>11. \A q : Resident(sized, q) <=> Resident(found, q)
  BY <1>10 DEF Resident
<1>12. Shape(sized, setup.global)
  <2>1. \A q \in Pair : ~Resident(found, q) => sized.entry[q].pins = 0
    BY <1>8, <1>10 DEF Shape
  <2> QED
    BY <1>8, <1>10, <1>11, <2>1, SameShape
<1>13. Follows(found, sized) /\ Spared(found, sized)
  BY <1>10 DEF Follows, Spared, Kept, Contained, Left, Resident
<1>14. PICK missing : missing = {i \in places : ~Resident(found, <<l, ids[i]>>)}
  OBVIOUS
<1>15. d = ReservedAll(sized, missing, l, ids, speculative, confidence)
  <2> DEFINE begin == IF speculative THEN c ELSE [c EXCEPT !.active = l]
             f == FoundAll(begin, FirstPlaces(ids), l, ids, speculative, confidence)
             z == IF speculative THEN f ELSE [f EXCEPT !.width[l] = Cardinality(FirstPlaces(ids))]
             m == {i \in FirstPlaces(ids) : ~Resident(f, <<l, ids[i]>>)}
  <2>1. Requested(c, l, ids, speculative, confidence)
            = ReservedAll(z, m, l, ids, speculative, confidence)
    BY DEF Requested, FoundAll, ReservedAll
  <2>2. begin = start
    BY <1>3
  <2> HIDE DEF begin
  <2>3. f = found
    BY <1>5, <1>7, <2>2
  <2> HIDE DEF f
  <2>4. z = sized /\ m = missing
    BY <1>5, <1>9, <1>14, <2>3
  <2> HIDE DEF z, m
  <2> QED
    BY <2>1, <2>4
<1>16. Shape(d, setup.global) /\ Follows(sized, d) /\ (speculative => Spared(sized, d))
  <2>1. \A i \in 1..Len(ids) : i \in missing => ~Resident(sized, <<l, ids[i]>>)
    BY <1>11, <1>14
  <2>2. \A i, j \in 1..Len(ids) : i \in missing /\ j \in missing /\ ids[i] = ids[j] => i = j
    BY <1>6, <1>14
  <2> QED
    BY <1>12, <1>15, <2>1, <2>2, ReservedAllIs
<1>17. Follows(start, d)
  BY <1>8, <1>13, <1>16, FollowsOn
<1>18. speculative => Spared(start, d)
  BY <1>8, <1>13, <1>16, SparedOn
<1>19. ASSUME NEW i \in 1..n, Resident(d, <<l, ids[i]>>)
       PROVE  d.entry[<<l, ids[i]>>].current
  <2>1. PICK j \in places : ids[j] = ids[i]
    BY <1>1, <1>5, FirstPlacesFind
  <2>2. PICK p : p = <<l, ids[i]>>
    OBVIOUS
  <2>3. p \in Pair /\ p = <<l, ids[j]>> /\ j \in 1..n
    BY <1>2, <1>6, <2>1, <2>2
  <2>4. Resident(sized, p) => sized.entry[p].current
    BY <1>8, <1>10, <1>11, <2>3
  <2> QED
    BY <1>16, <1>19, <2>2, <2>3, <2>4 DEF Follows
<1> QED
  BY <1>1, <1>3, <1>16, <1>17, <1>18, <1>19

-----------------------------------------------------------------------------
(***************************************************************************)
(* The other critical sections.                                            *)
(***************************************************************************)
\* Entry p becomes e, and nothing else.
Changed(c, p, e) == [c EXCEPT !.entry[p] = e]

LEMMA ChangedIs ==
    ASSUME NEW global, NEW c, Shape(c, global), NEW p \in Pair, Resident(c, p),
           NEW e \in EntryType, e.state # "absent"
    PROVE  /\ Shape(Changed(c, p, e), global) /\ Changed(c, p, e).active = c.active
           /\ \A q \in Pair : Changed(c, p, e).entry[q] = IF q = p THEN e ELSE c.entry[q]
<1> DEFINE d == Changed(c, p, e)
<1>1. c \in CacheType /\ c.entry \in [Pair -> EntryType]
  BY EntryFacts DEF Shape
<1>2. /\ d.entry = [c.entry EXCEPT ![p] = e] /\ d.arrival = c.arrival /\ d.recency = c.recency
      /\ d.active = c.active /\ d.width = c.width /\ d.retained = c.retained
  BY <1>1 DEF Changed, CacheType
<1>3. d.entry \in [Pair -> EntryType] /\ \A q \in Pair : d.entry[q] = IF q = p THEN e ELSE c.entry[q]
  BY <1>1, <1>2
<1>4. d \in CacheType
  BY <1>1, <1>2, <1>3 DEF Changed, CacheType
<1> HIDE DEF d
<1>5. \A q \in Pair : Resident(d, q) <=> Resident(c, q)
  BY <1>3 DEF Resident
<1>6. \A q \in Pair : ~Resident(c, q) => d.entry[q].pins = 0
  BY <1>3 DEF Shape
<1>7. Shape(d, global)
  BY <1>2, <1>4, <1>5, <1>6, SameShape
<1> QED
  BY <1>2, <1>3, <1>7 DEF d

LEMMA PinnedIs ==
    ASSUME NEW global, NEW c, Shape(c, global), NEW p \in Pair, Resident(c, p),
           c.entry[p].pins = 0
    PROVE  /\ Shape(Pinned(c, p), global) /\ Pinned(c, p).active = c.active
           /\ \A q \in Pair : /\ Pinned(c, p).entry[q].pins = IF q = p THEN 1 ELSE c.entry[q].pins
                              /\ Pinned(c, p).entry[q].state = c.entry[q].state
                              /\ Pinned(c, p).entry[q].current = c.entry[q].current
<1>1. PICK e : e = [c.entry[p] EXCEPT !.pins = 1]
  OBVIOUS
<1>2. c \in CacheType /\ c.entry \in [Pair -> EntryType] /\ c.entry[p] \in EntryType
  BY EntryFacts DEF Shape
<1>3. e \in EntryType /\ e.state = c.entry[p].state /\ e.current = c.entry[p].current /\ e.pins = 1
  BY <1>1, <1>2 DEF EntryType
<1>4. Pinned(c, p) = Changed(c, p, e)
  <2>1. c.entry[p].pins + 1 = 1
    OBVIOUS
  <2>2. Pinned(c, p) = [c EXCEPT !.entry[p] = [c.entry[p] EXCEPT !.pins = c.entry[p].pins + 1]]
    BY <1>2 DEF Pinned, CacheType, EntryType
  <2> QED
    BY <1>1, <2>1, <2>2 DEF Changed
<1> QED
  BY <1>3, <1>4, ChangedIs DEF Resident

LEMMA UnpinnedIs ==
    ASSUME NEW global, NEW c, Shape(c, global), NEW p \in Pair, Resident(c, p),
           c.entry[p].pins = 1
    PROVE  /\ Shape(Unpinned(c, p), global) /\ Unpinned(c, p).active = c.active
           /\ \A q \in Pair : /\ Unpinned(c, p).entry[q].pins = IF q = p THEN 0 ELSE c.entry[q].pins
                              /\ Unpinned(c, p).entry[q].state = c.entry[q].state
                              /\ Unpinned(c, p).entry[q].current = c.entry[q].current
<1>1. PICK e : e = [c.entry[p] EXCEPT !.pins = 0]
  OBVIOUS
<1>2. c \in CacheType /\ c.entry \in [Pair -> EntryType] /\ c.entry[p] \in EntryType
  BY EntryFacts DEF Shape
<1>3. e \in EntryType /\ e.state = c.entry[p].state /\ e.current = c.entry[p].current /\ e.pins = 0
  BY <1>1, <1>2 DEF EntryType
<1>4. Unpinned(c, p) = Changed(c, p, e)
  <2>1. c.entry[p].pins - 1 = 0
    OBVIOUS
  <2>2. Unpinned(c, p) = [c EXCEPT !.entry[p] = [c.entry[p] EXCEPT !.pins = c.entry[p].pins - 1]]
    BY <1>2 DEF Unpinned, CacheType, EntryType
  <2> QED
    BY <1>1, <2>1, <2>2 DEF Changed
<1> QED
  BY <1>3, <1>4, ChangedIs DEF Resident

LEMMA LoadedIs ==
    ASSUME NEW global, NEW c, Shape(c, global), NEW p \in Pair, c.entry[p].state = "loading",
           NEW ok \in BOOLEAN
    PROVE  /\ Shape(Loaded(c, p, ok), global) /\ Loaded(c, p, ok).active = c.active
           /\ \A q \in Pair : /\ Loaded(c, p, ok).entry[q].pins = c.entry[q].pins
                              /\ Loaded(c, p, ok).entry[q].current = c.entry[q].current
                              /\ q # p => Loaded(c, p, ok).entry[q].state = c.entry[q].state
           /\ Resident(Loaded(c, p, ok), p)
<1>1. PICK e : e = [c.entry[p] EXCEPT !.state = IF ok THEN "ready" ELSE "failed"]
  OBVIOUS
<1>2. c \in CacheType /\ c.entry \in [Pair -> EntryType] /\ c.entry[p] \in EntryType
  BY EntryFacts DEF Shape
<1>3. /\ e \in EntryType /\ e.state # "absent" /\ e.current = c.entry[p].current
      /\ e.pins = c.entry[p].pins
  BY <1>1, <1>2 DEF EntryType
<1>4. Loaded(c, p, ok) = Changed(c, p, e)
  BY <1>1, <1>2 DEF Changed, Loaded, CacheType, EntryType
<1>5. Resident(c, p)
  BY DEF Resident
<1> QED
  BY <1>3, <1>4, <1>5, ChangedIs DEF Resident

(* A loan does not disturb a request. *)
LEMMA AcquiredIs ==
    ASSUME NEW global, NEW c, Shape(c, global), NEW p \in Pair, Resident(c, p)
    PROVE  /\ Shape(Acquired(c, p), global) /\ Follows(c, Acquired(c, p))
           /\ \A q \in Pair : Acquired(c, p).entry[q].state = c.entry[q].state
<1>1. PICK t : t = Touched(c, p)
  OBVIOUS
<1>2. /\ Shape(t, global) /\ Follows(c, t)
      /\ \A q \in Pair : t.entry[q].state = c.entry[q].state
  BY <1>1, TouchedFollows
<1>3. PICK e : e = [t.entry[p] EXCEPT !.speculative = FALSE, !.predicted = FALSE, !.confidence = 0]
  OBVIOUS
<1>4. t \in CacheType /\ t.entry \in [Pair -> EntryType] /\ t.entry[p] \in EntryType
  BY <1>2, EntryFacts DEF Shape
<1>5. /\ e \in EntryType /\ e.state = t.entry[p].state /\ e.pins = t.entry[p].pins
      /\ e.current = t.entry[p].current
  <2>1. PICK x : x = t.entry[p]
    OBVIOUS
  <2>2. x \in EntryType /\ 0 \in 0..2
    BY <1>4, <2>1
  <2>3. e = [x EXCEPT !.speculative = FALSE, !.predicted = FALSE, !.confidence = 0]
    BY <1>3, <2>1
  <2>4. e \in EntryType /\ e.state = x.state /\ e.pins = x.pins /\ e.current = x.current
    BY ONLY <2>2, <2>3 DEF EntryType
  <2> QED
    BY <2>1, <2>4
<1>6. Acquired(c, p) = Changed(t, p, e)
  BY <1>1, <1>3, <1>4 DEF Changed, Acquired, CacheType, EntryType
<1>7. e.state # "absent" /\ Resident(t, p)
  BY <1>2, <1>5 DEF Resident
<1>8. PICK d : d = Changed(t, p, e)
  OBVIOUS
<1>9. /\ Shape(d, global) /\ d.active = t.active
      /\ \A q \in Pair : d.entry[q] = IF q = p THEN e ELSE t.entry[q]
  BY <1>2, <1>5, <1>7, <1>8, ChangedIs
<1>10. \A q \in Pair : /\ d.entry[q].state = t.entry[q].state /\ d.entry[q].pins = t.entry[q].pins
                       /\ d.entry[q].current = t.entry[q].current
  BY <1>5, <1>9
<1>11. Follows(t, d)
  BY <1>9, <1>10 DEF Follows, Resident
<1> QED
  BY <1>2, <1>6, <1>8, <1>9, <1>10, <1>11, FollowsOn

LEMMA BorrowingIs ==
    ASSUME NEW c \in CacheType, NEW l, c.active = l
    PROVE  Borrowing(c, l) = c
BY DEF Borrowing, CacheType

LEMMA EvictedIs ==
    ASSUME NEW global, NEW c, Shape(c, global), NEW p \in Pair
    PROVE  Shape(Evicted(c, p), global) /\ Follows(c, Evicted(c, p))
BY RemovedFollows, FollowsSelf DEF Evicted

LEMMA RetriedIs ==
    ASSUME setup.global \in BOOLEAN, NEW c, Shape(c, setup.global), NEW p \in Pair
    PROVE  Shape(Retried(c, p), setup.global) /\ Follows(c, Retried(c, p))
<1>1. CASE Resident(c, p)
  BY <1>1, FollowsSelf DEF Retried
<1>2. CASE ~Resident(c, p)
  <2>1. PICK low \in 0..2 : low = 0
    OBVIOUS
  <2>2. Shape(Reserved(c, p, FALSE, low), setup.global) /\ Follows(c, Reserved(c, p, FALSE, low))
    BY <1>2, ReservedIs, FALSE \in BOOLEAN
  <2> QED
    BY <1>2, <2>1, <2>2 DEF Retried
<1> QED
  BY <1>1, <1>2

LEMMA WantedIs ==
    ASSUME setup.global \in BOOLEAN, NEW c, Shape(c, setup.global), NEW p \in Pair
    PROVE  Shape(Wanted(c, p), setup.global) /\ Follows(c, Wanted(c, p))
<1>1. PICK f : f = IF c.entry[p].state = "failed" /\ ~Busy(c, p) THEN Removed(c, p) ELSE c
  OBVIOUS
<1>2. Shape(f, setup.global) /\ Follows(c, f)
  <2>1. CASE c.entry[p].state = "failed" /\ ~Busy(c, p)
    <3>1. Resident(c, p) /\ f = Removed(c, p)
      BY <1>1, <2>1 DEF Resident
    <3> QED
      BY <2>1, <3>1, RemovedFollows
  <2>2. CASE ~(c.entry[p].state = "failed" /\ ~Busy(c, p))
    BY <1>1, <2>2, FollowsSelf
  <2> QED
    BY <2>1, <2>2
<1>3. Wanted(c, p) = Retried(f, p)
  BY <1>1 DEF Wanted, Retried
<1>4. Shape(Retried(f, p), setup.global) /\ Follows(f, Retried(f, p))
  BY <1>2, RetriedIs
<1> QED
  BY <1>2, <1>3, <1>4, FollowsOn

LEMMA AgedIs ==
    ASSUME NEW global, NEW c, Shape(c, global)
    PROVE  /\ Shape(Aged(c), global)
           /\ \A q \in Pair : Aged(c).entry[q].pins = c.entry[q].pins
<1>1. c \in CacheType /\ c.entry \in [Pair -> EntryType]
  BY DEF Shape, CacheType
<1>2. PICK E : E = [p \in Pair |-> [c.entry[p] EXCEPT !.current = FALSE, !.predicted = FALSE]]
  OBVIOUS
<1>3. ASSUME NEW q \in Pair
      PROVE  E[q] \in EntryType /\ E[q].pins = c.entry[q].pins /\ E[q].state = c.entry[q].state
  <2>1. c.entry[q] \in EntryType
    BY <1>1
  <2> QED
    BY <1>2, <2>1 DEF EntryType
<1>4. E \in [Pair -> EntryType]
  BY <1>2, <1>3
<1>5. Aged(c) = [c EXCEPT !.active = -1, !.entry = E]
  BY <1>2 DEF Aged
<1>6. /\ Aged(c) \in CacheType /\ Aged(c).entry = E
      /\ Aged(c).arrival = c.arrival /\ Aged(c).recency = c.recency
  BY <1>1, <1>4, <1>5 DEF CacheType
<1>7. \A q \in Pair : Resident(Aged(c), q) <=> Resident(c, q)
  BY <1>3, <1>6 DEF Resident
<1>8. \A q \in Pair : ~Resident(c, q) => Aged(c).entry[q].pins = 0
  BY <1>3, <1>6 DEF Shape
<1> QED
  BY <1>3, <1>6, <1>7, <1>8, SameShape

LEMMA RetainingIs ==
    ASSUME NEW global, NEW c, Shape(c, global), NEW l \in Layer, NEW kept \in SUBSET ExpertId
    PROVE  Shape(Retaining(c, l, kept), global) /\ Follows(c, Retaining(c, l, kept))
<1>1. CASE ~setup.global
  BY <1>1, FollowsSelf DEF Retaining
<1>2. CASE setup.global
  <2> DEFINE E == [p \in Pair |-> IF p[1] = l /\ Resident(c, p)
                                  THEN [c.entry[p] EXCEPT !.retained = p[2] \in kept]
                                  ELSE c.entry[p]]
  <2>1. PICK d : d = [c EXCEPT !.retained[l] = kept, !.entry = E]
    OBVIOUS
  <2>2. Retaining(c, l, kept) = d
    BY <1>2, <2>1 DEF Retaining
  <2>3. c \in CacheType /\ c.entry \in [Pair -> EntryType]
    BY DEF Shape, CacheType
  <2>4. ASSUME NEW q \in Pair
        PROVE  /\ E[q] \in EntryType /\ E[q].pins = c.entry[q].pins
               /\ E[q].state = c.entry[q].state /\ E[q].current = c.entry[q].current
    <3>1. c.entry[q] \in EntryType /\ (q[2] \in kept) \in BOOLEAN
      BY <2>3
    <3> QED
      BY <3>1 DEF EntryType
  <2>5. E \in [Pair -> EntryType]
    BY <2>4
  <2> HIDE DEF E
  <2>6. /\ d.entry = E /\ d.arrival = c.arrival /\ d.recency = c.recency /\ d.active = c.active
        /\ d \in CacheType
    BY <2>1, <2>3, <2>5 DEF CacheType
  <2>7. \A q \in Pair : Resident(d, q) <=> Resident(c, q)
    BY <2>4, <2>6 DEF Resident
  <2>8. \A q \in Pair : ~Resident(c, q) => d.entry[q].pins = 0
    BY <2>4, <2>6 DEF Shape
  <2>9. Follows(c, d)
    BY <2>4, <2>6, <2>7 DEF Follows
  <2> QED
    BY <2>2, <2>6, <2>7, <2>8, <2>9, SameShape
<1> QED
  BY <1>1, <1>2

LEMMA EmptyCacheIs ==
    \A global \in BOOLEAN : Shape(EmptyCache, global) /\ \A p \in Pair : EmptyCache.entry[p].pins = 0
<1>1. NoEntry \in EntryType
  BY DEF NoEntry, EntryType
<1>2. EmptyCache \in CacheType
  BY <1>1, LayerFacts DEF EmptyCache, CacheType
<1>3. Residents(EmptyCache) = {}
  BY DEF EmptyCache, Residents, Resident, NoEntry
<1>4. ToSet(<<>>) = {} /\ Distinct(<<>>) /\ Len(<<>>) = 0
  BY DEF ToSet, Distinct
<1>5. /\ EmptyCache.arrival = <<>> /\ EmptyCache.recency = <<>>
      /\ \A p \in Pair : EmptyCache.entry[p].pins = 0
  BY DEF EmptyCache, NoEntry
<1>6. \A l : OfLayer(EmptyCache, l) = {}
  BY <1>4, <1>5 DEF OfLayer
<1>7. \A global \in BOOLEAN : Room(EmptyCache, global)
  <2>1. Cardinality({}) = 0
    BY FS_EmptySet
  <2>2. Capacity \in Nat /\ Share \in Nat
    BY LayerFacts
  <2>3. 0 <= Capacity /\ 0 <= Share
    BY <2>2
  <2> QED
    BY <1>4, <1>5, <1>6, <2>1, <2>3 DEF Room
<1> QED
  BY <1>2, <1>3, <1>4, <1>5, <1>7 DEF Shape

-----------------------------------------------------------------------------
(***************************************************************************)
(* The share of the layers adds up to no more than the capacity.           *)
(***************************************************************************)
LEMMA CapacityHolds ==
    ASSUME NEW global, NEW c, Shape(c, global)
    PROVE  Len(c.arrival) <= Capacity
<1>1. /\ NLayers \in Nat \ {0} /\ Capacity \in Nat /\ Share \in Nat /\ NLayers * Share <= Capacity
      /\ \A p \in Pair : p[1] \in Layer
  BY LayerFacts
<1>2. c.arrival \in Seq(Pair) /\ Distinct(c.arrival)
  BY DEF Shape, CacheType
<1>3. PICK A : A = ToSet(c.arrival)
  OBVIOUS
<1>4. IsFiniteSet(A) /\ Cardinality(A) = Len(c.arrival) /\ A \subseteq Pair
  BY <1>2, <1>3, DistinctLength DEF Shape, Residents
<1>5. CASE global
  BY <1>5 DEF Shape, Room
<1>6. CASE ~global
  <2> DEFINE Under(l) == {p \in A : p[1] < l}
             Good == {l \in 0..NLayers : IsFiniteSet(Under(l)) /\ Cardinality(Under(l)) <= l * Share}
  <2>1. 0 \in Good
    <3>1. Under(0) = {}
      BY <1>1, <1>4 DEF Layer
    <3>2. 0 \in 0..NLayers /\ 0 * Share = 0
      BY <1>1
    <3> QED
      BY <3>1, <3>2, FS_EmptySet
  <2>2. ASSUME NEW l \in 1..NLayers, l - 1 \in Good PROVE l \in Good
    <3>1. PICK k, U, V, W : k = l - 1 /\ U = Under(l - 1) /\ V = OfLayer(c, l - 1) /\ W = Under(l)
      OBVIOUS
    <3>2. k \in Layer
      BY <1>1, <3>1 DEF Layer
    <3>3. IsFiniteSet(V) /\ Cardinality(V) \in Nat /\ Cardinality(V) <= Share
      BY <1>6, <3>1, <3>2, LayerCount DEF Shape, Room
    <3>4. IsFiniteSet(U) /\ Cardinality(U) \in Nat /\ Cardinality(U) <= k * Share
      BY <2>2, <3>1, FS_CardinalityType
    <3>5. W = U \cup V
      <4>1. \A p \in A : p[1] \in Int
        BY <1>1, <1>4 DEF Layer
      <4>2. \A p \in A : p[1] < l <=> p[1] < k \/ p[1] = k
        BY <3>1, <4>1
      <4> QED
        BY <1>3, <3>1, <4>2 DEF OfLayer
    <3>6. IsFiniteSet(U \cap V) /\ Cardinality(U \cap V) \in Nat
      BY <3>3, <3>4, FS_Intersection, FS_CardinalityType
    <3>7. IsFiniteSet(W) /\ Cardinality(W) = Cardinality(U) + Cardinality(V) - Cardinality(U \cap V)
      BY <3>3, <3>4, <3>5, FS_Union
    <3>8. Cardinality(W) <= k * Share + Share
      <4>1. PICK u, v, w, x, y : /\ u = Cardinality(U) /\ v = Cardinality(V) /\ w = Cardinality(W)
                                 /\ x = Cardinality(U \cap V) /\ y = k * Share
        OBVIOUS
      <4>2. y \in Nat
        BY <1>1, <3>1, <4>1
      <4>3. /\ u \in Nat /\ v \in Nat /\ x \in Nat /\ u <= y /\ v <= Share /\ w = u + v - x
        BY <3>3, <3>4, <3>6, <3>7, <4>1
      <4> QED
        BY ONLY <1>1, <4>1, <4>2, <4>3
    <3>9. k * Share + Share = l * Share
      BY <1>1, <3>1
    <3>10. l \in 0..NLayers
      BY <1>1
    <3> HIDE DEF Under
    <3> QED
      BY <3>1, <3>7, <3>8, <3>9, <3>10
  <2>3. \A l \in 0..NLayers : l \in Good
    <3> HIDE DEF Good
    <3> QED
      BY <1>1, <2>1, <2>2, AllUpTo
  <2>4. Under(NLayers) = A
    BY <1>1, <1>4 DEF Layer
  <2>5. Cardinality(A) <= NLayers * Share
    BY <1>1, <2>3, <2>4
  <2> QED
    BY <1>1, <1>4, <2>5
<1> QED
  BY <1>5, <1>6

-----------------------------------------------------------------------------
(***************************************************************************)
(* The selected experts.                                                   *)
(***************************************************************************)
LEMMA SortedLists ==
    ASSUME NEW S \in SUBSET Nat, IsFiniteSet(S)
    PROVE  /\ Sorted(S, <) \in Seq(S)
           /\ \A x \in S : \E i \in 1..Len(Sorted(S, <)) : Sorted(S, <)[i] = x
<1> DEFINE Under(x) == {y \in S : y < x}
           f == [x \in S |-> Cardinality(Under(x)) + 1]
<1>1. PICK n : n = Cardinality(S)
  OBVIOUS
<1>2. n \in Nat /\ IsFiniteSet(1..n) /\ Cardinality(1..n) = n
  BY <1>1, FS_CardinalityType, FS_Interval
<1>3. \A x \in S : Under(x) \in SUBSET S /\ x \notin Under(x)
  OBVIOUS
<1>4. \A x \in S : IsFiniteSet(Under(x)) /\ Cardinality(Under(x)) \in Nat
  <2> HIDE DEF Under
  <2> QED
    BY <1>3, FS_Subset, FS_CardinalityType
<1>5. ASSUME NEW x \in S PROVE Cardinality(Under(x)) < n
  <2>1. IsFiniteSet(Under(x)) /\ Cardinality(Under(x)) <= n /\ Cardinality(Under(x)) # n
    <3> HIDE DEF Under
    <3> QED
      BY <1>1, <1>3, FS_Subset
  <2> QED
    BY <1>2, <1>4, <2>1
<1>6. ASSUME NEW x \in S, NEW y \in S, x < y PROVE Cardinality(Under(x)) < Cardinality(Under(y))
  <2>1. Under(x) \in SUBSET Under(y) /\ x \in Under(y) /\ x \notin Under(x)
    <3>1. ASSUME NEW z \in S, z < x PROVE z < y
      <4>1. z \in Nat /\ x \in Nat /\ y \in Nat
        OBVIOUS
      <4> QED
        BY ONLY <1>6, <3>1, <4>1
    <3>2. ~(x < x)
      <4>1. x \in Nat
        OBVIOUS
      <4> QED
        BY ONLY <4>1
    <3> QED
      BY <1>6, <3>1, <3>2
  <2>2. Cardinality(Under(x)) <= Cardinality(Under(y)) /\ Cardinality(Under(x)) # Cardinality(Under(y))
    <3> HIDE DEF Under
    <3> QED
      BY <1>4, <2>1, FS_Subset
  <2> QED
    BY <1>4, <2>2
<1>7. \A x, y \in S : Cardinality(Under(x)) = Cardinality(Under(y)) => x = y
  <2>1. SUFFICES ASSUME NEW x \in S, NEW y \in S, x # y
                 PROVE  Cardinality(Under(x)) # Cardinality(Under(y))
    OBVIOUS
  <2>2. x < y \/ y < x
    BY <2>1
  <2>3. PICK a, b : a = Cardinality(Under(x)) /\ b = Cardinality(Under(y))
    OBVIOUS
  <2>4. a \in Nat /\ b \in Nat
    BY <1>4, <2>3
  <2>5. a < b \/ b < a
    BY <1>6, <2>2, <2>3
  <2> QED
    BY <2>3, <2>4, <2>5
<1> HIDE DEF Under
<1>8. f \in [S -> 1..n]
  <2>1. ASSUME NEW x \in S PROVE Cardinality(Under(x)) + 1 \in 1..n
    BY <1>2, <1>4, <1>5
  <2> QED
    BY <2>1
<1>9. f \in Injection(S, 1..n)
  <2>1. \A x, y \in S : f[x] = f[y] => x = y
    BY <1>4, <1>7
  <2> HIDE DEF f
  <2> QED
    BY <1>8, <2>1 DEF Injection, IsInjective
<1>10. f \in Surjection(S, 1..n)
  <2> HIDE DEF f
  <2> QED
    BY <1>1, <1>2, <1>9, FS_Injection
<1>11. \A i \in 1..n : \E x \in S : f[x] = i
  <2> HIDE DEF f
  <2> QED
    BY <1>10 DEF Surjection
<1>12. PICK q : q = Sorted(S, <)
  OBVIOUS
<1>13. q = [i \in 1..n |-> CHOOSE x \in S : Cardinality(Under(x)) = i - 1]
  BY <1>1, <1>12 DEF Sorted, Under
<1>14. ASSUME NEW i \in 1..n
       PROVE  \E x \in S : Cardinality(Under(x)) = i - 1
  <2>1. PICK x \in S : f[x] = i
    BY <1>11
  <2>2. Cardinality(Under(x)) + 1 = i /\ Cardinality(Under(x)) \in Nat
    BY <1>4, <2>1
  <2> QED
    BY <2>2
<1>15. \A i \in 1..n : q[i] \in S /\ Cardinality(Under(q[i])) = i - 1
  BY <1>13, <1>14
<1>16. q \in [1..n -> S]
  BY <1>13, <1>15
<1>17. q \in Seq(S) /\ Len(q) = n
  <2>1. q \in Seq(S)
    BY <1>2, <1>16, SeqDef
  <2> QED
    BY <1>2, <1>16, <2>1, LenProperties
<1>18. ASSUME NEW x \in S PROVE \E i \in 1..n : q[i] = x
  <2>1. PICK i : i = Cardinality(Under(x)) + 1
    OBVIOUS
  <2>2. i \in 1..n /\ i - 1 = Cardinality(Under(x))
    BY <1>2, <1>4, <1>5, <2>1
  <2>3. q[i] \in S /\ Cardinality(Under(q[i])) = Cardinality(Under(x))
    BY <1>15, <2>2
  <2> QED
    BY <1>7, <2>2, <2>3
<1> QED
  BY <1>12, <1>17, <1>18

(* The routes of a run go to experts. *)
LEMMA ChosenFacts ==
    ASSUME NEW n \in Nat, NEW v \in [1..n -> [1..TopK -> ExpertId]]
    PROVE  Chosen(v) \in SUBSET ExpertId /\ IsFiniteSet(Chosen(v))
<1>1. Chosen(v) \in SUBSET ExpertId
  <2>1. ASSUME NEW x \in Chosen(v) PROVE x \in ExpertId
    <3>1. PICK t \in DOMAIN v, k \in 1..TopK : x = v[t][k]
      BY DEF Chosen
    <3> QED
      BY <3>1
  <2> QED
    BY <2>1
<1>2. IsFiniteSet(ExpertId)
  BY GroupFacts, FS_Interval DEF ExpertId
<1> QED
  BY <1>1, <1>2, FS_Subset

LEMMA SelectedIs ==
    ASSUME NEW n \in Nat, routes \in [1..n -> [1..TopK -> ExpertId]]
    PROVE  /\ Selected \in Seq(ExpertId)
           /\ \A e \in Chosen(routes) : \E i \in 1..Len(Selected) : Selected[i] = e
<1>1. PICK S : S = Chosen(routes)
  OBVIOUS
<1>2. S \in SUBSET ExpertId /\ IsFiniteSet(S)
  BY <1>1, ChosenFacts
<1>3. ExpertId \subseteq Nat
  BY GroupFacts DEF ExpertId
<1>4. S \in SUBSET Nat
  BY <1>2, <1>3
<1>5. PICK q : q = Sorted(S, <)
  OBVIOUS
<1>6. q \in Seq(S) /\ \A x \in S : \E i \in 1..Len(q) : q[i] = x
  BY <1>2, <1>4, <1>5, SortedLists
<1>7. q \in Seq(ExpertId)
  BY <1>2, <1>6, SeqDef
<1>8. Selected = q
  BY <1>1, <1>5 DEF Selected
<1> QED
  BY <1>1, <1>6, <1>7, <1>8

LEMMA SelectedFromIs ==
    ASSUME NEW n \in Nat, routes \in [1..n -> [1..TopK -> ExpertId]], NEW e \in 0..NExperts
    PROVE  /\ SelectedFrom(e) \in e..NExperts
           /\ SelectedFrom(e) = NExperts \/ SelectedFrom(e) \in Chosen(routes)
           /\ \A x \in Chosen(routes) : x >= e => x >= SelectedFrom(e)
<1>1. NExperts \in Nat /\ Chosen(routes) \in SUBSET ExpertId
  BY GroupFacts, ChosenFacts
<1>2. PICK S : S = {x \in Chosen(routes) : x >= e}
  OBVIOUS
<1>3. S \in SUBSET Nat /\ e \in Nat /\ \A x \in Chosen(routes) : x \in 0..(NExperts - 1)
  BY <1>1, <1>2 DEF ExpertId
<1>4. CASE S = {}
  <2>1. SelectedFrom(e) = NExperts
    BY <1>2, <1>4 DEF SelectedFrom
  <2>2. \A x \in Chosen(routes) : ~(x >= e)
    BY <1>2, <1>4
  <2> QED
    BY <1>1, <1>3, <2>1, <2>2
<1>5. CASE S # {}
  <2>1. PICK m : m = Min(S)
    OBVIOUS
  <2>2. m \in S /\ \A y \in S : m <= y
    BY <1>3, <1>5, <2>1, LeastExists
  <2>3. SelectedFrom(e) = m
    BY <1>2, <1>5, <2>1 DEF SelectedFrom
  <2>4. m \in Chosen(routes) /\ m >= e /\ m \in 0..(NExperts - 1)
    BY <1>2, <1>3, <2>2
  <2>5. m \in e..NExperts
    BY ONLY <1>1, <1>3, <2>4
  <2>6. ASSUME NEW x \in Chosen(routes), x >= e PROVE x >= m
    <3>1. m <= x
      BY <1>2, <2>2, <2>6
    <3>2. m \in Int /\ x \in Int
      BY <1>3, <2>4
    <3> QED
      BY ONLY <3>1, <3>2
  <2> QED
    BY <2>3, <2>4, <2>5, <2>6
<1> QED
  BY <1>4, <1>5

(* Passing over experts nobody chose adds nothing. *)
LEMMA AddedSkips ==
    ASSUME NEW n \in Nat, routes \in [1..n -> [1..TopK -> ExpertId]], NEW e \in 0..NExperts
    PROVE  Added(routes, SelectedFrom(e)) = Added(routes, e)
<1>1. PICK s : s = SelectedFrom(e)
  OBVIOUS
<1>2. /\ s \in e..NExperts /\ \A x \in Chosen(routes) : x >= e => x >= s
  BY <1>1, SelectedFromIs
<1>3. NExperts \in Nat /\ DOMAIN routes = 1..n
  BY GroupFacts
<1>4. ASSUME NEW t \in 1..n PROVE Turned(routes[t], s, 0) = Turned(routes[t], e, 0)
  <2>1. ASSUME NEW k \in 1..TopK
        PROVE  (routes[t][k] < s \/ (routes[t][k] = s /\ k <= 0))
                   <=> (routes[t][k] < e \/ (routes[t][k] = e /\ k <= 0))
    <3>1. PICK x : x = routes[t][k]
      OBVIOUS
    <3>2. x \in ExpertId /\ x \in Chosen(routes)
      <4>1. t \in DOMAIN routes /\ x = routes[t][k]
        BY <1>3, <3>1
      <4>2. x \in Chosen(routes)
        BY ONLY <4>1, k \in 1..TopK DEF Chosen
      <4> QED
        BY <3>1, <4>2
    <3>3. x \in Int /\ s \in Int /\ e \in Int /\ k \in Int /\ ~(k <= 0) /\ s >= e
      BY <1>2, <1>3, <3>2, GroupFacts DEF ExpertId
    <3>4. x >= e => x >= s
      BY <1>2, <3>2
    <3> QED
      BY ONLY <3>1, <3>3, <3>4
  <2> QED
    BY <2>1 DEF Turned
<1> QED
  BY <1>1, <1>3, <1>4 DEF Added, Turns

(* At first nothing has been added, in the end all of them. *)
LEMMA AddedFirst ==
    ASSUME NEW n \in Nat, NEW v \in [1..n -> [1..TopK -> ExpertId]]
    PROVE  Added(v, 0) = [t \in 1..n |-> <<>>]
<1>1. ASSUME NEW t \in 1..n PROVE FirstTurns(v[t], Turns(v[t], 0, 0)) = <<>>
  <2>1. \A k \in 1..TopK : v[t][k] \in Nat /\ k \in Int /\ ~(k <= 0)
    BY GroupFacts DEF ExpertId
  <2>2. Turned(v[t], 0, 0) = {}
    BY <2>1 DEF Turned
  <2>3. Turns(v[t], 0, 0) = 0
    BY <2>2, FS_EmptySet DEF Turns
  <2> QED
    BY <2>3 DEF FirstTurns
<1> QED
  BY <1>1 DEF Added

LEMMA AddedLast ==
    ASSUME NEW n \in Nat, routes \in [1..n -> [1..TopK -> ExpertId]],
           \A t \in 1..n : routes[t] = RouteOf(t)
    PROVE  \A t \in 1..n : Append(Added(routes, NExperts)[t], Shared) = Expected(t)
<1>1. SUFFICES ASSUME NEW t \in 1..n
               PROVE  Append(Added(routes, NExperts)[t], Shared) = Expected(t)
  OBVIOUS
<1>2. PICK r : r = routes[t]
  OBVIOUS
<1>3. r \in [1..TopK -> ExpertId] /\ r = RouteOf(t) /\ TopK \in Nat /\ NExperts \in Nat
  BY <1>2, GroupFacts
<1>4. Turns(r, NExperts, 0) = TopK
  <2>1. \A k \in 1..TopK : r[k] < NExperts
    BY <1>3 DEF ExpertId
  <2>2. Turned(r, NExperts, 0) = 1..TopK
    BY <2>1 DEF Turned
  <2> QED
    BY <1>3, <2>2, FS_Interval DEF Turns
<1>5. Added(routes, NExperts)[t] = [m \in 1..TopK |-> Turn(r, m)]
  BY <1>2, <1>4 DEF Added, FirstTurns
<1>6. Expected(t) = Append([m \in 1..TopK |-> Turn(r, m)], Shared)
  BY <1>3 DEF Expected, Turn
<1> QED
  BY <1>5, <1>6

-----------------------------------------------------------------------------
(***************************************************************************)
(* The invariant.  The stages of a layer: collecting a batch, taking the   *)
(* experts in turn, and what follows the addition of one.                  *)
(***************************************************************************)
Leasing == {"lease", "release", "giveup"}
Collecting == {"scan"} \cup Leasing
Borrowings == {"borrow", "slot", "load", "compute"}
Turning == {"expert"} \cup Borrowings
Adding == {"advance", "look", "refill"}
Advised == {"count"} \cup Collecting \cup Turning \cup Adding
Stages == {"idle", "route", "retain", "request", "added"} \cup Advised

SettingOK ==
    /\ setup \in Setups /\ pc \in Stages /\ layer \in Layer /\ at \in 0..NExperts /\ leases \in Nat
    /\ tasks \in Seq([layer : Layer, route : {<<>>} \cup HashRoutes]) /\ Len(tasks) <= 3
    /\ Shape(cache, setup.global)

(* The routes are those the router, or the table, asks for. *)
RunOK ==
    pc # "idle" =>
        /\ scores \in Seq([ExpertId -> Int]) /\ Len(scores) >= 1
        /\ known \in [setup.hashed -> [1..Len(scores) -> HashRoutes]]
RoutesOK ==
    Routed =>
        /\ routes \in [1..Len(scores) -> [1..TopK -> ExpertId]]
        /\ \A t \in 1..Len(scores) : routes[t] = RouteOf(t)

(* The expert in turn, and those that are collected. *)
TurnOK ==
    /\ pc \in Borrowings \cup Adding => at \in Chosen(routes)
    /\ pc \in {"scan", "expert"} => at = NExperts \/ at \in Chosen(routes)
    /\ pc \in Leasing => at = SelectedFrom(0)
ReadyOK ==
    /\ pc \in Collecting =>
           /\ ready \in Seq(Chosen(routes)) /\ Distinct(ready) /\ leases <= Len(ready)
           /\ \A i \in 1..Len(ready) : Count(routes, ready[i]) = 1
    /\ pc = "scan" => \A i \in 1..Len(ready) : ready[i] < at
    /\ pc \notin Leasing => leases = 0
    /\ pc \notin Collecting \cup {"look", "refill"} => ready = <<>>
    /\ pc = "look" => \E e \in 0..NExperts : ready = <<e>>
    /\ pc = "refill" => \E e \in ExpertId : ready = <<e>>

(* Nothing is borrowed but the batch or the expert in turn, and it is there. *)
Held ==
    IF pc \in Leasing THEN {ready[i] : i \in 1..leases}
    ELSE IF pc \in {"load", "compute"} THEN {at} ELSE {}
HeldIn(c, l, H) ==
    \A p \in Pair : c.entry[p].pins = IF p[1] = l /\ p[2] \in H THEN 1 ELSE 0
HeldOK ==
    /\ HeldIn(cache, layer, Held)
    /\ \A e \in Held : IF pc = "load" THEN Resident(cache, Weights(e)) ELSE IsReady(cache, Weights(e))

(* What is in the batch is right, and what has been added is what the        *)
(* experts before the one in turn contribute.                                *)
BatchOK ==
    pc \in Collecting \cup Turning \cup Adding =>
        \A e \in DOMAIN batch : \A r \in RoutesOf(routes, e) : batch[e] = <<e, r[2]>>
OutputOK ==
    /\ pc \in {"retain", "request", "count"} \cup Collecting => output = Added(routes, 0)
    /\ pc \in Turning => output = Added(routes, at)
    /\ pc \in Adding => output = Added(routes, at + 1)
    /\ pc = "added" => output = [t \in DOMAIN routes |-> Expected(t)]

(* Nothing of the running route is stale once it has been requested. *)
FreshIn(c, l, S) ==
    c.active = l /\ \A e \in S : Resident(c, <<l, e>>) => c.entry[<<l, e>>].current
AdviceOK == pc \in Advised => FreshIn(cache, layer, Chosen(routes))

MoeInv ==
    SettingOK /\ RunOK /\ RoutesOK /\ TurnOK /\ ReadyOK /\ HeldOK /\ BatchOK /\ OutputOK /\ AdviceOK

-----------------------------------------------------------------------------
LEMMA InvFacts ==
    ASSUME MoeInv
    PROVE  /\ setup \in Setups /\ setup.global \in BOOLEAN /\ setup.hashed \in SUBSET Layer
           /\ setup.scores \in SUBSET Scores
           /\ Shape(cache, setup.global) /\ cache \in CacheType /\ layer \in Layer
           /\ NExperts \in Nat /\ at \in 0..NExperts /\ leases \in Nat /\ pc \in Stages
           /\ pc # "idle" => Len(scores) \in Nat /\ Len(scores) >= 1
                             /\ DOMAIN scores = 1..Len(scores)
<1>1. SettingOK /\ RunOK
  BY DEF MoeInv
<1>2. setup \in SetupType
  BY <1>1, MoeAssumption DEF SettingOK
<1>3. NExperts \in Nat
  BY GroupFacts
<1>4. pc # "idle" => Len(scores) \in Nat /\ Len(scores) >= 1 /\ DOMAIN scores = 1..Len(scores)
  BY <1>1, LenProperties DEF RunOK
<1> QED
  BY <1>1, <1>2, <1>3, <1>4 DEF SettingOK, SetupType, Shape

LEMMA RoutedFacts ==
    ASSUME MoeInv, Routed
    PROVE  /\ Len(scores) \in Nat /\ Len(scores) >= 1
           /\ routes \in [1..Len(scores) -> [1..TopK -> ExpertId]]
           /\ Chosen(routes) \in SUBSET ExpertId
           /\ \A e \in ExpertId : Weights(e) \in Pair /\ Weights(e) = <<layer, e>>
           /\ \A e \in Chosen(routes) : Weights(e) \in Pair /\ e \in ExpertId
           /\ \A e \in ExpertId : e \in 0..(NExperts - 1) /\ e \in 0..NExperts /\ e + 1 \in 0..NExperts
                                  /\ e < NExperts
           /\ \A e \in 0..NExperts : e < NExperts => e \in ExpertId
<1>1. Len(scores) \in Nat /\ Len(scores) >= 1 /\ layer \in Layer /\ NExperts \in Nat
  BY InvFacts DEF Routed
<1>2. routes \in [1..Len(scores) -> [1..TopK -> ExpertId]]
  BY DEF MoeInv, RoutesOK
<1>3. Chosen(routes) \in SUBSET ExpertId
  BY <1>1, <1>2, ChosenFacts
<1>4. \A e \in ExpertId : Weights(e) \in Pair /\ Weights(e) = <<layer, e>>
  BY <1>1 DEF Weights, Pair
<1>5. /\ \A e \in ExpertId : e \in 0..(NExperts - 1) /\ e \in 0..NExperts /\ e + 1 \in 0..NExperts
                             /\ e < NExperts
      /\ \A e \in 0..NExperts : e < NExperts => e \in ExpertId
  BY <1>1 DEF ExpertId
<1> QED
  BY <1>1, <1>2, <1>3, <1>4, <1>5

(* While the layer runs, its routes stay what they are. *)
LEMMA SameRoutes ==
    ASSUME MoeInv, UNCHANGED <<setup, layer, known, scores, routes>>,
           pc' = "idle" \/ pc # "idle", Routed' => Routed
    PROVE  RunOK' /\ RoutesOK' /\ \A t : Expected(t)' = Expected(t)
<1>1. \A t : RouteOf(t)' = RouteOf(t)
  BY DEF RouteOf
<1>2. RunOK'
  BY DEF MoeInv, RunOK
<1>3. RoutesOK'
  BY <1>1 DEF MoeInv, RoutesOK
<1>4. \A t : Expected(t)' = Expected(t)
  BY <1>1 DEF Expected
<1> QED
  BY <1>2, <1>3, <1>4

(* A request disturbs no loan, and what is fresh stays fresh. *)
LEMMA HeldFollows ==
    ASSUME NEW c, NEW d, Follows(c, d), NEW l \in Layer, NEW H \in SUBSET ExpertId,
           HeldIn(c, l, H)
    PROVE  /\ HeldIn(d, l, H)
           /\ \A e \in H : d.entry[<<l, e>>].state = c.entry[<<l, e>>].state
<1>1. HeldIn(d, l, H)
  BY DEF HeldIn, Follows
<1>2. ASSUME NEW e \in H PROVE d.entry[<<l, e>>].state = c.entry[<<l, e>>].state
  <2>1. PICK p : p = <<l, e>>
    OBVIOUS
  <2>2. p \in Pair /\ p[1] = l /\ p[2] \in H
    BY <2>1 DEF Pair
  <2>3. c.entry[p].pins = 1
    BY <2>2 DEF HeldIn
  <2>4. Busy(c, p)
    BY <2>3 DEF Busy
  <2> QED
    BY <2>1, <2>2, <2>4 DEF Follows
<1> QED
  BY <1>1, <1>2

LEMMA FreshFollows ==
    ASSUME NEW c, NEW d, Follows(c, d), NEW l \in Layer, NEW S \in SUBSET ExpertId,
           FreshIn(c, l, S)
    PROVE  FreshIn(d, l, S)
<1>1. \A e \in S : <<l, e>> \in Pair
  BY DEF Pair
<1> QED
  BY <1>1 DEF FreshIn, Follows

LEMMA HeldExperts ==
    ASSUME MoeInv
    PROVE  /\ Held \in SUBSET ExpertId
           /\ ~Routed => Held = {}
<1>1. CASE pc \in Leasing
  <2>1. Routed
    BY <1>1 DEF Leasing, Routed
  <2>2. ready \in Seq(Chosen(routes)) /\ leases \in Nat /\ leases <= Len(ready)
    BY <1>1 DEF MoeInv, SettingOK, ReadyOK, Collecting
  <2>3. \A i \in 1..leases : ready[i] \in Chosen(routes)
    <3>1. Len(ready) \in Nat /\ \A i \in 1..Len(ready) : ready[i] \in Chosen(routes)
      BY <2>2, LenProperties
    <3>2. \A i \in 1..leases : i \in 1..Len(ready)
      BY <2>2, <3>1
    <3> QED
      BY <3>1, <3>2
  <2> QED
    BY <1>1, <2>1, <2>3, RoutedFacts DEF Held
<1>2. CASE pc \in {"load", "compute"}
  <2>1. Routed /\ at \in Chosen(routes)
    BY <1>2 DEF Routed, MoeInv, TurnOK, Borrowings
  <2> QED
    BY <1>2, <2>1, RoutedFacts DEF Held, Leasing
<1>3. CASE pc \notin Leasing \cup {"load", "compute"}
  BY <1>3 DEF Held
<1> QED
  BY <1>1, <1>2, <1>3

LEMMA NextSelected ==
    ASSUME MoeInv, Routed, NEW e \in 0..NExperts
    PROVE  /\ SelectedFrom(e) \in e..NExperts /\ SelectedFrom(e) \in 0..NExperts
           /\ SelectedFrom(e) = NExperts \/ SelectedFrom(e) \in Chosen(routes)
           /\ Added(routes, SelectedFrom(e)) = Added(routes, e)
<1>1. PICK n \in Nat : n = Len(scores)
  BY RoutedFacts
<1>2. routes \in [1..n -> [1..TopK -> ExpertId]] /\ NExperts \in Nat
  BY <1>1, RoutedFacts, InvFacts
<1>3. /\ SelectedFrom(e) \in e..NExperts
      /\ SelectedFrom(e) = NExperts \/ SelectedFrom(e) \in Chosen(routes)
      /\ Added(routes, SelectedFrom(e)) = Added(routes, e)
  BY <1>2, SelectedFromIs, AddedSkips
<1>4. SelectedFrom(e) \in 0..NExperts
  BY <1>2, <1>3
<1> QED
  BY <1>3, <1>4

-----------------------------------------------------------------------------
(***************************************************************************)
(* Every step keeps the invariant: first those of the kernel that leave    *)
(* the cache alone.                                                        *)
(***************************************************************************)
LEMMA InitKeeps == Init => MoeInv
<1> SUFFICES ASSUME Init PROVE MoeInv
  OBVIOUS
<1>1. /\ setup \in Setups /\ cache = EmptyCache /\ pc = "idle" /\ layer = 0 /\ at = 0
      /\ ready = <<>> /\ leases = 0 /\ tasks = <<>>
  BY DEF Init
<1>2. setup.global \in BOOLEAN
  BY <1>1, MoeAssumption DEF SetupType
<1>3. SettingOK
  <2>1. Shape(cache, setup.global)
    BY <1>1, <1>2, EmptyCacheIs
  <2>2. 0 \in Layer /\ 0 \in 0..NExperts
    BY GroupFacts, LayerFacts DEF Layer
  <2> QED
    BY <1>1, <2>1, <2>2 DEF SettingOK, Stages
<1>4. Held = {}
  BY <1>1 DEF Held, Leasing
<1>5. HeldOK
  BY <1>1, <1>2, <1>4, EmptyCacheIs DEF HeldOK, HeldIn
<1>6. TurnOK /\ ReadyOK
  BY <1>1 DEF TurnOK, ReadyOK, Borrowings, Adding, Leasing, Collecting
<1>7. RunOK /\ RoutesOK
  BY <1>1 DEF RunOK, RoutesOK, Routed
<1>8. BatchOK /\ OutputOK /\ AdviceOK
  BY <1>1 DEF BatchOK, OutputOK, AdviceOK, Advised, Collecting, Leasing, Turning, Borrowings, Adding
<1> QED
  BY <1>3, <1>5, <1>6, <1>7, <1>8 DEF MoeInv

LEMMA CountKeeps ==
    ASSUME MoeInv, CountResident
    PROVE  MoeInv'
<1>1. /\ pc = "count" /\ pc' \in {"scan", "expert"} /\ at' = SelectedFrom(0)
      /\ batch' = [e \in {} |-> Junk]
      /\ UNCHANGED <<setup, cache, layer, known, scores, routes, ready, leases, output, tasks>>
  BY DEF CountResident
<1>2. Routed /\ Routed'
  BY <1>1 DEF Routed
<1>3. RunOK' /\ RoutesOK'
  BY <1>1, <1>2, SameRoutes
<1>4. /\ at' \in 0..NExperts /\ (at' = NExperts \/ at' \in Chosen(routes))
      /\ Added(routes, at') = Added(routes, 0)
  <2>1. 0 \in 0..NExperts
    BY InvFacts
  <2> QED
    BY <1>1, <1>2, <2>1, NextSelected
<1>5. SettingOK'
  BY <1>1, <1>4 DEF MoeInv, SettingOK, Stages, Advised, Collecting, Turning
<1>6. TurnOK'
  BY <1>1, <1>4 DEF TurnOK, Borrowings, Adding, Leasing
<1>7. ready = <<>> /\ leases = 0
  BY <1>1 DEF MoeInv, ReadyOK, Collecting, Leasing
<1>8. ReadyOK'
  <2>1. <<>> \in Seq(Chosen(routes)) /\ Distinct(<<>>) /\ Len(<<>>) = 0
    BY DEF Distinct
  <2> QED
    BY <1>1, <1>7, <2>1 DEF ReadyOK, Collecting, Leasing
<1>9. HeldOK'
  <2>1. Held = {} /\ Held' = {}
    BY <1>1 DEF Held, Leasing
  <2> QED
    BY <1>1, <2>1 DEF MoeInv, HeldOK
<1>10. BatchOK'
  BY <1>1 DEF BatchOK
<1>11. OutputOK'
  BY <1>1, <1>4 DEF MoeInv, OutputOK, Collecting, Turning, Borrowings, Adding, Leasing
<1>12. AdviceOK'
  BY <1>1 DEF MoeInv, AdviceOK, Advised
<1> QED
  BY <1>3, <1>5, <1>6, <1>8, <1>9, <1>10, <1>11, <1>12 DEF MoeInv

LEMMA ScanKeeps ==
    ASSUME MoeInv, Scan
    PROVE  MoeInv'
<1>1. /\ pc = "scan" /\ pc' = "scan" /\ at < NExperts /\ at' = SelectedFrom(at + 1)
      /\ ready' = ready \/ (Count(routes, at) = 1 /\ ready' = Append(ready, at))
      /\ UNCHANGED <<setup, cache, layer, known, scores, routes, leases, batch, output, tasks>>
  BY DEF Scan
<1>2. Routed /\ Routed'
  BY <1>1 DEF Routed
<1>3. RunOK' /\ RoutesOK'
  BY <1>1, <1>2, SameRoutes
<1>4. at \in Chosen(routes) /\ at \in ExpertId /\ at + 1 \in 0..NExperts /\ at \in Nat
  <2>1. at \in Chosen(routes)
    BY <1>1, <1>2, InvFacts DEF MoeInv, TurnOK
  <2> QED
    BY <1>2, <2>1, RoutedFacts, InvFacts
<1>5. /\ at' \in (at + 1)..NExperts /\ (at' = NExperts \/ at' \in Chosen(routes))
  BY <1>1, <1>2, <1>4, NextSelected
<1>6. at' \in 0..NExperts /\ at < at'
  BY <1>4, <1>5, InvFacts
<1>7. SettingOK'
  BY <1>1, <1>6 DEF MoeInv, SettingOK
<1>8. TurnOK'
  BY <1>1, <1>5 DEF TurnOK, Borrowings, Adding, Leasing
<1>9. /\ ready \in Seq(Chosen(routes)) /\ Distinct(ready) /\ leases = 0
      /\ \A i \in 1..Len(ready) : Count(routes, ready[i]) = 1 /\ ready[i] < at
  BY <1>1 DEF MoeInv, ReadyOK, Collecting, Leasing
<1>10. /\ ready' \in Seq(Chosen(routes)) /\ Distinct(ready')
       /\ \A i \in 1..Len(ready') : Count(routes, ready'[i]) = 1 /\ ready'[i] < at'
  <2>1. \A i \in 1..Len(ready) : ready[i] \in Nat
    BY <1>2, <1>9, RoutedFacts, LenProperties DEF ExpertId
  <2>2. \A i \in 1..Len(ready) : ready[i] < at'
    BY <1>4, <1>6, <1>9, <2>1
  <2>3. CASE ready' = ready
    BY <1>9, <2>2, <2>3
  <2>4. CASE Count(routes, at) = 1 /\ ready' = Append(ready, at)
    <3>1. at \notin ToSet(ready)
      BY <1>4, <1>9, <2>1 DEF ToSet
    <3>2. /\ ready' \in Seq(Chosen(routes)) /\ Len(ready') = Len(ready) + 1
          /\ Distinct(ready')
      BY <1>4, <1>9, <2>4, <3>1, With
    <3>3. \A i \in 1..Len(ready') : ready'[i] = IF i \in 1..Len(ready) THEN ready[i] ELSE at
      BY <1>9, <2>4, <3>2, AppendProperties
    <3> QED
      BY <1>6, <1>9, <2>2, <2>4, <3>2, <3>3
  <2> QED
    BY <1>1, <2>3, <2>4
<1>11. ReadyOK'
  <2>1. Len(ready') \in Nat
    BY <1>10, LenProperties
  <2> QED
    BY <1>1, <1>9, <1>10, <2>1 DEF ReadyOK, Collecting, Leasing
<1>12. HeldOK'
  <2>1. Held = {} /\ Held' = {}
    BY <1>1 DEF Held, Leasing
  <2> QED
    BY <1>1, <2>1 DEF MoeInv, HeldOK
<1>13. BatchOK' /\ OutputOK' /\ AdviceOK'
  BY <1>1 DEF MoeInv, BatchOK, OutputOK, AdviceOK, Advised, Collecting, Turning, Borrowings,
              Adding, Leasing
<1> QED
  BY <1>3, <1>7, <1>8, <1>11, <1>12, <1>13 DEF MoeInv

LEMMA ScanEndsKeeps ==
    ASSUME MoeInv, ScanEnds
    PROVE  MoeInv'
<1>1. /\ pc = "scan" /\ ((pc' = "expert" /\ ready = <<>>) \/ pc' = "lease") /\ at' = SelectedFrom(0)
      /\ UNCHANGED <<setup, cache, layer, known, scores, routes, ready, leases, batch, output, tasks>>
  BY DEF ScanEnds
<1>2. Routed /\ Routed'
  BY <1>1 DEF Routed
<1>3. RunOK' /\ RoutesOK'
  BY <1>1, <1>2, SameRoutes
<1>4. 0 \in 0..NExperts
  BY InvFacts
<1>5. /\ at' \in 0..NExperts /\ (at' = NExperts \/ at' \in Chosen(routes))
      /\ Added(routes, at') = Added(routes, 0)
  BY <1>1, <1>2, <1>4, NextSelected
<1>6. SettingOK'
  BY <1>1, <1>5 DEF MoeInv, SettingOK, Stages, Advised, Collecting, Turning, Leasing
<1>7. TurnOK'
  <2>1. SelectedFrom(0)' = SelectedFrom(0)
    BY <1>1 DEF SelectedFrom
  <2> QED
    BY <1>1, <1>5, <2>1 DEF TurnOK, Borrowings, Adding, Leasing
<1>8. /\ ready \in Seq(Chosen(routes)) /\ Distinct(ready) /\ leases = 0
      /\ \A i \in 1..Len(ready) : Count(routes, ready[i]) = 1
  BY <1>1 DEF MoeInv, ReadyOK, Collecting, Leasing
<1>9. ReadyOK'
  <2>1. Len(ready) \in Nat
    BY <1>8, LenProperties
  <2> QED
    BY <1>1, <1>8, <2>1 DEF ReadyOK, Collecting, Leasing
<1>10. HeldOK'
  <2>1. Held = {}
    BY <1>1 DEF Held, Leasing
  <2>2. {ready[i] : i \in 1..0} = {}
    OBVIOUS
  <2>3. Held' = {}
    BY <1>1, <1>8, <2>2 DEF Held, Leasing
  <2> QED
    BY <1>1, <2>1, <2>3 DEF MoeInv, HeldOK
<1>11. BatchOK' /\ OutputOK' /\ AdviceOK'
  BY <1>1, <1>5 DEF MoeInv, BatchOK, OutputOK, AdviceOK, Advised, Collecting, Turning, Borrowings,
                    Adding, Leasing
<1> QED
  BY <1>3, <1>6, <1>7, <1>9, <1>10, <1>11 DEF MoeInv

LEMMA ReleasedKeeps ==
    ASSUME MoeInv, Released
    PROVE  MoeInv'
<1>1. /\ pc \in {"release", "giveup"} /\ pc' \in {"scan", "expert"} /\ leases = 0 /\ ready' = <<>>
      /\ UNCHANGED <<setup, cache, layer, known, scores, routes, at, leases, batch, output, tasks>>
  BY DEF Released
<1>2. Routed /\ Routed'
  BY <1>1 DEF Routed
<1>3. RunOK' /\ RoutesOK'
  BY <1>1, <1>2, SameRoutes
<1>4. 0 \in 0..NExperts
  BY InvFacts
<1>5. at = SelectedFrom(0)
  BY <1>1 DEF MoeInv, TurnOK, Leasing
<1>6. (at = NExperts \/ at \in Chosen(routes)) /\ Added(routes, at) = Added(routes, 0)
  BY <1>2, <1>4, <1>5, NextSelected
<1>7. SettingOK'
  BY <1>1 DEF MoeInv, SettingOK, Stages, Advised, Collecting, Turning, Leasing
<1>8. TurnOK'
  BY <1>1, <1>6 DEF TurnOK, Borrowings, Adding, Leasing
<1>9. ReadyOK'
  <2>1. <<>> \in Seq(Chosen(routes)) /\ Distinct(<<>>) /\ Len(<<>>) = 0
    BY DEF Distinct
  <2> QED
    BY <1>1, <2>1 DEF ReadyOK, Collecting, Leasing
<1>10. HeldOK'
  <2>1. {ready[i] : i \in 1..0} = {}
    OBVIOUS
  <2>2. Held = {} /\ Held' = {}
    BY <1>1, <2>1 DEF Held, Leasing
  <2> QED
    BY <1>1, <2>2 DEF MoeInv, HeldOK
<1>11. BatchOK' /\ OutputOK' /\ AdviceOK'
  BY <1>1, <1>6 DEF MoeInv, BatchOK, OutputOK, AdviceOK, Advised, Collecting, Turning, Borrowings,
                    Adding, Leasing
<1> QED
  BY <1>3, <1>7, <1>8, <1>9, <1>10, <1>11 DEF MoeInv

(* Every contribution of a batch is of an expert that one route goes to, and *)
(* its weights are borrowed.                                                 *)
LEMMA ComputeBatchKeeps ==
    ASSUME MoeInv, ComputeBatch
    PROVE  MoeInv'
<1>1. /\ pc = "lease" /\ pc' = "release" /\ leases = Len(ready)
      /\ batch' = [e \in DOMAIN BatchOutcome(cache) \cup DOMAIN batch |->
                      IF e \in DOMAIN BatchOutcome(cache) THEN BatchOutcome(cache)[e] ELSE batch[e]]
      /\ output' = output
      /\ UNCHANGED <<setup, cache, layer, known, scores, routes, at, ready, leases, tasks>>
  BY DEF ComputeBatch, Deferred
<1>2. Routed /\ Routed'
  BY <1>1 DEF Routed
<1>3. RunOK' /\ RoutesOK'
  BY <1>1, <1>2, SameRoutes
<1>4. SettingOK'
  BY <1>1 DEF MoeInv, SettingOK, Stages, Advised, Collecting, Leasing
<1>5. TurnOK'
  <2>1. SelectedFrom(0)' = SelectedFrom(0)
    BY <1>1 DEF SelectedFrom
  <2> QED
    BY <1>1, <2>1 DEF MoeInv, TurnOK, Borrowings, Adding, Leasing
<1>6. /\ ready \in Seq(Chosen(routes)) /\ Len(ready) \in Nat
      /\ \A i \in 1..Len(ready) : Count(routes, ready[i]) = 1 /\ ready[i] \in Chosen(routes)
  BY <1>1, LenProperties DEF MoeInv, ReadyOK, Collecting, Leasing
<1>7. ReadyOK'
  BY <1>1 DEF MoeInv, ReadyOK, Collecting, Leasing
<1>8. Held = {ready[i] : i \in 1..Len(ready)} /\ Held' = Held
  BY <1>1 DEF Held, Leasing
<1>9. HeldOK'
  BY <1>1, <1>8 DEF MoeInv, HeldOK, IsReady, Weights
<1>10. BatchOK'
  <2>1. ASSUME NEW e \in ToSet(ready)
        PROVE  \A r \in RoutesOf(routes, e) : BatchOutcome(cache)[e] = <<e, r[2]>>
    <3>1. PICK i \in 1..Len(ready) : e = ready[i]
      BY <1>6 DEF ToSet
    <3>2. e \in Held /\ Count(routes, e) = 1 /\ e \in Chosen(routes)
      BY <1>6, <1>8, <3>1
    <3>3. Weights(e) = <<layer, e>> /\ Weights(e) \in Pair
      BY <1>2, <3>2, RoutedFacts
    <3>4. IsReady(cache, Weights(e)) /\ cache.entry[Weights(e)].pins = 1
      BY <1>1, <3>2, <3>3 DEF MoeInv, HeldOK, HeldIn
    <3>5. PICK x : RoutesOf(routes, e) = {x}
      <4>1. IsFiniteSet(RoutesOf(routes, e))
        <5>1. IsFiniteSet(1..Len(scores)) /\ IsFiniteSet(1..TopK)
          BY <1>2, RoutedFacts, GroupFacts, FS_Interval
        <5>2. DOMAIN routes = 1..Len(scores)
          BY <1>2, RoutedFacts
        <5>3. RoutesOf(routes, e) \in SUBSET ((1..Len(scores)) \X (1..TopK))
          BY <5>2 DEF RoutesOf
        <5> QED
          BY <5>1, <5>3, FS_Product, FS_Subset
      <4> QED
        BY <3>2, <4>1, FS_Singleton DEF Count
    <3>6. (CHOOSE r \in RoutesOf(routes, e) : TRUE) = x
      BY <3>5
    <3>7. BatchOutcome(cache)[e] = Contribution(cache, e, x)
      BY <3>6 DEF BatchOutcome
    <3>8. Contribution(cache, e, x) = <<e, x[2]>>
      BY <3>4 DEF Contribution
    <3> QED
      BY <3>5, <3>7, <3>8
  <2>2. DOMAIN BatchOutcome(cache) = ToSet(ready)
    BY DEF BatchOutcome
  <2>3. /\ DOMAIN batch' = ToSet(ready) \cup DOMAIN batch
        /\ \A e \in DOMAIN batch' :
               batch'[e] = IF e \in ToSet(ready) THEN BatchOutcome(cache)[e] ELSE batch[e]
    BY <1>1, <2>2
  <2>4. \A e \in DOMAIN batch : \A r \in RoutesOf(routes, e) : batch[e] = <<e, r[2]>>
    BY <1>1 DEF MoeInv, BatchOK, Collecting, Leasing
  <2> QED
    BY <1>1, <2>1, <2>3, <2>4 DEF BatchOK
<1>11. OutputOK' /\ AdviceOK'
  BY <1>1 DEF MoeInv, OutputOK, AdviceOK, Advised, Collecting, Turning, Borrowings, Adding, Leasing
<1> QED
  BY <1>3, <1>4, <1>5, <1>7, <1>9, <1>10, <1>11 DEF MoeInv

LEMMA ScatterKeeps ==
    ASSUME MoeInv, Scatter
    PROVE  MoeInv'
<1>1. /\ pc = "expert" /\ at < NExperts /\ at \in DOMAIN batch /\ pc' = "advance"
      /\ output' = AddRoutes(output, at, [r \in RoutesOf(routes, at) |-> batch[at]])
      /\ UNCHANGED <<setup, cache, layer, known, scores, routes, at, ready, leases, batch, tasks>>
  BY DEF Scatter, InBatch
<1>2. Routed /\ Routed'
  BY <1>1 DEF Routed
<1>3. RunOK' /\ RoutesOK'
  BY <1>1, <1>2, SameRoutes
<1>4. at \in Chosen(routes) /\ at \in Int
  BY <1>1, InvFacts DEF MoeInv, TurnOK
<1>5. SettingOK' /\ TurnOK' /\ ReadyOK'
  BY <1>1, <1>4 DEF MoeInv, SettingOK, TurnOK, ReadyOK, Stages, Advised, Collecting, Leasing,
                    Turning, Borrowings, Adding
<1>6. HeldOK'
  <2>1. Held = {} /\ Held' = {}
    BY <1>1 DEF Held, Leasing
  <2> QED
    BY <1>1, <2>1 DEF MoeInv, HeldOK
<1>7. OutputOK'
  <2>1. output = Added(routes, at)
    BY <1>1 DEF MoeInv, OutputOK, Turning
  <2>2. PICK v : v = [r \in RoutesOf(routes, at) |-> batch[at]]
    OBVIOUS
  <2>3. \A r \in RoutesOf(routes, at) : v[r] = <<at, r[2]>>
    BY <1>1, <2>2 DEF MoeInv, BatchOK, Turning
  <2>4. PICK n : n = 1..Len(scores)
    OBVIOUS
  <2>5. AddRoutes(Added(routes, at), at, v) = Added(routes, at + 1)
    BY <1>2, <1>4, <2>3, RoutedFacts, AddRoutesIs
  <2> QED
    BY <1>1, <2>1, <2>2, <2>5 DEF OutputOK, Collecting, Turning, Borrowings, Adding, Leasing
<1>8. BatchOK' /\ AdviceOK'
  BY <1>1 DEF MoeInv, BatchOK, AdviceOK, Advised, Collecting, Turning, Borrowings, Adding, Leasing
<1> QED
  BY <1>3, <1>5, <1>6, <1>7, <1>8 DEF MoeInv

LEMMA AddSharedKeeps ==
    ASSUME MoeInv, AddShared
    PROVE  MoeInv'
<1>1. /\ pc = "expert" /\ at = NExperts /\ pc' = "added"
      /\ output' = [t \in DOMAIN output |-> Append(output[t], Shared)]
      /\ UNCHANGED <<setup, cache, layer, known, scores, routes, at, ready, leases, batch, tasks>>
  BY DEF AddShared
<1>2. Routed /\ Routed'
  BY <1>1 DEF Routed
<1>3. RunOK' /\ RoutesOK' /\ \A t : Expected(t)' = Expected(t)
  BY <1>1, <1>2, SameRoutes
<1>4. SettingOK' /\ TurnOK' /\ ReadyOK'
  BY <1>1 DEF MoeInv, SettingOK, TurnOK, ReadyOK, Stages, Advised, Collecting, Leasing,
              Turning, Borrowings, Adding
<1>5. HeldOK'
  <2>1. Held = {} /\ Held' = {}
    BY <1>1 DEF Held, Leasing
  <2> QED
    BY <1>1, <2>1 DEF MoeInv, HeldOK
<1>6. output' = [t \in DOMAIN routes |-> Expected(t)]
  <2>1. PICK n \in Nat : n = Len(scores)
    BY <1>2, RoutedFacts
  <2>2. /\ routes \in [1..n -> [1..TopK -> ExpertId]]
        /\ \A t \in 1..n : routes[t] = RouteOf(t)
    BY <1>2, <2>1 DEF MoeInv, RoutesOK
  <2>3. output = Added(routes, NExperts)
    BY <1>1 DEF MoeInv, OutputOK, Turning
  <2>4. \A t \in 1..n : Append(Added(routes, NExperts)[t], Shared) = Expected(t)
    BY <2>2, AddedLast
  <2>5. DOMAIN output = 1..n /\ DOMAIN routes = 1..n
    BY <2>2, <2>3 DEF Added
  <2> QED
    BY <1>1, <2>3, <2>4, <2>5
<1>7. OutputOK'
  BY <1>1, <1>3, <1>6 DEF OutputOK, Collecting, Turning, Borrowings, Adding, Leasing
<1>8. BatchOK' /\ AdviceOK'
  BY <1>1 DEF BatchOK, AdviceOK, Advised, Collecting, Turning, Borrowings, Adding, Leasing
<1> QED
  BY <1>3, <1>4, <1>5, <1>7, <1>8 DEF MoeInv

LEMMA NextLayerKeeps ==
    ASSUME MoeInv, NextLayer
    PROVE  MoeInv'
<1>1. /\ pc = "added" /\ pc' \in {"route", "idle"} /\ layer' \in Layer
      /\ UNCHANGED <<setup, cache, known, scores, routes, at, ready, leases, batch, output, tasks>>
  BY InvFacts, LayerFacts DEF NextLayer, Layer
<1>2. SettingOK' /\ TurnOK' /\ ReadyOK'
  BY <1>1 DEF MoeInv, SettingOK, TurnOK, ReadyOK, Stages, Advised, Collecting, Leasing,
              Turning, Borrowings, Adding
<1>3. RunOK' /\ RoutesOK'
  BY <1>1 DEF MoeInv, RunOK, RoutesOK, Routed
<1>4. HeldOK'
  <2>1. Held = {} /\ Held' = {}
    BY <1>1 DEF Held, Leasing
  <2> QED
    BY <1>1, <2>1 DEF MoeInv, HeldOK, HeldIn
<1>5. BatchOK' /\ OutputOK' /\ AdviceOK'
  BY <1>1 DEF BatchOK, OutputOK, AdviceOK, Advised, Collecting, Turning, Borrowings, Adding, Leasing
<1> QED
  BY <1>2, <1>3, <1>4, <1>5 DEF MoeInv

LEMMA LookKeeps ==
    ASSUME MoeInv, Look
    PROVE  MoeInv'
<1>1. PICK next \in 0..NExperts : ready = <<next>> /\ pc = "look"
  BY DEF MoeInv, ReadyOK, Look
<1>2. /\ \/ next = NExperts /\ pc' = "expert" /\ ready' = <<>> /\ at' = SelectedFrom(at + 1)
         \/ next < NExperts /\ pc' = "look" /\ ready' = <<SelectedFrom(next + 1)>> /\ at' = at
         \/ next < NExperts /\ pc' = "refill" /\ ready' = ready /\ at' = at
      /\ UNCHANGED <<setup, cache, layer, known, scores, routes, leases, batch, output, tasks>>
  BY <1>1 DEF Look
<1>3. Routed /\ Routed'
  BY <1>1, <1>2 DEF Routed
<1>4. RunOK' /\ RoutesOK'
  BY <1>1, <1>2, <1>3, SameRoutes
<1>5. at \in Chosen(routes) /\ at + 1 \in 0..NExperts
  BY <1>1, <1>3, RoutedFacts DEF MoeInv, TurnOK, Adding
<1>6. at' = SelectedFrom(at + 1) => /\ at' \in 0..NExperts /\ (at' = NExperts \/ at' \in Chosen(routes))
                                    /\ Added(routes, at') = Added(routes, at + 1)
  BY <1>3, <1>5, NextSelected
<1>7. SettingOK'
  BY <1>1, <1>2, <1>6 DEF MoeInv, SettingOK, Stages, Advised, Adding, Turning
<1>8. TurnOK'
  BY <1>2, <1>5, <1>6 DEF TurnOK, Borrowings, Adding, Leasing
<1>9. ReadyOK'
  <2>1. leases = 0
    BY <1>1 DEF MoeInv, ReadyOK, Leasing
  <2>2. CASE pc' = "expert"
    BY <1>2, <2>1, <2>2 DEF ReadyOK, Collecting, Leasing
  <2>3. CASE pc' = "look"
    <3>1. next + 1 \in 0..NExperts /\ ready' = <<SelectedFrom(next + 1)>>
      BY <1>1, <1>2, <2>3, InvFacts
    <3>2. SelectedFrom(next + 1) \in 0..NExperts
      BY <1>3, <3>1, NextSelected
    <3> QED
      BY <1>2, <2>1, <2>3, <3>1, <3>2 DEF ReadyOK, Collecting, Leasing
  <2>4. CASE pc' = "refill"
    <3>1. next \in ExpertId /\ ready' = <<next>>
      BY <1>1, <1>2, <1>3, <2>4, RoutedFacts
    <3> QED
      BY <1>2, <2>1, <2>4, <3>1 DEF ReadyOK, Collecting, Leasing
  <2> QED
    BY <1>2, <2>2, <2>3, <2>4
<1>10. HeldOK'
  <2>1. Held = {} /\ Held' = {}
    BY <1>1, <1>2 DEF Held, Leasing
  <2> QED
    BY <1>2, <2>1 DEF MoeInv, HeldOK
<1>11. BatchOK' /\ OutputOK' /\ AdviceOK'
  BY <1>1, <1>2, <1>6 DEF MoeInv, BatchOK, OutputOK, AdviceOK, Advised, Collecting, Turning,
                          Borrowings, Adding, Leasing
<1> QED
  BY <1>4, <1>7, <1>8, <1>9, <1>10, <1>11 DEF MoeInv

LEMMA RouteKeeps ==
    ASSUME MoeInv, Route
    PROVE  MoeInv'
<1>1. /\ pc = "route" /\ pc' \in {"retain", "request"}
      /\ output' = [t \in DOMAIN scores' |-> <<>>]
      /\ UNCHANGED <<setup, cache, layer, known, at, ready, leases, batch>>
  BY DEF Route
<1>2. PICK n \in Nat : n = Len(scores) /\ n >= 1 /\ DOMAIN scores = 1..n
  BY <1>1, InvFacts
<1>3. /\ scores \in Seq([ExpertId -> Int])
      /\ known \in [setup.hashed -> [1..n -> HashRoutes]]
  BY <1>1, <1>2 DEF MoeInv, RunOK
<1>4. HashRoutes \subseteq [1..TopK -> ExpertId] /\ Scores \subseteq [ExpertId -> Int]
  BY MoeAssumption
<1>5. /\ scores' \in Seq([ExpertId -> Int]) /\ Len(scores') = n /\ DOMAIN scores' = 1..n
      /\ routes' \in [1..n -> [1..TopK -> ExpertId]]
      /\ \A t \in 1..n : routes'[t] = RouteOf(t)'
  <2>1. CASE layer \in setup.hashed
    <3>1. routes' = known[layer] /\ scores' = scores
      BY <1>1, <2>1 DEF Route
    <3>2. \A t : RouteOf(t)' = known[layer][t]
      BY <1>1, <2>1 DEF RouteOf
    <3> QED
      BY <1>2, <1>3, <1>4, <2>1, <3>1, <3>2
  <2>2. CASE layer \notin setup.hashed
    <3>1. /\ scores' \in [1..n -> setup.scores]
          /\ routes' = [t \in DOMAIN scores' |-> SelectRoutes(scores'[t])]
      BY <1>1, <1>2, <2>2 DEF Route
    <3>2. \A t \in 1..n : scores'[t] \in Scores
      BY <3>1, InvFacts
    <3>3. \A t : RouteOf(t)' = BestRoute(scores'[t])
      BY <1>1, <2>2 DEF RouteOf
    <3>4. \A t \in 1..n : /\ SelectRoutes(scores'[t]) = BestRoute(scores'[t])
                          /\ SelectRoutes(scores'[t]) \in [1..TopK -> ExpertId]
      BY <3>2, SelectIsBest
    <3>5. DOMAIN scores' = 1..n
      BY <3>1
    <3>6. scores' \in Seq([ExpertId -> Int]) /\ Len(scores') = n
      <4>1. PICK T : T = [ExpertId -> Int]
        OBVIOUS
      <4>2. scores' \in [1..n -> T]
        BY <1>4, <3>1, <3>2, <4>1
      <4>3. scores' \in Seq(T)
        BY <1>2, <4>2, SeqDef
      <4> QED
        BY <1>2, <3>5, <4>1, <4>3, LenProperties
    <3> QED
      BY <3>1, <3>3, <3>4, <3>5, <3>6
  <2> QED
    BY <2>1, <2>2
<1>6. RunOK' /\ RoutesOK'
  BY <1>1, <1>2, <1>3, <1>5 DEF RunOK, RoutesOK
<1>7. tasks' \in Seq([layer : Layer, route : {<<>>} \cup HashRoutes]) /\ Len(tasks') <= 3
  <2>1. PICK T : T = [layer : Layer, route : {<<>>} \cup HashRoutes]
    OBVIOUS
  <2>2. tasks \in Seq(T) /\ Len(tasks) <= 3
    BY <2>1 DEF MoeInv, SettingOK
  <2>3. CASE tasks' = tasks
    BY <2>1, <2>2, <2>3
  <2>4. CASE tasks' # tasks
    <3>1. /\ Len(tasks) <= 2 /\ layer + 1 < NLayers /\ tasks' = Append(tasks, Task(layer + 1))
      BY <2>4 DEF Route, Schedule
    <3>2. layer + 1 \in Layer
      BY <3>1, InvFacts, LayerFacts DEF Layer
    <3>3. Task(layer + 1) \in T
      <4>1. CASE layer + 1 \in setup.hashed
        <5>1. known[layer + 1][1] \in HashRoutes
          <6>1. known[layer + 1] \in [1..n -> HashRoutes]
            BY <1>3, <4>1
          <6>2. 1 \in 1..n
            BY <1>2
          <6> QED
            BY <6>1, <6>2
        <5> QED
          BY <2>1, <3>2, <4>1, <5>1 DEF Task
      <4>2. CASE layer + 1 \notin setup.hashed
        BY <2>1, <3>2, <4>2 DEF Task
      <4> QED
        BY <4>1, <4>2
    <3>4. tasks' \in Seq(T) /\ Len(tasks') = Len(tasks) + 1 /\ Len(tasks) \in Nat
      BY <2>2, <3>1, <3>3, AppendProperties, LenProperties
    <3> QED
      BY <2>1, <3>1, <3>4
  <2> QED
    BY <2>3, <2>4
<1>8. SettingOK'
  BY <1>1, <1>7 DEF MoeInv, SettingOK, Stages
<1>9. TurnOK' /\ ReadyOK'
  BY <1>1 DEF MoeInv, TurnOK, ReadyOK, Collecting, Leasing, Borrowings, Adding
<1>10. HeldOK'
  <2>1. Held = {} /\ Held' = {}
    BY <1>1 DEF Held, Leasing
  <2> QED
    BY <1>1, <2>1 DEF MoeInv, HeldOK
<1>11. OutputOK'
  <2>1. Added(routes', 0) = [t \in 1..n |-> <<>>]
    BY <1>5, AddedFirst
  <2>2. output' = Added(routes', 0)
    BY <1>1, <1>5, <2>1
  <2> QED
    BY <1>1, <2>2 DEF OutputOK, Collecting, Leasing, Turning, Borrowings, Adding
<1>12. BatchOK' /\ AdviceOK'
  BY <1>1 DEF BatchOK, AdviceOK, Advised, Collecting, Turning, Borrowings, Adding, Leasing
<1> QED
  BY <1>6, <1>8, <1>9, <1>10, <1>11, <1>12 DEF MoeInv

-----------------------------------------------------------------------------
(***************************************************************************)
(* Steps that change the cache.                                            *)
(***************************************************************************)
LEMMA Undisturbed ==
    ASSUME MoeInv, NEW d, Follows(cache, d)
    PROVE  /\ HeldIn(d, layer, Held)
           /\ \A e \in Held : d.entry[Weights(e)].state = cache.entry[Weights(e)].state
           /\ pc \in Advised => FreshIn(d, layer, Chosen(routes))
<1>1. layer \in Layer /\ Held \in SUBSET ExpertId /\ HeldIn(cache, layer, Held)
  BY InvFacts, HeldExperts DEF MoeInv, HeldOK
<1>2. /\ HeldIn(d, layer, Held)
      /\ \A e \in Held : d.entry[<<layer, e>>].state = cache.entry[<<layer, e>>].state
  BY <1>1, HeldFollows
<1>3. CASE pc \in Advised
  <2>1. Routed
    BY <1>3 DEF Routed, Advised, Collecting, Leasing, Turning, Borrowings, Adding
  <2>2. Chosen(routes) \in SUBSET ExpertId /\ FreshIn(cache, layer, Chosen(routes))
    BY <1>3, <2>1, RoutedFacts DEF MoeInv, AdviceOK
  <2>3. FreshIn(d, layer, Chosen(routes))
    BY <1>1, <2>2, FreshFollows
  <2> QED
    BY <1>2, <2>3 DEF Weights
<1> QED
  BY <1>2, <1>3 DEF Weights

LEMMA PinnedHeld ==
    ASSUME NEW global, NEW c, Shape(c, global), NEW l \in Layer, NEW H, HeldIn(c, l, H),
           NEW e \in ExpertId, e \notin H, Resident(c, <<l, e>>)
    PROVE  /\ Shape(Pinned(c, <<l, e>>), global)
           /\ HeldIn(Pinned(c, <<l, e>>), l, H \cup {e})
           /\ \A q \in Pair : Pinned(c, <<l, e>>).entry[q].state = c.entry[q].state
           /\ \A S \in SUBSET ExpertId : FreshIn(c, l, S) => FreshIn(Pinned(c, <<l, e>>), l, S)
<1>1. PICK p \in Pair : p = <<l, e>> /\ p[1] = l /\ p[2] = e
  <2>1. <<l, e>> \in Pair
    BY DEF Pair
  <2> QED
    BY <2>1
<1>2. c.entry[p].pins = 0
  BY <1>1 DEF HeldIn
<1>3. PICK d : d = Pinned(c, p)
  OBVIOUS
<1>4. /\ Shape(d, global) /\ d.active = c.active
      /\ \A q \in Pair : /\ d.entry[q].pins = IF q = p THEN 1 ELSE c.entry[q].pins
                         /\ d.entry[q].state = c.entry[q].state
                         /\ d.entry[q].current = c.entry[q].current
  BY <1>1, <1>2, <1>3, PinnedIs
<1>5. \A q \in Pair : q = p <=> q[1] = l /\ q[2] = e
  BY <1>1, LayerFacts
<1>6. HeldIn(d, l, H \cup {e})
  BY <1>4, <1>5 DEF HeldIn
<1>7. ASSUME NEW S \in SUBSET ExpertId, FreshIn(c, l, S) PROVE FreshIn(d, l, S)
  <2>1. \A f \in S : <<l, f>> \in Pair
    BY DEF Pair
  <2> QED
    BY <1>4, <1>7, <2>1 DEF FreshIn, Resident
<1> QED
  BY <1>1, <1>3, <1>4, <1>6, <1>7

LEMMA UnpinnedHeld ==
    ASSUME NEW global, NEW c, Shape(c, global), NEW l \in Layer, NEW H, HeldIn(c, l, H),
           NEW e \in ExpertId, e \in H
    PROVE  /\ Shape(Unpinned(c, <<l, e>>), global)
           /\ HeldIn(Unpinned(c, <<l, e>>), l, H \ {e})
           /\ \A q \in Pair : Unpinned(c, <<l, e>>).entry[q].state = c.entry[q].state
           /\ \A S \in SUBSET ExpertId : FreshIn(c, l, S) => FreshIn(Unpinned(c, <<l, e>>), l, S)
<1>1. PICK p \in Pair : p = <<l, e>> /\ p[1] = l /\ p[2] = e
  <2>1. <<l, e>> \in Pair
    BY DEF Pair
  <2> QED
    BY <2>1
<1>2. c.entry[p].pins = 1 /\ Resident(c, p)
  BY <1>1 DEF HeldIn, Shape
<1>3. PICK d : d = Unpinned(c, p)
  OBVIOUS
<1>4. /\ Shape(d, global) /\ d.active = c.active
      /\ \A q \in Pair : /\ d.entry[q].pins = IF q = p THEN 0 ELSE c.entry[q].pins
                         /\ d.entry[q].state = c.entry[q].state
                         /\ d.entry[q].current = c.entry[q].current
  BY <1>1, <1>2, <1>3, UnpinnedIs
<1>5. \A q \in Pair : q = p <=> q[1] = l /\ q[2] = e
  BY <1>1, LayerFacts
<1>6. HeldIn(d, l, H \ {e})
  BY <1>4, <1>5 DEF HeldIn
<1>7. ASSUME NEW S \in SUBSET ExpertId, FreshIn(c, l, S) PROVE FreshIn(d, l, S)
  <2>1. \A f \in S : <<l, f>> \in Pair
    BY DEF Pair
  <2> QED
    BY <1>4, <1>7, <2>1 DEF FreshIn, Resident
<1> QED
  BY <1>1, <1>3, <1>4, <1>6, <1>7

(* The steps after which the compute thread is where it was. *)
LEMMA CacheOnly ==
    ASSUME MoeInv, UNCHANGED <<setup, pc, kernel>>, Shape(cache', setup.global),
           tasks' \in Seq([layer : Layer, route : {<<>>} \cup HashRoutes]), Len(tasks') <= 3,
           HeldIn(cache', layer, Held),
           \A e \in Held : IF pc = "load" THEN Resident(cache', Weights(e))
                           ELSE IsReady(cache', Weights(e)),
           pc \in Advised => FreshIn(cache', layer, Chosen(routes))
    PROVE  MoeInv'
<1>1. UNCHANGED <<setup, pc, layer, known, scores, routes, at, ready, leases, batch, output>>
  BY DEF kernel
<1>2. RunOK' /\ RoutesOK' /\ \A t : Expected(t)' = Expected(t)
  <2>1. Routed' => Routed
    BY <1>1 DEF Routed
  <2> QED
    BY <1>1, <2>1, SameRoutes
<1>3. SettingOK'
  BY <1>1 DEF MoeInv, SettingOK
<1>4. TurnOK'
  <2>1. SelectedFrom(0)' = SelectedFrom(0)
    BY <1>1 DEF SelectedFrom
  <2> QED
    BY <1>1, <2>1 DEF MoeInv, TurnOK
<1>5. ReadyOK'
  BY <1>1 DEF MoeInv, ReadyOK
<1>6. HeldOK'
  <2>1. Held' = Held
    BY <1>1 DEF Held
  <2>2. \A e : Weights(e)' = Weights(e)
    BY <1>1 DEF Weights
  <2> QED
    BY <1>1, <2>1, <2>2 DEF HeldOK
<1>7. BatchOK' /\ AdviceOK'
  BY <1>1 DEF MoeInv, BatchOK, AdviceOK
<1>8. OutputOK'
  BY <1>1, <1>2 DEF MoeInv, OutputOK
<1> QED
  BY <1>2, <1>3, <1>4, <1>5, <1>6, <1>7, <1>8 DEF MoeInv

LEMMA CompleteKeeps ==
    ASSUME MoeInv, RunIo
    PROVE  MoeInv'
<1>1. PICK p \in Pair, ok \in BOOLEAN :
          /\ cache.entry[p].state = "loading" /\ cache' = Loaded(cache, p, ok)
          /\ UNCHANGED <<setup, passes, pc, kernel, tasks>>
  BY DEF RunIo, Complete
<1>2. PICK d : d = cache'
  OBVIOUS
<1>3. /\ Shape(d, setup.global) /\ d.active = cache.active
      /\ \A q \in Pair : /\ d.entry[q].pins = cache.entry[q].pins
                         /\ d.entry[q].current = cache.entry[q].current
                         /\ q # p => d.entry[q].state = cache.entry[q].state
      /\ Resident(d, p)
  <2>1. Shape(cache, setup.global)
    BY InvFacts
  <2> QED
    BY <1>1, <1>2, <2>1, LoadedIs
<1>4. HeldIn(d, layer, Held)
  BY <1>3 DEF MoeInv, HeldOK, HeldIn
<1>5. Held \in SUBSET ExpertId /\ \A e \in ExpertId : Weights(e) \in Pair
  BY HeldExperts, InvFacts DEF Weights, Pair
<1>6. \A e \in Held : IF pc = "load" THEN Resident(d, Weights(e)) ELSE IsReady(d, Weights(e))
  <2>1. SUFFICES ASSUME NEW e \in Held
                 PROVE  IF pc = "load" THEN Resident(d, Weights(e)) ELSE IsReady(d, Weights(e))
    OBVIOUS
  <2>2. /\ Weights(e) \in Pair
        /\ IF pc = "load" THEN Resident(cache, Weights(e)) ELSE IsReady(cache, Weights(e))
    BY <1>5 DEF MoeInv, HeldOK
  <2> QED
    BY <1>1, <1>3, <2>2 DEF IsReady, Resident
<1>7. pc \in Advised => FreshIn(d, layer, Chosen(routes))
  <2>1. SUFFICES ASSUME pc \in Advised PROVE FreshIn(d, layer, Chosen(routes))
    OBVIOUS
  <2>2. Routed
    BY <2>1 DEF Routed, Advised, Collecting, Leasing, Turning, Borrowings, Adding
  <2>3. \A e \in Chosen(routes) : <<layer, e>> \in Pair
    BY <2>2, RoutedFacts DEF Weights
  <2>4. \A q \in Pair : Resident(d, q) => Resident(cache, q)
    BY <1>1, <1>3 DEF Resident
  <2> QED
    BY <1>3, <2>1, <2>3, <2>4 DEF MoeInv, AdviceOK, FreshIn
<1>8. tasks' \in Seq([layer : Layer, route : {<<>>} \cup HashRoutes]) /\ Len(tasks') <= 3
  BY <1>1 DEF MoeInv, SettingOK
<1> QED
  BY <1>1, <1>2, <1>3, <1>4, <1>6, <1>7, <1>8, CacheOnly

(* What the predictor asks for. *)
LEMMA PredictIs ==
    ASSUME MoeInv, Predict
    PROVE  /\ Shape(cache', setup.global) /\ Follows(cache, cache') /\ Spared(cache, cache')
           /\ tasks' \in Seq([layer : Layer, route : {<<>>} \cup HashRoutes]) /\ Len(tasks') <= 3
<1>1. PICK T : T = [layer : Layer, route : {<<>>} \cup HashRoutes]
  OBVIOUS
<1>2. tasks \in Seq(T) /\ Len(tasks) <= 3 /\ tasks # <<>> /\ tasks' = Tail(tasks)
  BY <1>1 DEF MoeInv, SettingOK, Predict
<1>3. PICK t : t = Head(tasks)
  OBVIOUS
<1>4. t \in T /\ tasks' \in Seq(T) /\ Len(tasks') <= 3
  <2>1. PICK n : n = Len(tasks)
    OBVIOUS
  <2>2. n \in Nat /\ n <= 3 /\ Len(tasks') = n - 1 /\ tasks' \in Seq(T) /\ t \in T
    BY <1>2, <1>3, <2>1, HeadTailProperties, LenProperties
  <2>3. n - 1 <= 3
    BY ONLY <2>2
  <2> QED
    BY <2>2, <2>3
<1>5. t.layer \in Layer /\ t.route \in {<<>>} \cup HashRoutes
  BY <1>1, <1>4
<1>6. /\ Shape(cache, setup.global) /\ setup.global \in BOOLEAN
      /\ TopK \in Nat /\ HashRoutes \subseteq [1..TopK -> ExpertId]
  BY InvFacts, GroupFacts, MoeAssumption
<1>7. \A hash \in BOOLEAN : \A i \in 1..TopK : Confidence(hash)[i] \in 0..2
  BY DEF Confidence
<1>8. \E ids \in Seq(ExpertId), hash \in BOOLEAN :
          /\ Len(ids) <= TopK
          /\ cache' = Requested(cache, t.layer, ids, TRUE, Confidence(hash))
  <2>1. CASE t.route # <<>>
    <3>1. cache' = Requested(cache, t.layer, t.route, TRUE, Confidence(TRUE))
      BY <1>3, <2>1 DEF Predict
    <3>2. t.route \in [1..TopK -> ExpertId]
      BY <1>5, <1>6, <2>1
    <3>3. t.route \in Seq(ExpertId) /\ Len(t.route) = TopK
      <4>1. t.route \in Seq(ExpertId)
        BY <1>6, <3>2, SeqDef
      <4> QED
        BY <1>6, <3>2, <4>1, LenProperties
    <3>4. Len(t.route) <= TopK
      BY <1>6, <3>3
    <3>5. PICK yes \in BOOLEAN : yes = TRUE
      OBVIOUS
    <3> QED
      BY <3>1, <3>3, <3>4, <3>5
  <2>2. CASE t.route = <<>>
    <3>1. PICK s \in Scores, n \in 1..TopK :
              cache' = Requested(cache, t.layer, SubSeq(SelectRoutes(s), 1, n), TRUE,
                                 Confidence(FALSE))
      BY <1>3, <2>2 DEF Predict
    <3>2. PICK r : r = SelectRoutes(s)
      OBVIOUS
    <3>3. r \in [1..TopK -> ExpertId]
      BY <3>2, SelectIsBest
    <3>4. r \in Seq(ExpertId) /\ Len(r) = TopK
      <4>1. r \in Seq(ExpertId)
        BY <1>6, <3>3, SeqDef
      <4> QED
        BY <1>6, <3>3, <4>1, LenProperties
    <3>5. SubSeq(r, 1, n) \in Seq(ExpertId) /\ Len(SubSeq(r, 1, n)) = n /\ n <= TopK
      BY <1>6, <3>4, SubSeqProperties
    <3> QED
      BY <3>1, <3>2, <3>5
  <2> QED
    BY <2>1, <2>2
<1>9. PICK ids \in Seq(ExpertId), hash \in BOOLEAN :
          /\ Len(ids) <= TopK
          /\ cache' = Requested(cache, t.layer, ids, TRUE, Confidence(hash))
  BY <1>8
<1>10. \A i \in 1..Len(ids) : Confidence(hash)[i] \in 0..2
  <2>1. Len(ids) \in Nat
    BY LenProperties
  <2>2. \A i \in 1..Len(ids) : i \in 1..TopK
    BY <1>6, <1>9, <2>1
  <2> QED
    BY <1>7, <2>2
<1>11. PICK d : d = Requested(cache, t.layer, ids, TRUE, Confidence(hash))
  OBVIOUS
<1>12. Shape(d, setup.global) /\ Follows(cache, d) /\ Spared(cache, d)
  BY <1>5, <1>6, <1>10, <1>11, RequestedIs, TRUE \in BOOLEAN
<1> QED
  BY <1>1, <1>4, <1>9, <1>11, <1>12

LEMMA PredictKeeps ==
    ASSUME MoeInv, Predict
    PROVE  MoeInv'
<1>1. UNCHANGED <<setup, pc, kernel>>
  BY DEF Predict
<1>2. PICK d : d = cache'
  OBVIOUS
<1>3. /\ Shape(d, setup.global) /\ Follows(cache, d)
      /\ tasks' \in Seq([layer : Layer, route : {<<>>} \cup HashRoutes]) /\ Len(tasks') <= 3
  BY <1>2, PredictIs
<1>4. /\ HeldIn(d, layer, Held)
      /\ \A e \in Held : d.entry[Weights(e)].state = cache.entry[Weights(e)].state
      /\ pc \in Advised => FreshIn(d, layer, Chosen(routes))
  BY <1>3, Undisturbed
<1>5. \A e \in Held : IF pc = "load" THEN Resident(d, Weights(e)) ELSE IsReady(d, Weights(e))
  BY <1>4 DEF MoeInv, HeldOK, Resident, IsReady
<1> QED
  BY <1>1, <1>2, <1>3, <1>4, <1>5, CacheOnly

(* The request for the route. *)
LEMMA RetainKeeps ==
    ASSUME MoeInv, Retain
    PROVE  MoeInv'
<1>1. /\ pc = "retain" /\ pc' = "request"
      /\ UNCHANGED <<setup, layer, known, scores, routes, at, ready, leases, batch, output, tasks>>
  BY DEF Retain, kernel
<1>2. Routed /\ Routed'
  BY <1>1 DEF Routed
<1>3. RunOK' /\ RoutesOK'
  BY <1>1, <1>2, SameRoutes
<1>4. PICK kept : /\ kept \in RetainedSets(cache, layer, routes[1], layer \notin setup.hashed)
                  /\ cache' = Retaining(cache, layer, kept)
  BY DEF Retain
<1>5. Shape(cache, setup.global) /\ layer \in Layer /\ cache \in CacheType
  BY InvFacts
<1>6. kept \in SUBSET ExpertId
  <2>1. routes[1] \in [1..TopK -> ExpertId]
    BY <1>2, RoutedFacts
  <2>2. FirstPlaces(routes[1]) \subseteq 1..TopK
    BY <2>1 DEF FirstPlaces
  <2>3. {p[2] : p \in OfLayer(cache, layer)} \in SUBSET ExpertId
    <3>1. OfLayer(cache, layer) \subseteq Pair
      BY <1>5 DEF OfLayer, Shape, Residents
    <3> QED
      BY <3>1, LayerFacts
  <2>4. \A k, S : kSubset(k, S) \subseteq SUBSET S
    BY DEF kSubset
  <2>5. CASE layer \in setup.hashed
    BY <1>4, <2>5 DEF RetainedSets
  <2>6. CASE layer \notin setup.hashed
    <3> DEFINE ids == routes[1]
               places == FirstPlaces(ids)
               route == {ids[i] : i \in {x \in places :
                            Cardinality({y \in places : y <= x}) <= RetainLimit(ids)}}
               history == {p[2] : p \in OfLayer(cache, layer)} \ route
               room == Smaller(RetainLimit(ids) - Cardinality(route), Cardinality(history))
    <3>1. route \in SUBSET ExpertId
      BY <2>1, <2>2
    <3>2. history \in SUBSET ExpertId
      <4> HIDE DEF route
      <4> QED
        BY <2>3
    <3>3. kept \in {route \cup h : h \in kSubset(room, history)}
      BY <1>4, <2>6 DEF RetainedSets
    <3> HIDE DEF room, history, route
    <3> QED
      BY <2>4, <3>1, <3>2, <3>3
  <2> QED
    BY <2>5, <2>6
<1>7. Shape(cache', setup.global) /\ Follows(cache, cache')
  BY <1>4, <1>5, <1>6, RetainingIs
<1>8. PICK d : d = cache'
  OBVIOUS
<1>9. SettingOK'
  BY <1>1, <1>7 DEF MoeInv, SettingOK, Stages
<1>10. TurnOK' /\ ReadyOK'
  BY <1>1 DEF MoeInv, TurnOK, ReadyOK, Collecting, Leasing, Borrowings, Adding
<1>11. HeldOK'
  <2>1. Held = {} /\ Held' = {}
    BY <1>1 DEF Held, Leasing
  <2>2. HeldIn(d, layer, {})
    BY <1>7, <1>8, <2>1, Undisturbed
  <2> QED
    BY <1>1, <1>8, <2>1, <2>2 DEF HeldOK
<1>12. BatchOK' /\ OutputOK' /\ AdviceOK'
  BY <1>1 DEF MoeInv, BatchOK, OutputOK, AdviceOK, Advised, Collecting, Turning, Borrowings,
              Adding, Leasing
<1> QED
  BY <1>3, <1>9, <1>10, <1>11, <1>12 DEF MoeInv

(* A demand of the running layer for some of its experts. *)
LEMMA DemandedIs ==
    ASSUME MoeInv, Held = {}, NEW l \in Layer, NEW ids \in Seq(ExpertId),
           NEW d, d = Demanded(cache, l, ids)
    PROVE  /\ Shape(d, setup.global) /\ HeldIn(d, l, {}) /\ d.active = l
           /\ \A i \in 1..Len(ids) : Resident(d, <<l, ids[i]>>) => d.entry[<<l, ids[i]>>].current
           /\ \A S \in SUBSET ExpertId : FreshIn(cache, l, S) => FreshIn(d, l, S)
<1>1. /\ Shape(cache, setup.global) /\ cache \in CacheType /\ setup.global \in BOOLEAN
      /\ HeldIn(cache, layer, {})
  BY InvFacts DEF MoeInv, HeldOK
<1>2. PICK confidence : confidence = [i \in DOMAIN ids |-> 0]
  OBVIOUS
<1>3. \A i \in 1..Len(ids) : confidence[i] \in 0..2
  BY <1>2, LenProperties
<1>4. d = Requested(cache, l, ids, FALSE, confidence)
  BY <1>2 DEF Demanded
<1>5. /\ Shape(d, setup.global) /\ Follows([cache EXCEPT !.active = l], d)
      /\ \A i \in 1..Len(ids) : Resident(d, <<l, ids[i]>>) => d.entry[<<l, ids[i]>>].current
  BY <1>1, <1>3, <1>4, RequestedIs, FALSE \in BOOLEAN
<1>6. PICK c : c = [cache EXCEPT !.active = l]
  OBVIOUS
<1>7. c.entry = cache.entry /\ c.active = l
  BY <1>1, <1>6 DEF CacheType
<1>8. HeldIn(c, l, {})
  BY <1>1, <1>7 DEF HeldIn
<1>9. HeldIn(d, l, {}) /\ d.active = l
  <2>1. Follows(c, d) /\ {} \in SUBSET ExpertId
    BY <1>5, <1>6
  <2>2. HeldIn(d, l, {})
    BY <1>8, <2>1, HeldFollows
  <2> QED
    BY <1>7, <2>1, <2>2 DEF Follows
<1>10. ASSUME NEW S \in SUBSET ExpertId, FreshIn(cache, l, S) PROVE FreshIn(d, l, S)
  <2>1. FreshIn(c, l, S)
    BY <1>7, <1>10 DEF FreshIn, Resident
  <2> QED
    BY <1>5, <1>6, <2>1, FreshFollows
<1> QED
  BY <1>5, <1>9, <1>10

LEMMA RequestKeeps ==
    ASSUME MoeInv, Request
    PROVE  MoeInv'
<1>1. /\ pc = "request" /\ pc' = "count" /\ cache' = Demanded(cache, layer, Selected)
      /\ UNCHANGED <<setup, layer, known, scores, routes, at, ready, leases, batch, output, tasks>>
  BY DEF Request, kernel
<1>2. Routed /\ Routed'
  BY <1>1 DEF Routed
<1>3. RunOK' /\ RoutesOK'
  BY <1>1, <1>2, SameRoutes
<1>4. /\ Selected \in Seq(ExpertId)
      /\ \A e \in Chosen(routes) : \E i \in 1..Len(Selected) : Selected[i] = e
  BY <1>2, RoutedFacts, SelectedIs
<1>5. Held = {} /\ Held' = {}
  BY <1>1 DEF Held, Leasing
<1>6. PICK d : d = cache'
  OBVIOUS
<1>7. layer \in Layer
  BY InvFacts
<1>8. /\ Shape(d, setup.global) /\ HeldIn(d, layer, {}) /\ d.active = layer
      /\ \A i \in 1..Len(Selected) :
             Resident(d, <<layer, Selected[i]>>) => d.entry[<<layer, Selected[i]>>].current
  BY <1>1, <1>4, <1>5, <1>6, <1>7, DemandedIs
<1>9. FreshIn(d, layer, Chosen(routes))
  BY <1>4, <1>8 DEF FreshIn
<1>10. SettingOK'
  BY <1>1, <1>6, <1>8 DEF MoeInv, SettingOK, Stages, Advised
<1>11. TurnOK' /\ ReadyOK'
  BY <1>1 DEF MoeInv, TurnOK, ReadyOK, Collecting, Leasing, Borrowings, Adding
<1>12. HeldOK'
  BY <1>1, <1>5, <1>6, <1>8 DEF HeldOK
<1>13. BatchOK' /\ OutputOK'
  BY <1>1 DEF MoeInv, BatchOK, OutputOK, Collecting, Turning, Borrowings, Adding, Leasing
<1>14. AdviceOK'
  BY <1>1, <1>6, <1>9 DEF AdviceOK
<1> QED
  BY <1>3, <1>10, <1>11, <1>12, <1>13, <1>14 DEF MoeInv

LEMMA RefillKeeps ==
    ASSUME MoeInv, Refill
    PROVE  MoeInv'
<1>1. /\ pc = "refill" /\ pc' = "expert" /\ cache' = Demanded(cache, layer, ready)
      /\ ready' = <<>> /\ at' = SelectedFrom(at + 1)
      /\ UNCHANGED <<setup, layer, known, scores, routes, leases, batch, output, tasks>>
  BY DEF Refill
<1>2. Routed /\ Routed'
  BY <1>1 DEF Routed
<1>3. RunOK' /\ RoutesOK'
  BY <1>1, <1>2, SameRoutes
<1>4. at \in Chosen(routes) /\ at + 1 \in 0..NExperts
  BY <1>1, <1>2, RoutedFacts DEF MoeInv, TurnOK, Adding
<1>5. /\ at' \in 0..NExperts /\ (at' = NExperts \/ at' \in Chosen(routes))
      /\ Added(routes, at') = Added(routes, at + 1)
  BY <1>1, <1>2, <1>4, NextSelected
<1>6. Held = {} /\ Held' = {}
  BY <1>1 DEF Held, Leasing
<1>7. ready \in Seq(ExpertId)
  <2>1. PICK e \in ExpertId : ready = <<e>>
    BY <1>1 DEF MoeInv, ReadyOK
  <2> QED
    BY <2>1
<1>8. PICK d : d = cache'
  OBVIOUS
<1>9. layer \in Layer /\ Chosen(routes) \in SUBSET ExpertId /\ FreshIn(cache, layer, Chosen(routes))
  BY <1>1, <1>2, InvFacts, RoutedFacts DEF MoeInv, AdviceOK, Advised, Adding
<1>10. Shape(d, setup.global) /\ HeldIn(d, layer, {}) /\ FreshIn(d, layer, Chosen(routes))
  BY <1>1, <1>6, <1>7, <1>8, <1>9, DemandedIs
<1>11. SettingOK'
  BY <1>1, <1>5, <1>8, <1>10 DEF MoeInv, SettingOK, Stages, Advised, Turning
<1>12. TurnOK' /\ ReadyOK'
  BY <1>1, <1>5 DEF MoeInv, TurnOK, ReadyOK, Collecting, Leasing, Borrowings, Adding
<1>13. HeldOK'
  BY <1>1, <1>6, <1>8, <1>10 DEF HeldOK
<1>14. BatchOK' /\ OutputOK'
  BY <1>1, <1>5 DEF MoeInv, BatchOK, OutputOK, Collecting, Turning, Borrowings, Adding, Leasing
<1>15. AdviceOK'
  BY <1>1, <1>8, <1>10 DEF AdviceOK
<1> QED
  BY <1>3, <1>11, <1>12, <1>13, <1>14, <1>15 DEF MoeInv

LEMMA AdvanceKeeps ==
    ASSUME MoeInv, Advance
    PROVE  MoeInv'
<1>1. /\ pc = "advance"
      /\ \/ /\ cache' = Evicted(cache, Weights(at)) /\ pc' = "look"
            /\ ready' = <<SelectedFrom(at + 1)>> /\ at' = at
         \/ /\ cache' = cache /\ pc' = "expert" /\ ready' = ready /\ at' = SelectedFrom(at + 1)
      /\ UNCHANGED <<setup, layer, known, scores, routes, leases, batch, output, tasks>>
  BY DEF Advance
<1>2. Routed /\ Routed'
  BY <1>1 DEF Routed
<1>3. RunOK' /\ RoutesOK'
  BY <1>1, <1>2, SameRoutes
<1>4. at \in Chosen(routes) /\ at + 1 \in 0..NExperts /\ Weights(at) \in Pair /\ layer \in Layer
  BY <1>1, <1>2, RoutedFacts, InvFacts DEF MoeInv, TurnOK, Adding
<1>5. PICK x : x = SelectedFrom(at + 1)
  OBVIOUS
<1>6. /\ x \in 0..NExperts /\ (x = NExperts \/ x \in Chosen(routes))
      /\ Added(routes, x) = Added(routes, at + 1)
  BY <1>2, <1>4, <1>5, NextSelected
<1>7. PICK d : d = cache'
  OBVIOUS
<1>8. Shape(d, setup.global) /\ Follows(cache, d)
  <2>1. Shape(cache, setup.global)
    BY InvFacts
  <2> QED
    BY <1>1, <1>4, <1>7, <2>1, EvictedIs, FollowsSelf
<1>9. Held = {} /\ Held' = {}
  BY <1>1 DEF Held, Leasing
<1>10. HeldIn(d, layer, {}) /\ FreshIn(d, layer, Chosen(routes))
  BY <1>1, <1>8, <1>9, Undisturbed DEF Advised, Adding
<1>11. SettingOK'
  BY <1>1, <1>5, <1>6, <1>7, <1>8 DEF MoeInv, SettingOK, Stages, Advised, Turning, Adding
<1>12. TurnOK'
  BY <1>1, <1>4, <1>5, <1>6 DEF TurnOK, Leasing, Borrowings, Adding
<1>13. ReadyOK'
  BY <1>1, <1>5, <1>6 DEF MoeInv, ReadyOK, Collecting, Leasing
<1>14. HeldOK'
  BY <1>1, <1>7, <1>9, <1>10 DEF HeldOK
<1>15. BatchOK' /\ OutputOK'
  BY <1>1, <1>5, <1>6 DEF MoeInv, BatchOK, OutputOK, Collecting, Turning, Borrowings, Adding, Leasing
<1>16. AdviceOK'
  BY <1>1, <1>7, <1>10 DEF AdviceOK
<1> QED
  BY <1>3, <1>11, <1>12, <1>13, <1>14, <1>15, <1>16 DEF MoeInv

-----------------------------------------------------------------------------
(* Loans. *)
LEMMA BorrowingSame ==
    ASSUME MoeInv, pc \in Advised
    PROVE  Borrowing(cache, layer) = cache
<1>1. cache \in CacheType /\ cache.active = layer
  BY InvFacts DEF MoeInv, AdviceOK, FreshIn
<1> QED
  BY <1>1, BorrowingIs

(* A loan of what is ready, on top of those in H. *)
LEMMA TryBorrowIs ==
    ASSUME MoeInv, pc \in Advised, NEW e \in Chosen(routes), e \notin Held,
           IsReady(cache, Weights(e)), NEW d, d = TryBorrow(Weights(e))
    PROVE  /\ Shape(d, setup.global) /\ HeldIn(d, layer, Held \cup {e})
           /\ \A f \in Held : d.entry[Weights(f)].state = cache.entry[Weights(f)].state
           /\ IsReady(d, Weights(e)) /\ FreshIn(d, layer, Chosen(routes))
<1>1. Routed
  BY DEF Routed, Advised, Collecting, Leasing, Turning, Borrowings, Adding
<1>2. PICK p \in Pair : p = Weights(e) /\ p = <<layer, e>> /\ p[1] = layer
  BY <1>1, RoutedFacts
<1>3. /\ Shape(cache, setup.global) /\ layer \in Layer /\ e \in ExpertId
      /\ Chosen(routes) \in SUBSET ExpertId
  BY <1>1, InvFacts, RoutedFacts
<1>4. PICK a : a = Acquired(cache, p)
  OBVIOUS
<1>5. Resident(cache, p)
  BY <1>2 DEF IsReady, Resident
<1>6. /\ Shape(a, setup.global) /\ Follows(cache, a)
      /\ \A q \in Pair : a.entry[q].state = cache.entry[q].state
  BY <1>3, <1>4, <1>5, AcquiredIs
<1>7. HeldIn(a, layer, Held) /\ FreshIn(a, layer, Chosen(routes))
  BY <1>6, Undisturbed
<1>8. d = Pinned(a, <<layer, e>>)
  BY <1>2, <1>4, BorrowingSame DEF TryBorrow
<1>9. Resident(a, <<layer, e>>)
  BY <1>2, <1>5, <1>6 DEF Resident
<1>10. /\ Shape(d, setup.global) /\ HeldIn(d, layer, Held \cup {e})
       /\ \A q \in Pair : d.entry[q].state = a.entry[q].state
       /\ FreshIn(d, layer, Chosen(routes))
  BY <1>3, <1>6, <1>7, <1>8, <1>9, PinnedHeld
<1>11. \A f \in Held : Weights(f) \in Pair
  BY <1>3, HeldExperts DEF Weights, Pair
<1> QED
  BY <1>2, <1>6, <1>10, <1>11 DEF IsReady

LEMMA LeaseKeeps ==
    ASSUME MoeInv, LeaseOne
    PROVE  MoeInv'
<1>1. /\ pc = "lease" /\ leases < Len(ready)
      /\ UNCHANGED <<setup, layer, known, scores, routes, at, ready, batch, output, tasks>>
      /\ \/ /\ IsReady(cache, Weights(ready[leases + 1]))
            /\ cache' = TryBorrow(Weights(ready[leases + 1]))
            /\ leases' = leases + 1 /\ pc' = pc
         \/ cache' = Borrowing(cache, layer) /\ pc' = "giveup" /\ leases' = leases
  BY DEF LeaseOne
<1>2. Routed /\ Routed' /\ pc \in Advised /\ pc' \in Leasing
  BY <1>1 DEF Routed, Advised, Collecting, Leasing
<1>3. RunOK' /\ RoutesOK'
  BY <1>1, <1>2, SameRoutes
<1>4. /\ ready \in Seq(Chosen(routes)) /\ Distinct(ready) /\ leases \in Nat /\ Len(ready) \in Nat
      /\ DOMAIN ready = 1..Len(ready)
      /\ \A i \in 1..Len(ready) : Count(routes, ready[i]) = 1 /\ ready[i] \in Chosen(routes)
  BY <1>1, InvFacts, LenProperties DEF MoeInv, ReadyOK, Collecting, Leasing
<1>5. Held = {ready[i] : i \in 1..leases}
  BY <1>1 DEF Held, Leasing
<1>6. PICK d : d = cache'
  OBVIOUS
<1>7. TurnOK'
  <2>1. SelectedFrom(0)' = SelectedFrom(0)
    BY <1>1 DEF SelectedFrom
  <2> QED
    BY <1>1, <1>2, <2>1 DEF MoeInv, TurnOK, Borrowings, Adding, Leasing
<1>8. BatchOK' /\ OutputOK'
  BY <1>1, <1>2 DEF MoeInv, BatchOK, OutputOK, Collecting, Turning, Borrowings, Adding, Leasing
<1>9. CASE cache' = Borrowing(cache, layer) /\ pc' = "giveup" /\ leases' = leases
  <2>1. d = cache
    BY <1>2, <1>6, <1>9, BorrowingSame
  <2>2. SettingOK'
    BY <1>1, <1>6, <1>9, <2>1 DEF MoeInv, SettingOK, Stages, Advised, Collecting, Leasing
  <2>3. ReadyOK'
    BY <1>1, <1>9 DEF MoeInv, ReadyOK, Collecting, Leasing
  <2>4. HeldOK'
    <3>1. Held' = Held
      BY <1>1, <1>9 DEF Held, Leasing
    <3> QED
      BY <1>1, <1>6, <1>9, <2>1, <3>1 DEF MoeInv, HeldOK, IsReady, Weights
  <2>5. AdviceOK'
    BY <1>1, <1>6, <1>9, <2>1 DEF MoeInv, AdviceOK, Advised, Collecting, Leasing
  <2> QED
    BY <1>3, <1>7, <1>8, <2>2, <2>3, <2>4, <2>5 DEF MoeInv
<1>10. CASE /\ IsReady(cache, Weights(ready[leases + 1]))
            /\ cache' = TryBorrow(Weights(ready[leases + 1]))
            /\ leases' = leases + 1 /\ pc' = pc
  <2>1. PICK k : k = leases + 1
    OBVIOUS
  <2>2. k \in 1..Len(ready) /\ k \in Nat /\ k \notin 1..leases /\ k <= Len(ready)
        /\ \A i \in 1..leases : i \in 1..Len(ready)
    BY ONLY <1>1, <1>4, <2>1
  <2>3. PICK e : e = ready[k]
    OBVIOUS
  <2>4. e \in Chosen(routes) /\ e \notin Held
    BY <1>4, <1>5, <2>2, <2>3 DEF Distinct
  <2>5. /\ Shape(d, setup.global) /\ HeldIn(d, layer, Held \cup {e})
        /\ \A f \in Held : d.entry[Weights(f)].state = cache.entry[Weights(f)].state
        /\ IsReady(d, Weights(e)) /\ FreshIn(d, layer, Chosen(routes))
    BY <1>2, <1>6, <1>10, <2>1, <2>3, <2>4, TryBorrowIs
  <2>6. SettingOK'
    BY <1>1, <1>6, <1>10, <2>1, <2>2, <2>5 DEF MoeInv, SettingOK
  <2>7. ReadyOK'
    BY <1>1, <1>4, <1>10, <2>1, <2>2 DEF ReadyOK, Collecting, Leasing
  <2>8. Held' = Held \cup {e}
    <3>1. \A i : i \in 1..k <=> i \in 1..leases \/ i = k
      BY ONLY <1>4, <2>1
    <3>2. Held' = {ready[i] : i \in 1..k}
      BY <1>1, <1>10, <2>1 DEF Held, Leasing
    <3> QED
      BY <1>5, <2>3, <3>1, <3>2
  <2>9. HeldOK'
    <3>1. \A f : Weights(f)' = Weights(f)
      BY <1>1 DEF Weights
    <3>2. \A f \in Held : IsReady(cache, Weights(f))
      BY <1>1 DEF MoeInv, HeldOK
    <3>3. \A f \in Held \cup {e} : IsReady(d, Weights(f))
      BY <2>5, <3>2 DEF IsReady
    <3> QED
      BY <1>1, <1>6, <1>10, <2>5, <2>8, <3>1, <3>3 DEF HeldOK
  <2>10. AdviceOK'
    BY <1>1, <1>6, <2>5 DEF AdviceOK
  <2> QED
    BY <1>3, <1>7, <1>8, <2>6, <2>7, <2>9, <2>10 DEF MoeInv
<1> QED
  BY <1>1, <1>9, <1>10

LEMMA ReleaseKeeps ==
    ASSUME MoeInv, ReleaseOne
    PROVE  MoeInv'
<1>1. /\ pc \in {"release", "giveup"} /\ leases > 0 /\ leases' = leases - 1
      /\ cache' = Unpinned(cache, Weights(ready[leases]))
      /\ UNCHANGED <<setup, pc, layer, known, scores, routes, at, ready, batch, output, tasks>>
  BY DEF ReleaseOne
<1>2. Routed /\ Routed' /\ pc \in Advised /\ pc \in Leasing
  BY <1>1 DEF Routed, Advised, Collecting, Leasing
<1>3. RunOK' /\ RoutesOK'
  BY <1>1, <1>2, SameRoutes
<1>4. /\ ready \in Seq(Chosen(routes)) /\ Distinct(ready) /\ leases \in Nat /\ Len(ready) \in Nat
      /\ leases <= Len(ready) /\ DOMAIN ready = 1..Len(ready)
      /\ \A i \in 1..Len(ready) : ready[i] \in Chosen(routes)
  BY <1>2, InvFacts, LenProperties DEF MoeInv, ReadyOK, Collecting
<1>5. Held = {ready[i] : i \in 1..leases}
  BY <1>2 DEF Held
<1>6. PICK d, e, k : d = cache' /\ e = ready[leases] /\ k = leases - 1
  OBVIOUS
<1>7. /\ k \in Nat /\ k <= Len(ready) /\ leases \in 1..Len(ready) /\ leases \in 1..leases
      /\ \A i : i \in 1..k <=> i \in 1..leases /\ i # leases
      /\ \A i \in 1..leases : i \in 1..Len(ready)
  BY ONLY <1>1, <1>4, <1>6
<1>8. e \in Held /\ e \in Chosen(routes)
  BY <1>4, <1>5, <1>6, <1>7
<1>9. /\ Shape(cache, setup.global) /\ layer \in Layer /\ HeldIn(cache, layer, Held)
      /\ e \in ExpertId /\ Weights(e) = <<layer, e>> /\ Chosen(routes) \in SUBSET ExpertId
      /\ FreshIn(cache, layer, Chosen(routes))
  BY <1>2, <1>8, InvFacts, RoutedFacts DEF MoeInv, HeldOK, AdviceOK
<1>10. d = Unpinned(cache, <<layer, e>>)
  BY <1>1, <1>6, <1>9
<1>11. /\ Shape(d, setup.global) /\ HeldIn(d, layer, Held \ {e})
       /\ \A q \in Pair : d.entry[q].state = cache.entry[q].state
       /\ FreshIn(d, layer, Chosen(routes))
  BY <1>8, <1>9, <1>10, UnpinnedHeld
<1>12. Held' = Held \ {e}
  <2>1. Held' = {ready[i] : i \in 1..k}
    BY <1>1, <1>2, <1>6 DEF Held
  <2>2. \A i \in 1..leases : ready[i] = e => i = leases
    BY <1>4, <1>6, <1>7 DEF Distinct
  <2> QED
    BY <1>5, <1>6, <1>7, <2>1, <2>2
<1>13. SettingOK'
  BY <1>1, <1>6, <1>7, <1>11 DEF MoeInv, SettingOK
<1>14. TurnOK'
  <2>1. SelectedFrom(0)' = SelectedFrom(0)
    BY <1>1 DEF SelectedFrom
  <2> QED
    BY <1>1, <2>1 DEF MoeInv, TurnOK
<1>15. ReadyOK'
  BY <1>1, <1>6, <1>7 DEF MoeInv, ReadyOK, Collecting, Leasing
<1>16. HeldOK'
  <2>1. \A f : Weights(f)' = Weights(f)
    BY <1>1 DEF Weights
  <2>2. \A f \in Held : IsReady(cache, Weights(f)) /\ Weights(f) \in Pair
    BY <1>1, <1>9, HeldExperts DEF MoeInv, HeldOK, Weights, Pair
  <2>3. \A f \in Held \ {e} : IsReady(d, Weights(f))
    BY <1>11, <2>2 DEF IsReady
  <2> QED
    BY <1>1, <1>6, <1>11, <1>12, <2>1, <2>3 DEF HeldOK
<1>17. AdviceOK'
  BY <1>1, <1>6, <1>11 DEF AdviceOK
<1>18. BatchOK' /\ OutputOK'
  BY <1>1 DEF MoeInv, BatchOK, OutputOK, Collecting, Turning, Borrowings, Adding, Leasing
<1> QED
  BY <1>3, <1>13, <1>14, <1>15, <1>16, <1>17, <1>18 DEF MoeInv

LEMMA BorrowNowKeeps ==
    ASSUME MoeInv, BorrowNow
    PROVE  MoeInv'
<1>1. /\ pc = "expert" /\ at < NExperts
      /\ UNCHANGED <<setup, layer, known, scores, routes, at, ready, leases, batch, output, tasks>>
      /\ \/ /\ IsReady(cache, Weights(at)) /\ cache' = TryBorrow(Weights(at)) /\ pc' = "compute"
         \/ cache' = Borrowing(cache, layer) /\ pc' = "borrow"
  BY DEF BorrowNow, kernel
<1>2. Routed /\ Routed' /\ pc \in Advised /\ pc' \in Borrowings
  BY <1>1 DEF Routed, Advised, Turning, Borrowings
<1>3. RunOK' /\ RoutesOK'
  BY <1>1, <1>2, SameRoutes
<1>4. at \in Chosen(routes)
  BY <1>1, InvFacts DEF MoeInv, TurnOK
<1>5. Held = {}
  BY <1>1 DEF Held, Leasing
<1>6. PICK d : d = cache'
  OBVIOUS
<1>7. TurnOK' /\ ReadyOK'
  BY <1>1, <1>4 DEF MoeInv, TurnOK, ReadyOK, Collecting, Leasing, Borrowings, Adding
<1>8. BatchOK' /\ OutputOK'
  BY <1>1 DEF MoeInv, BatchOK, OutputOK, Collecting, Turning, Borrowings, Adding, Leasing
<1>9. CASE cache' = Borrowing(cache, layer) /\ pc' = "borrow"
  <2>1. d = cache
    BY <1>2, <1>6, <1>9, BorrowingSame
  <2>2. SettingOK'
    BY <1>1, <1>6, <1>9, <2>1 DEF MoeInv, SettingOK, Stages, Advised, Turning, Borrowings
  <2>3. HeldOK'
    <3>1. Held' = {}
      BY <1>9 DEF Held, Leasing
    <3> QED
      BY <1>1, <1>5, <1>6, <2>1, <3>1 DEF MoeInv, HeldOK
  <2>4. AdviceOK'
    BY <1>1, <1>2, <1>6, <2>1 DEF MoeInv, AdviceOK
  <2> QED
    BY <1>3, <1>7, <1>8, <2>2, <2>3, <2>4 DEF MoeInv
<1>10. CASE IsReady(cache, Weights(at)) /\ cache' = TryBorrow(Weights(at)) /\ pc' = "compute"
  <2>1. PICK e : e = at
    OBVIOUS
  <2>2. /\ Shape(d, setup.global) /\ HeldIn(d, layer, Held \cup {e})
        /\ IsReady(d, Weights(e)) /\ FreshIn(d, layer, Chosen(routes))
    BY <1>2, <1>4, <1>5, <1>6, <1>10, <2>1, TryBorrowIs
  <2>3. SettingOK'
    BY <1>1, <1>6, <1>10, <2>2 DEF MoeInv, SettingOK, Stages, Advised, Turning, Borrowings
  <2>4. HeldOK'
    <3>1. Held' = Held \cup {e}
      BY <1>1, <1>5, <1>10, <2>1 DEF Held, Leasing
    <3>2. \A f : Weights(f)' = Weights(f)
      BY <1>1 DEF Weights
    <3> QED
      BY <1>1, <1>5, <1>6, <1>10, <2>2, <3>1, <3>2 DEF HeldOK
  <2>5. AdviceOK'
    BY <1>1, <1>6, <2>2 DEF AdviceOK
  <2> QED
    BY <1>3, <1>7, <1>8, <2>3, <2>4, <2>5 DEF MoeInv
<1> QED
  BY <1>1, <1>9, <1>10

(* A thread that goes on with the cache d, to the load or to the wait for a  *)
(* slot.                                                                     *)
LEMMA BorrowedKeeps ==
    ASSUME MoeInv, pc \in Advised \ {"load"}, pc' \in {"slot", "load"}, at \in Chosen(routes),
           Held = {}, ready = <<>>, leases = 0,
           BatchOK, pc \in Turning,
           UNCHANGED <<setup, kernel, tasks>>,
           NEW c, Shape(c, setup.global), Follows(cache, c),
           \/ pc' = "slot" /\ cache' = c
           \/ pc' = "load" /\ Resident(c, Weights(at)) /\ cache' = Pinned(c, Weights(at))
    PROVE  MoeInv'
<1>1. UNCHANGED <<setup, layer, known, scores, routes, at, ready, leases, batch, output, tasks>>
  BY DEF kernel
<1>2. Routed /\ Routed' /\ pc' \in Advised /\ pc' \in Borrowings /\ pc # "idle"
  BY DEF Routed, Advised, Turning, Borrowings
<1>3. RunOK' /\ RoutesOK'
  BY <1>1, <1>2, SameRoutes
<1>4. HeldIn(c, layer, {}) /\ FreshIn(c, layer, Chosen(routes))
  BY Undisturbed
<1>5. /\ layer \in Layer /\ at \in ExpertId /\ Chosen(routes) \in SUBSET ExpertId
      /\ Weights(at) = <<layer, at>> /\ Weights(at) \in Pair
  BY <1>2, InvFacts, RoutedFacts
<1>6. PICK d : d = cache'
  OBVIOUS
<1>7. TurnOK' /\ ReadyOK'
  BY <1>1 DEF MoeInv, TurnOK, ReadyOK, Collecting, Leasing, Borrowings, Adding
<1>8. BatchOK' /\ OutputOK'
  BY <1>1 DEF MoeInv, BatchOK, OutputOK, Collecting, Turning, Borrowings, Adding, Leasing
<1>9. CASE pc' = "slot" /\ cache' = c
  <2>1. SettingOK'
    BY <1>1, <1>9 DEF MoeInv, SettingOK, Stages, Advised, Turning, Borrowings
  <2>2. HeldOK'
    <3>1. Held' = {}
      BY <1>9 DEF Held, Leasing
    <3> QED
      BY <1>1, <1>4, <1>9, <3>1 DEF HeldOK
  <2>3. AdviceOK'
    BY <1>1, <1>4, <1>9 DEF AdviceOK
  <2> QED
    BY <1>3, <1>7, <1>8, <2>1, <2>2, <2>3 DEF MoeInv
<1>10. CASE pc' = "load" /\ Resident(c, Weights(at)) /\ cache' = Pinned(c, Weights(at))
  <2>1. PICK e : e = at
    OBVIOUS
  <2>2. d = Pinned(c, <<layer, e>>) /\ Resident(c, <<layer, e>>) /\ e \in ExpertId /\ e \notin {}
    BY <1>5, <1>6, <1>10, <2>1
  <2>3. /\ Shape(d, setup.global) /\ HeldIn(d, layer, {} \cup {e})
        /\ \A q \in Pair : d.entry[q].state = c.entry[q].state
        /\ FreshIn(d, layer, Chosen(routes))
    <3>1. /\ Shape(c, setup.global) /\ layer \in Layer /\ HeldIn(c, layer, {})
          /\ FreshIn(c, layer, Chosen(routes)) /\ Chosen(routes) \in SUBSET ExpertId
      BY <1>4, <1>5
    <3> QED
      BY ONLY <2>2, <3>1, PinnedHeld
  <2>4. SettingOK'
    BY <1>1, <1>6, <1>10, <2>3 DEF MoeInv, SettingOK, Stages, Advised, Turning, Borrowings
  <2>5. HeldOK'
    <3>1. Held' = {e} /\ {} \cup {e} = {e}
      BY <1>1, <1>10, <2>1 DEF Held, Leasing
    <3>2. Weights(e)' = Weights(e) /\ Weights(e) \in Pair
      BY <1>1, <1>5, <2>1 DEF Weights
    <3>3. Resident(d, Weights(e))
      BY <1>10, <2>1, <2>3, <3>2 DEF Resident
    <3> QED
      BY <1>1, <1>6, <1>10, <2>3, <3>1, <3>2, <3>3 DEF HeldOK
  <2>6. AdviceOK'
    BY <1>1, <1>6, <2>3 DEF AdviceOK
  <2> QED
    BY <1>3, <1>7, <1>8, <2>4, <2>5, <2>6 DEF MoeInv
<1> QED
  BY <1>9, <1>10

LEMMA BorrowKeeps ==
    ASSUME MoeInv, Borrow
    PROVE  MoeInv'
<1>1. pc \in {"borrow", "expert"} /\ (pc = "expert" => at < NExperts)
      /\ UNCHANGED <<setup, kernel, tasks>>
  BY DEF Borrow, Borrows
<1>2. PICK c : c = Wanted(Borrowing(cache, layer), Weights(at))
  OBVIOUS
<1>3. \/ pc' = "load" /\ Resident(c, Weights(at)) /\ cache' = Pinned(c, Weights(at))
      \/ pc' = "slot" /\ cache' = c
  BY <1>2 DEF Borrow
<1>4. Routed /\ pc \in Advised \ {"load"} /\ pc \in Turning
  BY <1>1 DEF Routed, Advised, Turning, Borrowings
<1>5. at \in Chosen(routes)
  BY <1>1, InvFacts DEF MoeInv, TurnOK, Borrowings
<1>6. Held = {} /\ ready = <<>> /\ leases = 0 /\ BatchOK
  BY <1>1 DEF Held, Leasing, MoeInv, ReadyOK, Collecting
<1>7. Weights(at) \in Pair /\ Shape(cache, setup.global) /\ setup.global \in BOOLEAN
  BY <1>4, <1>5, InvFacts, RoutedFacts
<1>8. c = Wanted(cache, Weights(at))
  BY <1>2, <1>4, BorrowingSame
<1>9. Shape(c, setup.global) /\ Follows(cache, c)
  BY <1>7, <1>8, WantedIs
<1> QED
  BY <1>1, <1>3, <1>4, <1>5, <1>6, <1>9, BorrowedKeeps

LEMMA SlotWakeKeeps ==
    ASSUME MoeInv, SlotWake
    PROVE  MoeInv'
<1>1. pc = "slot" /\ pc' = "load" /\ UNCHANGED <<setup, kernel, tasks>>
  BY DEF SlotWake
<1>2. PICK c : c = Retried(cache, Weights(at))
  OBVIOUS
<1>3. Resident(c, Weights(at)) /\ cache' = Pinned(c, Weights(at))
  BY <1>2 DEF SlotWake
<1>4. Routed /\ pc \in Advised \ {"load"} /\ pc \in Turning
  BY <1>1 DEF Routed, Advised, Turning, Borrowings
<1>5. at \in Chosen(routes)
  BY <1>1 DEF MoeInv, TurnOK, Borrowings
<1>6. Held = {} /\ ready = <<>> /\ leases = 0 /\ BatchOK
  BY <1>1 DEF Held, Leasing, MoeInv, ReadyOK, Collecting
<1>7. Weights(at) \in Pair /\ Shape(cache, setup.global) /\ setup.global \in BOOLEAN
  BY <1>4, <1>5, InvFacts, RoutedFacts
<1>8. Shape(c, setup.global) /\ Follows(cache, c)
  BY <1>2, <1>7, RetriedIs
<1> QED
  BY <1>1, <1>3, <1>4, <1>5, <1>6, <1>8, BorrowedKeeps

LEMMA LoadKeeps ==
    ASSUME MoeInv, Load
    PROVE  MoeInv'
<1>1. /\ pc = "load"
      /\ UNCHANGED <<setup, layer, known, scores, routes, at, ready, leases, batch, output, tasks>>
      /\ \/ /\ IsReady(cache, Weights(at)) /\ cache' = Acquired(cache, Weights(at))
            /\ pc' = "compute"
         \/ cache' = Unpinned(cache, Weights(at)) /\ pc' = "idle"
  BY DEF Load, kernel
<1>2. Routed /\ (Routed' => Routed) /\ pc # "idle"
  BY <1>1 DEF Routed
<1>3. RunOK' /\ RoutesOK'
  BY <1>1, <1>2, SameRoutes
<1>4. PICK e, p, d : e = at /\ p = Weights(at) /\ d = cache'
  OBVIOUS
<1>5. at \in Chosen(routes) /\ Held = {e}
  BY <1>1, <1>4 DEF MoeInv, TurnOK, Borrowings, Held, Leasing
<1>6. /\ e \in ExpertId /\ p \in Pair /\ p = <<layer, e>> /\ layer \in Layer
      /\ Shape(cache, setup.global) /\ HeldIn(cache, layer, {e}) /\ Resident(cache, p)
  BY <1>1, <1>2, <1>4, <1>5, InvFacts, RoutedFacts DEF MoeInv, HeldOK
<1>7. TurnOK' /\ ReadyOK'
  BY <1>1 DEF MoeInv, TurnOK, ReadyOK, Collecting, Leasing, Borrowings, Adding
<1>8. BatchOK' /\ OutputOK'
  BY <1>1 DEF MoeInv, BatchOK, OutputOK, Collecting, Turning, Borrowings, Adding, Leasing
<1>9. CASE /\ IsReady(cache, Weights(at)) /\ cache' = Acquired(cache, Weights(at))
           /\ pc' = "compute"
  <2>1. /\ Shape(d, setup.global) /\ Follows(cache, d)
        /\ \A q \in Pair : d.entry[q].state = cache.entry[q].state
    <3>1. d = Acquired(cache, p)
      BY <1>4, <1>9
    <3> QED
      BY <1>6, <3>1, AcquiredIs
  <2>2. HeldIn(d, layer, {e}) /\ FreshIn(d, layer, Chosen(routes))
    BY <1>1, <1>5, <2>1, Undisturbed DEF Advised, Turning, Borrowings
  <2>3. SettingOK'
    BY <1>1, <1>4, <1>9, <2>1 DEF MoeInv, SettingOK, Stages, Advised, Turning, Borrowings
  <2>4. HeldOK'
    <3>1. Held' = {e} /\ Weights(e)' = p
      BY <1>1, <1>4, <1>9 DEF Held, Leasing, Weights
    <3>2. IsReady(d, p)
      BY <1>4, <1>6, <1>9, <2>1 DEF IsReady
    <3> QED
      BY <1>1, <1>4, <1>9, <2>2, <3>1, <3>2 DEF HeldOK
  <2>5. AdviceOK'
    BY <1>1, <1>4, <2>2 DEF AdviceOK
  <2> QED
    BY <1>3, <1>7, <1>8, <2>3, <2>4, <2>5 DEF MoeInv
<1>10. CASE cache' = Unpinned(cache, Weights(at)) /\ pc' = "idle"
  <2>1. d = Unpinned(cache, <<layer, e>>) /\ e \in {e}
    BY <1>4, <1>6, <1>10
  <2>2. Shape(d, setup.global) /\ HeldIn(d, layer, {e} \ {e})
    BY <1>6, <2>1, UnpinnedHeld
  <2>3. SettingOK'
    BY <1>1, <1>4, <1>10, <2>2 DEF MoeInv, SettingOK, Stages
  <2>4. HeldOK'
    <3>1. Held' = {} /\ {e} \ {e} = {}
      BY <1>10 DEF Held, Leasing
    <3> QED
      BY <1>1, <1>4, <2>2, <3>1 DEF HeldOK
  <2>5. AdviceOK'
    BY <1>10 DEF AdviceOK, Advised, Collecting, Leasing, Turning, Borrowings, Adding
  <2> QED
    BY <1>3, <1>7, <1>8, <2>3, <2>4, <2>5 DEF MoeInv
<1> QED
  BY <1>1, <1>9, <1>10

LEMMA ComputeKeeps ==
    ASSUME MoeInv, Compute
    PROVE  MoeInv'
<1>1. /\ pc = "compute" /\ pc' = "advance"
      /\ output' = AddRoutes(output, at, [r \in RoutesOf(routes, at) |-> Contribution(cache, at, r)])
      /\ cache' = Unpinned(cache, Weights(at))
      /\ UNCHANGED <<setup, layer, known, scores, routes, at, ready, leases, batch, tasks>>
  BY DEF Compute
<1>2. Routed /\ Routed'
  BY <1>1 DEF Routed
<1>3. RunOK' /\ RoutesOK'
  BY <1>1, <1>2, SameRoutes
<1>4. PICK e, p, d : e = at /\ p = Weights(at) /\ d = cache'
  OBVIOUS
<1>5. at \in Chosen(routes) /\ Held = {e} /\ at \in Int
  BY <1>1, <1>4, InvFacts DEF MoeInv, TurnOK, Borrowings, Held, Leasing
<1>6. /\ e \in ExpertId /\ p \in Pair /\ p = <<layer, e>> /\ layer \in Layer
      /\ Shape(cache, setup.global) /\ HeldIn(cache, layer, {e}) /\ IsReady(cache, p)
      /\ Chosen(routes) \in SUBSET ExpertId /\ FreshIn(cache, layer, Chosen(routes))
  BY <1>1, <1>2, <1>4, <1>5, InvFacts, RoutedFacts
     DEF MoeInv, HeldOK, AdviceOK, Advised, Turning, Borrowings
<1>7. d = Unpinned(cache, <<layer, e>>) /\ e \in {e}
  BY <1>1, <1>4, <1>6
<1>8. Shape(d, setup.global) /\ HeldIn(d, layer, {e} \ {e}) /\ FreshIn(d, layer, Chosen(routes))
  BY <1>6, <1>7, UnpinnedHeld
<1>9. SettingOK'
  BY <1>1, <1>4, <1>8 DEF MoeInv, SettingOK, Stages, Advised, Adding
<1>10. TurnOK' /\ ReadyOK'
  BY <1>1, <1>5 DEF MoeInv, TurnOK, ReadyOK, Collecting, Leasing, Borrowings, Adding
<1>11. HeldOK'
  <2>1. Held' = {} /\ {e} \ {e} = {}
    BY <1>1 DEF Held, Leasing
  <2> QED
    BY <1>1, <1>4, <1>8, <2>1 DEF HeldOK
<1>12. OutputOK'
  <2>1. output = Added(routes, at)
    BY <1>1 DEF MoeInv, OutputOK, Turning, Borrowings
  <2>2. PICK v : v = [r \in RoutesOf(routes, at) |-> Contribution(cache, at, r)]
    OBVIOUS
  <2>3. cache.entry[p].pins = 1
    BY <1>6 DEF HeldIn
  <2>4. \A r \in RoutesOf(routes, at) : v[r] = <<at, r[2]>>
    <3>1. IsReady(cache, Weights(at)) /\ cache.entry[Weights(at)].pins > 0
      BY <1>4, <1>6, <2>3
    <3>2. \A r : Contribution(cache, at, r) = <<at, r[2]>>
      BY <3>1 DEF Contribution
    <3> QED
      BY <2>2, <3>2
  <2>5. AddRoutes(Added(routes, at), at, v) = Added(routes, at + 1)
    BY <1>2, <1>5, <2>4, RoutedFacts, AddRoutesIs
  <2> QED
    BY <1>1, <2>1, <2>2, <2>5 DEF OutputOK, Collecting, Turning, Borrowings, Adding, Leasing
<1>13. BatchOK'
  BY <1>1 DEF MoeInv, BatchOK, Collecting, Turning, Borrowings, Adding, Leasing
<1>14. AdviceOK'
  BY <1>1, <1>4, <1>8 DEF AdviceOK
<1> QED
  BY <1>3, <1>9, <1>10, <1>11, <1>12, <1>13, <1>14 DEF MoeInv

LEMMA BeginKeeps ==
    ASSUME MoeInv, BeginPass
    PROVE  MoeInv'
<1>1. /\ pc = "idle" /\ pc' = "route" /\ layer' = 0 /\ routes' = <<>> /\ output' = <<>>
      /\ UNCHANGED <<setup, tasks, at, ready, leases, batch>>
  BY DEF BeginPass
<1>2. setup \in Setups /\ setup \in SetupType /\ HashRoutes \subseteq [1..TopK -> ExpertId]
  BY InvFacts, MoeAssumption
<1>20. PICK n \in 1..setup.tokens : \E rows \in [setup.hashed -> [1..n -> HashRoutes]] :
          /\ known' = rows
          /\ cache' = IF setup.predict /\ setup.hashed # {} /\ n = 1 /\ CanPrefetch(TopK)
                      THEN Demanded(Aged(cache), Min(setup.hashed), rows[Min(setup.hashed)][1])
                      ELSE Aged(cache)
          /\ scores' = [t \in 1..n |-> [e \in ExpertId |-> MinusInf]]
  BY DEF BeginPass
<1>3. PICK rows \in [setup.hashed -> [1..n -> HashRoutes]] :
          /\ known' = rows
          /\ cache' = IF setup.predict /\ setup.hashed # {} /\ n = 1 /\ CanPrefetch(TopK)
                      THEN Demanded(Aged(cache), Min(setup.hashed), rows[Min(setup.hashed)][1])
                      ELSE Aged(cache)
          /\ scores' = [t \in 1..n |-> [e \in ExpertId |-> MinusInf]]
  BY <1>20
<1>4. n \in Nat /\ n >= 1
  BY <1>2, <1>3 DEF SetupType
<1>5. scores' \in Seq([ExpertId -> Int]) /\ Len(scores') = n
  <2>1. PICK T : T = [ExpertId -> Int]
    OBVIOUS
  <2>2. [e \in ExpertId |-> MinusInf] \in T
    BY <2>1, GroupFacts
  <2>3. scores' \in [1..n -> T]
    BY <1>3, <2>2
  <2>4. scores' \in Seq(T)
    BY <1>4, <2>3, SeqDef
  <2> QED
    BY <1>4, <2>1, <2>3, <2>4, LenProperties
<1>6. RunOK' /\ RoutesOK'
  BY <1>1, <1>3, <1>4, <1>5 DEF RunOK, RoutesOK, Routed
<1>7. Held = {} /\ Held' = {}
  BY <1>1 DEF Held, Leasing
<1>8. /\ Shape(cache, setup.global) /\ setup.global \in BOOLEAN
      /\ \A p \in Pair : cache.entry[p].pins = 0
  BY <1>7, InvFacts DEF MoeInv, HeldOK, HeldIn
<1>9. PICK c : c = Aged(cache)
  OBVIOUS
<1>10. /\ Shape(c, setup.global) /\ \A p \in Pair : c.entry[p].pins = 0
  BY <1>8, <1>9, AgedIs
<1>11. Shape(cache', setup.global) /\ \A p \in Pair : cache'.entry[p].pins = 0
  <2>1. CASE cache' = c
    BY <1>10, <2>1
  <2>2. CASE cache' # c
    <3>1. PICK first, ids : first = Min(setup.hashed) /\ ids = rows[first][1]
      OBVIOUS
    <3>2. setup.hashed # {} /\ cache' = Demanded(c, first, ids)
      BY <1>3, <1>9, <2>2, <3>1
    <3>3. setup.hashed \in SUBSET Layer /\ setup.hashed \in SUBSET Nat
      BY InvFacts, LayerFacts
    <3>4. first \in setup.hashed /\ first \in Layer
      BY <3>1, <3>2, <3>3, LeastExists
    <3>5. ids \in [1..TopK -> ExpertId] /\ TopK \in Nat
      <4>1. rows[first] \in [1..n -> HashRoutes]
        BY <3>4
      <4>2. 1 \in 1..n
        BY <1>4
      <4> QED
        BY <1>2, <3>1, <4>1, <4>2, GroupFacts
    <3>6. ids \in Seq(ExpertId)
      BY <3>5, SeqDef
    <3>7. PICK confidence : confidence = [i \in DOMAIN ids |-> 0]
      OBVIOUS
    <3>8. \A i \in 1..Len(ids) : confidence[i] \in 0..2
      BY <3>6, <3>7, LenProperties
    <3>9. PICK d : d = Requested(c, first, ids, FALSE, confidence)
      OBVIOUS
    <3>10. Shape(d, setup.global) /\ Follows([c EXCEPT !.active = first], d)
      BY <1>8, <1>10, <3>4, <3>6, <3>8, <3>9, RequestedIs, FALSE \in BOOLEAN
    <3>11. [c EXCEPT !.active = first].entry = c.entry
      BY <1>10 DEF Shape, CacheType
    <3>12. \A p \in Pair : d.entry[p].pins = 0
      BY <1>10, <3>10, <3>11 DEF Follows
    <3>13. cache' = d
      BY <3>2, <3>7, <3>9 DEF Demanded
    <3> QED
      BY <3>10, <3>12, <3>13
  <2> QED
    BY <2>1, <2>2
<1>12. SettingOK'
  <2>1. 0 \in Layer
    BY LayerFacts DEF Layer
  <2> QED
    BY <1>1, <1>11, <2>1 DEF MoeInv, SettingOK, Stages
<1>13. TurnOK' /\ ReadyOK'
  BY <1>1 DEF MoeInv, TurnOK, ReadyOK, Collecting, Leasing, Borrowings, Adding
<1>14. HeldOK'
  BY <1>7, <1>11 DEF HeldOK, HeldIn
<1>15. BatchOK' /\ OutputOK' /\ AdviceOK'
  BY <1>1 DEF BatchOK, OutputOK, AdviceOK, Advised, Collecting, Turning, Borrowings, Adding, Leasing
<1> QED
  BY <1>6, <1>12, <1>13, <1>14, <1>15 DEF MoeInv

LEMMA StutterKeeps ==
    ASSUME MoeInv, UNCHANGED vars
    PROVE  MoeInv'
<1>1. /\ UNCHANGED <<setup, pc, kernel>> /\ cache' = cache /\ tasks' = tasks
  BY DEF vars
<1>2. /\ Shape(cache', setup.global) /\ HeldIn(cache', layer, Held)
      /\ tasks' \in Seq([layer : Layer, route : {<<>>} \cup HashRoutes]) /\ Len(tasks') <= 3
      /\ \A e \in Held : IF pc = "load" THEN Resident(cache', Weights(e)) ELSE IsReady(cache', Weights(e))
      /\ pc \in Advised => FreshIn(cache', layer, Chosen(routes))
  BY <1>1 DEF MoeInv, SettingOK, HeldOK, AdviceOK
<1> QED
  BY <1>1, <1>2, CacheOnly

-----------------------------------------------------------------------------
(***************************************************************************)
(* The theorems.                                                           *)
(***************************************************************************)

(* What the compute thread, the predictor and the I/O workers leave is       *)
(* always consistent (moe.cpp, ssd_prefetch.cpp, cache.cpp).                 *)
THEOREM MoeInvHolds == Spec => []MoeInv
<1>1. Init => MoeInv
  BY InitKeeps
<1>2. MoeInv /\ [Next]_vars => MoeInv'
  <2>1. SUFFICES ASSUME MoeInv, [Next]_vars PROVE MoeInv'
    OBVIOUS
  <2>2. CASE BeginPass
    BY <2>1, <2>2, BeginKeeps
  <2>3. CASE RunKernel
    BY <2>1, <2>3, RouteKeeps, RetainKeeps, RequestKeeps, CountKeeps, ScanKeeps, ScanEndsKeeps,
       LeaseKeeps, ComputeBatchKeeps, ReleaseKeeps, ReleasedKeeps, ScatterKeeps, BorrowNowKeeps,
       BorrowKeeps, SlotWakeKeeps, LoadKeeps, ComputeKeeps, AdvanceKeeps, LookKeeps, RefillKeeps,
       AddSharedKeeps, NextLayerKeeps DEF RunKernel
  <2>4. CASE Predict
    BY <2>1, <2>4, PredictKeeps
  <2>5. CASE RunIo
    BY <2>1, <2>5, CompleteKeeps
  <2>6. CASE UNCHANGED vars
    BY <2>1, <2>6, StutterKeeps
  <2> QED
    BY <2>1, <2>2, <2>3, <2>4, <2>5, <2>6 DEF Next
<1> QED
  BY <1>1, <1>2, PTL DEF Spec

(* The entries are those that are resident, never more than the capacity or  *)
(* a layer's share, whatever is requested, predicted, evicted or fails, and  *)
(* only experts the running layer chose are borrowed (cache.cpp).            *)
THEOREM MoeTypeCorrect == Spec => []MoeTypeOK
<1>1. MoeInv => MoeTypeOK
  <2>1. SUFFICES ASSUME MoeInv PROVE MoeTypeOK
    OBVIOUS
  <2>2. /\ setup \in Setups /\ layer \in Layer /\ at \in 0..NExperts /\ Shape(cache, setup.global)
        /\ setup.global \in BOOLEAN /\ Len(tasks) <= 3
    BY <2>1, InvFacts DEF MoeInv, SettingOK
  <2>3. /\ cache.entry \in [Pair -> EntryType] /\ cache.arrival \in Seq(Pair)
        /\ cache.recency \in Seq(Pair)
    BY <2>2 DEF Shape, CacheType
  <2>4. /\ ToSet(cache.arrival) = {p \in Pair : Resident(cache, p)}
        /\ ToSet(cache.recency) = ToSet(cache.arrival)
        /\ Distinct(cache.arrival) /\ Distinct(cache.recency)
    BY <2>2 DEF Shape, Residents
  <2>5. Len(cache.recency) = Len(cache.arrival)
    BY <2>3, <2>4, DistinctLength
  <2>6. Len(cache.arrival) <= Capacity
    BY <2>2, CapacityHolds
  <2>7. ~setup.global => \A l \in Layer : Cardinality(OfLayer(cache, l)) <= Share
    BY <2>2 DEF Shape, Room
  <2>8. ASSUME NEW p \in Pair, cache.entry[p].pins > 0
        PROVE  Routed /\ p[1] = layer /\ p[2] \in Chosen(routes)
    <3>1. p[1] = layer /\ p[2] \in Held
      BY <2>1, <2>8 DEF MoeInv, HeldOK, HeldIn
    <3>2. Routed
      BY <2>1, <3>1, HeldExperts
    <3>3. CASE pc \in Leasing
      <4>1. /\ ready \in Seq(Chosen(routes)) /\ leases \in Nat /\ leases <= Len(ready)
            /\ Len(ready) \in Nat
        BY <2>1, <3>3, InvFacts, LenProperties DEF MoeInv, ReadyOK, Collecting
      <4>2. PICK i \in 1..leases : p[2] = ready[i]
        BY <3>1, <3>3 DEF Held
      <4>3. i \in 1..Len(ready)
        BY <4>1
      <4> QED
        BY <3>1, <3>2, <4>1, <4>2, <4>3, LenProperties
    <3>4. CASE pc \notin Leasing
      BY <2>1, <3>1, <3>2, <3>4 DEF Held, MoeInv, TurnOK, Borrowings
    <3> QED
      BY <3>3, <3>4
  <2> QED
    BY <2>2, <2>3, <2>4, <2>5, <2>6, <2>7, <2>8 DEF MoeTypeOK
<1> QED
  BY <1>1, MoeInvHolds, PTL

(* Whatever was resident, batched, evicted, failed or read again, a layer    *)
(* adds the contributions of the best experts of each token, once each, in   *)
(* the order of their ids, and the shared expert last (moe.cpp).             *)
THEOREM OutputIsRouterAlone == Spec => []OutputsAddUp
<1>1. MoeInv => OutputsAddUp
  BY DEF MoeInv, OutputOK, OutputsAddUp
<1> QED
  BY <1>1, MoeInvHolds, PTL

(* A prediction takes no pair from the running layer that it demanded itself *)
(* (ssd_prefetch.cpp; cache.cpp, reserve_entry_locked).                      *)
THEOREM AdviceSparesDemand == Spec => AdviceSparesRoute
<1> DEFINE Spares ==
        Predict =>
            \A e \in Chosen(routes) :
                LET p == Weights(e) IN
                pc \notin {"idle", "route", "retain", "request", "added"}
                    /\ Contained(cache, p) /\ ~cache.entry[p].speculative
                    => cache'.entry[p].state = cache.entry[p].state
<1>1. MoeInv /\ [Next]_vars => [Spares]_vars
  <2>1. SUFFICES ASSUME MoeInv, Predict, NEW e \in Chosen(routes),
                        pc \notin {"idle", "route", "retain", "request", "added"},
                        Contained(cache, Weights(e)), ~cache.entry[Weights(e)].speculative
                 PROVE  cache'.entry[Weights(e)].state = cache.entry[Weights(e)].state
    OBVIOUS
  <2>2. PICK d, p : d = cache' /\ p = Weights(e)
    OBVIOUS
  <2>3. Routed /\ pc \in Advised
    BY <2>1, InvFacts DEF Routed, Stages
  <2>4. p \in Pair /\ p = <<layer, e>> /\ p[1] = layer /\ layer \in Int
    <3>1. e \in ExpertId /\ layer \in Int
      BY <2>1, <2>3, RoutedFacts, InvFacts DEF Layer
    <3> QED
      BY <2>1, <2>2, <2>3, <3>1, RoutedFacts
  <2>5. cache.active = layer /\ (Resident(cache, p) => cache.entry[p].current)
    BY <2>1, <2>3, <2>4 DEF MoeInv, AdviceOK, FreshIn
  <2>6. Kept(cache, p)
    BY <2>1, <2>2, <2>4, <2>5 DEF Kept, Contained, Resident, Left
  <2>7. Spared(cache, d)
    BY <2>1, <2>2, PredictIs
  <2> QED
    BY <2>2, <2>4, <2>6, <2>7 DEF Spared
<1>2. Spec => [][Spares]_vars
  <2> HIDE DEF Spares
  <2> QED
    BY <1>1, MoeInvHolds, PTL DEF Spec
<1> QED
  BY <1>2 DEF AdviceSparesRoute
=============================================================================
