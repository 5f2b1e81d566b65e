-------------------------- MODULE ThreadPoolProofs --------------------------
(***************************************************************************)
(* The safety of the compute thread pool, for every number of threads and  *)
(* every set of calls.                                                     *)
(***************************************************************************)
EXTENDS ThreadPool, FiniteSetTheorems, TLAPS

-----------------------------------------------------------------------------
(* Stage 1.  The index arithmetic: shards and tiles partition the cells. *)

(* Integer division. *)
LEMMA DivBounds ==
    ASSUME NEW a \in Nat, NEW b \in Positive
    PROVE  /\ a \div b \in Nat /\ a % b \in Nat
           /\ b * (a \div b) <= a /\ a < b * (a \div b) + b
           /\ a = b * (a \div b) + (a % b) /\ a % b < b
  BY DEF Positive

LEMMA DivLess ==
    ASSUME NEW a \in Nat, NEW b \in Positive, NEW q \in Nat
    PROVE  a < b * q <=> a \div b < q
<1> DEFINE d == a \div b
<1>1. d \in Nat /\ b * d <= a /\ a < b * d + b
  BY DivBounds
<1> HIDE DEF d
<1>2. ASSUME d < q PROVE a < b * q
  <2>1. d + 1 <= q
    BY <1>1, <1>2
  <2>2. b * (d + 1) <= b * q
    BY <1>1, <2>1 DEF Positive
  <2>3. b * (d + 1) = b * d + b
    BY <1>1 DEF Positive
  <2> QED
    BY <1>1, <2>2, <2>3 DEF Positive
<1>3. ASSUME q <= d PROVE b * q <= a
  <2>1. b * q <= b * d
    BY <1>1, <1>3 DEF Positive
  <2> QED
    BY <1>1, <2>1 DEF Positive
<1> QED
  BY <1>1, <1>2, <1>3 DEF d, Positive

LEMMA DivMonotone ==
    ASSUME NEW a \in Nat, NEW c \in Nat, NEW b \in Positive, a <= c
    PROVE  a \div b <= c \div b
<1>1. c \div b \in Nat /\ a \div b \in Nat
  BY DivBounds
<1>2. c < b * (c \div b + 1)
  <2>1. c < b * (c \div b) + b
    BY DivBounds
  <2>2. b * (c \div b + 1) = b * (c \div b) + b
    BY <1>1 DEF Positive
  <2> QED
    BY <2>1, <2>2
<1>3. a < b * (c \div b + 1)
  BY <1>1, <1>2 DEF Positive
<1>4. a \div b < c \div b + 1
  BY <1>1, <1>3, DivLess
<1> QED
  BY <1>1, <1>4

(* There is a chunk, and every element is in one of them. *)
LEMMA ChunksPositive ==
    ASSUME NEW m \in Positive, NEW size \in Positive
    PROVE  /\ Chunks(m, size) \in Positive
           /\ \A i \in 0..(m - 1) : i \div size \in 0..(Chunks(m, size) - 1)
<1> DEFINE total == Chunks(m, size)
<1>1. total \in Nat /\ m + size - 1 < size * total + size
  BY DivBounds DEF Chunks, Positive
<1>2. ~((m + size - 1) < size * 1)
  BY DEF Positive
<1>3. ~(total < 1)
  BY <1>2, DivLess DEF Chunks, Positive
<1>4. ASSUME NEW i \in 0..(m - 1)
      PROVE  i \div size \in 0..(total - 1)
  <2>1. i \in Nat /\ i \div size \in Nat
    BY DivBounds DEF Positive
  <2> HIDE DEF total
  <2>2. i < size * total
    BY <1>1, <2>1 DEF Positive
  <2>3. i \div size < total
    BY <1>1, <2>1, <2>2, DivLess
  <2> QED
    BY <1>1, <2>1, <2>3
<1>5. total \in Positive
  BY <1>1, <1>3 DEF Positive
<1> HIDE DEF total
<1> QED
  BY <1>4, <1>5 DEF total

(* Chunk c of `total' belongs to exactly one of the `active' shards. *)
LEMMA ChunkHasAShard ==
    ASSUME NEW total \in Positive, NEW active \in Positive,
           NEW c \in Nat, c < total
    PROVE  \E t \in 0..(active - 1) :
             (total * t) \div active <= c /\ c < (total * (t + 1)) \div active
<1> DEFINE x == active * (c + 1) - 1
           t == x \div total
<1>1. x \in Nat
  BY DEF Positive
<1>2. t \in Nat /\ total * t <= x /\ x < total * t + total
  BY <1>1, DivBounds
<1>3. t < active
  <2>1. active * (c + 1) <= active * total
    BY DEF Positive
  <2>2. x < total * active
    BY <2>1, <1>1 DEF Positive
  <2> QED
    BY <1>1, <2>2, DivLess DEF Positive
<1> HIDE DEF t
<1>4. (total * t) \div active <= c
  <2>1. total * t \in Nat /\ total * t < active * (c + 1)
    BY <1>2 DEF Positive
  <2>2. (total * t) \div active < c + 1
    BY <2>1, DivLess
  <2> QED
    BY <2>1, <2>2, DivBounds
<1>5. c < (total * (t + 1)) \div active
  <2>1. total * (t + 1) = total * t + total /\ total * (t + 1) \in Nat
    BY <1>2 DEF Positive
  <2>2. ~(total * (t + 1) < active * (c + 1))
    BY <1>2, <2>1 DEF Positive
  <2>3. ~((total * (t + 1)) \div active < c + 1)
    BY <2>1, <2>2, DivLess
  <2> QED
    BY <2>1, <2>3, DivBounds
<1>6. t \in 0..(active - 1)
  BY <1>2, <1>3 DEF Positive
<1> QED
  BY <1>4, <1>5, <1>6

LEMMA ShardsAreOrdered ==
    ASSUME NEW total \in Positive, NEW active \in Positive,
           NEW t \in Nat, NEW u \in Nat, t < u
    PROVE  (total * (t + 1)) \div active <= (total * u) \div active
<1>1. total * (t + 1) <= total * u /\ total * (t + 1) \in Nat /\ total * u \in Nat
  BY DEF Positive
<1> QED
  BY <1>1, DivMonotone

(* Element i is in shard t when its chunk is. *)
LEMMA InShard ==
    ASSUME NEW m \in Positive, NEW tile \in Positive, NEW active \in Positive,
           NEW t \in Nat, NEW i
    PROVE  i \in Shard(m, tile, active, t) <=>
             /\ i \in 0..(m - 1)
             /\ (Chunks(m, tile) * t) \div active <= i \div tile
             /\ i \div tile < (Chunks(m, tile) * (t + 1)) \div active
<1> DEFINE total == Chunks(m, tile)
           lo == (total * t) \div active
           hi == (total * (t + 1)) \div active
<1>1. total \in Nat
  BY DivBounds DEF Chunks, Positive
<1>2. lo \in Nat /\ hi \in Nat
  BY <1>1, DivBounds DEF Positive
<1>3. i \in Shard(m, tile, active, t) <=> i \in (lo * tile) .. (Least(hi * tile, m) - 1)
  BY DEF Shard
<1> HIDE DEF total, lo, hi
<1>4. lo * tile \in Nat /\ hi * tile \in Nat
  BY <1>2 DEF Positive
<1>5. i \in Shard(m, tile, active, t) <=>
        i \in 0..(m - 1) /\ lo * tile <= i /\ i < hi * tile
  BY <1>3, <1>4 DEF Least, Positive
<1>6. ASSUME i \in 0..(m - 1)
      PROVE  (i < hi * tile <=> i \div tile < hi) /\ (lo * tile <= i <=> lo <= i \div tile)
  <2>1. i \in Nat /\ i \div tile \in Nat
    BY <1>6, DivBounds DEF Positive
  <2>2. (i < tile * hi <=> i \div tile < hi) /\ (i < tile * lo <=> i \div tile < lo)
    BY <1>2, <2>1, DivLess
  <2>3. tile * hi = hi * tile /\ tile * lo = lo * tile
    BY <1>2 DEF Positive
  <2> QED
    BY <1>2, <1>4, <2>1, <2>2, <2>3
<1> QED
  BY <1>5, <1>6 DEF total, lo, hi

(* parallel_for hands out every element to exactly one thread. *)
THEOREM ShardsPartition ==
    ASSUME NEW m \in Positive, NEW tile \in Positive, NEW active \in Positive
    PROVE  /\ 0..(m - 1) = UNION {Shard(m, tile, active, t) : t \in 0..(active - 1)}
           /\ \A t, u \in 0..(active - 1) :
                t # u => Shard(m, tile, active, t) \cap Shard(m, tile, active, u) = {}
<1> DEFINE total == Chunks(m, tile)
<1>1. total \in Positive
  BY ChunksPositive
<1>2. ASSUME NEW i \in 0..(m - 1)
      PROVE  i \div tile \in Nat /\ i \div tile < total
  <2>1. i \div tile \in 0..(total - 1)
    BY ChunksPositive
  <2> HIDE DEF total
  <2> QED
    BY <1>1, <2>1 DEF Positive
<1> HIDE DEF total
<1>3. ASSUME NEW i \in 0..(m - 1)
      PROVE  \E t \in 0..(active - 1) : i \in Shard(m, tile, active, t)
  <2>1. PICK t \in 0..(active - 1) :
          /\ (total * t) \div active <= i \div tile
          /\ i \div tile < (total * (t + 1)) \div active
    BY <1>1, <1>2, ChunkHasAShard
  <2> QED
    BY <2>1, InShard DEF total
<1>4. ASSUME NEW t \in 0..(active - 1), NEW u \in 0..(active - 1), t < u,
             NEW i \in Shard(m, tile, active, t), i \in Shard(m, tile, active, u)
      PROVE  FALSE
  <2>1. t \in Nat /\ u \in Nat
    OBVIOUS
  <2>2. /\ i \in 0..(m - 1)
        /\ i \div tile < (total * (t + 1)) \div active
        /\ (total * u) \div active <= i \div tile
    BY <1>4, <2>1, InShard DEF total
  <2>3. (total * (t + 1)) \div active <= (total * u) \div active
    BY <1>1, <1>4, <2>1, ShardsAreOrdered
  <2>4. total * (t + 1) \in Nat /\ total * u \in Nat
    BY <1>1, <2>1 DEF Positive
  <2>5. (total * (t + 1)) \div active \in Nat /\ (total * u) \div active \in Nat
    BY <2>4, DivBounds
  <2>6. i \div tile \in Nat
    BY <1>2, <2>2
  <2> QED
    BY <2>2, <2>3, <2>5, <2>6
<1>5. \A t \in 0..(active - 1) : Shard(m, tile, active, t) \subseteq 0..(m - 1)
  BY InShard
<1>6. ASSUME NEW t \in 0..(active - 1), NEW u \in 0..(active - 1), t # u
      PROVE  Shard(m, tile, active, t) \cap Shard(m, tile, active, u) = {}
  <2>1. CASE t < u
    BY <1>4, <2>1
  <2>2. CASE u < t
    BY <1>4, <2>2
  <2> QED
    BY <1>6, <2>1, <2>2
<1> QED
  BY <1>3, <1>5, <1>6

(* An offset is in range b of length `size' when its quotient is b. *)
LEMMA InRange ==
    ASSUME NEW m \in Positive, NEW size \in Positive, NEW b \in Nat, NEW i
    PROVE  i \in (b * size) .. (Least(b * size + size, m) - 1) <=>
             i \in 0..(m - 1) /\ i \div size = b
<1>1. b * size \in Nat /\ (b + 1) * size = b * size + size
  BY DEF Positive
<1>2. i \in (b * size) .. (Least(b * size + size, m) - 1) <=>
        i \in 0..(m - 1) /\ b * size <= i /\ i < b * size + size
  BY <1>1 DEF Least, Positive
<1>3. ASSUME i \in 0..(m - 1)
      PROVE  (b * size <= i /\ i < b * size + size) <=> i \div size = b
  <2>1. i \in Nat /\ i \div size \in Nat
    BY <1>3, DivBounds DEF Positive
  <2>2. (i < size * (b + 1) <=> i \div size < b + 1) /\ (i < size * b <=> i \div size < b)
    BY <2>1, DivLess
  <2>3. size * (b + 1) = b * size + size /\ size * b = b * size
    BY DEF Positive
  <2> QED
    BY <1>1, <2>1, <2>2, <2>3
<1> QED
  BY <1>2, <1>3

LEMMA InTile ==
    ASSUME NEW c \in CallType, NEW j \in Nat, NEW x
    PROVE  x \in Tile(c, j) <=>
             /\ x \in Cells(c)
             /\ x[1] \div c.tile = j % Chunks(c.m, c.tile)
             /\ x[2] \div c.block = j \div Chunks(c.m, c.tile)
<1> DEFINE mt == Chunks(c.m, c.tile)
           p == j % mt
           q == j \div mt
<1>1. /\ c.m \in Positive /\ c.tile \in Positive
      /\ c.n \in Positive /\ c.block \in Positive
  BY DEF CallType
<1>2. mt \in Positive
  BY <1>1, ChunksPositive
<1>3. p \in Nat /\ q \in Nat
  BY <1>2, DivBounds
<1>4. x \in Tile(c, j) <=>
        x \in ((p * c.tile) .. (Least(p * c.tile + c.tile, c.m) - 1))
               \X ((q * c.block) .. (Least(q * c.block + c.block, c.n) - 1))
  BY DEF Tile
<1> HIDE DEF mt, p, q
<1>5. \A i : i \in (p * c.tile) .. (Least(p * c.tile + c.tile, c.m) - 1) <=>
               i \in 0..(c.m - 1) /\ i \div c.tile = p
  BY <1>1, <1>3, InRange
<1>6. \A i : i \in (q * c.block) .. (Least(q * c.block + c.block, c.n) - 1) <=>
               i \in 0..(c.n - 1) /\ i \div c.block = q
  BY <1>1, <1>3, InRange
<1>7. x \in Tile(c, j) <=> x \in Cells(c) /\ x[1] \div c.tile = p /\ x[2] \div c.block = q
  BY <1>4, <1>5, <1>6 DEF Cells
<1> QED
  BY <1>7 DEF p, q, mt

(* parallel_for_2d hands out every cell in exactly one of its jobs. *)
THEOREM TilesPartition ==
    ASSUME NEW c \in CallType
    PROVE  /\ Cells(c) = UNION {Tile(c, j) : j \in 0..(Jobs(c) - 1)}
           /\ \A j, k \in Nat : j # k => Tile(c, j) \cap Tile(c, k) = {}
<1> DEFINE mt == Chunks(c.m, c.tile)
           nb == Chunks(c.n, c.block)
<1>1. /\ c.m \in Positive /\ c.tile \in Positive
      /\ c.n \in Positive /\ c.block \in Positive
  BY DEF CallType
<1>2. mt \in Positive /\ nb \in Positive
  BY <1>1, ChunksPositive
<1>3. Jobs(c) = mt * nb /\ Jobs(c) \in Positive
  <2> HIDE DEF mt, nb
  <2>1. mt * nb \in Positive
    BY <1>2 DEF Positive
  <2> QED
    BY <2>1 DEF Jobs, mt, nb
<1>4. ASSUME NEW x \in Cells(c)
      PROVE  \E j \in 0..(Jobs(c) - 1) : x \in Tile(c, j)
  <2> DEFINE p == x[1] \div c.tile
             q == x[2] \div c.block
             j == mt * q + p
  <2>1. p \in 0..(mt - 1) /\ q \in 0..(nb - 1)
    BY <1>1, ChunksPositive DEF Cells
  <2> HIDE DEF p, q, mt, nb
  <2>2. j \in Nat
    BY <1>2, <2>1 DEF Positive
  <2>3. j < mt * (q + 1) /\ mt * (q + 1) <= mt * nb
    BY <1>2, <2>1 DEF Positive
  <2>4. j \in 0..(Jobs(c) - 1)
    BY <1>2, <1>3, <2>1, <2>2, <2>3 DEF Positive
  <2>5. ~(j < mt * q)
    BY <1>2, <2>1 DEF Positive
  <2>6. j \div mt < q + 1 /\ ~(j \div mt < q)
    BY <1>2, <2>1, <2>2, <2>3, <2>5, DivLess
  <2>7. j \div mt = q
    BY <1>2, <2>1, <2>2, <2>6, DivBounds
  <2>8. j % mt = p
    <3>1. j = mt * (j \div mt) + (j % mt) /\ j % mt \in Nat
      BY <1>2, <2>2, DivBounds
    <3>2. j = mt * q + (j % mt)
      BY <2>7, <3>1
    <3>3. mt * q \in Nat
      BY <1>2, <2>1 DEF Positive
    <3> HIDE DEF j
    <3>4. j = mt * q + p
      BY DEF j
    <3> QED
      BY <2>1, <3>1, <3>2, <3>3, <3>4
  <2> HIDE DEF j
  <2>9. x \in Tile(c, j)
    BY <2>2, <2>7, <2>8, InTile DEF p, q, mt
  <2> QED
    BY <2>4, <2>9
<1>5. ASSUME NEW j \in Nat, NEW k \in Nat, NEW x \in Tile(c, j), x \in Tile(c, k)
      PROVE  j = k
  <2>1. j % mt = k % mt /\ j \div mt = k \div mt
    BY <1>5, InTile
  <2>2. j = mt * (j \div mt) + (j % mt) /\ k = mt * (k \div mt) + (k % mt)
    BY <1>2, DivBounds
  <2> QED
    BY <2>1, <2>2
<1>6. \A j \in 0..(Jobs(c) - 1) : Tile(c, j) \subseteq Cells(c)
  BY <1>3, InTile DEF Positive
<1> HIDE DEF mt, nb
<1> QED
  BY <1>4, <1>5, <1>6

-----------------------------------------------------------------------------
(***************************************************************************)
(* Stage 2.  The invariant.  The owner is in one of three situations: it   *)
(* is stopping the workers, it waits for the workers of a published call   *)
(* (Dispatching), or the pool is quiet, and no flag is up.                 *)
(***************************************************************************)

ControlType ==
    /\ num_threads \in 1..MaxThreads /\ new_size \in 1..MaxThreads
    /\ workers_started \in BOOLEAN /\ parked \in BOOLEAN /\ stop \in BOOLEAN
    /\ ready \in [Worker -> BOOLEAN]
    /\ pending_workers \in Int
    /\ job \in [call : Call \cup {NoCall}, active : 1..MaxThreads]
    /\ generation \in Nat /\ current_chunk \in Nat
    /\ call \in Call \cup {NoCall}
    /\ mpc \in {"idle", "inline", "start", "resume", "notify", "publish", "pend",
                "flag", "own", "run", "wait", "return",
                "sflag", "slock", "snotify", "join"}
    /\ turn \in 1..MaxThreads
    /\ wpc \in [Worker -> {"off", "spin", "flag", "idle", "lock", "test", "block",
                           "asleep", "take", "skip", "accept", "work", "grab",
                           "run", "done", "exit"}]
    /\ seen_generation \in [Worker -> Nat]

(* The owner resumes the pool within a call. *)
ResumesForCall == mpc \in {"resume", "notify"} /\ call # NoCall

(* What the owner's position says of its call and of the pool. *)
OwnerInv ==
    /\ mpc \in {"idle", "sflag", "slock", "snotify", "join"} => call = NoCall
    /\ mpc \notin {"idle", "sflag", "slock", "snotify", "join", "resume", "notify"} =>
         call \in Call
    /\ stop <=> mpc \in {"sflag", "slock", "snotify", "join"}
    /\ mpc = "inline" => ActiveThreads(call) <= 1
    /\ mpc \in {"start", "publish", "pend", "flag", "own", "wait"} \/ ResumesForCall => ActiveThreads(call) > 1
    /\ mpc \in {"publish", "pend"} \/ Dispatching \/ ResumesForCall => workers_started
    /\ mpc = "pend" \/ Dispatching =>
         job = [call |-> call, active |-> ActiveThreads(call)]
    /\ mpc = "flag" => turn < ActiveThreads(call)
    /\ ~workers_started => generation = 0

(* Which workers exist, and where they block. *)
CrewInv ==
    /\ \A w \in Worker : wpc[w] = "off" <=> ~(workers_started /\ w < num_threads)
    /\ \A w \in Worker : wpc[w] = "exit" => stop
    /\ \A w \in Worker : wpc[w] # "off" => seen_generation[w] <= generation
    /\ \A w \in Worker : wpc[w] = "block" =>
         parked /\ (stop => mpc \in {"sflag", "slock"})
    /\ SleepersAreWoken

(* Where a worker is between two dispatches. *)
Resting == {"off", "spin", "flag", "idle", "lock", "test", "block", "asleep"}

(* The owner has raised, or has no reason to raise, the flag of w. *)
ToldOf(w) == ~(mpc = "flag" /\ w >= turn)

(* The handshake of generation, flag and job, as worker w sees it. *)
Agreed(w) ==
    /\ ~Dispatching /\ ~stop => ~ready[w] /\ wpc[w] \in Resting
    /\ ~Dispatching /\ mpc # "pend" =>
         (wpc[w] # "off" /\ w < job.active => seen_generation[w] = generation)
    /\ mpc = "pend" /\ wpc[w] # "off" => seen_generation[w] # generation
    /\ Dispatching /\ w >= job.active => ~ready[w] /\ wpc[w] \in Resting
    /\ Dispatching /\ w < job.active /\ ~ToldOf(w) =>
         ~ready[w] /\ wpc[w] \in Resting /\ seen_generation[w] # generation
    /\ Dispatching /\ w < job.active /\ ToldOf(w) =>
         \/ /\ ready[w] /\ seen_generation[w] # generation
            /\ wpc[w] \in Resting \cup {"take"}
         \/ ready[w] /\ seen_generation[w] = generation /\ wpc[w] = "accept"
         \/ /\ ~ready[w] /\ seen_generation[w] = generation
            /\ wpc[w] \in Resting \cup {"work", "grab", "run", "done"}
    /\ wpc[w] = "grab" => job.call.dim = 2
    /\ stop => /\ wpc[w] \notin {"grab", "run"}
               /\ wpc[w] \in {"accept", "work", "done"} => w >= job.active

Handshake == (\A w \in Worker : Agreed(w)) /\ PendingCountsUnfinished

(* The part of a one-dimensional call that thread t runs. *)
Part(t) == Shard(call.m, call.tile, ActiveThreads(call), t) \X {0}

(* The threads that have not begun their part. *)
Awaits(t) ==
    IF t = 0 THEN mpc \in {"flag", "own"}
    ELSE seen_generation[t] # generation \/ wpc[t] \in {"accept", "work"}
NotBegun == {t \in 0..(ActiveThreads(call) - 1) : Awaits(t)}

(* Who runs a piece. *)
PieceInv ==
    /\ piece \in [Thread -> SUBSET (Nat \X Nat)]
    /\ todo \in SUBSET (Nat \X Nat)
    /\ piece[0] # {} => mpc = "run"
    /\ \A w \in Worker : piece[w] # {} => wpc[w] = "run"

(* Which cells of the call nobody has started. *)
TodoInv ==
    /\ call = NoCall \/ mpc = "return" => todo = {}
    /\ mpc \in {"inline", "start", "publish", "pend"} \/ ResumesForCall => todo = Cells(call)
    /\ mpc = "pend" /\ call.dim = 2 => current_chunk = 0
    /\ mpc = "run" /\ ActiveThreads(call) <= 1 => todo = {}
    /\ Dispatching /\ call.dim = 1 => todo = UNION {Part(t) : t \in NotBegun}
    /\ Dispatching /\ call.dim = 2 =>
         todo = UNION {Tile(call, j) : j \in current_chunk..(Jobs(call) - 1)}
    /\ mpc = "wait" /\ call.dim = 2 => current_chunk >= Jobs(call)

WorkInv == PieceInv /\ TodoInv
-----------------------------------------------------------------------------
(* Stage 3.  Types, the owner's position, and where workers block. *)

Control == ControlType /\ OwnerInv /\ CrewInv

LEMMA JobsPositive ==
    ASSUME NEW c \in Call
    PROVE  /\ Jobs(c) \in Positive /\ c \in CallType
           /\ c.m \in Positive /\ c.tile \in Positive /\ c.dim \in {1, 2}
           /\ c.dim = 1 => c.n = 1
<1>1. /\ c \in CallType
      /\ c.m \in Positive /\ c.tile \in Positive /\ c.dim \in {1, 2}
      /\ c.n \in Positive /\ c.block \in Positive
      /\ c.dim = 1 => c.n = 1
  BY PoolAssumption DEF PoolAssumption, CallType
<1>2. Chunks(c.m, c.tile) \in Positive /\ Chunks(c.n, c.block) \in Positive
  BY <1>1, ChunksPositive
<1>3. \A a, b \in Positive : a * b \in Positive
  BY DEF Positive
<1> QED
  BY <1>1, <1>2, <1>3 DEF Jobs

LEMMA ActiveType ==
    ASSUME NEW c \in Call, num_threads \in 1..MaxThreads
    PROVE  /\ ActiveThreads(c) \in 1..MaxThreads
           /\ ActiveThreads(c) <= num_threads
<1>1. MaxThreads \in Nat
  BY PoolAssumption DEF PoolAssumption, Positive
<1> QED
  BY <1>1, JobsPositive DEF ActiveThreads, Least, Positive

LEMMA ControlInit == Init => Control
<1> SUFFICES ASSUME Init PROVE Control
  OBVIOUS
<1>1. MaxThreads \in Nat \ {0}
  BY PoolAssumption DEF PoolAssumption, Positive
<1>2. ControlType
  <2>1. job \in [call : Call \cup {NoCall}, active : 1..MaxThreads]
    BY <1>1 DEF Init, NoJob
  <2>2. turn \in 1..MaxThreads /\ new_size \in 1..MaxThreads
    BY <1>1 DEF Init
  <2>3. /\ ready \in [Worker -> BOOLEAN]
        /\ seen_generation \in [Worker -> Nat]
        /\ wpc \in [Worker -> {"off", "spin", "flag", "idle", "lock", "test", "block",
                               "asleep", "take", "skip", "accept", "work", "grab",
                               "run", "done", "exit"}]
    BY DEF Init
  <2>4. /\ workers_started \in BOOLEAN /\ parked \in BOOLEAN /\ stop \in BOOLEAN
        /\ num_threads \in 1..MaxThreads
    BY DEF Init
  <2>5. /\ pending_workers \in Int /\ generation \in Nat /\ current_chunk \in Nat
        /\ call \in Call \cup {NoCall} /\ mpc = "idle"
    BY DEF Init
  <2> QED
    BY <2>1, <2>2, <2>3, <2>4, <2>5 DEF ControlType
<1>3. OwnerInv
  BY DEF Init, OwnerInv, Dispatching, ResumesForCall
<1>4. CrewInv
  BY DEF Init, CrewInv, SleepersAreWoken
<1> QED
  BY <1>2, <1>3, <1>4 DEF Control

(* Steps that leave the owner's position alone keep what it says. *)
LEMMA OwnerFrame ==
    ASSUME OwnerInv,
           UNCHANGED <<num_threads, workers_started, stop, job, generation, call, mpc, turn>>
    PROVE  OwnerInv'
  BY DEF OwnerInv, Dispatching, ResumesForCall, ActiveThreads

(* A worker that stays in the crew and does not block. *)
LEMMA CrewFrame ==
    ASSUME ControlType, CrewInv, NEW w \in Worker, NEW l, wpc[w] # "off",
           wpc' = [wpc EXCEPT ![w] = l], l \notin {"off", "exit", "block", "asleep"},
           seen_generation' = seen_generation
             \/ seen_generation' = [seen_generation EXCEPT ![w] = generation],
           UNCHANGED <<num_threads, workers_started, parked, stop, generation, mpc>>
    PROVE  CrewInv'
<1>1. \A v \in Worker : wpc'[v] = IF v = w THEN l ELSE wpc[v]
  BY DEF ControlType
<1>2. \A v \in Worker : seen_generation'[v] \in {seen_generation[v], generation}
  BY DEF ControlType
<1>3. generation <= generation
  BY DEF ControlType
<1> QED
  BY <1>1, <1>2, <1>3 DEF CrewInv, SleepersAreWoken

LEMMA ControlWorker ==
    ASSUME Control, NEW w \in Worker, WorkerStep(w) \/ WakeSpuriously(w)
    PROVE  Control'
<1> USE DEF Control
<1>1. UNCHANGED <<num_threads, workers_started, new_size, parked, stop, job, generation,
                  call, mpc, turn>>
  BY DEF WorkerStep, WakeSpuriously, Spin, TestFlag, TestParked, Lock, TestPredicate,
     Block, TakeJob, ClearFlag, StartWork, Steal, WorkDone, SignalDone,
     poolVars, jobVars, parkVars
<1>2. OwnerInv'
  BY <1>1, OwnerFrame
<1>3. CASE Spin(w)
  <2>1. ControlType'
    BY <1>1, <1>3 DEF Spin, Goto, ControlType
  <2>2. CASE ~stop
    <3>1. wpc[w] = "spin" /\ wpc' = [wpc EXCEPT ![w] = "flag"] /\ UNCHANGED seen_generation
      BY <1>3, <2>2 DEF Spin, Goto
    <3> QED
      BY <1>1, <1>2, <2>1, <3>1, CrewFrame
  <2>3. CASE stop
    <3>1. \A v \in Worker : wpc'[v] = IF v = w THEN "exit" ELSE wpc[v]
      BY <1>3, <2>3 DEF Spin, Goto, ControlType
    <3>2. wpc[w] = "spin" /\ UNCHANGED seen_generation /\ stop' = stop
      BY <1>1, <1>3 DEF Spin
    <3> QED
      BY <1>1, <1>2, <2>1, <2>3, <3>1, <3>2 DEF CrewInv, SleepersAreWoken
  <2> QED
    BY <1>2, <2>1, <2>2, <2>3
<1>4. CASE TestFlag(w)
  <2>1. ControlType'
    BY <1>1, <1>4 DEF TestFlag, Goto, ControlType
  <2> QED
    BY <1>1, <1>2, <1>4, <2>1, CrewFrame DEF TestFlag, Goto
<1>5. CASE TestParked(w)
  <2>1. ControlType'
    BY <1>1, <1>5 DEF TestParked, Goto, ControlType
  <2> QED
    BY <1>1, <1>2, <1>5, <2>1, CrewFrame DEF TestParked, Goto
<1>6. CASE Lock(w)
  <2>1. ControlType'
    BY <1>1, <1>6 DEF Lock, Goto, ControlType
  <2> QED
    BY <1>1, <1>2, <1>6, <2>1, CrewFrame DEF Lock, Goto
<1>7. CASE TestPredicate(w)
  <2>1. ControlType'
    BY <1>1, <1>7 DEF TestPredicate, Goto, ControlType
  <2>2. CASE MayLeave
    <3>1. /\ wpc[w] = "test" /\ wpc' = [wpc EXCEPT ![w] = "spin"]
          /\ UNCHANGED seen_generation
      BY <1>7, <2>2 DEF TestPredicate, Goto
    <3> QED
      BY <1>1, <1>2, <2>1, <3>1, CrewFrame
  <2>3. CASE ~MayLeave
    <3>1. \A v \in Worker : wpc'[v] = IF v = w THEN "block" ELSE wpc[v]
      BY <1>7, <2>3 DEF TestPredicate, Goto, ControlType
    <3>2. wpc[w] = "test" /\ UNCHANGED seen_generation /\ parked /\ ~stop
      BY <1>7, <2>3 DEF TestPredicate, MayLeave, ControlType
    <3> QED
      BY <1>1, <1>2, <2>1, <3>1, <3>2 DEF CrewInv, SleepersAreWoken
  <2> QED
    BY <1>2, <2>1, <2>2, <2>3
<1>8. CASE Block(w)
  <2>1. ControlType'
    BY <1>1, <1>8 DEF Block, Goto, ControlType
  <2>2. \A v \in Worker : wpc'[v] = IF v = w THEN "asleep" ELSE wpc[v]
    BY <1>8 DEF Block, Goto, ControlType
  <2>3. CrewInv'
    BY <1>1, <1>8, <2>2 DEF Block, CrewInv, SleepersAreWoken
  <2> QED
    BY <1>2, <2>1, <2>3
<1>9. CASE WakeSpuriously(w)
  <2>1. ControlType'
    BY <1>1, <1>9 DEF WakeSpuriously, Goto, ControlType
  <2> QED
    BY <1>1, <1>2, <1>9, <2>1, CrewFrame DEF WakeSpuriously, Goto
<1>10. CASE TakeJob(w)
  <2>1. ControlType'
    BY <1>1, <1>10 DEF TakeJob, Goto, ControlType
  <2> QED
    BY <1>1, <1>2, <1>10, <2>1, CrewFrame DEF TakeJob, Goto
<1>11. CASE ClearFlag(w)
  <2>1. ControlType'
    BY <1>1, <1>11 DEF ClearFlag, Goto, ControlType
  <2> QED
    BY <1>1, <1>2, <1>11, <2>1, CrewFrame DEF ClearFlag, Goto
<1>12. CASE StartWork(w)
  <2>1. PICK l \in {"done", "grab", "run"} : wpc' = [wpc EXCEPT ![w] = l]
    BY <1>12 DEF StartWork, Goto
  <2>2. ControlType'
    BY <1>1, <1>12, <2>1 DEF StartWork, ControlType
  <2> QED
    BY <1>1, <1>2, <1>12, <2>1, <2>2, CrewFrame DEF StartWork
<1>13. CASE Steal(w)
  <2>1. PICK l \in {"done", "run"} : wpc' = [wpc EXCEPT ![w] = l]
    BY <1>13 DEF Steal, Goto
  <2>2. ControlType'
    BY <1>1, <1>13, <2>1 DEF Steal, ControlType
  <2> QED
    BY <1>1, <1>2, <1>13, <2>1, <2>2, CrewFrame DEF Steal
<1>14. CASE WorkDone(w)
  <2>1. PICK l \in {"done", "grab"} : wpc' = [wpc EXCEPT ![w] = l]
    BY <1>14 DEF WorkDone, Goto
  <2>2. ControlType'
    BY <1>1, <1>14, <2>1 DEF WorkDone, ControlType
  <2> QED
    BY <1>1, <1>2, <1>14, <2>1, <2>2, CrewFrame DEF WorkDone
<1>15. CASE SignalDone(w)
  <2>1. ControlType'
    BY <1>1, <1>15 DEF SignalDone, Goto, ControlType
  <2> QED
    BY <1>1, <1>2, <1>15, <2>1, CrewFrame DEF SignalDone, Goto
<1> QED
  BY <1>3, <1>4, <1>5, <1>6, <1>7, <1>8, <1>9, <1>10, <1>11, <1>12, <1>13, <1>14,
     <1>15 DEF WorkerStep

(* Steps of a dispatch leave the crew alone. *)
LEMMA CrewOwnerFrame ==
    ASSUME CrewInv, ~stop, mpc \notin {"notify", "sflag", "slock", "snotify"},
           UNCHANGED <<wpc, seen_generation, num_threads, workers_started, parked, stop>>,
           generation' \in {generation, generation + 1}, generation \in Nat,
           seen_generation \in [Worker -> Nat]
    PROVE  CrewInv'
<1>1. \A w \in Worker : seen_generation[w] <= generation => seen_generation[w] <= generation'
  OBVIOUS
<1> QED
  BY <1>1 DEF CrewInv, SleepersAreWoken

LEMMA ControlDispatch ==
    ASSUME Control,
           \/ \E c \in Call : BeginCall(c)
           \/ RunInline \/ Publish \/ SetPending \/ RaiseFlag \/ OwnWork \/ OwnDone
           \/ WaitForWorkers \/ Return
    PROVE  Control'
<1> USE DEF Control
<1>0. \A c \in Call : ActiveThreads(c) \in 1..MaxThreads /\ ActiveThreads(c) \in Nat
  BY ActiveType DEF ControlType
<1>1. UNCHANGED <<num_threads, workers_started, new_size, parked, stop, wpc,
                  seen_generation>>
  BY DEF BeginCall, RunInline, Publish, SetPending, RaiseFlag, OwnWork, OwnDone,
     WaitForWorkers, Return, poolVars, parkVars, jobVars
<1>2. \A c : ActiveThreads(c)' = ActiveThreads(c)
  BY <1>1 DEF ActiveThreads
<1>3. NoCall \notin Call
  BY PoolAssumption DEF PoolAssumption
<1>4. /\ mpc' \notin {"join", "sflag", "slock", "snotify"}
      /\ mpc \notin {"notify", "sflag", "slock", "snotify", "join"}
      /\ generation' \in {generation, generation + 1}
  BY DEF BeginCall, RunInline, Publish, SetPending, RaiseFlag, OwnWork, OwnDone,
     WaitForWorkers, Return, poolVars, parkVars, jobVars, RunOn
<1>5. CrewInv'
  <2>1. generation \in Nat /\ seen_generation \in [Worker -> Nat]
    BY DEF ControlType
  <2>2. ~stop
    BY <1>4 DEF OwnerInv
  <2> QED
    BY <1>1, <1>4, <2>1, <2>2, CrewOwnerFrame
<1>6. ASSUME NEW c \in Call, BeginCall(c)
      PROVE  ControlType' /\ OwnerInv'
  <2>1. ControlType'
    BY <1>1, <1>6 DEF BeginCall, ControlType, jobVars
  <2>2. OwnerInv'
    BY <1>0, <1>1, <1>2, <1>3, <1>4, <1>6
       DEF BeginCall, OwnerInv, Dispatching, ResumesForCall, jobVars, ControlType
  <2> QED
    BY <2>1, <2>2
<1>7. CASE RunInline
  <2>1. ControlType'
    BY <1>1, <1>7 DEF RunInline, ControlType, jobVars
  <2>2. OwnerInv'
    BY <1>0, <1>1, <1>2, <1>3, <1>4, <1>7
       DEF RunInline, OwnerInv, Dispatching, ResumesForCall, jobVars, ControlType
  <2> QED
    BY <1>5, <2>1, <2>2
<1>8. CASE Publish
  <2>1. call \in Call
    BY <1>8 DEF Publish, OwnerInv
  <2>2. job' \in [call : Call \cup {NoCall}, active : 1..MaxThreads]
    BY <1>0, <1>8, <2>1 DEF Publish
  <2>3. ControlType'
    BY <1>1, <1>8, <2>2 DEF Publish, ControlType
  <2>4. OwnerInv'
    BY <1>0, <1>1, <1>2, <1>3, <1>4, <1>8
       DEF Publish, OwnerInv, Dispatching, ResumesForCall, ControlType
  <2> QED
    BY <1>5, <2>3, <2>4
<1>9. CASE SetPending
  <2>1. call \in Call /\ 1 \in 1..MaxThreads
    BY <1>9, PoolAssumption DEF SetPending, OwnerInv, PoolAssumption, Positive
  <2>2. ControlType'
    BY <1>0, <1>1, <1>9, <2>1 DEF SetPending, ControlType, jobVars
  <2>3. OwnerInv'
    BY <1>0, <1>1, <1>2, <1>3, <1>4, <1>9
       DEF SetPending, OwnerInv, Dispatching, ResumesForCall, jobVars, ControlType
  <2> QED
    BY <1>5, <2>2, <2>3
<1>10. CASE RaiseFlag
  <2>1. /\ call \in Call /\ turn < ActiveThreads(call) /\ turn \in Nat
        /\ MaxThreads \in Nat
    BY <1>10, PoolAssumption
       DEF RaiseFlag, OwnerInv, ControlType, PoolAssumption, Positive
  <2>2. turn + 1 \in 1..MaxThreads
    BY <1>0, <2>1
  <2>3. ControlType'
    BY <1>1, <1>10, <2>2 DEF RaiseFlag, ControlType, jobVars
  <2>4. OwnerInv'
    BY <1>0, <1>1, <1>2, <1>3, <1>4, <1>10, <2>1
       DEF RaiseFlag, OwnerInv, Dispatching, ResumesForCall, jobVars, ControlType
  <2> QED
    BY <1>5, <2>3, <2>4
<1>11. CASE OwnWork
  <2>1. ControlType'
    BY <1>1, <1>11 DEF OwnWork, ControlType, jobVars
  <2>2. OwnerInv'
    BY <1>0, <1>1, <1>2, <1>3, <1>4, <1>11
       DEF OwnWork, OwnerInv, Dispatching, ResumesForCall, jobVars, ControlType
  <2> QED
    BY <1>5, <2>1, <2>2
<1>12. CASE OwnDone
  <2>1. ControlType'
    BY <1>1, <1>12 DEF OwnDone, ControlType, jobVars
  <2>2. OwnerInv'
    BY <1>0, <1>1, <1>2, <1>3, <1>4, <1>12
       DEF OwnDone, OwnerInv, Dispatching, ResumesForCall, jobVars, ControlType
  <2> QED
    BY <1>5, <2>1, <2>2
<1>13. CASE WaitForWorkers
  <2>1. ControlType'
    BY <1>1, <1>13 DEF WaitForWorkers, ControlType, jobVars
  <2>2. OwnerInv'
    BY <1>0, <1>1, <1>2, <1>3, <1>4, <1>13
       DEF WaitForWorkers, OwnerInv, Dispatching, ResumesForCall, jobVars, ControlType
  <2> QED
    BY <1>5, <2>1, <2>2
<1>14. CASE Return
  <2>1. ControlType'
    BY <1>1, <1>14 DEF Return, ControlType, jobVars
  <2>2. OwnerInv'
    BY <1>0, <1>1, <1>2, <1>3, <1>4, <1>14
       DEF Return, OwnerInv, Dispatching, ResumesForCall, jobVars, ControlType
  <2> QED
    BY <1>5, <2>1, <2>2
<1> QED
  BY <1>5, <1>6, <1>7, <1>8, <1>9, <1>10, <1>11, <1>12, <1>13, <1>14


LEMMA ControlOther ==
    ASSUME Control,
           \/ EnsureWorkersStarted \/ Notify \/ RaiseAllFlags \/ StopNotify \/ Reset
           \/ Resume \/ StopLock \/ Park \/ CallResume
           \/ \E n \in 1..MaxThreads : Resize(n)
    PROVE  Control'
<1> USE DEF Control
<1>1. NoCall \notin Call /\ MaxThreads \in Nat /\ 1 \in 1..MaxThreads
  BY PoolAssumption DEF PoolAssumption, Positive
<1>2. generation \in Nat /\ seen_generation \in [Worker -> Nat]
  BY DEF ControlType
<1>3. ASSUME num_threads' = num_threads
      PROVE  \A c : ActiveThreads(c)' = ActiveThreads(c)
  BY <1>3 DEF ActiveThreads
<1>4. CASE EnsureWorkersStarted
  <2>1. call \in Call /\ ActiveThreads(call) > 1 /\ ~stop
    BY <1>4 DEF EnsureWorkersStarted, OwnerInv
  <2>2. \A c : ActiveThreads(c)' = ActiveThreads(c)
    BY <1>3, <1>4 DEF EnsureWorkersStarted
  <2>3. CASE workers_started
    <3>1. UNCHANGED <<num_threads, parked, stop, wpc, seen_generation, new_size, ready,
                      pending_workers, job, generation, current_chunk, call, turn,
                      workers_started>>
      BY <1>4, <2>3 DEF EnsureWorkersStarted, jobVars, ControlType
    <3>2. mpc = "start" /\ mpc' \in {"resume", "publish"}
      BY <1>4, <2>3 DEF EnsureWorkersStarted
    <3>3. ControlType'
      BY <3>1, <3>2 DEF ControlType
    <3>4. OwnerInv'
      BY <2>1, <2>2, <2>3, <3>1, <3>2, <1>1 DEF OwnerInv, Dispatching, ResumesForCall
    <3>5. CrewInv'
      BY <1>2, <2>1, <3>1, <3>2, CrewOwnerFrame
    <3> QED
      BY <3>3, <3>4, <3>5
  <2>4. CASE ~workers_started
    <3>1. UNCHANGED <<num_threads, stop, new_size, ready, pending_workers, job,
                      generation, current_chunk, call, turn>>
      BY <1>4 DEF EnsureWorkersStarted, jobVars
    <3>2. /\ mpc' = "publish" /\ workers_started' = TRUE /\ parked' = FALSE
          /\ wpc' = [w \in Worker |-> IF w < num_threads THEN "spin" ELSE "off"]
          /\ seen_generation' = [w \in Worker |-> 0]
      BY <1>4, <2>4 DEF EnsureWorkersStarted
    <3>3. ControlType'
      BY <3>1, <3>2 DEF ControlType
    <3>4. OwnerInv'
      BY <1>1, <2>1, <2>2, <3>1, <3>2 DEF OwnerInv, Dispatching, ResumesForCall
    <3>5. CrewInv'
      BY <1>2, <3>1, <3>2 DEF CrewInv, SleepersAreWoken
    <3> QED
      BY <3>3, <3>4, <3>5
  <2> QED
    BY <2>3, <2>4 DEF ControlType
<1>5. CASE Notify
  <2>1. UNCHANGED <<num_threads, workers_started, new_size, parked, stop, ready,
                    pending_workers, job, generation, current_chunk, call, turn,
                    seen_generation>>
    BY <1>5 DEF Notify, poolVars, parkVars, jobVars
  <2>2. /\ mpc = "notify" /\ mpc' = IF call = NoCall THEN "idle" ELSE "publish"
        /\ wpc' = [w \in Worker |-> IF wpc[w] = "asleep" THEN "lock" ELSE wpc[w]]
    BY <1>5 DEF Notify, WakeAll
  <2>3. ControlType'
    BY <2>1, <2>2 DEF ControlType
  <2>4. OwnerInv'
    BY <1>1, <1>3, <2>1, <2>2 DEF OwnerInv, Dispatching, ResumesForCall, ControlType
  <2>5. CrewInv'
    BY <2>1, <2>2 DEF CrewInv, SleepersAreWoken, OwnerInv
  <2> QED
    BY <2>3, <2>4, <2>5
<1>6. CASE RaiseAllFlags
  <2>1. UNCHANGED <<num_threads, workers_started, new_size, parked, stop, wpc,
                    pending_workers, job, generation, current_chunk, call,
                    seen_generation>>
    BY <1>6 DEF RaiseAllFlags, poolVars, parkVars, jobVars
  <2>2. mpc = "sflag" /\ mpc' \in {"sflag", "slock"} /\ ready' \in [Worker -> BOOLEAN]
    BY <1>6 DEF RaiseAllFlags, ControlType
  <2>3. turn' \in 1..MaxThreads
    BY <1>1, <1>6 DEF RaiseAllFlags, ControlType
  <2>4. ControlType'
    BY <2>1, <2>2, <2>3 DEF ControlType
  <2>5. OwnerInv'
    BY <2>1, <2>2, <1>3 DEF OwnerInv, Dispatching, ResumesForCall
  <2>6. CrewInv'
    BY <2>1, <2>2 DEF CrewInv, SleepersAreWoken, OwnerInv
  <2> QED
    BY <2>4, <2>5, <2>6
<1>7. CASE StopLock
  <2>1. UNCHANGED <<num_threads, workers_started, new_size, parked, stop, ready, wpc,
                    pending_workers, job, generation, current_chunk, call, turn,
                    seen_generation>>
    BY <1>7 DEF StopLock, poolVars, parkVars, jobVars
  <2>2. mpc = "slock" /\ mpc' = "snotify" /\ \A w \in Worker : wpc[w] # "block"
    BY <1>7 DEF StopLock, MutexFree
  <2>3. ControlType'
    BY <2>1, <2>2 DEF ControlType
  <2>4. OwnerInv'
    BY <2>1, <2>2, <1>3 DEF OwnerInv, Dispatching, ResumesForCall
  <2>5. CrewInv'
    BY <2>1, <2>2 DEF CrewInv, SleepersAreWoken
  <2> QED
    BY <2>3, <2>4, <2>5
<1>8. CASE StopNotify
  <2>1. UNCHANGED <<num_threads, workers_started, new_size, parked, stop, ready,
                    pending_workers, job, generation, current_chunk, call, turn,
                    seen_generation>>
    BY <1>8 DEF StopNotify, poolVars, parkVars, jobVars
  <2>2. /\ mpc = "snotify" /\ mpc' = "join"
        /\ wpc' = [w \in Worker |-> IF wpc[w] = "asleep" THEN "lock" ELSE wpc[w]]
    BY <1>8 DEF StopNotify, WakeAll
  <2>3. ControlType'
    BY <2>1, <2>2 DEF ControlType
  <2>4. OwnerInv'
    BY <2>1, <2>2, <1>3 DEF OwnerInv, Dispatching, ResumesForCall
  <2>5. CrewInv'
    BY <2>1, <2>2 DEF CrewInv, SleepersAreWoken, OwnerInv
  <2> QED
    BY <2>3, <2>4, <2>5
<1>9. CASE Reset
  <2>1. UNCHANGED <<new_size, parked, job, current_chunk, call, turn, seen_generation>>
    BY <1>9 DEF Reset
  <2>2. /\ mpc = "join" /\ mpc' = "idle" /\ stop' = FALSE
        /\ wpc' = [w \in Worker |-> "off"] /\ ready' = [w \in Worker |-> FALSE]
        /\ pending_workers' = 0 /\ num_threads' = new_size
        /\ workers_started' = FALSE /\ generation' = 0
    BY <1>9 DEF Reset
  <2>3. ControlType'
    <3>1. num_threads' \in 1..MaxThreads
      BY <2>2 DEF ControlType
    <3>2. stop' \in BOOLEAN /\ workers_started' \in BOOLEAN
      BY <2>2
    <3>3. pending_workers' \in Int /\ generation' \in Nat
      BY <2>2
    <3>4. ready' \in [Worker -> BOOLEAN]
      BY <2>2
    <3>5. wpc' \in [Worker -> {"off"}]
      BY <2>2
    <3> QED
      BY <2>1, <2>2, <3>1, <3>2, <3>3, <3>4, <3>5 DEF ControlType
  <2>4. OwnerInv'
    BY <2>1, <2>2 DEF OwnerInv, Dispatching, ResumesForCall
  <2>5. CrewInv'
    BY <2>1, <2>2 DEF CrewInv, SleepersAreWoken
  <2> QED
    BY <2>3, <2>4, <2>5
<1>10. CASE Resume
  <2>1. UNCHANGED <<num_threads, workers_started, new_size, stop, ready, wpc,
                    pending_workers, job, generation, current_chunk, call, turn,
                    seen_generation>>
    BY <1>10 DEF Resume, poolVars, jobVars
  <2>2. /\ mpc = "resume" /\ mpc' = "notify" /\ parked' = FALSE
        /\ \A w \in Worker : wpc[w] # "block"
    BY <1>10 DEF Resume, MutexFree
  <2>3. ControlType'
    BY <2>1, <2>2 DEF ControlType
  <2>4. OwnerInv'
    BY <2>1, <2>2, <1>3 DEF OwnerInv, Dispatching, ResumesForCall
  <2>5. CrewInv'
    BY <2>1, <2>2 DEF CrewInv, SleepersAreWoken
  <2> QED
    BY <2>3, <2>4, <2>5
<1>11. CASE Park
  <2>1. UNCHANGED <<num_threads, workers_started, new_size, stop, ready, wpc, mpc,
                    pending_workers, job, generation, current_chunk, call, turn,
                    seen_generation>>
    BY <1>11 DEF Park, poolVars, jobVars
  <2>2. parked' = TRUE /\ mpc = "idle" /\ ~stop
    BY <1>11 DEF Park, OwnerInv
  <2>3. ControlType'
    BY <2>1, <2>2 DEF ControlType
  <2>4. OwnerInv'
    BY <2>1, OwnerFrame
  <2>5. CrewInv'
    BY <2>1, <2>2 DEF CrewInv, SleepersAreWoken
  <2> QED
    BY <2>3, <2>4, <2>5
<1>12. CASE CallResume
  <2>1. UNCHANGED <<num_threads, workers_started, new_size, parked, stop, ready, wpc,
                    pending_workers, job, generation, current_chunk, call, turn,
                    seen_generation>>
    BY <1>12 DEF CallResume, poolVars, parkVars, jobVars
  <2>2. mpc = "idle" /\ mpc' = "resume"
    BY <1>12 DEF CallResume
  <2>3. ControlType'
    BY <2>1, <2>2 DEF ControlType
  <2>4. OwnerInv'
    BY <2>1, <2>2, <1>3 DEF OwnerInv, Dispatching, ResumesForCall
  <2>5. CrewInv'
    BY <2>1, <2>2 DEF CrewInv, SleepersAreWoken
  <2> QED
    BY <2>3, <2>4, <2>5
<1>13. ASSUME NEW n \in 1..MaxThreads, Resize(n)
       PROVE  Control'
  <2>1. UNCHANGED <<num_threads, workers_started, parked, ready, wpc,
                    pending_workers, job, generation, current_chunk, call,
                    seen_generation>>
    BY <1>13 DEF Resize, jobVars
  <2>2. mpc = "idle" /\ mpc' = "sflag" /\ stop' = TRUE /\ turn' = 1 /\ new_size' = n
    BY <1>13 DEF Resize
  <2>3. ControlType'
    BY <1>1, <2>1, <2>2 DEF ControlType
  <2>4. OwnerInv'
    BY <2>1, <2>2, <1>3 DEF OwnerInv, Dispatching, ResumesForCall
  <2>5. CrewInv'
    BY <2>1, <2>2 DEF CrewInv, SleepersAreWoken
  <2> QED
    BY <2>3, <2>4, <2>5
<1> QED
  BY <1>4, <1>5, <1>6, <1>7, <1>8, <1>9, <1>10, <1>11, <1>12, <1>13

LEMMA ControlHolds == Spec => []Control
<1>1. Control /\ [Next]_vars => Control'
  <2> SUFFICES ASSUME Control, [Next]_vars
               PROVE  Control'
    OBVIOUS
  <2>1. CASE UNCHANGED vars
    BY <2>1 DEF vars, Control, ControlType, OwnerInv, CrewInv, Dispatching,
       ResumesForCall, SleepersAreWoken, ActiveThreads
  <2> QED
    BY <2>1, ControlWorker, ControlDispatch, ControlOther
       DEF Next, OwnerStarts, OwnerFinishes, OwnerLocks
<1> QED
  BY <1>1, ControlInit, PTL DEF Spec

(* The sleepers are always woken: a conjunct of CrewInv. *)
THEOREM SleepersAreWokenAlways == Spec => []SleepersAreWoken
<1>1. Control => SleepersAreWoken
  BY DEF Control, CrewInv
<1> QED
  BY <1>1, ControlHolds, PTL

-----------------------------------------------------------------------------
(* Stage 4.  The handshake, and what pending_workers_ counts. *)

LEMMA UnfinishedFinite ==
    /\ IsFiniteSet(Unfinished) /\ Cardinality(Unfinished) \in Nat
    /\ IsFiniteSet(Unfinished)' /\ Cardinality(Unfinished)' \in Nat
<1>1. MaxThreads - 1 \in Int
  BY PoolAssumption DEF PoolAssumption, Positive
<1>2. IsFiniteSet(Worker)
  BY <1>1, FS_Interval DEF Worker
<1>3. Unfinished \in SUBSET Worker /\ Unfinished' \in SUBSET Worker
  BY DEF Unfinished
<1> QED
  BY <1>2, <1>3, FS_Subset, FS_CardinalityType

(* Between a step of another thread, a worker agrees as before. *)
LEMMA AgreedFrame ==
    ASSUME NEW v \in Worker, Agreed(v),
           ready'[v] = ready[v], wpc'[v] = wpc[v],
           seen_generation'[v] = seen_generation[v],
           UNCHANGED <<num_threads, stop, job, generation, call, mpc, turn>>
    PROVE  Agreed(v)'
  BY DEF Agreed, Dispatching, ToldOf, ActiveThreads

LEMMA PendingFrame ==
    ASSUME PendingCountsUnfinished,
           UNCHANGED <<num_threads, job, generation, call, mpc, pending_workers>>,
           \A v \in Worker :
             v \in Unfinished <=>
               v < job.active /\ \/ seen_generation'[v] # generation
                                 \/ wpc'[v] \in {"accept", "work", "grab", "run", "done"}
    PROVE  PendingCountsUnfinished'
<1>1. Unfinished' = Unfinished
  BY DEF Unfinished
<1>2. Cardinality(Unfinished)' = Cardinality(Unfinished)
  BY <1>1
<1>3. Dispatching' = Dispatching
  BY DEF Dispatching, ActiveThreads
<1> QED
  BY <1>2, <1>3 DEF PendingCountsUnfinished

(* A worker without a job moves between its places of rest, or leaves. *)
LEMMA RestingStep ==
    ASSUME ControlType, Handshake, NEW w \in Worker, NEW l, wpc' = [wpc EXCEPT ![w] = l],
           wpc[w] \in Resting \ {"off"},
           l \in Resting \ {"off"} \/ (l = "exit" /\ stop /\ ~Dispatching)
             \/ (l = "take" /\ ready[w]),
           UNCHANGED <<num_threads, stop, ready, pending_workers, job, generation, call,
                       mpc, turn, seen_generation>>
    PROVE  Handshake'
<1>1. \A v \in Worker : wpc'[v] = IF v = w THEN l ELSE wpc[v]
  BY DEF ControlType
<1>2. \A v \in Worker : v # w => Agreed(v)'
  BY <1>1, AgreedFrame DEF Handshake
<1>3. Agreed(w) /\ wpc'[w] = l
  BY <1>1 DEF Handshake
<1>4. Dispatching' = Dispatching /\ ToldOf(w)' = ToldOf(w)
  BY DEF Dispatching, ToldOf, ActiveThreads
<1>5. l \notin {"accept", "work", "grab", "run", "done", "off"}
      /\ wpc[w] \notin {"accept", "work", "grab", "run", "done", "off"}
  BY DEF Resting
<1>6. Agreed(w)'
  <2>1. CASE l \in Resting \/ l = "exit"
    BY <1>3, <1>4, <1>5, <2>1 DEF Agreed
  <2>2. CASE l = "take"
    BY <1>3, <1>4, <1>5, <2>2 DEF Agreed
  <2> QED
    BY <2>1, <2>2
<1>7. PendingCountsUnfinished'
  BY <1>1, <1>5, PendingFrame DEF Handshake, Unfinished
<1> QED
  BY <1>2, <1>6, <1>7 DEF Handshake

LEMMA HandshakeWorker ==
    ASSUME Control, Handshake, NEW w \in Worker, WorkerStep(w) \/ WakeSpuriously(w)
    PROVE  Handshake'
<1>1. UNCHANGED <<num_threads, workers_started, new_size, parked, stop, job, generation,
                  call, mpc, turn>>
  BY DEF WorkerStep, WakeSpuriously, Spin, TestFlag, TestParked, Lock, TestPredicate,
     Block, TakeJob, ClearFlag, StartWork, Steal, WorkDone, SignalDone,
     poolVars, jobVars, parkVars
<1>2. ControlType /\ OwnerInv /\ CrewInv
  BY DEF Control
<1>3. (stop => ~Dispatching) /\ (mpc = "pend" => ~stop /\ ~Dispatching)
  BY <1>2 DEF OwnerInv, Dispatching
<1>4. Agreed(w) /\ PendingCountsUnfinished /\ \A v \in Worker : Agreed(v)
  BY DEF Handshake
<1>5. Dispatching' = Dispatching /\ ToldOf(w)' = ToldOf(w)
  BY <1>1 DEF Dispatching, ToldOf, ActiveThreads
<1>6. CASE Spin(w)
  <2>1. CASE stop
    <3>1. /\ wpc[w] = "spin" /\ wpc' = [wpc EXCEPT ![w] = "exit"]
          /\ UNCHANGED <<ready, pending_workers, seen_generation>>
      BY <1>6, <2>1 DEF Spin, Goto
    <3> QED
      BY <1>1, <1>2, <1>3, <2>1, <3>1, RestingStep DEF Resting
  <2>2. CASE ~stop
    <3>1. /\ wpc[w] = "spin" /\ wpc' = [wpc EXCEPT ![w] = "flag"]
          /\ UNCHANGED <<ready, pending_workers, seen_generation>>
      BY <1>6, <2>2 DEF Spin, Goto
    <3> QED
      BY <1>1, <1>2, <3>1, RestingStep DEF Resting
  <2> QED
    BY <2>1, <2>2
<1>7. CASE TestFlag(w)
  <2>1. CASE ready[w]
    <3>1. /\ wpc[w] = "flag" /\ wpc' = [wpc EXCEPT ![w] = "take"]
          /\ UNCHANGED <<ready, pending_workers, seen_generation>>
      BY <1>7, <2>1 DEF TestFlag, Goto
    <3> QED
      BY <1>1, <1>2, <2>1, <3>1, RestingStep DEF Resting
  <2>2. CASE ~ready[w]
    <3>1. /\ wpc[w] = "flag" /\ wpc' = [wpc EXCEPT ![w] = "idle"]
          /\ UNCHANGED <<ready, pending_workers, seen_generation>>
      BY <1>7, <2>2 DEF TestFlag, Goto
    <3> QED
      BY <1>1, <1>2, <3>1, RestingStep DEF Resting
  <2> QED
    BY <2>1, <2>2
<1>8. CASE TestParked(w) \/ Lock(w) \/ TestPredicate(w) \/ Block(w) \/ WakeSpuriously(w)
  <2>1. PICK l \in {"lock", "spin", "test", "block", "asleep"} :
          wpc' = [wpc EXCEPT ![w] = l]
    BY <1>8 DEF TestParked, Lock, TestPredicate, Block, WakeSpuriously, Goto
  <2>2. /\ wpc[w] \in {"idle", "lock", "test", "block", "asleep"}
        /\ UNCHANGED <<ready, pending_workers, seen_generation>>
    BY <1>8 DEF TestParked, Lock, TestPredicate, Block, WakeSpuriously
  <2> QED
    BY <1>1, <1>2, <2>1, <2>2, RestingStep DEF Resting
<1>9. CASE TakeJob(w)
  <2>1. PICK l \in {"skip", "accept"} :
          /\ wpc' = [wpc EXCEPT ![w] = l]
          /\ l = "skip" <=> generation = seen_generation[w]
    BY <1>9 DEF TakeJob, Goto
  <2>2. /\ wpc[w] = "take"
        /\ seen_generation' = [seen_generation EXCEPT ![w] = generation]
        /\ UNCHANGED <<ready, pending_workers>>
    BY <1>9 DEF TakeJob
  <2>3. /\ \A v \in Worker : wpc'[v] = IF v = w THEN l ELSE wpc[v]
        /\ \A v \in Worker :
             seen_generation'[v] = IF v = w THEN generation ELSE seen_generation[v]
    BY <1>2, <2>1, <2>2 DEF ControlType
  <2>4. \A v \in Worker : v # w => Agreed(v)'
    BY <1>1, <1>4, <2>2, <2>3, AgreedFrame
  <2>5. Agreed(w)'
    <3>1. w \in Int /\ job.active \in Int
      BY <1>2 DEF ControlType, Worker
    <3> QED
      BY <1>1, <1>3, <1>4, <1>5, <2>1, <2>2, <2>3, <3>1 DEF Agreed, Resting
  <2>6. CASE Dispatching
    <3>1. w < job.active => seen_generation[w] # generation
      BY <1>4, <2>2, <2>6 DEF Agreed, Resting
    <3>2. PendingCountsUnfinished'
      BY <1>1, <1>4, <2>1, <2>2, <2>3, <3>1, PendingFrame DEF Unfinished
    <3> QED
      BY <2>4, <2>5, <3>2 DEF Handshake
  <2>7. CASE ~Dispatching
    BY <1>5, <2>4, <2>5, <2>7 DEF Handshake, PendingCountsUnfinished
  <2> QED
    BY <2>6, <2>7
<1>10. CASE ClearFlag(w)
  <2>1. PICK l \in {"spin", "work"} :
          /\ wpc' = [wpc EXCEPT ![w] = l]
          /\ (wpc[w] = "skip" /\ l = "spin") \/ (wpc[w] = "accept" /\ l = "work")
    BY <1>10 DEF ClearFlag, Goto
  <2>2. ready' = [ready EXCEPT ![w] = FALSE] /\ UNCHANGED <<pending_workers, seen_generation>>
    BY <1>10 DEF ClearFlag
  <2>3. \A v \in Worker : wpc'[v] = IF v = w THEN l ELSE wpc[v]
    BY <1>2, <2>1 DEF ControlType
  <2>4. ~ready'[w] /\ \A v \in Worker : v # w => ready'[v] = ready[v]
    BY <1>2, <2>2 DEF ControlType
  <2>5. \A v \in Worker : v # w => Agreed(v)'
    BY <1>1, <1>4, <2>2, <2>3, <2>4, AgreedFrame
  <2>6. Agreed(w)'
    BY <1>1, <1>3, <1>4, <1>5, <2>1, <2>2, <2>3, <2>4 DEF Agreed, Resting
  <2>7. PendingCountsUnfinished'
    BY <1>1, <1>4, <2>1, <2>2, <2>3, PendingFrame DEF Unfinished
  <2> QED
    BY <2>5, <2>6, <2>7 DEF Handshake
<1>11. CASE StartWork(w)
  <2>1. PICK l \in {"done", "grab", "run"} :
          /\ wpc' = [wpc EXCEPT ![w] = l]
          /\ l # "done" => w < job.active
          /\ l = "grab" => job.call.dim = 2
    BY <1>11 DEF StartWork, Goto
  <2>2. wpc[w] = "work" /\ UNCHANGED <<ready, pending_workers, seen_generation>>
    BY <1>11 DEF StartWork
  <2>3. \A v \in Worker : wpc'[v] = IF v = w THEN l ELSE wpc[v]
    BY <1>2, <2>1 DEF ControlType
  <2>4. \A v \in Worker : v # w => Agreed(v)'
    BY <1>1, <1>4, <2>2, <2>3, AgreedFrame
  <2>5. Agreed(w)'
    <3>1. w \in Int /\ job.active \in Int
      BY <1>2 DEF ControlType, Worker
    <3> QED
      BY <1>1, <1>3, <1>4, <1>5, <2>1, <2>2, <2>3, <3>1 DEF Agreed, Resting
  <2>6. PendingCountsUnfinished'
    BY <1>1, <1>4, <2>1, <2>2, <2>3, PendingFrame DEF Unfinished
  <2> QED
    BY <2>4, <2>5, <2>6 DEF Handshake
<1>12. CASE Steal(w) \/ WorkDone(w)
  <2>1. PICK l \in {"done", "grab", "run"} :
          /\ wpc' = [wpc EXCEPT ![w] = l]
          /\ l = "grab" => job.call.dim = 2
    BY <1>12 DEF Steal, WorkDone, Goto
  <2>2. wpc[w] \in {"grab", "run"} /\ UNCHANGED <<ready, pending_workers, seen_generation>>
    BY <1>12 DEF Steal, WorkDone
  <2>3. \A v \in Worker : wpc'[v] = IF v = w THEN l ELSE wpc[v]
    BY <1>2, <2>1 DEF ControlType
  <2>4. \A v \in Worker : v # w => Agreed(v)'
    BY <1>1, <1>4, <2>2, <2>3, AgreedFrame
  <2>5. Agreed(w)'
    BY <1>1, <1>3, <1>4, <1>5, <2>1, <2>2, <2>3 DEF Agreed, Resting
  <2>6. PendingCountsUnfinished'
    BY <1>1, <1>4, <2>1, <2>2, <2>3, PendingFrame DEF Unfinished
  <2> QED
    BY <2>4, <2>5, <2>6 DEF Handshake
<1>13. CASE SignalDone(w)
  <2>1. /\ wpc[w] = "done" /\ wpc' = [wpc EXCEPT ![w] = "idle"]
        /\ pending_workers' = pending_workers - 1
        /\ UNCHANGED <<ready, seen_generation>>
    BY <1>13 DEF SignalDone, Goto
  <2>2. \A v \in Worker : wpc'[v] = IF v = w THEN "idle" ELSE wpc[v]
    BY <1>2, <2>1 DEF ControlType
  <2>3. \A v \in Worker : v # w => Agreed(v)'
    BY <1>1, <1>4, <2>1, <2>2, AgreedFrame
  <2>4. Agreed(w)'
    BY <1>1, <1>3, <1>4, <1>5, <2>1, <2>2 DEF Agreed, Resting
  <2>5. PendingCountsUnfinished'
    <3>1. CASE Dispatching
      <4>1. w < job.active /\ seen_generation[w] = generation
        <5>1. w \in Int /\ job.active \in Int
          BY <1>2 DEF ControlType, Worker
        <5> QED
          BY <1>4, <2>1, <3>1, <5>1 DEF Agreed, Resting
      <4>2. w \in Unfinished
        BY <2>1, <4>1 DEF Unfinished
      <4>3. Unfinished' = Unfinished \ {w}
        BY <1>1, <2>1, <2>2, <4>1 DEF Unfinished
      <4>4. Cardinality(Unfinished \ {w}) = Cardinality(Unfinished) - 1
        BY <4>2, UnfinishedFinite, FS_RemoveElement
      <4>5. Cardinality(Unfinished)' = Cardinality(Unfinished) - 1
        BY <4>3, <4>4
      <4> QED
        BY <1>4, <2>1, <3>1, <4>5 DEF PendingCountsUnfinished
    <3>2. CASE ~Dispatching
      BY <1>5, <3>2 DEF PendingCountsUnfinished
    <3> QED
      BY <3>1, <3>2
  <2> QED
    BY <2>3, <2>4, <2>5 DEF Handshake
<1> QED
  BY <1>6, <1>7, <1>8, <1>9, <1>10, <1>11, <1>12, <1>13 DEF WorkerStep

(* The pool stays quiet, or falls into stop_workers. *)
LEMMA QuietStep ==
    ASSUME Handshake, ~Dispatching, mpc # "pend", ~stop,
           ~Dispatching', mpc' # "pend",
           ready' = ready,
           \A w \in Worker : wpc'[w] = wpc[w] \/ (wpc[w] = "asleep" /\ wpc'[w] = "lock"),
           UNCHANGED <<job, generation, seen_generation>>
    PROVE  Handshake'
<1>1. ASSUME NEW w \in Worker PROVE Agreed(w)'
  <2>1. Agreed(w)
    BY DEF Handshake
  <2>2. wpc[w] \in Resting /\ wpc'[w] \in Resting /\ (wpc'[w] = "off" <=> wpc[w] = "off")
    BY <2>1 DEF Agreed, Resting
  <2> QED
    BY <2>1, <2>2 DEF Agreed, Resting
<1> QED
  BY <1>1 DEF Handshake, PendingCountsUnfinished

(* The owner goes on while the same call is dispatched, all flags raised. *)
LEMMA DispatchStep ==
    ASSUME Handshake, Dispatching, mpc \in {"own", "run", "wait"},
           mpc' \in {"own", "run", "wait"},
           UNCHANGED <<ready, wpc, seen_generation, job, generation, call, num_threads,
                       stop, pending_workers>>
    PROVE  Handshake'
<1>1. Dispatching'
  BY DEF Dispatching, ActiveThreads
<1>2. ASSUME NEW w \in Worker PROVE Agreed(w)'
  BY <1>1 DEF Handshake, Agreed, ToldOf
<1>3. Cardinality(Unfinished)' = Cardinality(Unfinished)
  BY DEF Unfinished
<1> QED
  BY <1>1, <1>2, <1>3 DEF Handshake, PendingCountsUnfinished

LEMMA HandshakeQuiet ==
    ASSUME Control, Control', Handshake,
           \/ \E c \in Call : BeginCall(c)
           \/ RunInline \/ Return
           \/ Notify \/ Resume \/ Park \/ CallResume
           \/ \E n \in 1..MaxThreads : Resize(n)
    PROVE  Handshake'
<1>1. UNCHANGED <<ready, job, generation, seen_generation, num_threads>>
  BY DEF BeginCall, RunInline, Return, Notify, Resume, Park, CallResume, Resize,
     poolVars, parkVars, jobVars
<1>2. mpc \in {"idle", "inline", "return", "notify", "resume"}
  BY DEF BeginCall, RunInline, Return, Notify, Resume, Park, CallResume, Resize
<1>3. ~Dispatching /\ mpc # "pend" /\ ~stop
  BY <1>2 DEF Dispatching, Control, OwnerInv
<1>4. ~Dispatching' /\ mpc' # "pend"
  <2>1. CASE RunInline
    <3>1. ActiveThreads(call) <= 1 /\ call' = call /\ call \in Call
      BY <2>1 DEF RunInline, Control, OwnerInv
    <3>2. ActiveThreads(call)' <= 1 /\ ActiveThreads(call) \in Nat
      BY <1>1, <3>1, ActiveType DEF ActiveThreads, Control, ControlType
    <3> QED
      BY <1>1, <2>1, <3>1, <3>2 DEF RunInline, Dispatching, ActiveThreads
  <2>2. CASE ~RunInline
    BY <2>2 DEF BeginCall, Return, Notify, Resume, Park, CallResume, Resize, Dispatching
  <2> QED
    BY <2>1, <2>2
<1>5. \A w \in Worker : wpc'[w] = wpc[w] \/ (wpc[w] = "asleep" /\ wpc'[w] = "lock")
  <2>1. CASE Notify
    BY <2>1 DEF Notify, WakeAll
  <2>2. CASE ~Notify
    BY <2>2 DEF BeginCall, RunInline, Return, Resume, Park, CallResume, Resize
  <2> QED
    BY <2>1, <2>2
<1> QED
  BY <1>1, <1>3, <1>4, <1>5, QuietStep

LEMMA HandshakeStart ==
    ASSUME Control, Control', Handshake, EnsureWorkersStarted
    PROVE  Handshake'
<1>1. UNCHANGED <<ready, job, generation, num_threads, stop>> /\ mpc = "start"
      /\ mpc' \in {"resume", "publish"}
  BY DEF EnsureWorkersStarted, jobVars
<1>2. ~Dispatching /\ ~Dispatching' /\ ~stop
  BY <1>1 DEF Dispatching, Control, OwnerInv
<1>3. CASE workers_started
  <2>1. UNCHANGED <<wpc, seen_generation>>
    BY <1>3 DEF EnsureWorkersStarted
  <2> QED
    BY <1>1, <1>2, <2>1, QuietStep
<1>4. CASE ~workers_started
  <2>1. /\ wpc' = [w \in Worker |-> IF w < num_threads THEN "spin" ELSE "off"]
        /\ seen_generation' = [w \in Worker |-> 0]
    BY <1>4 DEF EnsureWorkersStarted
  <2>2. generation = 0
    BY <1>4 DEF Control, OwnerInv
  <2>3. ASSUME NEW w \in Worker PROVE Agreed(w)'
    <3>1. ~ready[w]
      BY <1>2 DEF Handshake, Agreed
    <3>2. wpc'[w] \in {"spin", "off"} /\ seen_generation'[w] = 0
      BY <2>1
    <3> QED
      BY <1>1, <1>2, <2>2, <3>1, <3>2 DEF Agreed, Resting
  <2> QED
    BY <1>2, <2>3 DEF Handshake, PendingCountsUnfinished
<1> QED
  BY <1>3, <1>4

LEMMA HandshakePublish ==
    ASSUME Control, Control', Handshake, Publish
    PROVE  Handshake'
<1>1. UNCHANGED <<ready, wpc, seen_generation, num_threads, stop>> /\ mpc = "publish"
      /\ mpc' = "pend" /\ generation' = generation + 1
  BY DEF Publish, poolVars, parkVars
<1>2. ~Dispatching /\ ~Dispatching' /\ ~stop
  BY <1>1 DEF Dispatching, Control, OwnerInv
<1>3. ASSUME NEW w \in Worker PROVE Agreed(w)'
  <2>1. ~ready[w] /\ wpc[w] \in Resting
    BY <1>2 DEF Handshake, Agreed
  <2>2. wpc[w] # "off" => seen_generation[w] # generation + 1
    <3>1. seen_generation[w] \in Nat /\ generation \in Nat
      BY DEF Control, ControlType
    <3>2. wpc[w] # "off" => seen_generation[w] <= generation
      BY DEF Control, CrewInv
    <3> QED
      BY <3>1, <3>2
  <2> QED
    BY <1>1, <1>2, <2>1, <2>2 DEF Agreed, Resting
<1> QED
  BY <1>2, <1>3 DEF Handshake, PendingCountsUnfinished

LEMMA HandshakeSetPending ==
    ASSUME Control, Control', Handshake, SetPending
    PROVE  Handshake'
<1> DEFINE A == ActiveThreads(call)
<1>1. UNCHANGED <<ready, wpc, seen_generation, num_threads, stop, job, generation, call,
                  workers_started>>
      /\ mpc = "pend" /\ mpc' = "flag" /\ turn' = 1 /\ pending_workers' = A - 1
  BY DEF SetPending, poolVars, parkVars, jobVars
<1>2. ~Dispatching /\ ~stop /\ workers_started /\ call \in Call /\ A > 1
      /\ job.active = A
  BY <1>1 DEF Dispatching, Control, OwnerInv
<1>3. A \in 1..MaxThreads /\ A <= num_threads /\ MaxThreads \in Nat
      /\ num_threads \in Nat
  BY <1>2, ActiveType, PoolAssumption
     DEF Control, ControlType, PoolAssumption, Positive
<1>4. ActiveThreads(call)' = A
  BY <1>1 DEF ActiveThreads
<1> HIDE DEF A
<1>5. Dispatching'
  BY <1>1, <1>2, <1>4 DEF Dispatching
<1>6. ASSUME NEW w \in Worker
      PROVE  /\ ~ready[w] /\ wpc[w] \in Resting /\ w \in Nat /\ w >= 1
             /\ w < A => seen_generation[w] # generation
  <2>1. ~ready[w] /\ wpc[w] \in Resting
    BY <1>2 DEF Handshake, Agreed
  <2>2. w \in Nat /\ w >= 1
    BY DEF Worker
  <2>3. w < A => wpc[w] # "off"
    BY <1>2, <1>3, <2>2 DEF Control, CrewInv
  <2>4. wpc[w] # "off" => seen_generation[w] # generation
    BY <1>1 DEF Handshake, Agreed
  <2> QED
    BY <2>1, <2>2, <2>3, <2>4
<1>7. ASSUME NEW w \in Worker PROVE Agreed(w)'
  BY <1>1, <1>2, <1>3, <1>5, <1>6 DEF Agreed, ToldOf, Resting
<1>8. Cardinality(Unfinished)' = A - 1
  <2>1. Unfinished' = 1..(A - 1)
    BY <1>1, <1>2, <1>3, <1>6 DEF Unfinished, Worker
  <2>2. Cardinality(1..(A - 1)) = A - 1
    BY <1>2, <1>3, FS_Interval
  <2> QED
    BY <2>1, <2>2
<1> QED
  BY <1>1, <1>7, <1>8 DEF Handshake, PendingCountsUnfinished

LEMMA HandshakeRaiseFlag ==
    ASSUME Control, Control', Handshake, RaiseFlag
    PROVE  Handshake'
<1> DEFINE A == ActiveThreads(call)
<1>1. UNCHANGED <<wpc, seen_generation, num_threads, stop, job, generation, call,
                  pending_workers>>
      /\ mpc = "flag" /\ turn' = turn + 1
      /\ mpc' = (IF turn + 1 = A THEN "own" ELSE "flag")
      /\ ready' = [ready EXCEPT ![turn] = TRUE]
  BY DEF RaiseFlag, poolVars, parkVars, jobVars
<1>2. call \in Call /\ A > 1 /\ turn < A /\ Dispatching /\ job.active = A /\ ~stop
  BY <1>1 DEF Dispatching, Control, OwnerInv
<1>3. A \in 1..MaxThreads /\ turn \in Nat /\ turn >= 1 /\ MaxThreads \in Nat
  BY <1>2, ActiveType, PoolAssumption
     DEF Control, ControlType, PoolAssumption, Positive
<1>4. ActiveThreads(call)' = A
  BY <1>1 DEF ActiveThreads
<1> HIDE DEF A
<1>5. Dispatching'
  BY <1>1, <1>2, <1>4 DEF Dispatching
<1>6. \A w \in Worker : w \in Nat /\ ready'[w] = (IF w = turn THEN TRUE ELSE ready[w])
  BY <1>1 DEF Worker, Control, ControlType
<1>7. ASSUME NEW w \in Worker PROVE Agreed(w)'
  <2>1. Agreed(w) /\ w \in Nat
    BY <1>6 DEF Handshake
  <2>2. CASE w >= A
    BY <1>1, <1>2, <1>3, <1>5, <1>6, <2>1, <2>2 DEF Agreed
  <2>3. CASE w < turn
    <3>1. ToldOf(w) /\ ToldOf(w)' /\ w < A /\ w # turn
      BY <1>1, <1>2, <1>3, <2>1, <2>3 DEF ToldOf
    <3>2. ready'[w] = ready[w]
      BY <1>6, <3>1
    <3> QED
      BY <1>1, <1>2, <1>3, <1>5, <2>1, <3>1, <3>2 DEF Agreed
  <2>4. CASE w = turn
    <3>1. ~ToldOf(w) /\ ToldOf(w)' /\ w < A
      BY <1>1, <1>2, <1>3, <2>1, <2>4 DEF ToldOf
    <3>2. ready'[w]
      BY <1>6, <2>4
    <3> QED
      BY <1>1, <1>2, <1>3, <1>5, <2>1, <3>1, <3>2 DEF Agreed, Resting
  <2>5. CASE w > turn /\ w < A
    <3>1. ~ToldOf(w) /\ ~ToldOf(w)' /\ w # turn
      BY <1>1, <1>2, <1>3, <2>1, <2>5 DEF ToldOf
    <3>2. ready'[w] = ready[w]
      BY <1>6, <3>1
    <3> QED
      BY <1>1, <1>2, <1>3, <1>5, <2>1, <2>5, <3>1, <3>2 DEF Agreed, Resting
  <2> QED
    BY <1>2, <1>3, <2>1, <2>2, <2>3, <2>4, <2>5
<1>8. Cardinality(Unfinished)' = Cardinality(Unfinished)
  BY <1>1 DEF Unfinished
<1> QED
  BY <1>1, <1>2, <1>7, <1>8 DEF Handshake, PendingCountsUnfinished

(* The last worker has counted itself down: all of them are at rest. *)
LEMMA AllDone ==
    ASSUME Control, Handshake, Dispatching, mpc = "wait", pending_workers <= 0,
           NEW w \in Worker
    PROVE  /\ ~ready[w] /\ wpc[w] \in Resting
           /\ w < job.active => seen_generation[w] = generation
<1>1. Cardinality(Unfinished) = 0
  BY UnfinishedFinite DEF Handshake, PendingCountsUnfinished
<1>2. Unfinished = {}
  BY <1>1, UnfinishedFinite, FS_EmptySet
<1>3. w \in Int /\ job.active \in Int
  BY DEF Worker, Control, ControlType
<1>4. w < job.active => /\ seen_generation[w] = generation
                        /\ wpc[w] \notin {"accept", "work", "grab", "run", "done"}
  BY <1>2 DEF Unfinished
<1>5. ToldOf(w) /\ Agreed(w)
  BY DEF ToldOf, Handshake
<1> QED
  BY <1>3, <1>4, <1>5 DEF Agreed

LEMMA HandshakeOwner ==
    ASSUME Control, Control', Handshake, OwnWork \/ OwnDone \/ WaitForWorkers
    PROVE  Handshake'
<1>1. UNCHANGED <<ready, wpc, seen_generation, num_threads, stop, job, generation, call,
                  pending_workers>>
  BY DEF OwnWork, OwnDone, WaitForWorkers, poolVars, parkVars, jobVars
<1>2. ActiveThreads(call)' = ActiveThreads(call)
  BY <1>1 DEF ActiveThreads
<1>3. mpc \in {"own", "run", "wait"} /\ ~stop
  BY DEF OwnWork, OwnDone, WaitForWorkers, Control, OwnerInv
<1>4. mpc \in {"own", "wait"} => Dispatching
  BY DEF Control, OwnerInv, Dispatching
<1>5. CASE OwnWork
  <2>1. mpc = "own" /\ mpc' \in {"run", "wait"}
    BY <1>5 DEF OwnWork
  <2> QED
    BY <1>1, <1>4, <2>1, DispatchStep
<1>6. CASE OwnDone /\ ActiveThreads(call) > 1
  <2>1. call \in Call
    BY <1>6 DEF OwnDone, Control, OwnerInv
  <2>2. ~(ActiveThreads(call) <= 1)
    BY <1>6, <2>1, ActiveType DEF Control, ControlType
  <2>3. mpc = "run" /\ mpc' \in {"own", "wait"} /\ Dispatching
    BY <1>6, <2>2 DEF OwnDone, Dispatching
  <2> QED
    BY <1>1, <2>3, DispatchStep
<1>7. CASE OwnDone /\ ~(ActiveThreads(call) > 1)
  <2>1. call \in Call
    BY <1>7 DEF OwnDone, Control, OwnerInv
  <2>2. ActiveThreads(call) <= 1
    BY <1>7, <2>1, ActiveType DEF Control, ControlType
  <2>3. mpc' = "return" /\ ~Dispatching /\ ~Dispatching' /\ mpc = "run"
    BY <1>7, <2>2 DEF OwnDone, Dispatching
  <2> QED
    BY <1>1, <1>3, <2>3, QuietStep
<1>8. CASE WaitForWorkers
  <2>1. mpc = "wait" /\ mpc' = "return" /\ pending_workers <= 0
    BY <1>8 DEF WaitForWorkers
  <2>2. Dispatching /\ ~Dispatching'
    BY <1>4, <2>1 DEF Dispatching
  <2>3. ASSUME NEW w \in Worker PROVE Agreed(w)'
    <3>1. /\ ~ready[w] /\ wpc[w] \in Resting
          /\ w < job.active => seen_generation[w] = generation
      BY <2>1, <2>2, AllDone
    <3> QED
      BY <1>1, <1>3, <2>1, <2>2, <3>1 DEF Agreed, Resting
  <2> QED
    BY <2>2, <2>3 DEF Handshake, PendingCountsUnfinished
<1> QED
  BY <1>5, <1>6, <1>7, <1>8

LEMMA HandshakeStop ==
    ASSUME Control, Control', Handshake, RaiseAllFlags \/ StopLock \/ StopNotify \/ Reset
    PROVE  Handshake'
<1>1. stop /\ ~Dispatching /\ ~Dispatching' /\ mpc' # "pend" /\ mpc # "pend"
  BY DEF RaiseAllFlags, StopLock, StopNotify, Reset, Dispatching, Control, OwnerInv
<1>2. CASE Reset
  <2>1. /\ wpc' = [w \in Worker |-> "off"] /\ ready' = [w \in Worker |-> FALSE]
        /\ mpc' = "idle"
    BY <1>2 DEF Reset
  <2>2. ~stop'
    BY <2>1 DEF Control, OwnerInv
  <2>3. ASSUME NEW w \in Worker PROVE Agreed(w)'
    <3>1. wpc'[w] = "off" /\ ~ready'[w]
      BY <2>1
    <3> QED
      BY <1>1, <2>2, <3>1 DEF Agreed, Resting
  <2> QED
    BY <1>1, <2>3 DEF Handshake, PendingCountsUnfinished
<1>3. CASE ~Reset
  <2>1. UNCHANGED <<job, generation, seen_generation, stop>>
    BY <1>3 DEF RaiseAllFlags, StopLock, StopNotify, jobVars, parkVars
  <2>2. \A w \in Worker : wpc'[w] = wpc[w] \/ (wpc[w] = "asleep" /\ wpc'[w] = "lock")
    BY <1>3 DEF RaiseAllFlags, StopLock, StopNotify, WakeAll
  <2>3. ASSUME NEW w \in Worker PROVE Agreed(w)'
    <3>1. Agreed(w)
      BY DEF Handshake
    <3> QED
      BY <1>1, <2>1, <2>2, <3>1 DEF Agreed
  <2> QED
    BY <1>1, <2>3 DEF Handshake, PendingCountsUnfinished
<1> QED
  BY <1>2, <1>3

LEMMA HandshakeHolds == Spec => []Handshake
<1>1. Init => Handshake
  <2> SUFFICES ASSUME Init PROVE Handshake
    OBVIOUS
  <2>1. ~Dispatching /\ ~stop /\ mpc = "idle"
    BY DEF Init, Dispatching
  <2>2. ASSUME NEW w \in Worker PROVE Agreed(w)
    <3>1. wpc[w] = "off" /\ ~ready[w]
      BY DEF Init
    <3> QED
      BY <2>1, <3>1 DEF Agreed, Resting
  <2> QED
    BY <2>1, <2>2 DEF Handshake, PendingCountsUnfinished
<1>2. Control /\ Control' /\ Handshake /\ [Next]_vars => Handshake'
  <2> SUFFICES ASSUME Control, Control', Handshake, [Next]_vars
               PROVE  Handshake'
    OBVIOUS
  <2>1. CASE UNCHANGED vars
    <3>1. Cardinality(Unfinished)' = Cardinality(Unfinished)
      BY <2>1 DEF vars, Unfinished
    <3>2. \A w \in Worker : Agreed(w)'
      BY <2>1, AgreedFrame DEF vars, Handshake
    <3> QED
      BY <2>1, <3>1, <3>2
         DEF vars, Handshake, PendingCountsUnfinished, Dispatching, ActiveThreads
  <2> QED
    BY <2>1, HandshakeWorker, HandshakeQuiet, HandshakeStart, HandshakePublish,
       HandshakeSetPending, HandshakeRaiseFlag, HandshakeOwner, HandshakeStop
       DEF Next, OwnerStarts, OwnerFinishes, OwnerLocks
<1> QED
  BY <1>1, <1>2, ControlHolds, PTL DEF Spec

(* pending_workers_ is the number of workers the call still waits for. *)
THEOREM PendingCounts == Spec => []PendingCountsUnfinished
<1>1. Handshake => PendingCountsUnfinished
  BY DEF Handshake
<1> QED
  BY <1>1, HandshakeHolds, PTL

(* No worker is late: one that reads job_ works for the call in progress. *)
THEOREM NoWorkerIsLate == Spec => []NoLateWorker
<1>1. Control /\ Handshake => NoLateWorker
  <2> SUFFICES ASSUME Control, Handshake, NEW w \in Worker,
                      wpc[w] \in {"work", "grab", "run"}
               PROVE  \/ /\ mpc \in {"flag", "own", "run", "wait"}
                         /\ w < job.active /\ job.call = call
                      \/ stop /\ w >= job.active /\ wpc[w] = "work"
    BY DEF NoLateWorker
  <2>1. Agreed(w) /\ w \in Int /\ job.active \in Int
    BY DEF Handshake, Worker, Control, ControlType
  <2>2. CASE Dispatching
    BY <2>1, <2>2 DEF Agreed, Resting, Dispatching, Control, OwnerInv
  <2>3. CASE ~Dispatching
    BY <2>1, <2>3 DEF Agreed, Resting
  <2> QED
    BY <2>2, <2>3
<1> QED
  BY <1>1, ControlHolds, HandshakeHolds, PTL

(* No dispatched flag is lost. *)
THEOREM FlagsAreNotLost == Spec => []FlagsAnnounceJobs
<1>1. Handshake => FlagsAnnounceJobs
  BY DEF Handshake, Agreed, FlagsAnnounceJobs, ToldOf
<1> QED
  BY <1>1, HandshakeHolds, PTL

(* No worker is forgotten, asleep or awake. *)
THEOREM NobodyIsForgotten == Spec => []NoWorkerIsForgotten
<1>1. SleepersAreWoken /\ FlagsAnnounceJobs => NoWorkerIsForgotten
  BY DEF NoWorkerIsForgotten
<1> QED
  BY <1>1, SleepersAreWokenAlways, FlagsAreNotLost, PTL

-----------------------------------------------------------------------------
(***************************************************************************)
(* Stage 5.  The work: a cell of the call is either still to be started,   *)
(* or has been handed to exactly one thread.                               *)
(***************************************************************************)

LEMMA CallFacts ==
    ASSUME Control, call \in Call
    PROVE  /\ ActiveThreads(call) \in Positive /\ Jobs(call) \in Positive
           /\ call \in CallType /\ call.m \in Positive /\ call.tile \in Positive
           /\ call.dim \in {1, 2}
           /\ call.dim = 1 => Cells(call) = (0..(call.m - 1)) \X {0}
           /\ Cells(call) # {} /\ Cells(call) \subseteq Nat \X Nat
<1>1. /\ Jobs(call) \in Positive /\ call \in CallType
      /\ call.m \in Positive /\ call.tile \in Positive /\ call.dim \in {1, 2}
      /\ call.dim = 1 => call.n = 1
  BY JobsPositive
<1>2. ActiveThreads(call) \in Positive
  BY ActiveType, PoolAssumption DEF Control, ControlType, Positive, PoolAssumption
<1>3. call.n \in Positive
  BY <1>1 DEF CallType
<1>4. 0 \in 0..(call.m - 1) /\ 0 \in 0..(call.n - 1)
  BY <1>1, <1>3 DEF Positive
<1>5. Cells(call) # {}
  <2>1. <<0, 0>> \in Cells(call)
    BY <1>4 DEF Cells
  <2> QED
    BY <2>1
<1>6. Cells(call) \subseteq Nat \X Nat
  BY DEF Cells
<1>7. call.dim = 1 => Cells(call) = (0..(call.m - 1)) \X {0}
  <2>1. 0..0 = {0}
    OBVIOUS
  <2> QED
    BY <1>1, <2>1 DEF Cells
<1> QED
  BY <1>1, <1>2, <1>5, <1>6, <1>7

(* The parts of a one-dimensional call are its cells, and are disjoint. *)
LEMMA PartsPartition ==
    ASSUME Control, call \in Call, call.dim = 1
    PROVE  /\ Cells(call) = UNION {Part(t) : t \in 0..(ActiveThreads(call) - 1)}
           /\ \A t, u \in 0..(ActiveThreads(call) - 1) :
                t # u => Part(t) \cap Part(u) = {}
<1> DEFINE A == ActiveThreads(call)
           S(t) == Shard(call.m, call.tile, A, t)
<1>1. /\ A \in Positive /\ call.m \in Positive /\ call.tile \in Positive
      /\ Cells(call) = (0..(call.m - 1)) \X {0}
  BY CallFacts
<1> HIDE DEF A
<1>2. /\ 0..(call.m - 1) = UNION {S(t) : t \in 0..(A - 1)}
      /\ \A t, u \in 0..(A - 1) : t # u => S(t) \cap S(u) = {}
  BY <1>1, ShardsPartition
<1>3. \A t : Part(t) = S(t) \X {0}
  BY DEF Part, A
<1> HIDE DEF S
<1>4. \A x : x \in Cells(call) <=> \E t \in 0..(A - 1) : x \in S(t) \X {0}
  BY <1>1, <1>2
<1>5. \A t, u \in 0..(A - 1) : t # u => (S(t) \X {0}) \cap (S(u) \X {0}) = {}
  BY <1>2
<1> QED
  BY <1>3, <1>4, <1>5 DEF A

(* Taking one part, or one tile, away from those that are left. *)
LEMMA TakePart ==
    ASSUME Control, call \in Call, call.dim = 1,
           NEW N \in SUBSET (0..(ActiveThreads(call) - 1)), NEW t \in N
    PROVE  (UNION {Part(u) : u \in N}) \ Part(t) = UNION {Part(u) : u \in N \ {t}}
<1>1. \A u \in N : u # t => Part(u) \cap Part(t) = {}
  BY PartsPartition
<1> DEFINE U == UNION {Part(u) : u \in N}
           V == UNION {Part(u) : u \in N \ {t}}
<1>2. \A x : x \in U <=> \E u \in N : x \in Part(u)
  BY Zenon
<1>3. \A x : x \in V <=> \E u \in N : u # t /\ x \in Part(u)
  BY Zenon
<1> HIDE DEF U, V
<1>4. \A x : x \in U \ Part(t) <=> x \in V
  BY <1>1, <1>2, <1>3
<1>5. U \ Part(t) = V
  BY <1>4
<1> QED
  BY <1>5 DEF U, V

LEMMA TakeTile ==
    ASSUME NEW c \in CallType, NEW k \in Nat, NEW J \in Nat, k < J
    PROVE  /\ Tile(c, k) \subseteq UNION {Tile(c, j) : j \in k..(J - 1)}
           /\ (UNION {Tile(c, j) : j \in k..(J - 1)}) \ Tile(c, k)
                = UNION {Tile(c, j) : j \in (k + 1)..(J - 1)}
<1>1. k \in k..(J - 1) /\ (k + 1)..(J - 1) = (k..(J - 1)) \ {k}
  OBVIOUS
<1>2. \A j \in k..(J - 1) : j # k => Tile(c, j) \cap Tile(c, k) = {}
  <2>1. \A j \in k..(J - 1) : j \in Nat
    OBVIOUS
  <2> QED
    BY <2>1, TilesPartition
<1> DEFINE U == UNION {Tile(c, j) : j \in k..(J - 1)}
           V == UNION {Tile(c, j) : j \in (k + 1)..(J - 1)}
<1>3. \A x : x \in U <=> \E j \in k..(J - 1) : x \in Tile(c, j)
  BY Zenon
<1>4. \A x : x \in V <=> \E j \in k..(J - 1) : j # k /\ x \in Tile(c, j)
  BY <1>1, Zenon
<1> HIDE DEF U, V
<1>5. \A x : x \in U \ Tile(c, k) <=> x \in V
  BY <1>1, <1>2, <1>3, <1>4
<1>6. U \ Tile(c, k) = V
  BY <1>5
<1>7. Tile(c, k) \subseteq U
  BY <1>1, <1>3
<1> QED
  BY <1>6, <1>7 DEF U, V

(* A step that starts no piece: pieces only end. *)
LEMMA PieceFrame ==
    ASSUME PieceInv, UNCHANGED <<piece, todo>>,
           mpc = "run" => mpc' = "run" \/ piece[0] = {},
           \A w \in Worker : wpc[w] = "run" => wpc'[w] = "run" \/ piece[w] = {}
    PROVE  PieceInv'
  BY DEF PieceInv

(* Thread t, which runs nothing, starts to run cells nobody has started. *)
LEMMA PieceStarts ==
    ASSUME PieceInv, NEW t \in Thread, NEW S \in SUBSET todo, RunOn(t, S),
           t = 0 => mpc' = "run" /\ wpc' = wpc,
           t # 0 => t \in Worker /\ wpc'[t] = "run" /\ mpc' = mpc,
           \A w \in Worker : w # t => wpc'[w] = wpc[w]
    PROVE  PieceInv'
<1>1. piece' = [piece EXCEPT ![t] = S] /\ todo' = todo \ S
  BY DEF RunOn
<1>2. piece' \in [Thread -> SUBSET (Nat \X Nat)] /\ todo' \in SUBSET (Nat \X Nat)
  BY <1>1 DEF PieceInv
<1>3. \A u \in Thread : u # t => piece'[u] = piece[u]
  BY <1>1 DEF PieceInv
<1>4. 0 \in Thread /\ Worker \subseteq Thread /\ 0 \notin Worker
  BY PoolAssumption DEF PoolAssumption, Positive, Worker, Thread
<1>5. piece'[0] # {} => mpc' = "run"
  BY <1>3, <1>4 DEF PieceInv
<1>6. ASSUME NEW w \in Worker, piece'[w] # {} PROVE wpc'[w] = "run"
  BY <1>3, <1>4, <1>6 DEF PieceInv
<1> QED
  BY <1>2, <1>5, <1>6 DEF PieceInv

(* Thread t is done with its piece. *)
LEMMA PieceEnds ==
    ASSUME PieceInv, NEW t \in Thread, piece' = [piece EXCEPT ![t] = {}], todo' = todo,
           t # 0 => mpc' = mpc,
           \A w \in Worker : w # t => wpc'[w] = wpc[w]
    PROVE  PieceInv'
<1>1. piece' \in [Thread -> SUBSET (Nat \X Nat)] /\ piece'[t] = {}
  BY DEF PieceInv
<1>2. \A u \in Thread : u # t => piece'[u] = piece[u]
  BY DEF PieceInv
<1>3. 0 \in Thread /\ Worker \subseteq Thread
  BY PoolAssumption DEF PoolAssumption, Positive, Worker, Thread
<1>4. piece'[0] # {} => mpc' = "run"
  BY <1>1, <1>2, <1>3 DEF PieceInv
<1>5. ASSUME NEW w \in Worker, piece'[w] # {} PROVE wpc'[w] = "run"
  BY <1>1, <1>2, <1>3, <1>5 DEF PieceInv
<1> QED
  BY <1>1, <1>4, <1>5 DEF PieceInv

(* The same threads have not begun. *)
LEMMA NotBegunSame ==
    ASSUME Control, call \in Call, UNCHANGED <<call, num_threads>>,
           Awaits(0)' <=> Awaits(0),
           \A v \in Worker : v < ActiveThreads(call) => (Awaits(v)' <=> Awaits(v))
    PROVE  NotBegun' = NotBegun /\ \A t : Part(t)' = Part(t)
<1> DEFINE A == ActiveThreads(call)
<1>1. A \in 1..MaxThreads /\ A' = A
  BY ActiveType DEF Control, ControlType, ActiveThreads
<1>2. \A t \in 0..(A - 1) : t = 0 \/ (t \in Worker /\ t < A)
  BY <1>1, PoolAssumption DEF Worker, PoolAssumption, Positive
<1> HIDE DEF A
<1>3. NotBegun = {t \in 0..(A - 1) : Awaits(t)}
      /\ NotBegun' = {t \in 0..(A - 1) : Awaits(t)'}
  BY <1>1 DEF NotBegun, A
<1>4. \A t \in 0..(A - 1) : Awaits(t)' <=> Awaits(t)
  BY <1>2 DEF A
<1>5. \A t : Part(t)' = Part(t)
  BY <1>1 DEF Part, A
<1> QED
  BY <1>3, <1>4, <1>5

(* Work goes on, or waits, where it was. *)
LEMMA TodoFrame ==
    ASSUME Control, TodoInv,
           UNCHANGED <<mpc, call, num_threads, todo, current_chunk>>,
           Dispatching => \A v \in Worker : v < ActiveThreads(call) => (Awaits(v)' <=> Awaits(v))
    PROVE  TodoInv'
<1>1. Dispatching' = Dispatching /\ ActiveThreads(call)' = ActiveThreads(call)
  BY DEF Dispatching, ActiveThreads
<1>2. Dispatching => NotBegun' = NotBegun /\ \A t : Part(t)' = Part(t)
  <2>1. Dispatching => call \in Call
    BY DEF Dispatching, Control, OwnerInv
  <2>2. Awaits(0)' <=> Awaits(0)
    BY DEF Awaits
  <2> QED
    BY <2>1, <2>2, NotBegunSame
<1>3. Dispatching /\ call.dim = 1 => todo' = UNION {Part(t)' : t \in NotBegun'}
  <2> SUFFICES ASSUME Dispatching, call.dim = 1
               PROVE  todo' = UNION {Part(t)' : t \in NotBegun'}
    OBVIOUS
  <2>1. {Part(t)' : t \in NotBegun'} = {Part(t) : t \in NotBegun}
    BY <1>2
  <2> QED
    BY <2>1 DEF TodoInv
<1> QED
  BY <1>1, <1>3 DEF TodoInv, ResumesForCall

LEMMA TodoFrame2d ==
    ASSUME TodoInv, call.dim = 2,
           UNCHANGED <<mpc, call, num_threads, todo, current_chunk>>
    PROVE  TodoInv'
<1>1. Dispatching' = Dispatching /\ ActiveThreads(call)' = ActiveThreads(call)
      /\ ResumesForCall' = ResumesForCall /\ call'.dim = 2
  BY DEF Dispatching, ActiveThreads, ResumesForCall
<1> QED
  BY <1>1 DEF TodoInv

(* A worker at its job works for the call in progress. *)
LEMMA WorkerCall ==
    ASSUME Control, Handshake, NEW w \in Worker,
           (wpc[w] = "work" /\ w < job.active) \/ wpc[w] = "grab"
    PROVE  /\ Dispatching /\ call \in Call
           /\ job.call = call /\ job.active = ActiveThreads(call)
           /\ w \in 1..(ActiveThreads(call) - 1)
<1>1. Agreed(w) /\ w \in Nat /\ w >= 1 /\ job.active \in Int
  BY DEF Handshake, Worker, Control, ControlType
<1>2. Dispatching
  BY <1>1 DEF Agreed, Resting
<1>3. call \in Call /\ job.call = call /\ job.active = ActiveThreads(call)
  BY <1>2 DEF Dispatching, Control, OwnerInv
<1>4. w < job.active
  BY <1>1, <1>2 DEF Agreed, Resting
<1> QED
  BY <1>1, <1>2, <1>3, <1>4

(* The steps of a worker that start no piece. *)
LEMMA WorkFrame ==
    ASSUME Control, Handshake, WorkInv, NEW w \in Worker,
           \/ Spin(w) \/ TestFlag(w) \/ TestParked(w) \/ Lock(w) \/ TestPredicate(w)
           \/ Block(w) \/ WakeSpuriously(w) \/ TakeJob(w) \/ ClearFlag(w)
           \/ SignalDone(w) \/ WorkDone(w)
    PROVE  WorkInv'
<1>1. UNCHANGED <<mpc, call, num_threads, todo, current_chunk, generation>>
  BY DEF Spin, TestFlag, TestParked, Lock, TestPredicate, Block, WakeSpuriously,
     TakeJob, ClearFlag, SignalDone, WorkDone, poolVars, jobVars, parkVars
<1>2. \A v \in Worker : v # w => wpc'[v] = wpc[v] /\ seen_generation'[v] = seen_generation[v]
  BY DEF Spin, TestFlag, TestParked, Lock, TestPredicate, Block, WakeSpuriously,
     TakeJob, ClearFlag, SignalDone, WorkDone, Goto, Control, ControlType
<1>3. w \in Nat /\ w # 0
  BY DEF Worker
<1>4. Dispatching => (w < ActiveThreads(call) => (Awaits(w)' <=> Awaits(w)))
  <2> SUFFICES ASSUME Dispatching, w < ActiveThreads(call)
               PROVE  Awaits(w)' <=> Awaits(w)
    OBVIOUS
  <2>1. w < job.active /\ job.active \in Int
    BY DEF Dispatching, Control, OwnerInv, ControlType
  <2>2. CASE TakeJob(w)
    <3>1. wpc[w] = "take" /\ Agreed(w)
      BY <2>2 DEF TakeJob, Handshake
    <3>2. seen_generation[w] # generation
      BY <2>1, <3>1 DEF Agreed, Resting
    <3>3. wpc'[w] = "accept"
      BY <2>2, <3>2 DEF TakeJob, Goto, Control, ControlType
    <3> QED
      BY <1>3, <3>2, <3>3 DEF Awaits
  <2>3. CASE ClearFlag(w)
    <3>1. wpc[w] \in {"skip", "accept"} /\ Agreed(w)
      BY <2>3 DEF ClearFlag, Handshake
    <3>2. wpc[w] = "accept"
      BY <2>1, <3>1 DEF Agreed, Resting
    <3>3. wpc'[w] = "work"
      BY <2>3, <3>2 DEF ClearFlag, Goto, Control, ControlType
    <3> QED
      BY <1>3, <3>2, <3>3 DEF Awaits
  <2>4. CASE ~TakeJob(w) /\ ~ClearFlag(w)
    <3>1. wpc[w] \notin {"accept", "work"} /\ wpc'[w] \notin {"accept", "work"}
      BY <2>4 DEF Spin, TestFlag, TestParked, Lock, TestPredicate, Block, WakeSpuriously,
         SignalDone, WorkDone, Goto, Control, ControlType
    <3>2. UNCHANGED <<seen_generation, generation>>
      BY <2>4 DEF Spin, TestFlag, TestParked, Lock, TestPredicate, Block, WakeSpuriously,
         SignalDone, WorkDone, jobVars
    <3> QED
      BY <1>3, <3>1, <3>2 DEF Awaits
  <2> QED
    BY <2>2, <2>3, <2>4
<1>5. \A v \in Worker : v # w => (Awaits(v)' <=> Awaits(v))
  BY <1>1, <1>2 DEF Awaits, Worker
<1>6. TodoInv'
  BY <1>1, <1>4, <1>5, TodoFrame DEF WorkInv
<1>7. PieceInv'
  <2>1. CASE WorkDone(w)
    <3>1. piece' = [piece EXCEPT ![w] = {}]
      BY <2>1 DEF WorkDone
    <3>2. w \in Thread
      BY PoolAssumption DEF PoolAssumption, Positive, Worker, Thread
    <3> QED
      BY <1>1, <1>2, <3>1, <3>2, PieceEnds DEF WorkInv
  <2>2. CASE ~WorkDone(w)
    <3>1. piece' = piece /\ wpc[w] # "run"
      BY <2>2 DEF Spin, TestFlag, TestParked, Lock, TestPredicate, Block, WakeSpuriously,
         TakeJob, ClearFlag, SignalDone
    <3> QED
      BY <1>1, <1>2, <3>1, PieceFrame DEF WorkInv
  <2> QED
    BY <2>1, <2>2
<1> QED
  BY <1>6, <1>7 DEF WorkInv

(* Thread t begins its part of a one-dimensional call. *)
LEMMA BeginPart ==
    ASSUME Control, TodoInv, Dispatching, call.dim = 1, NEW t \in NotBegun,
           RunOn(t, Part(t)), NotBegun' = NotBegun \ {t},
           UNCHANGED <<call, num_threads>>, mpc' \in {"flag", "own", "run", "wait"}
    PROVE  TodoInv' /\ Part(t) \in SUBSET todo
<1>1. call \in Call /\ call # NoCall /\ ActiveThreads(call)' = ActiveThreads(call)
  BY PoolAssumption DEF PoolAssumption, Dispatching, Control, OwnerInv, ActiveThreads
<1>2. \A u : Part(u)' = Part(u)
  BY <1>1 DEF Part
<1>3. ActiveThreads(call) > 1 /\ Dispatching'
  BY <1>1 DEF Dispatching
<1>4. ~(ActiveThreads(call) <= 1)
  BY <1>1, <1>3, CallFacts DEF Positive
<1>5. todo = UNION {Part(u) : u \in NotBegun}
  BY DEF TodoInv
<1>6. todo' = UNION {Part(u) : u \in NotBegun \ {t}}
  <2>1. NotBegun \in SUBSET (0..(ActiveThreads(call) - 1))
    BY DEF NotBegun
  <2> QED
    BY <1>1, <1>5, <2>1, TakePart DEF RunOn
<1>7. {Part(u)' : u \in NotBegun'} = {Part(u) : u \in NotBegun \ {t}}
  BY <1>2
<1>8. Part(t) \in SUBSET todo
  BY <1>5
<1>9. todo' = UNION {Part(u)' : u \in NotBegun'}
  BY <1>6, <1>7
<1>10. call' = call /\ ~ResumesForCall' /\ ActiveThreads(call)' > 1
       /\ ~(ActiveThreads(call)' <= 1)
  BY <1>1, <1>3, <1>4 DEF ResumesForCall
<1> QED
  BY <1>1, <1>8, <1>9, <1>10 DEF TodoInv

(* A thread draws the next job of a two-dimensional call, if there is one. *)
LEMMA DrawJob ==
    ASSUME Control, TodoInv, Dispatching, call.dim = 2, NEW t,
           current_chunk' = current_chunk + 1,
           IF current_chunk < Jobs(call) THEN RunOn(t, Tile(call, current_chunk))
                                         ELSE todo' = todo,
           UNCHANGED <<call, num_threads>>, mpc' \in {"flag", "own", "run", "wait"},
           mpc' = "wait" => mpc = "wait" \/ ~(current_chunk < Jobs(call))
    PROVE  /\ TodoInv'
           /\ current_chunk < Jobs(call) => Tile(call, current_chunk) \in SUBSET todo
<1>1. call \in Call /\ call # NoCall /\ ActiveThreads(call)' = ActiveThreads(call)
  BY PoolAssumption DEF PoolAssumption, Dispatching, Control, OwnerInv, ActiveThreads
<1>2. ActiveThreads(call) > 1 /\ Dispatching'
  BY <1>1 DEF Dispatching
<1>3. ~(ActiveThreads(call) <= 1)
  BY <1>1, <1>2, CallFacts DEF Positive
<1>4. Jobs(call) \in Nat /\ current_chunk \in Nat /\ call \in CallType
  BY <1>1, CallFacts DEF Positive, Control, ControlType
<1>5. todo = UNION {Tile(call, j) : j \in current_chunk..(Jobs(call) - 1)}
  BY DEF TodoInv
<1>6. /\ todo' = UNION {Tile(call, j) : j \in (current_chunk + 1)..(Jobs(call) - 1)}
      /\ current_chunk < Jobs(call) => Tile(call, current_chunk) \in SUBSET todo
  <2>1. CASE current_chunk < Jobs(call)
    BY <1>4, <1>5, <2>1, TakeTile DEF RunOn
  <2>2. CASE ~(current_chunk < Jobs(call))
    <3>1. current_chunk..(Jobs(call) - 1) = {}
          /\ (current_chunk + 1)..(Jobs(call) - 1) = {}
      BY <1>4, <2>2
    <3> QED
      BY <1>5, <2>2, <3>1
  <2> QED
    BY <2>1, <2>2
<1>7. mpc' = "wait" => current_chunk' >= Jobs(call)
  BY <1>4 DEF TodoInv
<1> QED
  BY <1>1, <1>2, <1>3, <1>6, <1>7 DEF TodoInv, ResumesForCall

(* A worker begins its part, or steals a job, or finds nothing to do. *)
LEMMA WorkStartWork ==
    ASSUME Control, Control', Handshake, WorkInv, NEW w \in Worker, StartWork(w)
    PROVE  /\ WorkInv'
           /\ \/ UNCHANGED <<piece, todo>>
              \/ \E S \in SUBSET todo : piece[w] = {} /\ RunOn(w, S)
<1>1. /\ UNCHANGED <<mpc, call, num_threads, current_chunk, generation, seen_generation>>
      /\ wpc[w] = "work" /\ \A v \in Worker : v # w => wpc'[v] = wpc[v]
  BY DEF StartWork, Goto, poolVars, jobVars, Control, ControlType
<1>2. w \in Nat /\ w # 0 /\ w \in Thread /\ 0 \notin Worker /\ job.active \in Int
  BY PoolAssumption DEF PoolAssumption, Positive, Worker, Thread, Control, ControlType
<1>3. piece[w] = {}
  BY <1>1 DEF WorkInv, PieceInv
<1>4. \A v \in Worker : v # w => (Awaits(v)' <=> Awaits(v))
  BY <1>1, <1>2 DEF Awaits
<1>5. CASE w >= job.active
  <2>1. UNCHANGED <<piece, todo>>
    BY <1>2, <1>5 DEF StartWork
  <2>2. Dispatching => ~(w < ActiveThreads(call))
    <3>1. Dispatching => job.active = ActiveThreads(call)
      BY DEF Dispatching, Control, OwnerInv
    <3> QED
      BY <1>2, <1>5, <3>1
  <2>3. TodoInv'
    BY <1>1, <1>4, <2>1, <2>2, TodoFrame DEF WorkInv
  <2>4. PieceInv'
    BY <1>1, <2>1, PieceFrame DEF WorkInv
  <2> QED
    BY <2>1, <2>3, <2>4 DEF WorkInv
<1>6. CASE w < job.active
  <2>1. /\ Dispatching /\ call \in Call
        /\ job.call = call /\ job.active = ActiveThreads(call)
        /\ w \in 1..(ActiveThreads(call) - 1)
    BY <1>1, <1>6, WorkerCall
  <2>2. CASE call.dim = 2
    <3>1. UNCHANGED <<piece, todo>>
      BY <1>2, <1>6, <2>1, <2>2 DEF StartWork
    <3>2. PieceInv'
      BY <1>1, <3>1, PieceFrame DEF WorkInv
    <3>3. TodoInv'
      BY <1>1, <2>2, <3>1, TodoFrame2d DEF WorkInv
    <3> QED
      BY <3>1, <3>2, <3>3 DEF WorkInv
  <2>3. CASE call.dim = 1
    <3>1. RunOn(w, Part(w)) /\ wpc'[w] = "run"
      BY <1>2, <1>6, <2>1, <2>3 DEF StartWork, Goto, Part, Control, ControlType
    <3>2. w \in NotBegun
      BY <1>1, <1>2, <2>1 DEF NotBegun, Awaits
    <3>3. NotBegun' = NotBegun \ {w}
      <4>1. seen_generation[w] = generation
        <5>1. Agreed(w)
          BY DEF Handshake
        <5> QED
          BY <1>1, <1>2, <1>6, <2>1, <5>1 DEF Agreed, Resting
      <4>2. ~Awaits(w)'
        BY <1>1, <1>2, <3>1, <4>1 DEF Awaits
      <4>3. \A t \in 0..(ActiveThreads(call) - 1) : t = 0 \/ t \in Worker
        <5>1. ActiveThreads(call) \in 1..MaxThreads
          BY <2>1, ActiveType DEF Control, ControlType
        <5> QED
          BY <5>1, PoolAssumption DEF Worker, PoolAssumption, Positive
      <4>4. Awaits(0)' <=> Awaits(0)
        BY <1>1 DEF Awaits
      <4>5. ActiveThreads(call)' = ActiveThreads(call)
        BY <1>1 DEF ActiveThreads
      <4> QED
        BY <1>2, <1>4, <4>2, <4>3, <4>4, <4>5 DEF NotBegun
    <3>4. TodoInv' /\ Part(w) \in SUBSET todo
      BY <1>1, <2>1, <2>3, <3>1, <3>2, <3>3, BeginPart DEF Dispatching, WorkInv
    <3>5. PieceInv'
      BY <1>1, <1>2, <3>1, <3>4, PieceStarts DEF WorkInv
    <3> QED
      BY <1>3, <3>1, <3>4, <3>5 DEF WorkInv
  <2> QED
    BY <2>1, <2>2, <2>3, CallFacts
<1> QED
  BY <1>2, <1>5, <1>6

LEMMA WorkSteal ==
    ASSUME Control, Handshake, WorkInv, NEW w \in Worker, Steal(w)
    PROVE  /\ WorkInv'
           /\ \/ UNCHANGED <<piece, todo>>
              \/ \E S \in SUBSET todo : piece[w] = {} /\ RunOn(w, S)
<1>1. /\ UNCHANGED <<mpc, call, num_threads>> /\ current_chunk' = current_chunk + 1
      /\ wpc[w] = "grab" /\ \A v \in Worker : v # w => wpc'[v] = wpc[v]
  BY DEF Steal, Goto, poolVars, Control, ControlType
<1>2. w \in Nat /\ w # 0 /\ w \in Thread
  BY PoolAssumption DEF PoolAssumption, Positive, Worker, Thread
<1>3. piece[w] = {}
  BY <1>1 DEF WorkInv, PieceInv
<1>4. Dispatching /\ call \in Call /\ job.call = call /\ job.call.dim = 2
  <2>1. Agreed(w)
    BY DEF Handshake
  <2> QED
    BY <1>1, <2>1, WorkerCall DEF Agreed
<1>5. /\ IF current_chunk < Jobs(call) THEN RunOn(w, Tile(call, current_chunk))
                                      ELSE todo' = todo
      /\ ~(current_chunk < Jobs(call)) => UNCHANGED <<piece, todo>>
      /\ current_chunk < Jobs(call) => wpc'[w] = "run"
  BY <1>4 DEF Steal, Goto, Control, ControlType
<1>6. /\ TodoInv'
      /\ current_chunk < Jobs(call) => Tile(call, current_chunk) \in SUBSET todo
  <2>1. mpc' \in {"flag", "own", "run", "wait"} /\ (mpc' = "wait" => mpc = "wait")
    BY <1>1, <1>4 DEF Dispatching
  <2> QED
    BY <1>1, <1>4, <1>5, <2>1, DrawJob DEF WorkInv
<1>7. CASE current_chunk < Jobs(call)
  <2>1. PieceInv'
    BY <1>1, <1>2, <1>5, <1>6, <1>7, PieceStarts DEF WorkInv
  <2> QED
    BY <1>3, <1>5, <1>6, <1>7, <2>1 DEF WorkInv
<1>8. CASE ~(current_chunk < Jobs(call))
  <2>1. PieceInv'
    BY <1>1, <1>3, <1>5, <1>8, PieceFrame DEF WorkInv
  <2> QED
    BY <1>5, <1>6, <1>8, <2>1 DEF WorkInv
<1> QED
  BY <1>7, <1>8

(* The owner begins its part, or draws a job. *)
LEMMA WorkOwnWork ==
    ASSUME Control, WorkInv, OwnWork
    PROVE  /\ WorkInv'
           /\ \/ UNCHANGED <<piece, todo>>
              \/ \E S \in SUBSET todo : piece[0] = {} /\ RunOn(0, S)
<1>1. UNCHANGED <<call, num_threads, wpc, seen_generation, generation>> /\ mpc = "own"
      /\ mpc' \in {"run", "wait"}
  BY DEF OwnWork, poolVars, jobVars
<1>2. 0 \in Thread /\ 0 \notin Worker
  BY PoolAssumption DEF PoolAssumption, Positive, Worker, Thread
<1>3. Dispatching /\ call \in Call
  BY <1>1 DEF Dispatching, Control, OwnerInv
<1>4. piece[0] = {}
  BY <1>1 DEF WorkInv, PieceInv
<1>5. CASE call.dim = 1
  <2>1. RunOn(0, Part(0)) /\ mpc' = "run"
    BY <1>5 DEF OwnWork, Part
  <2>2. 0 \in NotBegun
    <3>1. 0 \in 0..(ActiveThreads(call) - 1)
      BY <1>3, CallFacts DEF Positive
    <3> QED
      BY <1>1, <3>1 DEF NotBegun, Awaits
  <2>3. NotBegun' = NotBegun \ {0}
    <3>1. ActiveThreads(call)' = ActiveThreads(call)
      BY <1>1 DEF ActiveThreads
    <3>2. ~Awaits(0)' /\ \A v : v # 0 => (Awaits(v)' <=> Awaits(v))
      BY <1>1, <2>1 DEF Awaits
    <3> QED
      BY <3>1, <3>2 DEF NotBegun
  <2>4. TodoInv' /\ Part(0) \in SUBSET todo
    BY <1>1, <1>3, <1>5, <2>1, <2>2, <2>3, BeginPart DEF WorkInv
  <2>5. PieceInv'
    BY <1>1, <1>2, <2>1, <2>4, PieceStarts DEF WorkInv
  <2> QED
    BY <1>4, <2>1, <2>4, <2>5 DEF WorkInv
<1>6. CASE call.dim = 2
  <2>1. /\ current_chunk' = current_chunk + 1
        /\ IF current_chunk < Jobs(call)
           THEN RunOn(0, Tile(call, current_chunk)) /\ mpc' = "run"
           ELSE mpc' = "wait" /\ UNCHANGED <<piece, todo>>
    BY <1>6 DEF OwnWork
  <2>2. /\ TodoInv'
        /\ current_chunk < Jobs(call) => Tile(call, current_chunk) \in SUBSET todo
    BY <1>1, <1>3, <1>6, <2>1, DrawJob DEF WorkInv
  <2>3. CASE current_chunk < Jobs(call)
    <3>1. PieceInv'
      BY <1>1, <1>2, <2>1, <2>2, <2>3, PieceStarts DEF WorkInv
    <3> QED
      BY <1>4, <2>1, <2>2, <2>3, <3>1 DEF WorkInv
  <2>4. CASE ~(current_chunk < Jobs(call))
    <3>1. UNCHANGED <<piece, todo>>
      BY <2>1, <2>4
    <3>2. PieceInv'
      BY <1>1, <1>4, <3>1, PieceFrame DEF WorkInv
    <3> QED
      BY <2>2, <3>1, <3>2 DEF WorkInv
  <2> QED
    BY <2>3, <2>4
<1> QED
  BY <1>3, <1>5, <1>6, CallFacts

(* The call is published: everything is still to be started. *)
LEMMA WorkSetPending ==
    ASSUME Control, Control', Handshake, WorkInv, SetPending
    PROVE  WorkInv'
<1> DEFINE A == ActiveThreads(call)
<1>1. /\ UNCHANGED <<call, num_threads, piece, todo, current_chunk, wpc, seen_generation,
                     generation, stop, workers_started>>
      /\ mpc = "pend" /\ mpc' = "flag"
  BY DEF SetPending, poolVars, jobVars, parkVars
<1>2. /\ call \in Call /\ A > 1 /\ A' = A /\ workers_started
      /\ todo = Cells(call) /\ (call.dim = 2 => current_chunk = 0)
  BY <1>1 DEF Control, OwnerInv, WorkInv, TodoInv, ActiveThreads
<1>3. /\ A \in 1..MaxThreads /\ A <= num_threads /\ num_threads \in Nat
      /\ MaxThreads \in Nat /\ call \in CallType
  BY <1>2, ActiveType, CallFacts, PoolAssumption
     DEF Control, ControlType, PoolAssumption, Positive
<1>4. NotBegun' = 0..(A - 1)
  <2>1. ASSUME NEW t \in 1..(A - 1) PROVE seen_generation[t] # generation
    <3>1. t \in Worker /\ t < num_threads
      BY <1>3 DEF Worker
    <3>2. wpc[t] # "off"
      BY <1>2, <3>1 DEF Control, CrewInv
    <3> QED
      BY <1>1, <3>1, <3>2 DEF Handshake, Agreed
  <2>2. ASSUME NEW t \in 0..(A - 1) PROVE Awaits(t)'
    <3>1. CASE t = 0
      BY <1>1, <3>1 DEF Awaits
    <3>2. CASE t # 0
      <4>1. t \in 1..(A - 1)
        BY <1>3, <3>2
      <4> QED
        BY <1>1, <2>1, <4>1 DEF Awaits
    <3> QED
      BY <3>1, <3>2
  <2> HIDE DEF A
  <2>3. NotBegun' = {t \in 0..(A - 1) : Awaits(t)'}
    BY <1>2 DEF NotBegun, A
  <2> QED
    BY <2>2, <2>3
<1>5. call.dim = 1 => todo = UNION {Part(t)' : t \in NotBegun'}
  <2>1. \A t : Part(t)' = Part(t)
    BY <1>1, <1>2 DEF Part
  <2>2. {Part(t)' : t \in NotBegun'} = {Part(t) : t \in 0..(A - 1)}
    BY <1>4, <2>1
  <2> QED
    BY <1>2, <2>2, PartsPartition
<1>6. call.dim = 2 => todo = UNION {Tile(call, j) : j \in current_chunk..(Jobs(call) - 1)}
  BY <1>2, <1>3, TilesPartition
<1>7. call # NoCall
  BY <1>2, PoolAssumption DEF PoolAssumption
<1>8. TodoInv'
  BY <1>1, <1>2, <1>5, <1>6, <1>7 DEF TodoInv, ResumesForCall
<1>9. PieceInv'
  BY <1>1, PieceFrame DEF WorkInv
<1> QED
  BY <1>8, <1>9 DEF WorkInv

(* The owner waits for the last worker, and returns. *)
LEMMA WorkWait ==
    ASSUME Control, Control', Handshake, WorkInv, WaitForWorkers
    PROVE  WorkInv'
<1>1. /\ UNCHANGED <<call, num_threads, piece, todo, current_chunk, wpc>>
      /\ mpc = "wait" /\ mpc' = "return" /\ pending_workers <= 0
  BY DEF WaitForWorkers, poolVars
<1>2. Dispatching /\ call \in Call
  BY <1>1 DEF Dispatching, Control, OwnerInv
<1>3. /\ call.dim \in {1, 2} /\ Jobs(call) \in Nat /\ current_chunk \in Nat
      /\ ActiveThreads(call) \in 1..MaxThreads
  BY <1>2, CallFacts, ActiveType DEF Positive, Control, ControlType
<1>4. todo = {}
  <2>1. CASE call.dim = 1
    <3>1. ASSUME NEW t \in NotBegun PROVE FALSE
      <4>1. t \in 0..(ActiveThreads(call) - 1) /\ Awaits(t)
        BY DEF NotBegun
      <4>2. t # 0
        BY <1>1, <4>1 DEF Awaits
      <4>3. t \in Worker /\ t < job.active
        <5>1. job.active = ActiveThreads(call)
          BY <1>2 DEF Dispatching, Control, OwnerInv
        <5> QED
          BY <1>3, <4>1, <4>2, <5>1, PoolAssumption DEF Worker, PoolAssumption, Positive
      <4>4. wpc[t] \in Resting /\ seen_generation[t] = generation
        BY <1>1, <1>2, <4>3, AllDone
      <4> QED
        BY <4>1, <4>2, <4>4 DEF Awaits, Resting
    <3>2. NotBegun = {}
      BY <3>1
    <3> QED
      BY <1>2, <2>1, <3>2 DEF WorkInv, TodoInv
  <2>2. CASE call.dim = 2
    <3>1. current_chunk >= Jobs(call)
      BY <1>1, <2>2 DEF WorkInv, TodoInv
    <3>2. current_chunk..(Jobs(call) - 1) = {}
      BY <1>3, <3>1
    <3> QED
      BY <1>2, <2>2, <3>2 DEF WorkInv, TodoInv
  <2> QED
    BY <1>3, <2>1, <2>2
<1>5. TodoInv'
  BY <1>1, <1>4 DEF TodoInv, Dispatching, ResumesForCall
<1>6. PieceInv'
  BY <1>1, PieceFrame DEF WorkInv
<1> QED
  BY <1>5, <1>6 DEF WorkInv

(* The owner begins a call, and runs it alone if it needs no worker. *)
LEMMA WorkBegin ==
    ASSUME Control, Control', WorkInv, \E c \in Call : BeginCall(c)
    PROVE  WorkInv'
<1>1. PICK c \in Call : BeginCall(c)
  OBVIOUS
<1>2. /\ call' = c /\ todo' = Cells(c) /\ mpc = "idle" /\ mpc' \in {"inline", "start"}
      /\ UNCHANGED <<piece, wpc>>
  BY <1>1 DEF BeginCall
<1>3. c # NoCall /\ Cells(c) \in SUBSET (Nat \X Nat)
  BY PoolAssumption DEF PoolAssumption, Cells
<1>4. TodoInv'
  BY <1>2, <1>3 DEF TodoInv, Dispatching, ResumesForCall
<1>5. PieceInv'
  BY <1>2, <1>3 DEF WorkInv, PieceInv
<1> QED
  BY <1>4, <1>5 DEF WorkInv

LEMMA WorkInline ==
    ASSUME Control, Control', WorkInv, RunInline
    PROVE  /\ WorkInv'
           /\ \E S \in SUBSET todo : piece[0] = {} /\ RunOn(0, S)
<1>1. /\ UNCHANGED <<call, num_threads, wpc>> /\ mpc = "inline" /\ mpc' = "run"
      /\ todo' = {} /\ piece' = [piece EXCEPT ![0] = todo]
  BY DEF RunInline, poolVars
<1>2. call \in Call /\ ActiveThreads(call) <= 1 /\ ActiveThreads(call)' = ActiveThreads(call)
  BY <1>1 DEF Control, OwnerInv, ActiveThreads
<1>3. ~(ActiveThreads(call) > 1) /\ ~Dispatching'
  BY <1>1, <1>2, CallFacts DEF Positive, Dispatching
<1>4. RunOn(0, todo) /\ piece[0] = {}
  BY <1>1 DEF RunOn, WorkInv, PieceInv
<1>5. 0 \in Thread /\ 0 \notin Worker
  BY PoolAssumption DEF PoolAssumption, Positive, Worker, Thread
<1>6. PieceInv'
  BY <1>1, <1>4, <1>5, PieceStarts DEF WorkInv
<1>7. TodoInv'
  BY <1>1, <1>3 DEF TodoInv, ResumesForCall
<1> QED
  BY <1>4, <1>6, <1>7 DEF WorkInv

(* Until the call is published all its cells are still to be started. *)
LEMMA WorkPrepare ==
    ASSUME Control, Control', WorkInv,
           EnsureWorkersStarted \/ Publish \/ Notify \/ Resume
    PROVE  WorkInv'
<1>1. /\ UNCHANGED <<call, num_threads, piece, todo>> /\ mpc # "run"
      /\ mpc \in {"start", "publish", "resume", "notify"}
      /\ mpc' \in {"resume", "publish", "pend", "notify", "idle"}
      /\ ~Dispatching'
  BY DEF EnsureWorkersStarted, Publish, Notify, Resume, poolVars, Dispatching
<1>2. \A w \in Worker : wpc[w] = "run" => wpc'[w] = "run" \/ piece[w] = {}
  <2>1. CASE EnsureWorkersStarted
    <3>1. CASE workers_started
      BY <2>1, <3>1 DEF EnsureWorkersStarted
    <3>2. CASE ~workers_started
      BY <3>2 DEF Control, CrewInv
    <3> QED
      BY <3>1, <3>2
  <2>2. CASE ~EnsureWorkersStarted
    BY <2>2 DEF Publish, Notify, Resume, WakeAll, Control, ControlType
  <2> QED
    BY <2>1, <2>2
<1>3. PieceInv'
  BY <1>1, <1>2, PieceFrame DEF WorkInv
<1>4. mpc' = "pend" /\ call.dim = 2 => current_chunk' = 0
  BY DEF EnsureWorkersStarted, Publish, Notify, Resume
<1>5. call # NoCall => todo = Cells(call)
  BY <1>1 DEF WorkInv, TodoInv, ResumesForCall
<1>6. call = NoCall => todo = {}
  BY DEF WorkInv, TodoInv
<1>7. mpc' \in {"publish", "pend"} => call \in Call /\ call # NoCall
  BY <1>1, PoolAssumption DEF PoolAssumption, Control, OwnerInv
<1> QED
  BY <1>1, <1>3, <1>4, <1>5, <1>6, <1>7 DEF WorkInv, TodoInv, ResumesForCall

LEMMA WorkRaiseFlag ==
    ASSUME Control, Control', WorkInv, RaiseFlag
    PROVE  WorkInv'
<1>1. /\ UNCHANGED <<call, num_threads, piece, todo, current_chunk, wpc, seen_generation,
                     generation>>
      /\ mpc = "flag" /\ mpc' \in {"flag", "own"}
  BY DEF RaiseFlag, poolVars, jobVars
<1>2. call \in Call /\ call # NoCall
  BY <1>1, PoolAssumption DEF PoolAssumption, Control, OwnerInv
<1>3. Dispatching' /\ Dispatching
  BY <1>1 DEF Dispatching, Control, OwnerInv, ActiveThreads
<1>4. NotBegun' = NotBegun /\ \A t : Part(t)' = Part(t)
  <2>1. \A t : Awaits(t)' <=> Awaits(t)
    BY <1>1 DEF Awaits
  <2> QED
    BY <1>1, <1>2, <2>1, NotBegunSame
<1>5. {Part(t)' : t \in NotBegun'} = {Part(t) : t \in NotBegun}
  BY <1>4
<1>6. call.dim = 1 => todo' = UNION {Part(t)' : t \in NotBegun'}
  BY <1>1, <1>3, <1>5 DEF WorkInv, TodoInv
<1>7. TodoInv'
  BY <1>1, <1>2, <1>3, <1>6 DEF WorkInv, TodoInv, ResumesForCall
<1>8. PieceInv'
  BY <1>1, PieceFrame DEF WorkInv
<1> QED
  BY <1>7, <1>8 DEF WorkInv

(* The owner has run fn on its piece. *)
LEMMA WorkOwnDone ==
    ASSUME Control, Control', WorkInv, OwnDone
    PROVE  WorkInv'
<1>1. /\ UNCHANGED <<call, num_threads, todo, current_chunk, wpc, seen_generation,
                     generation>>
      /\ mpc = "run" /\ piece' = [piece EXCEPT ![0] = {}]
      /\ mpc' = IF ActiveThreads(call) <= 1 THEN "return"
                ELSE IF call.dim = 1 THEN "wait" ELSE "own"
  BY DEF OwnDone, poolVars, jobVars
<1>2. call \in Call /\ call # NoCall /\ ActiveThreads(call)' = ActiveThreads(call)
  BY <1>1, PoolAssumption DEF PoolAssumption, Control, OwnerInv, ActiveThreads
<1>3. PieceInv'
  <2>1. 0 \in Thread
    BY PoolAssumption DEF PoolAssumption, Positive, Thread
  <2> QED
    BY <1>1, <2>1, PieceEnds DEF WorkInv
<1>4. CASE ActiveThreads(call) <= 1
  <2>1. mpc' = "return" /\ todo = {}
    BY <1>1, <1>4 DEF WorkInv, TodoInv
  <2> QED
    BY <1>1, <1>3, <2>1 DEF WorkInv, TodoInv, Dispatching, ResumesForCall
<1>5. CASE ~(ActiveThreads(call) <= 1)
  <2>1. ActiveThreads(call) > 1
    BY <1>2, <1>5, CallFacts DEF Positive
  <2>2. Dispatching /\ Dispatching' /\ mpc' \in {"wait", "own"}
        /\ (call.dim = 1 => mpc' = "wait") /\ (mpc' = "wait" => call.dim = 1)
    BY <1>1, <1>2, <1>5, <2>1 DEF Dispatching
  <2>3. CASE call.dim = 1
    <3>1. \A t : Awaits(t)' <=> Awaits(t)
      BY <1>1, <2>2, <2>3 DEF Awaits
    <3>2. NotBegun' = NotBegun /\ \A t : Part(t)' = Part(t)
      BY <1>1, <1>2, <3>1, NotBegunSame
    <3>3. {Part(t)' : t \in NotBegun'} = {Part(t) : t \in NotBegun}
      BY <3>2
    <3>4. todo' = UNION {Part(t)' : t \in NotBegun'}
      BY <1>1, <2>2, <2>3, <3>3 DEF WorkInv, TodoInv
    <3> QED
      BY <1>1, <1>2, <1>3, <2>2, <2>3, <3>4 DEF WorkInv, TodoInv, ResumesForCall
  <2>4. CASE call.dim # 1
    <3>1. todo = UNION {Tile(call, j) : j \in current_chunk..(Jobs(call) - 1)}
      BY <1>2, <2>2, <2>4, CallFacts DEF WorkInv, TodoInv
    <3> QED
      BY <1>1, <1>2, <1>3, <2>2, <2>4, <3>1 DEF WorkInv, TodoInv, ResumesForCall
  <2> QED
    BY <2>3, <2>4
<1> QED
  BY <1>4, <1>5

(* Outside a call nothing is to be done. *)
LEMMA WorkIdle ==
    ASSUME Control, Control', WorkInv,
           \/ Return \/ Park \/ CallResume
           \/ RaiseAllFlags \/ StopLock \/ StopNotify \/ Reset
           \/ \E n \in 1..MaxThreads : Resize(n)
    PROVE  WorkInv'
<1>1. /\ UNCHANGED <<piece, todo>> /\ call' = NoCall
      /\ mpc \in {"return", "idle", "sflag", "slock", "snotify", "join"}
      /\ mpc' \in {"idle", "resume", "sflag", "slock", "snotify", "join"}
  BY DEF Return, Park, CallResume, RaiseAllFlags, StopLock, StopNotify, Reset, Resize,
     Control, OwnerInv
<1>2. todo' = {}
  <2>1. mpc # "return" => call = NoCall
    BY <1>1 DEF Control, OwnerInv
  <2> QED
    BY <1>1, <2>1 DEF WorkInv, TodoInv
<1>3. TodoInv'
  BY <1>1, <1>2 DEF TodoInv, Dispatching, ResumesForCall
<1>4. \A w \in Worker : wpc[w] = "run" => wpc'[w] = "run"
  BY DEF Return, Park, CallResume, RaiseAllFlags, StopLock, StopNotify, Reset, Resize,
     WakeAll
<1>5. PieceInv'
  BY <1>1, <1>4, PieceFrame DEF WorkInv
<1> QED
  BY <1>3, <1>5 DEF WorkInv

LEMMA WorkHolds == Spec => []WorkInv
<1>1. Init => WorkInv
  <2> SUFFICES ASSUME Init PROVE WorkInv
    OBVIOUS
  <2>1. 0 \in Thread /\ Worker \subseteq Thread
    BY PoolAssumption DEF PoolAssumption, Positive, Worker, Thread
  <2>2. PieceInv
    BY <2>1 DEF Init, PieceInv
  <2>3. TodoInv
    BY DEF Init, TodoInv, Dispatching, ResumesForCall
  <2> QED
    BY <2>2, <2>3 DEF WorkInv
<1>2. Control /\ Control' /\ Handshake /\ WorkInv /\ [Next]_vars => WorkInv'
  <2> SUFFICES ASSUME Control, Control', Handshake, WorkInv, [Next]_vars
               PROVE  WorkInv'
    OBVIOUS
  <2>1. CASE UNCHANGED vars
    <3>1. PieceInv'
      BY <2>1, PieceFrame DEF vars, WorkInv
    <3>2. TodoInv'
      BY <2>1, TodoFrame DEF vars, WorkInv, Awaits
    <3> QED
      BY <3>1, <3>2 DEF WorkInv
  <2>2. ASSUME NEW w \in Worker, WorkerStep(w) \/ WakeSpuriously(w)
        PROVE  WorkInv'
    BY <2>2, WorkFrame, WorkStartWork, WorkSteal DEF WorkerStep
  <2> QED
    BY <2>1, <2>2, WorkOwnWork, WorkSetPending, WorkWait, WorkBegin, WorkInline,
       WorkPrepare, WorkRaiseFlag, WorkOwnDone, WorkIdle
       DEF Next, OwnerStarts, OwnerFinishes, OwnerLocks
<1> QED
  BY <1>1, <1>2, ControlHolds, HandshakeHolds, PTL DEF Spec

(* Every variable keeps its type. *)
THEOREM TypeCorrect == Spec => []TypeOK
<1>1. Control /\ WorkInv => TypeOK
  BY DEF Control, ControlType, WorkInv, PieceInv, TypeOK
<1> QED
  BY <1>1, ControlHolds, WorkHolds, PTL

-----------------------------------------------------------------------------
(***************************************************************************)
(* Stage 6.  The pool implements the fork-join specification: every step   *)
(* forks, begins or ends a piece, joins, or changes nothing its caller     *)
(* can see.                                                                *)
(***************************************************************************)
Running == UNION {piece[t] : t \in Thread}

(* A piece of cells nobody has started is begun, or was empty. *)
LEMMA BeginsAPiece ==
    ASSUME PieceInv, call # NoCall, call' = call,
           NEW t \in Thread, NEW S \in SUBSET todo, piece[t] = {}, RunOn(t, S)
    PROVE  Promise!Next \/ UNCHANGED <<call, todo, Running>>
<1>1. piece' = [piece EXCEPT ![t] = S] /\ todo' = todo \ S /\ todo' \subseteq todo
  BY DEF RunOn
<1>2. Running' = Running \cup S
  <2>1. \A x : x \in Running <=> \E u \in Thread : x \in piece[u]
    BY DEF Running
  <2>2. \A x : x \in Running' <=> \E u \in Thread : x \in piece'[u]
    BY DEF Running
  <2>3. \A u \in Thread : piece'[u] = IF u = t THEN S ELSE piece[u]
    BY <1>1 DEF PieceInv
  <2>4. \A x : x \in Running' <=> x \in Running \/ x \in S
    BY <2>1, <2>2, <2>3
  <2> QED
    BY <2>4
<1>3. S = todo \ todo'
  BY <1>1
<1>4. CASE S = {}
  BY <1>1, <1>2, <1>4
<1>5. CASE S # {}
  <2>1. todo' # todo
    BY <1>3, <1>5
  <2>2. Promise!Begin
    BY <1>1, <1>2, <1>3, <2>1 DEF Promise!Begin, Running
  <2> QED
    BY <2>2 DEF Promise!Next
<1> QED
  BY <1>4, <1>5

(* A piece ends. *)
LEMMA EndsAPiece ==
    ASSUME PieceInv, UNCHANGED <<call, todo>>, NEW t \in Thread,
           piece' = [piece EXCEPT ![t] = {}]
    PROVE  Promise!Next
<1>1. \A u \in Thread : piece'[u] \subseteq piece[u]
  BY DEF PieceInv
<1>2. Running' \subseteq Running
  BY <1>1 DEF Running
<1> QED
  BY <1>2 DEF Promise!Next, Promise!End, Running

(* The owner returns when nothing is left and nobody is at work. *)
LEMMA Joins ==
    ASSUME Control, Handshake, WorkInv, Return
    PROVE  Promise!Next
<1>1. mpc = "return" /\ call' = NoCall /\ UNCHANGED <<piece, todo>>
  BY DEF Return
<1>2. call # NoCall /\ todo = {} /\ ~Dispatching /\ ~stop
  BY <1>1, PoolAssumption
     DEF PoolAssumption, Control, OwnerInv, WorkInv, TodoInv, Dispatching
<1>3. piece[0] = {}
  BY <1>1 DEF WorkInv, PieceInv
<1>4. ASSUME NEW w \in Worker PROVE piece[w] = {}
  <2>1. wpc[w] # "run"
    BY <1>2 DEF Handshake, Agreed, Resting
  <2> QED
    BY <2>1 DEF WorkInv, PieceInv
<1>5. \A t \in Thread : t = 0 \/ t \in Worker
  BY PoolAssumption DEF PoolAssumption, Positive, Worker, Thread
<1>6. Running = {}
  BY <1>3, <1>4, <1>5 DEF Running
<1>7. Promise!Join
  BY <1>1, <1>2, <1>6 DEF Promise!Join, Running
<1> QED
  BY <1>7 DEF Promise!Next

LEMMA Forks ==
    ASSUME Control, Control', WorkInv, NEW c \in Call, BeginCall(c)
    PROVE  Promise!Next
<1>1. mpc = "idle" /\ call' = c /\ todo' = Cells(c) /\ piece' = piece
  BY DEF BeginCall
<1>2. call = NoCall /\ c # NoCall
  BY <1>1, PoolAssumption DEF PoolAssumption, Control, OwnerInv
<1>3. Cells(c) # {} /\ Cells(c) \subseteq Nat \X Nat
  <2>1. c.m \in Positive /\ c.n \in Positive
    BY JobsPositive DEF CallType
  <2>2. <<0, 0>> \in Cells(c)
    BY <2>1 DEF Cells, Positive
  <2> QED
    BY <2>2 DEF Cells
<1>4. Promise!Fork
  BY <1>1, <1>2, <1>3 DEF Promise!Fork
<1> QED
  BY <1>4 DEF Promise!Next

(* parallel_for and parallel_for_2d keep their promise: every cell is handed *)
(* out exactly once, and the call returns when all of them are done.         *)
THEOREM PoolImplementsForkJoin == Spec => ForkJoinSpec
<1>1. Init => Promise!Init
  BY DEF Init, Promise!Init
<1>2. ASSUME Control, Control', Handshake, WorkInv, [Next]_vars
      PROVE  Promise!Next \/ UNCHANGED <<call, todo, Running>>
  <2>1. \A w \in Worker : w \in Thread
    BY PoolAssumption DEF PoolAssumption, Positive, Worker, Thread
  <2>2. 0 \in Thread
    BY PoolAssumption DEF PoolAssumption, Positive, Thread
  <2>3. ASSUME UNCHANGED <<call, piece, todo>>
        PROVE  UNCHANGED <<call, todo, Running>>
    BY <2>3 DEF Running
  <2>4. ASSUME NEW w \in Worker, WorkerStep(w) \/ WakeSpuriously(w)
        PROVE  Promise!Next \/ UNCHANGED <<call, todo, Running>>
    <3>1. CASE StartWork(w) \/ Steal(w)
      <4>1. call # NoCall \/ UNCHANGED <<piece, todo>>
        <5>1. wpc[w] = "grab" \/ (wpc[w] = "work" /\ w < job.active)
                \/ UNCHANGED <<piece, todo>>
          BY <3>1 DEF StartWork, Steal
        <5>2. call \in Call \/ UNCHANGED <<piece, todo>>
          BY <1>2, <5>1, WorkerCall
        <5> QED
          BY <5>2, PoolAssumption DEF PoolAssumption
      <4>2. \/ UNCHANGED <<piece, todo>>
            \/ \E S \in SUBSET todo : piece[w] = {} /\ RunOn(w, S)
        BY <1>2, <3>1, WorkStartWork, WorkSteal
      <4>3. call' = call
        BY <3>1 DEF StartWork, Steal
      <4> QED
        BY <1>2, <2>1, <2>3, <4>1, <4>2, <4>3, BeginsAPiece DEF WorkInv
    <3>2. CASE WorkDone(w)
      <4>1. UNCHANGED <<call, todo>> /\ piece' = [piece EXCEPT ![w] = {}]
        BY <3>2 DEF WorkDone
      <4> QED
        BY <1>2, <2>1, <4>1, EndsAPiece DEF WorkInv
    <3>3. CASE ~(StartWork(w) \/ Steal(w) \/ WorkDone(w))
      <4>1. UNCHANGED <<call, piece, todo>>
        BY <2>4, <3>3
           DEF WorkerStep, Spin, TestFlag, TestParked, Lock, TestPredicate, Block,
               WakeSpuriously, TakeJob, ClearFlag, SignalDone
      <4> QED
        BY <2>3, <4>1
    <3> QED
      BY <3>1, <3>2, <3>3
  <2>5. CASE OwnWork \/ RunInline
    <3>1. call # NoCall /\ call' = call
      BY <1>2, <2>5, PoolAssumption
         DEF OwnWork, RunInline, PoolAssumption, Control, OwnerInv
    <3>2. \/ UNCHANGED <<piece, todo>>
          \/ \E S \in SUBSET todo : piece[0] = {} /\ RunOn(0, S)
      BY <1>2, <2>5, WorkOwnWork, WorkInline
    <3> QED
      BY <1>2, <2>2, <2>3, <3>1, <3>2, BeginsAPiece DEF WorkInv
  <2>6. CASE OwnDone
    <3>1. UNCHANGED <<call, todo>> /\ piece' = [piece EXCEPT ![0] = {}]
      BY <2>6 DEF OwnDone
    <3> QED
      BY <1>2, <2>2, <3>1, EndsAPiece DEF WorkInv
  <2>7. CASE Return \/ \E c \in Call : BeginCall(c)
    BY <1>2, <2>7, Joins, Forks
  <2>8. CASE \/ EnsureWorkersStarted \/ Publish \/ SetPending \/ RaiseFlag
             \/ WaitForWorkers \/ Notify \/ RaiseAllFlags \/ StopNotify \/ Reset
             \/ Resume \/ StopLock \/ Park \/ CallResume
             \/ (\E n \in 1..MaxThreads : Resize(n)) \/ UNCHANGED vars
    <3>1. UNCHANGED <<call, piece, todo>>
      BY <2>8 DEF EnsureWorkersStarted, Publish, SetPending, RaiseFlag, WaitForWorkers,
         Notify, RaiseAllFlags, StopNotify, Reset, Resume, StopLock, Park, CallResume,
         Resize, vars
    <3> QED
      BY <2>3, <3>1
  <2> QED
    BY <1>2, <2>4, <2>5, <2>6, <2>7, <2>8
       DEF Next, OwnerStarts, OwnerFinishes, OwnerLocks
<1>3. ASSUME Control, Control', Handshake, WorkInv, [Next]_vars
      PROVE  [Promise!Next]_(Promise!vars)
  <2>1. UNCHANGED <<call, todo, Running>> => UNCHANGED Promise!vars
    BY DEF Promise!vars, Running
  <2> QED
    BY <1>2, <1>3, <2>1
<1> QED
  BY <1>1, <1>3, ControlHolds, HandshakeHolds, WorkHolds, PTL
     DEF Spec, ForkJoinSpec, Promise!Spec
=============================================================================
