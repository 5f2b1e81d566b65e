----------------------------- MODULE BufferPool -----------------------------
(***************************************************************************)
(* The pools behind Backend::alloc_output and free_output:                 *)
(* runtime/host_buffer_pool.cpp (power-of-two buckets, last freed first,   *)
(* releases checked against the active allocations), the CUDA output pool  *)
(* of backends/cuda/device_runtime.cu (exact sizes, smallest free buffer   *)
(* that is large enough, releases not checked) and the Metal pool          *)
(* (buckets; what is released while a graph is being encoded returns to    *)
(* the pool when the graph ends).                                          *)
(***************************************************************************)
EXTENDS Naturals, Sequences, FiniteSets

CONSTANTS
    NBuffers,     \* bound: the allocations the system grants
    MaxBytes      \* bound: the largest request

ASSUME PoolAssumption == NBuffers \in Nat \ {0} /\ MaxBytes \in Nat \ {0}

Buffers == 1 .. NBuffers
Sizes == 0 .. (2 * MaxBytes)

\* round_up: the least bucket, a power of two, that holds the request.
TwoTo[e \in 0 .. MaxBytes] == IF e = 0 THEN 1 ELSE 2 * TwoTo[e - 1]
Buckets == {TwoTo[e] : e \in 0 .. MaxBytes} \intersect Sizes
RoundUp(bytes) == CHOOSE b \in Buckets : b >= bytes /\ \A c \in Buckets : c >= bytes => b <= c

EmptyPool ==
    [size    |-> [b \in Buffers |-> 0],    \* 0: not allocated
     free    |-> <<>>,                     \* in the order of their release
     active  |-> {},
     pending |-> <<>>,                     \* Metal: released, graph not ended
     misuse  |-> FALSE]                    \* a release the pool did not grant

Granted(kind, bytes) == IF kind = "cuda" THEN bytes ELSE RoundUp(bytes)

FreePlaces(p, size) == {n \in DOMAIN p.free : p.size[p.free[n]] = size}
Least(S) == CHOOSE x \in S : \A y \in S : x <= y
Greatest(S) == CHOOSE x \in S : \A y \in S : y <= x

\* The place in the free list an acquisition takes, 0 for none: the last
\* freed of the bucket, or the first of the smallest size that is enough.
ReusedPlace(p, kind, bytes) ==
    LET enough == {p.size[b] : b \in {p.free[n] : n \in DOMAIN p.free}} \ (0 .. (bytes - 1))
        bucket == FreePlaces(p, RoundUp(bytes)) IN
    IF kind = "cuda"
    THEN IF enough = {} THEN 0 ELSE Least(FreePlaces(p, Least(enough)))
    ELSE IF bucket = {} THEN 0 ELSE Greatest(bucket)

Unallocated(p) == {b \in Buffers : p.size[b] = 0}

\* The buffer acquire(bytes) returns, 0 for a null pointer.
Acquired(p, kind, bytes) ==
    LET n == ReusedPlace(p, kind, bytes) IN
    IF n # 0 THEN p.free[n]
    ELSE IF Unallocated(p) = {} THEN 0 ELSE Least(Unallocated(p))

RemovePlace(s, n) == SubSeq(s, 1, n - 1) \o SubSeq(s, n + 1, Len(s))

AfterAcquire(p, kind, bytes) ==
    LET n == ReusedPlace(p, kind, bytes)
        b == Acquired(p, kind, bytes) IN
    IF b = 0 THEN p
    ELSE IF n # 0
    THEN [p EXCEPT !.free = RemovePlace(p.free, n), !.active = @ \union {b}]
    ELSE [p EXCEPT !.size[b] = Granted(kind, bytes), !.active = @ \union {b}]

GiveBack(p, b) == [p EXCEPT !.free = Append(@, b), !.active = @ \ {b}]

\* release(ptr, bytes): the host pool refuses a foreign pointer, a second
\* release and another bucket; Metal ignores what is not active; CUDA puts
\* any buffer of its own in the free list.
HostRelease(p, b, bytes) ==
    IF b \notin p.active \/ p.size[b] # RoundUp(bytes)
    THEN [p EXCEPT !.misuse = TRUE]
    ELSE GiveBack(p, b)

CudaRelease(p, b) ==
    [GiveBack(p, b) EXCEPT !.misuse = @ \/ b \notin p.active]

MetalRelease(p, b, encoding) ==
    IF b \notin p.active \/ \E n \in DOMAIN p.pending : p.pending[n] = b
    THEN [p EXCEPT !.misuse = TRUE]
    ELSE IF encoding THEN [p EXCEPT !.pending = Append(@, b)]
    ELSE GiveBack(p, b)

AfterRelease(p, kind, b, bytes, encoding) ==
    CASE kind = "host"  -> HostRelease(p, b, bytes)
      [] kind = "cuda"  -> CudaRelease(p, b)
      [] kind = "metal" -> MetalRelease(p, b, encoding)

\* end_graph: the deferred releases take place.
Flushed(p) ==
    [p EXCEPT !.free = @ \o p.pending,
              !.active = @ \ {p.pending[n] : n \in DOMAIN p.pending},
              !.pending = <<>>]

\* clear(): every allocation goes back to the system.
Cleared(p) == [EmptyPool EXCEPT !.misuse = p.misuse]
=============================================================================
