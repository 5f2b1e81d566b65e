---------------------------- MODULE ExpertCache ----------------------------
(***************************************************************************)
(* The SSD expert cache (storage/ssd_expert_cache) as its threads see it:  *)
(* compute threads that request, borrow and return expert pairs, the I/O   *)
(* workers that fill entries from the package file, the cross-layer        *)
(* predictor that prefetches, and the owner that clears, stops and reopens *)
(* the cache.  One action is one critical section of mutex_ (or one step   *)
(* outside it: a read, a notify).                                          *)
(*                                                                         *)
(* Abstractions.  A pair's bytes are one unit, so a capacity counts pairs. *)
(* WHICH idle entry is evicted is left open here: any choice the policy    *)
(* (victim_key_locked, min_element over used_at) could make is allowed, so *)
(* what holds here holds for every policy.  A queue is a set of jobs: the  *)
(* order among jobs of one priority is left open.                          *)
(***************************************************************************)
EXTENDS Integers, FiniteSets

CONSTANTS
    Expert,         \* expert pairs: a (layer, expert id) of the model
    Layer,          \* MoE layers
    LayerOf,        \* the layer of each expert pair
    Slot,           \* Entry objects (heap addresses; eviction recycles them)
    Component,      \* the reads one pair is split into
    Worker,         \* I/O worker threads
    Client,         \* compute threads that use the provider
    GlobalPool,     \* global_capacity_pool_
    TotalCapacity,  \* pairs the whole cache holds
    LayerCapacity,  \* pairs a layer holds when there is no global pool
    MaxTasks,       \* kMaxQueuedTasks of submit_cross_layer_task
    NoExpert, NoSlot, NoJob, Junk

ASSUME CacheAssumption ==
    /\ IsFiniteSet(Slot) /\ IsFiniteSet(Component) /\ IsFiniteSet(Client)
    /\ Component # {} /\ Worker # {}
    /\ LayerOf \in [Expert -> Layer]
    /\ GlobalPool \in BOOLEAN
    /\ TotalCapacity \in Nat
    /\ LayerCapacity \in [Layer -> Nat]
    /\ MaxTasks \in Nat
    /\ NoExpert \notin Expert /\ Junk \notin Expert
    /\ NoSlot \notin Slot
    /\ NoJob \notin Slot \X Component

VARIABLES
    table,          \* Entry object -> the pair it holds, NoExpert if not in entries_
    state,          \* Entry::State
    pending_reads,  \* Entry::pending_reads
    pins,           \* Entry::pins
    buffer,         \* what each component buffer of an Entry object holds
    io_jobs, low_priority_io_jobs,
    wpc, wjob,      \* I/O workers: where they are, the job they hold
    cpc,            \* compute threads: where they are
    want,           \* the pair a blocked borrow() is after
    pin,            \* PendingPin of a blocked borrow()
    lease,          \* the ExpertLeases a compute thread holds
    asleep,         \* compute threads waiting on ready_cv_
    tasks,          \* number of queued cross_layer_tasks_
    ppc,            \* the cross-layer worker: where it is
    opc             \* the owner: "run", or the phase of stop_io_workers

entryVars == <<table, state, pending_reads>>
queueVars == <<io_jobs, low_priority_io_jobs>>
workerVars == <<wpc, wjob>>
clientVars == <<cpc, want, pin, lease>>
vars == <<table, state, pending_reads, pins, buffer, io_jobs,
          low_priority_io_jobs, wpc, wjob, cpc, want, pin, lease, asleep,
          tasks, ppc, opc>>

States == {"Loading", "LoadingFailed", "Ready", "Failed"}
Job == Slot \X Component

(* The one type invariant of the module. *)
TypeOK ==
    /\ table \in [Slot -> Expert \cup {NoExpert}]
    /\ state \in [Slot -> States]
    /\ pending_reads \in [Slot -> Nat]
    /\ pins \in [Slot -> Nat]
    /\ buffer \in [Slot -> [Component -> Expert \cup {NoExpert, Junk}]]
    /\ io_jobs \subseteq Job /\ low_priority_io_jobs \subseteq Job
    /\ wpc \in [Worker -> {"sleep", "run", "read", "ok", "fail", "notify", "exit"}]
    /\ wjob \in [Worker -> Job \cup {NoJob}]
    /\ cpc \in [Client -> {"idle", "kick", "slot", "load", "notify"}]
    /\ want \in [Client -> Expert \cup {NoExpert}]
    /\ pin \in [Client -> Slot \cup {NoSlot}]
    /\ lease \in [Client -> SUBSET (Slot \X Expert)]
    /\ asleep \subseteq Client
    /\ tasks \in 0..MaxTasks
    /\ ppc \in {"sleep", "run", "task", "kick", "exit"}
    /\ opc \in {"run", "kick", "join"}

Init ==
    /\ table = [s \in Slot |-> NoExpert]
    /\ state = [s \in Slot |-> "Loading"]
    /\ pending_reads = [s \in Slot |-> 0]
    /\ pins = [s \in Slot |-> 0]
    /\ buffer = [s \in Slot |-> [c \in Component |-> Junk]]
    /\ io_jobs = {} /\ low_priority_io_jobs = {}
    /\ wpc = [w \in Worker |-> "run"]
    /\ wjob = [w \in Worker |-> NoJob]
    /\ cpc = [c \in Client |-> "idle"]
    /\ want = [c \in Client |-> NoExpert]
    /\ pin = [c \in Client |-> NoSlot]
    /\ lease = [c \in Client |-> {}]
    /\ asleep = {}
    /\ tasks = 0
    /\ ppc = "run"
    /\ opc = "run"

-----------------------------------------------------------------------------
(* Entries *)

InTable == {s \in Slot : table[s] # NoExpert}

IsLoading(s) == state[s] \in {"Loading", "LoadingFailed"}

Busy(s) == IsLoading(s) \/ pins[s] # 0

(* find_entry_locked, as the set of entries that hold k (at most one). *)
Find(k) == {s \in InTable : table[s] = k}

Pool(l) == {s \in InTable : GlobalPool \/ LayerOf[table[s]] = l}

Cap(l) == IF GlobalPool THEN TotalCapacity ELSE LayerCapacity[l]

(* Faulty variants of a definition stand just before it.  They are what the  *)
(* listed mutation runs put in its place; no specification uses them.      *)
EvictableIgnoringPins(S) == {s \in S : ~IsLoading(s)}
(* What remove_entry_locked agrees to remove. *)
Evictable(S) == {s \in S : ~IsLoading(s) /\ pins[s] = 0}

(* Failed residencies a request for K drops before it looks for misses. *)
DropFailed(K) == {s \in Evictable(InTable) : table[s] \in K /\ state[s] = "Failed"}

(* The free Entry objects that new residencies of the pairs in M could be. *)
Admissions(free, M) ==
    UNION {{f \in [A -> M] : \A a, b \in A : f[a] = f[b] => a = b} : A \in SUBSET free}

(***************************************************************************)
(* reserve_entry_locked, once for every pair of M in the pool of layer l:  *)
(* `gone' was dropped before, `victims' is evicted, `admit' says which     *)
(* Entry object gets which pair.  An eviction happens only when the pool   *)
(* is full, and a pair is refused only when the pool is full and (for a    *)
(* demand) nothing evictable is left.  An advisory reservation may be      *)
(* refused sooner, by the policy.                                          *)
(***************************************************************************)
Reservation(l, M, gone, victims, admit, speculative) ==
    LET P == Pool(l) \ gone
        size == Cardinality(P \ victims) + Cardinality(DOMAIN admit)
    IN  /\ size <= Cap(l)
        /\ victims # {} => size = Cap(l)
        /\ M # {admit[s] : s \in DOMAIN admit} =>
              size = Cap(l) /\ (speculative \/ victims = Evictable(P))

(* Entry fields after removing `gone' and installing `admit'. *)
Install(gone, admit) ==
    /\ table' = [s \in Slot |-> IF s \in DOMAIN admit THEN admit[s]
                                ELSE IF s \in gone THEN NoExpert ELSE table[s]]
    /\ state' = [s \in Slot |-> IF s \in DOMAIN admit THEN "Loading" ELSE state[s]]
    /\ pending_reads' = [s \in Slot |-> IF s \in DOMAIN admit
                                        THEN Cardinality(Component)
                                        ELSE pending_reads[s]]

JobsOf(S) == {j \in Job : j[1] \in S}

-----------------------------------------------------------------------------
(* Compute threads *)

Idle(c) == opc = "run" /\ cpc[c] = "idle"

(* The advisory jobs that a demand for K promotes to io_jobs_. *)
Promoted(K) ==
    {j \in low_priority_io_jobs : table[j[1]] \in K /\ IsLoading(j[1])}

(* request_many: drop failed residencies, promote, reserve, enqueue. *)
RequestMany(c, l, K) ==
    /\ Idle(c)
    /\ LET gone == DropFailed(K)
           missing == {k \in K : Find(k) \ gone = {}}
           promoted == Promoted(K)
       IN \E victims \in SUBSET Evictable(Pool(l) \ gone) :
          \E admit \in Admissions(Slot \ (InTable \ (gone \cup victims)), missing) :
            /\ Reservation(l, missing, gone, victims, admit, FALSE)
            /\ Install(gone \cup victims, admit)
            /\ io_jobs' = io_jobs \cup promoted \cup JobsOf(DOMAIN admit)
            /\ low_priority_io_jobs' = low_priority_io_jobs \ promoted
            /\ cpc' = [cpc EXCEPT ![c] =
                          IF promoted = {} /\ DOMAIN admit = {} THEN "idle" ELSE "kick"]
    /\ UNCHANGED <<pins, buffer, workerVars, want, pin, lease, asleep, tasks, ppc, opc>>

(* io_cv_.notify_all() of a thread that queued or promoted reads. *)
WakeWorkers == wpc' = [w \in Worker |-> IF wpc[w] = "sleep" THEN "run" ELSE wpc[w]]

KickSilently(c) ==
    /\ cpc[c] = "kick"
    /\ cpc' = [cpc EXCEPT ![c] = IF pin[c] = NoSlot THEN "idle" ELSE "load"]
    /\ UNCHANGED <<entryVars, pins, buffer, queueVars, workerVars, want, pin, lease,
                   asleep, tasks, ppc, opc>>
Kick(c) ==
    /\ cpc[c] = "kick"
    /\ WakeWorkers
    /\ cpc' = [cpc EXCEPT ![c] = IF pin[c] = NoSlot THEN "idle" ELSE "load"]
    /\ UNCHANGED <<entryVars, pins, buffer, queueVars, wjob, want, pin, lease,
                   asleep, tasks, ppc, opc>>

KeepPinAfterFailure(n) == n
(* ~PendingPin, when acquire_impl returns without a lease. *)
UnpinAfterFailure(n) == n - 1

(***************************************************************************)
(* The tail of acquire_impl, with the entry s found or reserved: hold the  *)
(* pin; sleep while it loads; transfer the pin to the lease when it is     *)
(* ready; drop the pin and notify when it failed.                          *)
(***************************************************************************)
Await(c, k, s) ==
    LET fresh == IF pin[c] = s THEN 0 ELSE 1
    IN  \/ /\ IsLoading(s)
           /\ pins' = [pins EXCEPT ![s] = @ + fresh]
           /\ pin' = [pin EXCEPT ![c] = s]
           /\ want' = [want EXCEPT ![c] = k]
           /\ cpc' = [cpc EXCEPT ![c] = "load"]
           /\ asleep' = asleep \cup {c}
           /\ UNCHANGED lease
        \/ /\ state[s] = "Ready"
           /\ pins' = [pins EXCEPT ![s] = @ + fresh]
           /\ pin' = [pin EXCEPT ![c] = NoSlot]
           /\ want' = [want EXCEPT ![c] = NoExpert]
           /\ lease' = [lease EXCEPT ![c] = @ \cup {<<s, k>>}]
           /\ cpc' = [cpc EXCEPT ![c] = "idle"]
           /\ UNCHANGED asleep
        \/ /\ state[s] = "Failed"
           /\ pins' = [pins EXCEPT ![s] = UnpinAfterFailure(@ + fresh)]
           /\ pin' = [pin EXCEPT ![c] = NoSlot]
           /\ want' = [want EXCEPT ![c] = NoExpert]
           /\ cpc' = [cpc EXCEPT ![c] = "idle"]
           /\ asleep' = {}
           /\ UNCHANGED lease

(* acquire_impl with no entry: reserve and pin one, or sleep for a slot. *)
ReserveOrSleep(c, k, gone) ==
    LET l == LayerOf[k]
    IN  \E victims \in SUBSET Evictable(Pool(l) \ gone) :
        \E admit \in Admissions(Slot \ (InTable \ (gone \cup victims)), {k}) :
          /\ Reservation(l, {k}, gone, victims, admit, FALSE)
          /\ Install(gone \cup victims, admit)
          /\ io_jobs' = io_jobs \cup JobsOf(DOMAIN admit)
          /\ want' = [want EXCEPT ![c] = k]
          /\ pins' = [s \in Slot |-> IF s \in DOMAIN admit THEN pins[s] + 1 ELSE pins[s]]
          /\ \/ /\ DOMAIN admit = {}
                /\ cpc' = [cpc EXCEPT ![c] = "slot"]
                /\ asleep' = asleep \cup {c}
                /\ UNCHANGED pin
             \/ \E s \in DOMAIN admit :
                /\ cpc' = [cpc EXCEPT ![c] = "kick"]
                /\ pin' = [pin EXCEPT ![c] = s]
                /\ UNCHANGED asleep

(***************************************************************************)
(* borrow().  A ready entry is leased at once, with or without `wait'.     *)
(* A blocking borrow is only made by a thread that holds no lease: the     *)
(* batched and the CUDA paths, which hold several, borrow with wait=false. *)
(***************************************************************************)
BorrowFound(c, k) ==
    /\ Idle(c)
    /\ Cap(LayerOf[k]) >= 1
    /\ \E s \in Find(k) :
        /\ <<s, k>> \notin lease[c]
        /\ state[s] # "Ready" => lease[c] = {} /\ s \notin DropFailed({k})
        /\ Await(c, k, s)
    /\ UNCHANGED <<entryVars, buffer, queueVars, workerVars, tasks, ppc, opc>>

BorrowMissing(c, k) ==
    /\ Idle(c)
    /\ Cap(LayerOf[k]) >= 1
    /\ lease[c] = {}
    /\ Find(k) \ DropFailed({k}) = {}
    /\ ReserveOrSleep(c, k, DropFailed({k}))
    /\ UNCHANGED <<buffer, low_priority_io_jobs, workerVars, lease, tasks, ppc, opc>>

(* Faulty: what was looked up before the wait is reserved after it. *)
SlotWakeWithoutLooking(c) ==
    /\ cpc[c] = "slot" /\ c \notin asleep
    /\ ReserveOrSleep(c, want[c], {})
    /\ UNCHANGED <<buffer, low_priority_io_jobs, workerVars, lease, tasks, ppc, opc>>

(* Woken while waiting for a slot: the pair may have been loaded by another. *)
SlotWake(c) ==
    /\ cpc[c] = "slot" /\ c \notin asleep
    /\ \/ /\ \E s \in Find(want[c]) : Await(c, want[c], s)
          /\ UNCHANGED <<entryVars, queueVars>>
       \/ /\ Find(want[c]) = {}
          /\ ReserveOrSleep(c, want[c], {})
          /\ UNCHANGED <<low_priority_io_jobs, lease>>
    /\ UNCHANGED <<buffer, workerVars, tasks, ppc, opc>>

(* Woken (or back from notifying the workers) while the pinned entry loads. *)
LoadWake(c) ==
    /\ cpc[c] = "load" /\ c \notin asleep
    /\ Await(c, want[c], pin[c])
    /\ UNCHANGED <<entryVars, buffer, queueVars, workerVars, tasks, ppc, opc>>

(* release_lease: unpin under the lock, then notify outside it. *)
ReleaseLease(c, t) ==
    /\ cpc[c] = "idle" /\ t \in lease[c]
    /\ lease' = [lease EXCEPT ![c] = @ \ {t}]
    /\ pins' = [pins EXCEPT ![t[1]] = @ - 1]
    /\ cpc' = [cpc EXCEPT ![c] = "notify"]
    /\ UNCHANGED <<entryVars, buffer, queueVars, workerVars, want, pin, asleep,
                   tasks, ppc, opc>>

NotifyNobody(c) ==
    /\ cpc[c] = "notify"
    /\ cpc' = [cpc EXCEPT ![c] = "idle"]
    /\ UNCHANGED <<entryVars, pins, buffer, queueVars, workerVars, want, pin, lease,
                   asleep, tasks, ppc, opc>>
NotifyReady(c) ==
    /\ cpc[c] = "notify"
    /\ asleep' = {}
    /\ cpc' = [cpc EXCEPT ![c] = "idle"]
    /\ UNCHANGED <<entryVars, pins, buffer, queueVars, workerVars, want, pin, lease,
                   tasks, ppc, opc>>

(* evict(): the streaming window gives up an expert it has consumed. *)
Evict(c, k) ==
    /\ Idle(c)
    /\ \E s \in Find(k) \cap Evictable(InTable) :
        table' = [table EXCEPT ![s] = NoExpert]
    /\ UNCHANGED <<state, pending_reads, pins, buffer, queueVars, workerVars,
                   clientVars, asleep, tasks, ppc, opc>>

SubmitTaskUnbounded(c) ==
    /\ Idle(c)
    /\ tasks' = tasks + 1
    /\ ppc' = IF ppc = "sleep" THEN "run" ELSE ppc
    /\ UNCHANGED <<entryVars, pins, buffer, queueVars, workerVars, clientVars,
                   asleep, opc>>
(* submit_cross_layer_task: dropped when the queue is full. *)
SubmitTask(c) ==
    /\ Idle(c)
    /\ tasks < MaxTasks
    /\ tasks' = tasks + 1
    /\ ppc' = IF ppc = "sleep" THEN "run" ELSE ppc
    /\ UNCHANGED <<entryVars, pins, buffer, queueVars, workerVars, clientVars,
                   asleep, opc>>

-----------------------------------------------------------------------------
(* The cross-layer worker *)

PredictTake ==
    /\ ppc = "run"
    /\ ppc' = IF opc # "run" THEN "exit" ELSE IF tasks > 0 THEN "task" ELSE "sleep"
    /\ tasks' = IF opc = "run" /\ tasks > 0 THEN tasks - 1 ELSE tasks
    /\ UNCHANGED <<entryVars, pins, buffer, queueVars, workerVars, clientVars,
                   asleep, opc>>

(* The task body: prefetch_many of the predicted route of layer l. *)
Prefetch(l, K) ==
    /\ ppc = "task"
    /\ LET gone == DropFailed(K)
           missing == {k \in K : Find(k) \ gone = {}}
       IN \E victims \in SUBSET Evictable(Pool(l) \ gone) :
          \E admit \in Admissions(Slot \ (InTable \ (gone \cup victims)), missing) :
            /\ Reservation(l, missing, gone, victims, admit, TRUE)
            /\ Install(gone \cup victims, admit)
            /\ low_priority_io_jobs' = low_priority_io_jobs \cup JobsOf(DOMAIN admit)
            /\ ppc' = IF DOMAIN admit = {} THEN "run" ELSE "kick"
    /\ UNCHANGED <<pins, buffer, io_jobs, workerVars, clientVars, asleep, tasks, opc>>

PredictKick ==
    /\ ppc = "kick"
    /\ WakeWorkers
    /\ ppc' = "run"
    /\ UNCHANGED <<entryVars, pins, buffer, queueVars, wjob, clientVars, asleep,
                   tasks, opc>>

-----------------------------------------------------------------------------
(* I/O workers *)

DemandJobsOnly == io_jobs
(* io_worker_main takes a demand job before an advisory one. *)
NextJobs == IF io_jobs # {} THEN io_jobs ELSE low_priority_io_jobs

WorkerTake(w) ==
    /\ wpc[w] = "run"
    /\ \/ \E j \in NextJobs :
            /\ wjob' = [wjob EXCEPT ![w] = j]
            /\ wpc' = [wpc EXCEPT ![w] = "read"]
            /\ IF io_jobs # {}
               THEN io_jobs' = io_jobs \ {j} /\ UNCHANGED low_priority_io_jobs
               ELSE /\ low_priority_io_jobs' = low_priority_io_jobs \ {j}
                    /\ UNCHANGED io_jobs
       \/ /\ NextJobs = {}
          /\ wpc' = [wpc EXCEPT ![w] = IF opc = "run" THEN "sleep" ELSE "exit"]
          /\ UNCHANGED <<wjob, queueVars>>
    /\ UNCHANGED <<entryVars, pins, buffer, clientVars, asleep, tasks, ppc, opc>>

(* read_job, outside the lock: fill the buffer of the entry's pair, or fail. *)
WorkerRead(w) ==
    /\ wpc[w] = "read"
    /\ LET s == wjob[w][1]
           c == wjob[w][2]
       IN \/ /\ buffer' = [buffer EXCEPT ![s][c] = table[s]]
             /\ wpc' = [wpc EXCEPT ![w] = "ok"]
          \/ /\ buffer' = [buffer EXCEPT ![s][c] = Junk]
             /\ wpc' = [wpc EXCEPT ![w] = "fail"]
    /\ UNCHANGED <<entryVars, pins, queueVars, wjob, clientVars, asleep, tasks, ppc, opc>>

FailedAtOnce(st, ok, left) ==
    IF ~ok THEN "Failed" ELSE IF left = 0 THEN "Ready" ELSE st
(* The Entry::State after a read ended: ok or not, `left' reads outstanding. *)
StateAfterRead(st, ok, left) ==
    LET mid == IF ~ok /\ st = "Loading" THEN "LoadingFailed" ELSE st
    IN  IF left = 0 THEN IF mid = "LoadingFailed" THEN "Failed" ELSE "Ready"
        ELSE mid

(* The completion section of io_worker_main. *)
WorkerComplete(w) ==
    /\ wpc[w] \in {"ok", "fail"}
    /\ LET s == wjob[w][1]
           left == IF pending_reads[s] > 0 THEN pending_reads[s] - 1 ELSE 0
       IN  /\ pending_reads' = [pending_reads EXCEPT ![s] = left]
           /\ state' = [state EXCEPT ![s] = StateAfterRead(@, wpc[w] = "ok", left)]
    /\ wpc' = [wpc EXCEPT ![w] = "notify"]
    /\ wjob' = [wjob EXCEPT ![w] = NoJob]
    /\ UNCHANGED <<table, pins, buffer, queueVars, clientVars, asleep, tasks, ppc, opc>>

WorkerNotify(w) ==
    /\ wpc[w] = "notify"
    /\ asleep' = {}
    /\ wpc' = [wpc EXCEPT ![w] = "run"]
    /\ UNCHANGED <<entryVars, pins, buffer, queueVars, wjob, clientVars, tasks, ppc, opc>>

-----------------------------------------------------------------------------
(* The owner *)

MayClearIgnoringReads ==
    /\ io_jobs = {} /\ low_priority_io_jobs = {}
    /\ \A s \in InTable : pins[s] = 0
MayClear ==
    /\ io_jobs = {} /\ low_priority_io_jobs = {}
    /\ \A s \in InTable : ~Busy(s)

(* clear_resident: refused while a read is queued or running or a pair pinned. *)
ClearResident ==
    /\ opc = "run"
    /\ MayClear
    /\ table' = [s \in Slot |-> NoExpert]
    /\ UNCHANGED <<state, pending_reads, pins, buffer, queueVars, workerVars,
                   clientVars, asleep, tasks, ppc, opc>>

(***************************************************************************)
(* open() on an open cache, and the destructor: the caller has stopped new *)
(* requests and holds no lease.  stop_io_ is set, the workers drain both   *)
(* queues, the predictor finishes its task, then everything is reset.      *)
(***************************************************************************)
Stop ==
    /\ opc = "run"
    /\ \A c \in Client : cpc[c] = "idle" /\ lease[c] = {}
    /\ \A s \in InTable : pins[s] = 0
    /\ opc' = "kick"
    /\ UNCHANGED <<entryVars, pins, buffer, queueVars, workerVars, clientVars,
                   asleep, tasks, ppc>>

StopKickWorkersOnly ==
    /\ opc = "kick"
    /\ WakeWorkers
    /\ opc' = "join"
    /\ UNCHANGED <<entryVars, pins, buffer, queueVars, wjob, clientVars, asleep,
                   tasks, ppc>>
StopKick ==
    /\ opc = "kick"
    /\ WakeWorkers
    /\ ppc' = IF ppc = "sleep" THEN "run" ELSE ppc
    /\ opc' = "join"
    /\ UNCHANGED <<entryVars, pins, buffer, queueVars, wjob, clientVars, asleep, tasks>>

Reopen ==
    /\ opc = "join"
    /\ \A w \in Worker : wpc[w] = "exit"
    /\ ppc = "exit"
    /\ table' = [s \in Slot |-> NoExpert]
    /\ io_jobs' = {} /\ low_priority_io_jobs' = {}
    /\ tasks' = 0
    /\ wpc' = [w \in Worker |-> "run"]
    /\ ppc' = "run"
    /\ opc' = "run"
    /\ UNCHANGED <<state, pending_reads, pins, buffer, wjob, clientVars, asleep>>

-----------------------------------------------------------------------------

(* The routes a layer can be asked for. *)
Routes(l) == SUBSET {k \in Expert : LayerOf[k] = l} \ {{}}

ClientStep(c) ==
    \/ \E l \in Layer : \E K \in Routes(l) : RequestMany(c, l, K)
    \/ \E k \in Expert : BorrowFound(c, k) \/ BorrowMissing(c, k) \/ Evict(c, k)
    \/ \E t \in lease[c] : ReleaseLease(c, t)
    \/ SubmitTask(c) \/ Kick(c) \/ SlotWake(c) \/ LoadWake(c) \/ NotifyReady(c)

PredictorStep ==
    \/ PredictTake \/ PredictKick
    \/ \E l \in Layer : \E K \in Routes(l) : Prefetch(l, K)

WorkerStep(w) == WorkerTake(w) \/ WorkerRead(w) \/ WorkerComplete(w) \/ WorkerNotify(w)

OwnerStep == ClearResident \/ Stop \/ StopKick \/ Reopen

Next ==
    \/ \E c \in Client : ClientStep(c)
    \/ \E w \in Worker : WorkerStep(w)
    \/ PredictorStep
    \/ OwnerStep

Spec == Init /\ [][Next]_vars

-----------------------------------------------------------------------------
(* Derived state *)

(* The jobs that have not been completed: queued, or held by a worker. *)
Outstanding == io_jobs \cup low_priority_io_jobs \cup
               {wjob[w] : w \in {v \in Worker : wjob[v] # NoJob}}

(* The components of s whose read is outstanding. *)
Reading(s) == {c \in Component : <<s, c>> \in Outstanding}

(* The compute threads that hold a pin on s: a lease, or a blocked borrow. *)
Holders(s) ==
    {c \in Client : pin[c] = s \/ \E t \in lease[c] : t[1] = s}

(* Somebody is about to call ready_cv_.notify_all(). *)
NotifyPending ==
    (\E w \in Worker : wpc[w] = "notify") \/ (\E c \in Client : cpc[c] = "notify")

-----------------------------------------------------------------------------
(* Safety *)

(* A queued or running read always belongs to an entry that is still in    *)
(* the table and still loading: no eviction, clear or reopen ever frees or *)
(* recycles the buffers a worker is about to write (io_worker_main keeps   *)
(* raw Entry pointers across the unlocked read).                           *)
ReadsTargetLoadingEntries ==
    \A j \in Outstanding : table[j[1]] # NoExpert /\ IsLoading(j[1])

(* The other direction: an entry that is loading has a read outstanding    *)
(* for every one it counts, so that pending_reads reaches 0 exactly when   *)
(* the last of them ends and the entry cannot stay loading for ever.       *)
LoadingEntriesHaveReads ==
    \A s \in InTable :
        /\ pending_reads[s] = Cardinality(Reading(s))
        /\ IsLoading(s) <=> Reading(s) # {}

(* Reads and entries agree, both ways, whatever requests, promotions,      *)
(* evictions, clears and stops come between the submission and the end.    *)
ReadsMatchEntries == ReadsTargetLoadingEntries /\ LoadingEntriesHaveReads

(* What a borrower computes with: for as long as a lease lives, its entry  *)
(* holds every component of the pair that was borrowed, whatever requests, *)
(* evictions, clears and failed reads the other threads make.              *)
LeasesHoldTheirWeights ==
    \A c \in Client : \A t \in lease[c] :
        /\ table[t[1]] = t[2]
        /\ \A x \in Component : buffer[t[1]][x] = t[2]

(* pins counts the leases and blocked borrows of an entry, no more and no  *)
(* fewer: a leaked pin would make the entry unevictable for ever, a lost   *)
(* one would free weights in use.                                          *)
PinsAreHolders == \A s \in Slot : pins[s] = Cardinality(Holders(s))

(* One pair is never resident twice, and a pool never holds more pairs     *)
(* than its capacity (--ssd-cache-mb is a bound, not a hint).              *)
CapacityRespected ==
    /\ \A s, r \in InTable : table[s] = table[r] => s = r
    /\ \A l \in Layer : Cardinality(Pool(l)) <= Cap(l)

(* No notify is lost.  A thread that sleeps for its entry sleeps on one    *)
(* that is loading, and one that sleeps for a slot sleeps on a full pool   *)
(* in which every entry is busy; otherwise some thread is already on its   *)
(* way to notify ready_cv_.  Reads in a queue have a worker that runs, or  *)
(* a thread about to notify io_cv_.                                        *)
NoLostWakeup ==
    /\ \A c \in asleep :
        \/ NotifyPending
        \/ cpc[c] = "load" /\ IsLoading(pin[c])
        \/ /\ cpc[c] = "slot"
           /\ Cardinality(Pool(LayerOf[want[c]])) = Cap(LayerOf[want[c]])
           /\ \A s \in Pool(LayerOf[want[c]]) : Busy(s)
    /\ io_jobs \cup low_priority_io_jobs # {} =>
        \/ \E w \in Worker : wpc[w] \notin {"sleep", "exit"}
        \/ \E c \in Client : cpc[c] = "kick"
        \/ ppc = "kick"
        \/ opc # "run"

-----------------------------------------------------------------------------
(* The specification of the provider that this cache implements. *)

Held == [c \in Client |-> {<<t[1], t[2], buffer[t[1]]>> : t \in lease[c]}]
Provider == INSTANCE ExpertProvider WITH held <- Held
ProviderSpec == Provider!Spec

-----------------------------------------------------------------------------
(***************************************************************************)
(* Fairness: the operating system runs every thread that can run.  A       *)
(* compute thread is only obliged to finish the call it is in; it need not *)
(* make requests or give leases back.                                      *)
(***************************************************************************)
Fairness ==
    /\ \A w \in Worker : WF_vars(WorkerStep(w))
    /\ WF_vars(PredictorStep)
    /\ WF_vars(StopKick \/ Reopen)
    /\ \A c \in Client :
        WF_vars(Kick(c) \/ SlotWake(c) \/ LoadWake(c) \/ NotifyReady(c))

FairSpec == Spec /\ Fairness

(* A blocked borrow() returns: with weights, or false after a failed read. *)
BorrowReturns == \A c \in Client : cpc[c] \in {"kick", "slot", "load"} ~> cpc[c] = "idle"

(* stop_io_workers joins every thread it started. *)
StopCompletes == opc # "run" ~> opc = "run"
=============================================================================
