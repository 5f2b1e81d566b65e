----------------------------- MODULE ThreadPool -----------------------------
(***************************************************************************)
(* runtime/threading: the pool of spinning compute threads, as the thread  *)
(* that owns it (thread 0) and its workers see it.  A dispatch publishes   *)
(* job_, counts the workers it needs in pending_workers_ and raises their  *)
(* flags; each of them runs a static shard (parallel_for) or steals jobs   *)
(* (parallel_for_2d).  Idle workers spin on their flag, or block on        *)
(* park_cv_ while the pool is parked; resize() stops and joins them.       *)
(*                                                                         *)
(* One action is one access to a shared atomic, or one critical section of *)
(* park_mtx_.  Atomics are sequentially consistent here; the code's        *)
(* release stores and acquire loads order all that the model orders.       *)
(***************************************************************************)
EXTENDS Integers, FiniteSets, Sharding

CONSTANTS
    MaxThreads,      \* bound of num_threads_
    Call,            \* the dispatches the owner may make
    MaxGenerations,  \* bound of job_.generation between two resizes
    NoCall

(***************************************************************************)
(* A dispatch: parallel_for over m elements with grain size `tile', or     *)
(* parallel_for_2d over m x n with its tile sizes.  The one dimension      *)
(* has n = 1.  (begin is 0: only end - begin and offsets from it matter.)  *)
(***************************************************************************)
Positive == Nat \ {0}
CallType == [dim : {1, 2}, m : Positive, tile : Positive, n : Positive, block : Positive]

ASSUME PoolAssumption ==
    /\ MaxThreads \in Positive
    /\ MaxGenerations \in Nat
    /\ Call \subseteq CallType
    /\ \A c \in Call : c.dim = 1 => c.n = 1 /\ c.block = 1
    /\ NoCall \notin Call

VARIABLES
    num_threads,        \* num_threads_
    workers_started,    \* workers_started_
    parked, stop,       \* parked_, stop_
    ready,              \* worker_ready_
    pending_workers,    \* pending_workers_
    job,                \* the published fields of job_: the call, active_threads
    generation,         \* job_.generation
    current_chunk,      \* job_.current_chunk
    call,               \* the dispatch the owner is in, NoCall outside
    mpc,                \* the owner: where it is
    turn,               \* the loop variable t of a loop over worker_ready_
    new_size,           \* the argument of resize()
    wpc,                \* the workers: where they are
    seen_generation,    \* their local of that name
    piece,              \* the cells a thread is running fn on
    todo                \* history: the cells of the call nobody has run fn on

poolVars == <<num_threads, workers_started, new_size>>
jobVars == <<job, generation>>
parkVars == <<parked, stop>>
vars == <<num_threads, workers_started, parked, stop, ready, pending_workers, job,
          generation, current_chunk, call, mpc, turn, new_size, wpc,
          seen_generation, piece, todo>>

Worker == 1..(MaxThreads - 1)
Thread == 0..(MaxThreads - 1)

-----------------------------------------------------------------------------
(* The index arithmetic *)

Cells(c) == (0..(c.m - 1)) \X (0..(c.n - 1))

(* total_chunks of parallel_for, total_jobs of parallel_for_2d. *)
Jobs(c) == Chunks(c.m, c.tile) * Chunks(c.n, c.block)

(* The cells decode_2d_job gives to job j. *)
Tile(c, j) ==
    LET m_tiles == Chunks(c.m, c.tile)
        m_begin == (j % m_tiles) * c.tile
        n_begin == (j \div m_tiles) * c.block
    IN  (m_begin .. (Least(m_begin + c.tile, c.m) - 1))
          \X (n_begin .. (Least(n_begin + c.block, c.n) - 1))

ActiveThreads(c) == Least(num_threads, Jobs(c))

NoJob == [call |-> NoCall, active |-> 1]

(* The one type invariant of the module. *)
TypeOK ==
    /\ num_threads \in 1..MaxThreads /\ new_size \in 1..MaxThreads
    /\ workers_started \in BOOLEAN /\ parked \in BOOLEAN /\ stop \in BOOLEAN
    /\ ready \in [Worker -> BOOLEAN]
    /\ pending_workers \in Int
    /\ job \in [call : Call \cup {NoCall}, active : 1..MaxThreads]
    /\ generation \in Nat /\ current_chunk \in Nat
    /\ call \in Call \cup {NoCall}
    /\ mpc \in {"idle", "inline", "start", "resume", "notify", "publish", "pend",
                "flag", "own", "run", "wait", "return",
                "sflag", "slock", "snotify", "join"}
    /\ turn \in 1..MaxThreads
    /\ wpc \in [Worker -> {"off", "spin", "flag", "idle", "lock", "test", "block",
                           "asleep", "take", "skip", "accept", "work", "grab",
                           "run", "done", "exit"}]
    /\ seen_generation \in [Worker -> Nat]
    /\ piece \in [Thread -> SUBSET (Nat \X Nat)]
    /\ todo \in SUBSET (Nat \X Nat)

(* ThreadPool(n) *)
Init ==
    /\ num_threads \in 1..MaxThreads /\ new_size = num_threads
    /\ workers_started = FALSE /\ parked = FALSE /\ stop = FALSE
    /\ ready = [w \in Worker |-> FALSE]
    /\ pending_workers = 0
    /\ job = NoJob
    /\ generation = 0 /\ current_chunk = 0
    /\ call = NoCall
    /\ mpc = "idle"
    /\ turn = 1
    /\ wpc = [w \in Worker |-> "off"]
    /\ seen_generation = [w \in Worker |-> 0]
    /\ piece = [t \in Thread |-> {}]
    /\ todo = {}

-----------------------------------------------------------------------------
(* The owner: a dispatch *)

BeginCall(c) ==
    /\ mpc = "idle" /\ generation < MaxGenerations
    /\ call' = c
    /\ todo' = Cells(c)
    /\ mpc' = IF ActiveThreads(c) <= 1 THEN "inline" ELSE "start"
    /\ UNCHANGED <<poolVars, parkVars, ready, pending_workers, jobVars,
                   current_chunk, turn, wpc, seen_generation, piece>>

(* One active thread: the owner runs everything, job_ is not touched. *)
RunInline ==
    /\ mpc = "inline"
    /\ piece' = [piece EXCEPT ![0] = todo]
    /\ todo' = {}
    /\ mpc' = "run"
    /\ UNCHANGED <<poolVars, parkVars, ready, pending_workers, jobVars,
                   current_chunk, call, turn, wpc, seen_generation>>

(* ensure_workers_started, then the test for an automatic resume. *)
EnsureWorkersStarted ==
    /\ mpc = "start"
    /\ workers_started' = TRUE
    /\ IF workers_started
       THEN /\ mpc' = IF parked THEN "resume" ELSE "publish"
            /\ UNCHANGED <<parked, wpc, seen_generation>>
       ELSE /\ parked' = FALSE
            /\ wpc' = [w \in Worker |-> IF w < num_threads THEN "spin" ELSE "off"]
            /\ seen_generation' = [w \in Worker |-> 0]
            /\ mpc' = "publish"
    /\ UNCHANGED <<num_threads, new_size, stop, ready, pending_workers, jobVars,
                   current_chunk, call, turn, piece, todo>>

PublishStaleChunk ==
    /\ mpc = "publish"
    /\ job' = [call |-> call, active |-> ActiveThreads(call)]
    /\ UNCHANGED current_chunk
    /\ generation' = generation + 1
    /\ mpc' = "pend"
    /\ UNCHANGED <<poolVars, parkVars, ready, pending_workers, call, turn, wpc,
                   seen_generation, piece, todo>>
(* The fields of job_, and its new generation. *)
Publish ==
    /\ mpc = "publish"
    /\ job' = [call |-> call, active |-> ActiveThreads(call)]
    /\ current_chunk' = IF call.dim = 2 THEN 0 ELSE current_chunk
    /\ generation' = generation + 1
    /\ mpc' = "pend"
    /\ UNCHANGED <<poolVars, parkVars, ready, pending_workers, call, turn, wpc,
                   seen_generation, piece, todo>>

SetPendingForAll ==
    /\ mpc = "pend"
    /\ pending_workers' = ActiveThreads(call)
    /\ turn' = 1
    /\ mpc' = "flag"
    /\ UNCHANGED <<poolVars, parkVars, ready, jobVars, current_chunk, call, wpc,
                   seen_generation, piece, todo>>
(* pending_workers_ counts everyone but the owner. *)
SetPending ==
    /\ mpc = "pend"
    /\ pending_workers' = ActiveThreads(call) - 1
    /\ turn' = 1
    /\ mpc' = "flag"
    /\ UNCHANGED <<poolVars, parkVars, ready, jobVars, current_chunk, call, wpc,
                   seen_generation, piece, todo>>

RaiseFlag ==
    /\ mpc = "flag"
    /\ ready' = [ready EXCEPT ![turn] = TRUE]
    /\ turn' = turn + 1
    /\ mpc' = IF turn + 1 = ActiveThreads(call) THEN "own" ELSE "flag"
    /\ UNCHANGED <<poolVars, parkVars, pending_workers, jobVars, current_chunk,
                   call, wpc, seen_generation, piece, todo>>

(* Thread t starts to run fn on the cells of S. *)
RunOn(t, S) ==
    /\ piece' = [piece EXCEPT ![t] = S]
    /\ todo' = todo \ S

(* The owner's shard 0, or its next stolen job. *)
OwnWork ==
    /\ mpc = "own"
    /\ \/ /\ call.dim = 1
          /\ RunOn(0, Shard(call.m, call.tile, ActiveThreads(call), 0) \X {0})
          /\ mpc' = "run"
          /\ UNCHANGED current_chunk
       \/ /\ call.dim = 2
          /\ current_chunk' = current_chunk + 1
          /\ IF current_chunk < Jobs(call)
             THEN RunOn(0, Tile(call, current_chunk)) /\ mpc' = "run"
             ELSE mpc' = "wait" /\ UNCHANGED <<piece, todo>>
    /\ UNCHANGED <<poolVars, parkVars, ready, pending_workers, jobVars, call,
                   turn, wpc, seen_generation>>

OwnDone ==
    /\ mpc = "run"
    /\ piece' = [piece EXCEPT ![0] = {}]
    /\ mpc' = IF ActiveThreads(call) <= 1 THEN "return"
              ELSE IF call.dim = 1 THEN "wait" ELSE "own"
    /\ UNCHANGED <<poolVars, parkVars, ready, pending_workers, jobVars,
                   current_chunk, call, turn, wpc, seen_generation, todo>>

WaitForOneFewer ==
    /\ mpc = "wait" /\ pending_workers <= 1
    /\ mpc' = "return"
    /\ UNCHANGED <<poolVars, parkVars, ready, pending_workers, jobVars,
                   current_chunk, call, turn, wpc, seen_generation, piece, todo>>
(* The spin on pending_workers_ ends. *)
WaitForWorkers ==
    /\ mpc = "wait" /\ pending_workers <= 0
    /\ mpc' = "return"
    /\ UNCHANGED <<poolVars, parkVars, ready, pending_workers, jobVars,
                   current_chunk, call, turn, wpc, seen_generation, piece, todo>>

(* job_.fn is reset; the caller goes on. *)
Return ==
    /\ mpc = "return"
    /\ call' = NoCall
    /\ mpc' = "idle"
    /\ UNCHANGED <<poolVars, parkVars, ready, pending_workers, jobVars,
                   current_chunk, turn, wpc, seen_generation, piece, todo>>

-----------------------------------------------------------------------------
(* The owner: park(), resume(), resize() *)

(* A worker owns park_mtx_ from its lock until it leaves or blocks. *)
MutexFree == \A w \in Worker : wpc[w] \notin {"test", "block"}

Park ==
    /\ mpc = "idle" /\ MutexFree
    /\ parked' = TRUE
    /\ UNCHANGED <<poolVars, stop, ready, pending_workers, jobVars, current_chunk,
                   call, mpc, turn, wpc, seen_generation, piece, todo>>

(* An explicit resume(). *)
CallResume ==
    /\ mpc = "idle"
    /\ mpc' = "resume"
    /\ UNCHANGED <<poolVars, parkVars, ready, pending_workers, jobVars,
                   current_chunk, call, turn, wpc, seen_generation, piece, todo>>

Resume ==
    /\ mpc = "resume" /\ MutexFree
    /\ parked' = FALSE
    /\ mpc' = "notify"
    /\ UNCHANGED <<poolVars, stop, ready, pending_workers, jobVars, current_chunk,
                   call, turn, wpc, seen_generation, piece, todo>>

(* park_cv_.notify_all() *)
WakeAll == wpc' = [w \in Worker |-> IF wpc[w] = "asleep" THEN "lock" ELSE wpc[w]]

NotifyNobody ==
    /\ mpc = "notify"
    /\ UNCHANGED wpc
    /\ mpc' = IF call = NoCall THEN "idle" ELSE "publish"
    /\ UNCHANGED <<poolVars, parkVars, ready, pending_workers, jobVars,
                   current_chunk, call, turn, seen_generation, piece, todo>>
Notify ==
    /\ mpc = "notify"
    /\ WakeAll
    /\ mpc' = IF call = NoCall THEN "idle" ELSE "publish"
    /\ UNCHANGED <<poolVars, parkVars, ready, pending_workers, jobVars,
                   current_chunk, call, turn, seen_generation, piece, todo>>

(* resize(n), or n = num_threads with another idle_yield_period: stop_workers. *)
Resize(n) ==
    /\ mpc = "idle"
    /\ new_size' = n
    /\ stop' = TRUE
    /\ turn' = 1
    /\ mpc' = "sflag"
    /\ UNCHANGED <<num_threads, workers_started, parked, ready, pending_workers,
                   jobVars, current_chunk, call, wpc, seen_generation, piece, todo>>

RaiseOneFlagTooMany ==
    /\ mpc = "sflag"
    /\ IF turn <= num_threads
       THEN /\ ready' = [ready EXCEPT ![turn] = TRUE]
            /\ turn' = turn + 1
            /\ UNCHANGED mpc
       ELSE mpc' = "slock" /\ UNCHANGED <<ready, turn>>
    /\ UNCHANGED <<poolVars, parkVars, pending_workers, jobVars, current_chunk,
                   call, wpc, seen_generation, piece, todo>>
(* The loop of stop_workers over worker_ready_. *)
RaiseAllFlags ==
    /\ mpc = "sflag"
    /\ IF turn < num_threads
       THEN /\ ready' = [ready EXCEPT ![turn] = TRUE]
            /\ turn' = turn + 1
            /\ UNCHANGED mpc
       ELSE mpc' = "slock" /\ UNCHANGED <<ready, turn>>
    /\ UNCHANGED <<poolVars, parkVars, pending_workers, jobVars, current_chunk,
                   call, wpc, seen_generation, piece, todo>>

SkipStopLock ==
    /\ mpc = "slock"
    /\ mpc' = "snotify"
    /\ UNCHANGED <<poolVars, parkVars, ready, pending_workers, jobVars,
                   current_chunk, call, turn, wpc, seen_generation, piece, todo>>
(* The empty critical section of stop_workers. *)
StopLock ==
    /\ mpc = "slock" /\ MutexFree
    /\ mpc' = "snotify"
    /\ UNCHANGED <<poolVars, parkVars, ready, pending_workers, jobVars,
                   current_chunk, call, turn, wpc, seen_generation, piece, todo>>

StopNotify ==
    /\ mpc = "snotify"
    /\ WakeAll
    /\ mpc' = "join"
    /\ UNCHANGED <<poolVars, parkVars, ready, pending_workers, jobVars,
                   current_chunk, call, turn, seen_generation, piece, todo>>

(* The workers are joined and everything but parked_ starts afresh. *)
Reset ==
    /\ mpc = "join"
    /\ \A w \in Worker : wpc[w] \in {"off", "exit"}
    /\ wpc' = [w \in Worker |-> "off"]
    /\ ready' = [w \in Worker |-> FALSE]
    /\ stop' = FALSE
    /\ pending_workers' = 0
    /\ num_threads' = new_size
    /\ workers_started' = FALSE
    /\ generation' = 0
    /\ mpc' = "idle"
    /\ UNCHANGED <<new_size, parked, job, current_chunk, call, turn,
                   seen_generation, piece, todo>>

-----------------------------------------------------------------------------
(* The workers: worker_loop *)

Goto(w, l) == wpc' = [wpc EXCEPT ![w] = l]

(* The three tests of the spin loop: stop_, the ready flag, parked_.  The   *)
(* last is also the test at wait_park, after a job.                        *)
Spin(w) ==
    /\ wpc[w] = "spin"
    /\ Goto(w, IF stop THEN "exit" ELSE "flag")
    /\ UNCHANGED <<poolVars, parkVars, ready, pending_workers, jobVars,
                   current_chunk, call, mpc, turn, seen_generation, piece, todo>>

TestFlag(w) ==
    /\ wpc[w] = "flag"
    /\ Goto(w, IF ready[w] THEN "take" ELSE "idle")
    /\ UNCHANGED <<poolVars, parkVars, ready, pending_workers, jobVars,
                   current_chunk, call, mpc, turn, seen_generation, piece, todo>>

TestParked(w) ==
    /\ wpc[w] = "idle"
    /\ Goto(w, IF parked THEN "lock" ELSE "spin")
    /\ UNCHANGED <<poolVars, parkVars, ready, pending_workers, jobVars,
                   current_chunk, call, mpc, turn, seen_generation, piece, todo>>

(* park_cv_.wait: take the mutex, test the predicate, block. *)
Lock(w) ==
    /\ wpc[w] = "lock" /\ MutexFree
    /\ Goto(w, "test")
    /\ UNCHANGED <<poolVars, parkVars, ready, pending_workers, jobVars,
                   current_chunk, call, mpc, turn, seen_generation, piece, todo>>

MayLeaveWhenResumed == ~parked
(* The predicate of park_cv_.wait. *)
MayLeave == ~parked \/ stop

TestPredicate(w) ==
    /\ wpc[w] = "test"
    /\ Goto(w, IF MayLeave THEN "spin" ELSE "block")
    /\ UNCHANGED <<poolVars, parkVars, ready, pending_workers, jobVars,
                   current_chunk, call, mpc, turn, seen_generation, piece, todo>>

Block(w) ==
    /\ wpc[w] = "block"
    /\ Goto(w, "asleep")
    /\ UNCHANGED <<poolVars, parkVars, ready, pending_workers, jobVars,
                   current_chunk, call, mpc, turn, seen_generation, piece, todo>>

(* A condition variable may wake for no reason. *)
WakeSpuriously(w) ==
    /\ wpc[w] = "asleep"
    /\ Goto(w, "lock")
    /\ UNCHANGED <<poolVars, parkVars, ready, pending_workers, jobVars,
                   current_chunk, call, mpc, turn, seen_generation, piece, todo>>

(* The generation tells a new dispatch from a flag raised by stop_workers. *)
TakeJob(w) ==
    /\ wpc[w] = "take"
    /\ Goto(w, IF generation = seen_generation[w] THEN "skip" ELSE "accept")
    /\ seen_generation' = [seen_generation EXCEPT ![w] = generation]
    /\ UNCHANGED <<poolVars, parkVars, ready, pending_workers, jobVars,
                   current_chunk, call, mpc, turn, piece, todo>>

ClearFlagLater(w) ==
    /\ wpc[w] \in {"skip", "accept"}
    /\ ready' = [ready EXCEPT ![w] = wpc[w] = "accept"]
    /\ Goto(w, IF wpc[w] = "skip" THEN "spin" ELSE "work")
    /\ UNCHANGED <<poolVars, parkVars, pending_workers, jobVars, current_chunk,
                   call, mpc, turn, seen_generation, piece, todo>>
ClearFlag(w) ==
    /\ wpc[w] \in {"skip", "accept"}
    /\ ready' = [ready EXCEPT ![w] = FALSE]
    /\ Goto(w, IF wpc[w] = "skip" THEN "spin" ELSE "work")
    /\ UNCHANGED <<poolVars, parkVars, pending_workers, jobVars, current_chunk,
                   call, mpc, turn, seen_generation, piece, todo>>

(* Not needed, a static shard of the published job, or jobs to steal. *)
StartWork(w) ==
    /\ wpc[w] = "work"
    /\ \/ /\ w >= job.active
          /\ Goto(w, "done") /\ UNCHANGED <<piece, todo>>
       \/ /\ w < job.active /\ job.call.dim = 2
          /\ Goto(w, "grab") /\ UNCHANGED <<piece, todo>>
       \/ /\ w < job.active /\ job.call.dim = 1
          /\ RunOn(w, Shard(job.call.m, job.call.tile, job.active, w) \X {0})
          /\ Goto(w, "run")
    /\ UNCHANGED <<poolVars, parkVars, ready, pending_workers, jobVars,
                   current_chunk, call, mpc, turn, seen_generation>>

(* current_chunk.fetch_add(1), and the stolen job if there is one. *)
Steal(w) ==
    /\ wpc[w] = "grab"
    /\ current_chunk' = current_chunk + 1
    /\ IF current_chunk < Jobs(job.call)
       THEN RunOn(w, Tile(job.call, current_chunk)) /\ Goto(w, "run")
       ELSE Goto(w, "done") /\ UNCHANGED <<piece, todo>>
    /\ UNCHANGED <<poolVars, parkVars, ready, pending_workers, jobVars, call, mpc,
                   turn, seen_generation>>

WorkDone(w) ==
    /\ wpc[w] = "run"
    /\ piece' = [piece EXCEPT ![w] = {}]
    /\ Goto(w, IF job.call.dim = 2 THEN "grab" ELSE "done")
    /\ UNCHANGED <<poolVars, parkVars, ready, pending_workers, jobVars,
                   current_chunk, call, mpc, turn, seen_generation, todo>>

SignalDone(w) ==
    /\ wpc[w] = "done"
    /\ pending_workers' = pending_workers - 1
    /\ Goto(w, "idle")
    /\ UNCHANGED <<poolVars, parkVars, ready, jobVars, current_chunk, call, mpc,
                   turn, seen_generation, piece, todo>>

-----------------------------------------------------------------------------

(* What the owner does once it is inside a call. *)
OwnerFinishes ==
    \/ RunInline \/ EnsureWorkersStarted \/ Publish \/ SetPending \/ RaiseFlag
    \/ OwnWork \/ OwnDone \/ WaitForWorkers \/ Return
    \/ Notify \/ RaiseAllFlags \/ StopNotify \/ Reset

OwnerLocks == Resume \/ StopLock

OwnerStarts ==
    \/ \E c \in Call : BeginCall(c)
    \/ \E n \in 1..MaxThreads : Resize(n)
    \/ Park \/ CallResume

WorkerStep(w) ==
    \/ Spin(w) \/ TestFlag(w) \/ TestParked(w)
    \/ Lock(w) \/ TestPredicate(w) \/ Block(w)
    \/ TakeJob(w) \/ ClearFlag(w) \/ StartWork(w) \/ Steal(w)
    \/ WorkDone(w) \/ SignalDone(w)

Next ==
    \/ OwnerStarts \/ OwnerFinishes \/ OwnerLocks
    \/ \E w \in Worker : WorkerStep(w) \/ WakeSpuriously(w)

Spec == Init /\ [][Next]_vars

-----------------------------------------------------------------------------
(* Safety *)

(* A worker reads job_ and runs its function only while the call that      *)
(* published them is in progress: none is late, still in the job of a call *)
(* that has returned while the owner rewrites job_ for the next one.  (A   *)
(* worker that stop_workers wakes by its flag gets as far as reading       *)
(* active_threads, and finds that it is not needed.)                       *)
NoLateWorker ==
    \A w \in Worker : wpc[w] \in {"work", "grab", "run"} =>
        \/ /\ mpc \in {"flag", "own", "run", "wait"}
           /\ w < job.active /\ job.call = call
        \/ stop /\ w >= job.active /\ wpc[w] = "work"

(* The owner has published a call and has not seen it end. *)
Dispatching == mpc \in {"flag", "own", "run", "wait"} /\ ActiveThreads(call) > 1

(* The workers a published call still waits for. *)
Unfinished ==
    {w \in Worker : /\ w < job.active
                    /\ \/ seen_generation[w] # generation
                       \/ wpc[w] \in {"accept", "work", "grab", "run", "done"}}

(* pending_workers_ is the number of workers the call still waits for:     *)
(* every one of them counts it down once, after its last piece of work.    *)
PendingCountsUnfinished ==
    Dispatching => pending_workers = Cardinality(Unfinished)

(* No wake-up on park_cv_ is lost: a worker sleeps only while the pool is  *)
(* parked and not stopping, or the owner is about to notify.               *)
SleepersAreWoken ==
    \A w \in Worker : wpc[w] = "asleep" =>
        \/ parked /\ ~stop
        \/ mpc \in {"notify", "sflag", "slock", "snotify"}

(* A dispatched flag is never lost: an active worker that has not yet seen *)
(* the generation of the call has its flag up, or its turn is to come.     *)
FlagsAnnounceJobs ==
    Dispatching =>
        \A w \in Worker :
            w < job.active /\ seen_generation[w] # generation =>
                ready[w] \/ (mpc = "flag" /\ w >= turn)

(* Whatever the order of park, resume, resize and dispatch, no worker is   *)
(* left behind: neither asleep with nobody to notify it nor spinning on a  *)
(* flag that was cleared with its job undone.                              *)
NoWorkerIsForgotten == SleepersAreWoken /\ FlagsAnnounceJobs

(* The fork-join specification this pool implements. *)
Promise == INSTANCE ForkJoin WITH
    Cell <- Nat \X Nat,
    busy <- call # NoCall,
    running <- UNION {piece[t] : t \in Thread}
ForkJoinSpec == Promise!Spec

-----------------------------------------------------------------------------
(***************************************************************************)
(* Fairness: every thread runs, and the owner finishes what it has begun.  *)
(* The owner gets park_mtx_ if it is free again and again: only workers    *)
(* that wake for no reason for ever could keep it from a waiting thread.   *)
(***************************************************************************)
Fairness ==
    /\ WF_vars(OwnerFinishes)
    /\ SF_vars(OwnerLocks)
    /\ \A w \in Worker : WF_vars(WorkerStep(w))

FairSpec == Spec /\ Fairness

(* Every dispatch returns. *)
CallReturns == call # NoCall ~> call = NoCall

(* resize() and the destructor join the workers, parked or not. *)
StopJoins == stop ~> ~stop
=============================================================================
