-------------------------- MODULE ExpertCacheProofs --------------------------
(***************************************************************************)
(* Theorems about ExpertCache for every number of threads, entries,        *)
(* components and pairs.                                                   *)
(***************************************************************************)
EXTENDS ExpertCache, FiniteSetTheorems, TLAPS

(***************************************************************************)
(* Stage 1.  The shape of the state: TypeOK, but for the sign of pins      *)
(* (that no unpin goes below zero is a theorem, not a type), and the       *)
(* control state of each thread.                                           *)
(***************************************************************************)
EntryShape ==
    /\ table \in [Slot -> Expert \cup {NoExpert}]
    /\ state \in [Slot -> States]
    /\ pending_reads \in [Slot -> Nat]
    /\ pins \in [Slot -> Int]
    /\ buffer \in [Slot -> [Component -> Expert \cup {NoExpert, Junk}]]

WorkerShape ==
    /\ io_jobs \subseteq Job /\ low_priority_io_jobs \subseteq Job
    /\ wpc \in [Worker -> {"sleep", "run", "read", "ok", "fail", "notify", "exit"}]
    /\ wjob \in [Worker -> Job \cup {NoJob}]
    /\ \A w \in Worker : wpc[w] \in {"read", "ok", "fail"} <=> wjob[w] # NoJob

ClientShape ==
    /\ cpc \in [Client -> {"idle", "kick", "slot", "load", "notify"}]
    /\ want \in [Client -> Expert \cup {NoExpert}]
    /\ pin \in [Client -> Slot \cup {NoSlot}]
    /\ lease \in [Client -> SUBSET (Slot \X Expert)]
    /\ asleep \subseteq Client
    /\ \A c \in Client : cpc[c] = "slot" => want[c] \in Expert
    /\ \A c \in Client : cpc[c] = "load" => pin[c] \in Slot
    /\ \A c \in Client : pin[c] \in Slot =>
          /\ cpc[c] \in {"kick", "load"}
          /\ want[c] \in Expert
          /\ lease[c] = {}
    /\ \A c \in Client : cpc[c] \in {"slot", "load"} => lease[c] = {}

OwnerShape ==
    /\ tasks \in 0..MaxTasks
    /\ ppc \in {"sleep", "run", "task", "kick", "exit"}
    /\ opc \in {"run", "kick", "join"}
    /\ opc # "run" => \A c \in Client : cpc[c] = "idle" /\ lease[c] = {}

Shape == EntryShape /\ WorkerShape /\ ClientShape /\ OwnerShape

(* A reservation uses each free Entry object for at most one missing pair. *)
LEMMA AdmissionsShape ==
    ASSUME NEW free, NEW M, NEW admit \in Admissions(free, M)
    PROVE  /\ DOMAIN admit \subseteq free
           /\ \A s \in DOMAIN admit : admit[s] \in M
           /\ \A s, r \in DOMAIN admit : admit[s] = admit[r] => s = r
  BY DEF Admissions

LEMMA ComponentsFinite == Cardinality(Component) \in Nat /\ Cardinality(Component) # 0
  BY CacheAssumption, FS_CardinalityType, FS_EmptySet DEF CacheAssumption

(* Installing entries keeps the shape of the entry tables. *)
LEMMA InstallShape ==
    ASSUME EntryShape, NEW M \in SUBSET Expert, NEW gone, NEW free \in SUBSET Slot,
           NEW admit \in Admissions(free, M), Install(gone, admit)
    PROVE  /\ table' \in [Slot -> Expert \cup {NoExpert}]
           /\ state' \in [Slot -> States]
           /\ pending_reads' \in [Slot -> Nat]
           /\ JobsOf(DOMAIN admit) \subseteq Job
  BY AdmissionsShape, ComponentsFinite DEF Install, EntryShape, States, JobsOf

(* The tail of acquire_impl keeps the shape, wherever it is entered from. *)
LEMMA AwaitShape ==
    ASSUME EntryShape, ClientShape, NEW c \in Client, NEW k \in Expert, NEW s \in Slot,
           pin[c] = NoSlot \/ pin[c] = s, Await(c, k, s),
           state[s] # "Ready" => lease[c] = {},
           UNCHANGED <<table, state, pending_reads, buffer>>
    PROVE  EntryShape' /\ ClientShape'
<1> USE CacheAssumption DEF CacheAssumption
<1>1. EntryShape'
  BY DEF EntryShape, Await, UnpinAfterFailure
<1>2. ClientShape'
  <2>1. CASE IsLoading(s)
    BY <2>1 DEF ClientShape, Await, IsLoading, UnpinAfterFailure
  <2>2. CASE state[s] = "Ready"
    <3>1. /\ lease' \in [Client -> SUBSET (Slot \X Expert)]
          /\ lease' = [lease EXCEPT ![c] = @ \cup {<<s, k>>}]
          /\ pin' = [pin EXCEPT ![c] = NoSlot]
          /\ want' = [want EXCEPT ![c] = NoExpert]
          /\ cpc' = [cpc EXCEPT ![c] = "idle"]
          /\ asleep' = asleep
      BY <2>2 DEF ClientShape, Await, IsLoading
    <3> QED
      BY <3>1 DEF ClientShape
  <2>3. CASE state[s] = "Failed"
    BY <2>3 DEF ClientShape, Await, IsLoading, UnpinAfterFailure
  <2> QED
    BY <2>1, <2>2, <2>3 DEF Await
<1> QED
  BY <1>1, <1>2

(* So does the reservation that a blocked borrow makes. *)
LEMMA ReserveOrSleepShape ==
    ASSUME EntryShape, WorkerShape, ClientShape, NEW c \in Client, NEW k \in Expert,
           NEW gone, pin[c] = NoSlot, lease[c] = {}, ReserveOrSleep(c, k, gone),
           UNCHANGED <<buffer, low_priority_io_jobs, wpc, wjob, lease>>
    PROVE  EntryShape' /\ WorkerShape' /\ ClientShape'
<1> USE CacheAssumption DEF CacheAssumption
<1>1. PICK victims \in SUBSET Evictable(Pool(LayerOf[k]) \ gone) :
      \E a \in Admissions(Slot \ (InTable \ (gone \cup victims)), {k}) :
          /\ Install(gone \cup victims, a)
          /\ io_jobs' = io_jobs \cup JobsOf(DOMAIN a)
          /\ want' = [want EXCEPT ![c] = k]
          /\ pins' = [s \in Slot |-> IF s \in DOMAIN a THEN pins[s] + 1 ELSE pins[s]]
          /\ \/ /\ DOMAIN a = {}
                /\ cpc' = [cpc EXCEPT ![c] = "slot"]
                /\ asleep' = asleep \cup {c}
                /\ UNCHANGED pin
             \/ \E s \in DOMAIN a :
                /\ cpc' = [cpc EXCEPT ![c] = "kick"]
                /\ pin' = [pin EXCEPT ![c] = s]
                /\ UNCHANGED asleep
  BY DEF ReserveOrSleep
<1> DEFINE free == Slot \ (InTable \ (gone \cup victims))
<1>2. PICK a \in Admissions(free, {k}) :
          /\ Install(gone \cup victims, a)
          /\ io_jobs' = io_jobs \cup JobsOf(DOMAIN a)
          /\ want' = [want EXCEPT ![c] = k]
          /\ pins' = [s \in Slot |-> IF s \in DOMAIN a THEN pins[s] + 1 ELSE pins[s]]
          /\ \/ /\ DOMAIN a = {}
                /\ cpc' = [cpc EXCEPT ![c] = "slot"]
                /\ asleep' = asleep \cup {c}
                /\ UNCHANGED pin
             \/ \E s \in DOMAIN a :
                /\ cpc' = [cpc EXCEPT ![c] = "kick"]
                /\ pin' = [pin EXCEPT ![c] = s]
                /\ UNCHANGED asleep
  BY <1>1
<1>3. free \in SUBSET Slot /\ {k} \in SUBSET Expert
  OBVIOUS
<1> HIDE DEF free
<1>4. DOMAIN a \subseteq Slot
  BY <1>2, <1>3, AdmissionsShape
<1>5. /\ table' \in [Slot -> Expert \cup {NoExpert}]
      /\ state' \in [Slot -> States]
      /\ pending_reads' \in [Slot -> Nat]
      /\ JobsOf(DOMAIN a) \subseteq Job
  BY <1>2, <1>3, InstallShape
<1>6. EntryShape'
  BY <1>2, <1>5 DEF EntryShape
<1>7. WorkerShape'
  BY <1>2, <1>5 DEF WorkerShape
<1>8. ClientShape'
  <2>1. CASE DOMAIN a = {} /\ cpc' = [cpc EXCEPT ![c] = "slot"]
             /\ asleep' = asleep \cup {c} /\ UNCHANGED pin
    BY <1>2, <2>1 DEF ClientShape
  <2>2. ASSUME NEW s \in DOMAIN a, cpc' = [cpc EXCEPT ![c] = "kick"],
               pin' = [pin EXCEPT ![c] = s], UNCHANGED asleep
        PROVE  ClientShape'
    BY <1>2, <1>4, <2>2 DEF ClientShape
  <2> QED
    BY <1>2, <2>1, <2>2
<1> QED
  BY <1>6, <1>7, <1>8

(* Facts about a request, demand or advisory, that its proofs share. *)
LEMMA RoutesShape ==
    ASSUME NEW l \in Layer, NEW K \in Routes(l)
    PROVE  K \in SUBSET Expert /\ \A k \in K : LayerOf[k] = l
  BY DEF Routes

LEMMA ShapeInit == Init => Shape
  BY CacheAssumption DEF Init, Shape, EntryShape, WorkerShape, ClientShape,
     OwnerShape, States, Job, CacheAssumption

LEMMA ShapeRequestMany ==
    ASSUME Shape, NEW c \in Client, NEW l \in Layer, NEW K \in Routes(l),
           RequestMany(c, l, K)
    PROVE  Shape'
<1> USE CacheAssumption DEF CacheAssumption
<1> DEFINE gone == DropFailed(K)
           missing == {k \in K : Find(k) \ gone = {}}
           promoted == Promoted(K)
<1>1. PICK victims \in SUBSET Evictable(Pool(l) \ gone) :
      \E a \in Admissions(Slot \ (InTable \ (gone \cup victims)), missing) :
        /\ Install(gone \cup victims, a)
        /\ io_jobs' = io_jobs \cup promoted \cup JobsOf(DOMAIN a)
        /\ low_priority_io_jobs' = low_priority_io_jobs \ promoted
        /\ cpc' = [cpc EXCEPT ![c] =
                      IF promoted = {} /\ DOMAIN a = {} THEN "idle" ELSE "kick"]
  BY DEF RequestMany
<1> DEFINE free == Slot \ (InTable \ (gone \cup victims))
<1>2. PICK a \in Admissions(free, missing) :
        /\ Install(gone \cup victims, a)
        /\ io_jobs' = io_jobs \cup promoted \cup JobsOf(DOMAIN a)
        /\ low_priority_io_jobs' = low_priority_io_jobs \ promoted
        /\ cpc' = [cpc EXCEPT ![c] =
                      IF promoted = {} /\ DOMAIN a = {} THEN "idle" ELSE "kick"]
  BY <1>1
<1>3. missing \in SUBSET Expert /\ free \in SUBSET Slot
  BY RoutesShape
<1>4. promoted \subseteq Job
  BY DEF Shape, WorkerShape, Promoted
<1> HIDE DEF free, missing, promoted, gone
<1>5. /\ table' \in [Slot -> Expert \cup {NoExpert}]
      /\ state' \in [Slot -> States]
      /\ pending_reads' \in [Slot -> Nat]
      /\ JobsOf(DOMAIN a) \subseteq Job
  BY <1>2, <1>3, InstallShape DEF Shape
<1>6. EntryShape'
  BY <1>5 DEF Shape, EntryShape, RequestMany
<1>7. WorkerShape'
  BY <1>2, <1>4, <1>5 DEF Shape, WorkerShape, RequestMany, workerVars
<1>8. ClientShape' /\ OwnerShape'
  BY <1>2 DEF Shape, ClientShape, OwnerShape, RequestMany, Idle
<1> QED
  BY <1>6, <1>7, <1>8 DEF Shape

LEMMA ShapePrefetch ==
    ASSUME Shape, NEW l \in Layer, NEW K \in Routes(l), Prefetch(l, K)
    PROVE  Shape'
<1> USE CacheAssumption DEF CacheAssumption
<1> DEFINE gone == DropFailed(K)
           missing == {k \in K : Find(k) \ gone = {}}
<1>1. PICK victims \in SUBSET Evictable(Pool(l) \ gone) :
      \E a \in Admissions(Slot \ (InTable \ (gone \cup victims)), missing) :
        /\ Install(gone \cup victims, a)
        /\ low_priority_io_jobs' = low_priority_io_jobs \cup JobsOf(DOMAIN a)
        /\ ppc' = IF DOMAIN a = {} THEN "run" ELSE "kick"
  BY DEF Prefetch
<1> DEFINE free == Slot \ (InTable \ (gone \cup victims))
<1>2. PICK a \in Admissions(free, missing) :
        /\ Install(gone \cup victims, a)
        /\ low_priority_io_jobs' = low_priority_io_jobs \cup JobsOf(DOMAIN a)
        /\ ppc' = IF DOMAIN a = {} THEN "run" ELSE "kick"
  BY <1>1
<1>3. missing \in SUBSET Expert /\ free \in SUBSET Slot
  BY RoutesShape
<1> HIDE DEF free, missing, gone
<1>4. /\ table' \in [Slot -> Expert \cup {NoExpert}]
      /\ state' \in [Slot -> States]
      /\ pending_reads' \in [Slot -> Nat]
      /\ JobsOf(DOMAIN a) \subseteq Job
  BY <1>2, <1>3, InstallShape DEF Shape
<1>5. EntryShape' /\ WorkerShape'
  BY <1>2, <1>4 DEF Shape, EntryShape, WorkerShape, Prefetch, workerVars
<1>6. ClientShape' /\ OwnerShape'
  BY <1>2 DEF Shape, ClientShape, OwnerShape, Prefetch, clientVars
<1> QED
  BY <1>5, <1>6 DEF Shape

LEMMA ShapeBorrow ==
    ASSUME Shape, NEW c \in Client, NEW k \in Expert,
           BorrowFound(c, k) \/ BorrowMissing(c, k)
    PROVE  Shape'
<1> USE CacheAssumption DEF CacheAssumption
<1>1. pin[c] = NoSlot /\ opc = "run" /\ cpc[c] = "idle"
  BY DEF BorrowFound, BorrowMissing, Idle, Shape, ClientShape
<1>2. CASE BorrowFound(c, k)
  <2>1. PICK s \in Find(k) : (state[s] # "Ready" => lease[c] = {}) /\ Await(c, k, s)
    BY <1>2 DEF BorrowFound
  <2>2. s \in Slot
    BY DEF Find, InTable
  <2>3. EntryShape' /\ ClientShape'
    BY <1>1, <1>2, <2>1, <2>2, AwaitShape DEF BorrowFound, entryVars, Shape
  <2>4. WorkerShape' /\ OwnerShape'
    BY <1>1, <1>2 DEF BorrowFound, queueVars, workerVars, Shape, WorkerShape, OwnerShape
  <2> QED
    BY <2>3, <2>4 DEF Shape
<1>3. CASE BorrowMissing(c, k)
  <2>1. EntryShape' /\ WorkerShape' /\ ClientShape'
    BY <1>1, <1>3, ReserveOrSleepShape DEF BorrowMissing, workerVars, Shape
  <2>2. OwnerShape'
    BY <1>1, <1>3 DEF BorrowMissing, Shape, OwnerShape
  <2> QED
    BY <2>1, <2>2 DEF Shape
<1> QED
  BY <1>2, <1>3

LEMMA ShapeWake ==
    ASSUME Shape, NEW c \in Client, SlotWake(c) \/ LoadWake(c)
    PROVE  Shape'
<1> USE CacheAssumption DEF CacheAssumption
<1>1. /\ opc = "run" /\ lease[c] = {} /\ want[c] \in Expert
      /\ cpc[c] \in {"slot", "load"}
      /\ cpc[c] = "slot" => pin[c] = NoSlot
      /\ cpc[c] = "load" => pin[c] \in Slot
  BY DEF SlotWake, LoadWake, Shape, ClientShape, OwnerShape
<1>2. CASE LoadWake(c)
  <2>1. EntryShape' /\ ClientShape'
    BY <1>1, <1>2, AwaitShape DEF LoadWake, entryVars, Shape
  <2>2. WorkerShape' /\ OwnerShape'
    BY <1>1, <1>2 DEF LoadWake, queueVars, workerVars, Shape, WorkerShape, OwnerShape
  <2> QED
    BY <2>1, <2>2 DEF Shape
<1>3. ASSUME SlotWake(c), NEW s \in Find(want[c]), Await(c, want[c], s),
             UNCHANGED <<entryVars, queueVars>>
      PROVE  Shape'
  <2>1. s \in Slot
    BY DEF Find, InTable
  <2>2. cpc[c] = "slot"
    BY <1>3 DEF SlotWake
  <2>3. EntryShape' /\ ClientShape'
    BY <1>1, <1>3, <2>1, <2>2, AwaitShape DEF SlotWake, entryVars, Shape
  <2>4. WorkerShape' /\ OwnerShape'
    BY <1>1, <1>3 DEF SlotWake, queueVars, workerVars, Shape, WorkerShape, OwnerShape
  <2> QED
    BY <2>3, <2>4 DEF Shape
<1>4. ASSUME SlotWake(c), ReserveOrSleep(c, want[c], {}),
             UNCHANGED <<low_priority_io_jobs, lease>>
      PROVE  Shape'
  <2>1. cpc[c] = "slot"
    BY <1>4 DEF SlotWake
  <2>2. EntryShape' /\ WorkerShape' /\ ClientShape'
    BY <1>1, <1>4, <2>1, ReserveOrSleepShape DEF SlotWake, workerVars, Shape
  <2>3. OwnerShape'
    BY <1>1, <1>4 DEF SlotWake, Shape, OwnerShape
  <2> QED
    BY <2>2, <2>3 DEF Shape
<1> QED
  BY <1>2, <1>3, <1>4 DEF SlotWake

LEMMA ShapeHolds == Spec => []Shape
<1> USE CacheAssumption DEF CacheAssumption
<1>1. Shape /\ [Next]_vars => Shape'
  <2> SUFFICES ASSUME Shape, [Next]_vars PROVE Shape'
    OBVIOUS
  <2> USE DEF Shape, EntryShape, WorkerShape, ClientShape, OwnerShape
  <2>1. ASSUME NEW c \in Client, NEW t \in lease[c], ReleaseLease(c, t)
        PROVE  Shape'
    BY <2>1 DEF ReleaseLease, entryVars, queueVars, workerVars
  <2>2. ASSUME NEW c \in Client, Kick(c)
        PROVE  Shape'
    BY <2>2 DEF Kick, WakeWorkers, entryVars, queueVars
  <2>3. ASSUME NEW c \in Client, NotifyReady(c)
        PROVE  Shape'
    BY <2>3 DEF NotifyReady, entryVars, queueVars, workerVars
  <2>4. ASSUME NEW c \in Client, NEW k \in Expert, Evict(c, k)
        PROVE  Shape'
    BY <2>4 DEF Evict, queueVars, workerVars, clientVars
  <2>5. ASSUME NEW c \in Client, SubmitTask(c)
        PROVE  Shape'
    BY <2>5 DEF SubmitTask, entryVars, queueVars, workerVars, clientVars, Idle
  <2>6. CASE PredictTake
    BY <2>6 DEF PredictTake, entryVars, queueVars, workerVars, clientVars
  <2>7. CASE PredictKick
    BY <2>7 DEF PredictKick, WakeWorkers, entryVars, queueVars, clientVars
  <2>8. ASSUME NEW w \in Worker, WorkerTake(w)
        PROVE  Shape'
    <3>1. ASSUME NEW j \in NextJobs, wjob' = [wjob EXCEPT ![w] = j],
                 wpc' = [wpc EXCEPT ![w] = "read"],
                 io_jobs' \subseteq io_jobs,
                 low_priority_io_jobs' \subseteq low_priority_io_jobs
          PROVE  WorkerShape'
      <4>1. j \in Job
        BY DEF NextJobs
      <4> QED
        BY <3>1, <4>1 DEF Job
    <3>2. ASSUME UNCHANGED <<wjob, queueVars>>,
                 wpc' = [wpc EXCEPT ![w] = IF opc = "run" THEN "sleep" ELSE "exit"]
          PROVE  WorkerShape'
      <4>1. wpc[w] = "run"
        BY <2>8 DEF WorkerTake
      <4>2. PICK x \in {"sleep", "exit"} : wpc' = [wpc EXCEPT ![w] = x]
        BY <3>2
      <4> QED
        BY <3>2, <4>1, <4>2 DEF queueVars
    <3>3. WorkerShape'
      BY <2>8, <3>1, <3>2 DEF WorkerTake
    <3>4. EntryShape' /\ ClientShape' /\ OwnerShape'
      BY <2>8 DEF WorkerTake, entryVars, clientVars
    <3> QED
      BY <3>3, <3>4
  <2>9. ASSUME NEW w \in Worker, WorkerRead(w)
        PROVE  Shape'
    <3>1. wjob[w] \in Slot \X Component
      BY <2>9 DEF WorkerRead, Job
    <3>2. PICK v \in Expert \cup {NoExpert, Junk} :
             buffer' = [buffer EXCEPT ![wjob[w][1]][wjob[w][2]] = v]
      BY <2>9, <3>1 DEF WorkerRead
    <3>3. buffer' \in [Slot -> [Component -> Expert \cup {NoExpert, Junk}]]
      BY <3>1, <3>2
    <3>4. EntryShape'
      BY <2>9, <3>3 DEF WorkerRead, entryVars
    <3>5. PICK x \in {"ok", "fail"} : wpc' = [wpc EXCEPT ![w] = x]
      BY <2>9 DEF WorkerRead
    <3>6. WorkerShape'
      BY <2>9, <3>1, <3>5 DEF WorkerRead, queueVars
    <3>7. ClientShape' /\ OwnerShape'
      BY <2>9 DEF WorkerRead, clientVars
    <3> QED
      BY <3>4, <3>6, <3>7
  <2>10. ASSUME NEW w \in Worker, WorkerComplete(w)
         PROVE  Shape'
    BY <2>10 DEF WorkerComplete, StateAfterRead, queueVars, clientVars, Job, States
  <2>11. ASSUME NEW w \in Worker, WorkerNotify(w)
         PROVE  Shape'
    BY <2>11 DEF WorkerNotify, entryVars, queueVars, clientVars
  <2>12. CASE ClearResident
    BY <2>12 DEF ClearResident, queueVars, workerVars, clientVars
  <2>13. CASE Stop
    BY <2>13 DEF Stop, entryVars, queueVars, workerVars, clientVars
  <2>14. CASE StopKick
    BY <2>14 DEF StopKick, WakeWorkers, entryVars, queueVars, clientVars
  <2>15. CASE Reopen
    <3>1. EntryShape' /\ WorkerShape'
      BY <2>15 DEF Reopen
    <3>2. ClientShape' /\ OwnerShape'
      BY <2>15 DEF Reopen, clientVars
    <3> QED
      BY <3>1, <3>2
  <2>16. CASE UNCHANGED vars
    BY <2>16 DEF vars
  <2> HIDE DEF Shape, EntryShape, WorkerShape, ClientShape, OwnerShape
  <2> QED
    BY <2>1, <2>2, <2>3, <2>4, <2>5, <2>6, <2>7, <2>8, <2>9, <2>10, <2>11, <2>12,
       <2>13, <2>14, <2>15, <2>16, ShapeRequestMany, ShapePrefetch, ShapeBorrow, ShapeWake
       DEF Next, ClientStep, WorkerStep, PredictorStep, OwnerStep
<1> QED
  BY <1>1, ShapeInit, PTL DEF Spec

-----------------------------------------------------------------------------
(***************************************************************************)
(* Stage 2.  Reads and the entries they fill.  Beside the two properties   *)
(* of the specification: no job is in two places, and what the buffers of  *)
(* an entry hold at each moment of its loading.                            *)
(***************************************************************************)
JobsDistinct ==
    /\ io_jobs \cap low_priority_io_jobs = {}
    /\ \A w \in Worker : wjob[w] \notin io_jobs \cup low_priority_io_jobs
    /\ \A v, w \in Worker : wjob[v] = wjob[w] => v = w \/ wjob[v] = NoJob

BuffersFilled ==
    /\ \A s \in InTable : \A x \in Component :
          \/ state[s] \notin {"Loading", "Ready"}
          \/ state[s] = "Loading" /\ x \in Reading(s)
          \/ buffer[s][x] = table[s]
    /\ \A w \in Worker : \A s \in Slot, x \in Component :
          wpc[w] = "ok" /\ wjob[w] = <<s, x>> => buffer[s][x] = table[s]

ReadInv ==
    /\ JobsDistinct
    /\ ReadsTargetLoadingEntries
    /\ LoadingEntriesHaveReads
    /\ BuffersFilled

(* Removing idle entries and installing new ones, with their reads queued. *)
LEMMA InstallReadInv ==
    ASSUME Shape, ReadInv, NEW M \in SUBSET Expert, NEW gone \in SUBSET Evictable(InTable),
           NEW a \in Admissions(Slot \ (InTable \ gone), M), Install(gone, a),
           io_jobs' \cup low_priority_io_jobs' =
               io_jobs \cup low_priority_io_jobs \cup JobsOf(DOMAIN a),
           io_jobs' \cap low_priority_io_jobs' = {},
           UNCHANGED <<buffer, wpc, wjob>>
    PROVE  ReadInv'
<1> USE CacheAssumption DEF CacheAssumption
<1>1. Outstanding' = Outstanding \cup JobsOf(DOMAIN a)
  BY DEF Outstanding
<1>2. DOMAIN a \subseteq Slot /\ \A s \in DOMAIN a : a[s] \in M /\ a[s] # NoExpert
  BY AdmissionsShape
<1>3. \A s \in DOMAIN a : s \notin InTable \/ ~IsLoading(s)
  BY AdmissionsShape DEF Evictable
<1>4. \A j \in Outstanding : j[1] \notin DOMAIN a \cup gone
  BY <1>3 DEF ReadInv, ReadsTargetLoadingEntries, InTable, Evictable, Outstanding,
     Shape, WorkerShape, Job
<1>5. \A s \in Slot \ DOMAIN a : Reading(s)' = Reading(s)
  BY <1>1 DEF Reading, JobsOf
<1>6. \A s \in DOMAIN a : Reading(s)' = Component
  BY <1>1, <1>2 DEF Reading, JobsOf, Job
<1>7. \A s \in InTable' \ DOMAIN a :
         /\ s \in InTable /\ table'[s] = table[s] /\ state'[s] = state[s]
         /\ pending_reads'[s] = pending_reads[s]
  BY DEF Install, InTable
<1>8. \A s \in DOMAIN a : /\ table'[s] = a[s] /\ state'[s] = "Loading"
                          /\ pending_reads'[s] = Cardinality(Component)
                          /\ s \in InTable'
  BY <1>2 DEF Install, InTable
<1>9. JobsDistinct'
  <2>1. \A w \in Worker : wjob[w] # NoJob => wjob[w] \in Outstanding
    BY DEF Outstanding
  <2>2. \A w \in Worker : wjob[w] \notin JobsOf(DOMAIN a)
    BY <2>1, <1>4 DEF JobsOf, Job
  <2> QED
    BY <2>2 DEF ReadInv, JobsDistinct
<1>10. ReadsTargetLoadingEntries'
  <2> SUFFICES ASSUME NEW j \in Outstanding'
               PROVE  table'[j[1]] # NoExpert /\ IsLoading(j[1])'
    BY DEF ReadsTargetLoadingEntries
  <2>1. CASE j \in JobsOf(DOMAIN a)
    BY <2>1, <1>2, <1>8 DEF JobsOf, IsLoading
  <2>2. CASE j \in Outstanding
    <3>1. j[1] \in Slot \ (DOMAIN a \cup gone)
      BY <2>2, <1>4 DEF Outstanding, Shape, WorkerShape, Job
    <3>2. table[j[1]] # NoExpert /\ IsLoading(j[1])
      BY <2>2 DEF ReadInv, ReadsTargetLoadingEntries
    <3>3. table'[j[1]] = table[j[1]] /\ state'[j[1]] = state[j[1]]
      BY <3>1 DEF Install
    <3> QED
      BY <3>2, <3>3 DEF IsLoading
  <2> QED
    BY <1>1, <2>1, <2>2
<1>11. LoadingEntriesHaveReads'
  <2> SUFFICES ASSUME NEW s \in InTable'
               PROVE  /\ pending_reads'[s] = Cardinality(Reading(s)')
                      /\ IsLoading(s)' <=> Reading(s)' # {}
    BY DEF LoadingEntriesHaveReads
  <2>1. CASE s \in DOMAIN a
    BY <2>1, <1>6, <1>8 DEF IsLoading
  <2>2. CASE s \notin DOMAIN a
    BY <2>2, <1>5, <1>7 DEF ReadInv, LoadingEntriesHaveReads, IsLoading, InTable
  <2> QED
    BY <2>1, <2>2
<1>12. BuffersFilled'
  <2>1. ASSUME NEW s \in InTable', NEW x \in Component
        PROVE  \/ state'[s] \notin {"Loading", "Ready"}
               \/ state'[s] = "Loading" /\ x \in Reading(s)'
               \/ buffer'[s][x] = table'[s]
    <3>1. CASE s \in DOMAIN a
      BY <3>1, <1>6, <1>8
    <3>2. CASE s \notin DOMAIN a
      BY <3>2, <1>5, <1>7 DEF ReadInv, BuffersFilled, InTable
    <3> QED
      BY <3>1, <3>2
  <2>2. ASSUME NEW w \in Worker, NEW s \in Slot, NEW x \in Component,
               wpc'[w] = "ok", wjob'[w] = <<s, x>>
        PROVE  buffer'[s][x] = table'[s]
    <3>1. <<s, x>> \in Outstanding
      BY <2>2 DEF Outstanding, Shape, WorkerShape
    <3>2. s \notin DOMAIN a \cup gone
      BY <3>1, <1>4
    <3>3. table'[s] = table[s]
      BY <3>2 DEF Install
    <3> QED
      BY <2>2, <3>3 DEF ReadInv, BuffersFilled
  <2> QED
    BY <2>1, <2>2 DEF BuffersFilled
<1> QED
  BY <1>9, <1>10, <1>11, <1>12 DEF ReadInv

(* Removing idle entries alone; a worker may move, but not end a read. *)
LEMMA RemoveReadInv ==
    ASSUME Shape, ReadInv, NEW gone \in SUBSET Evictable(InTable),
           table' = [s \in Slot |-> IF s \in gone THEN NoExpert ELSE table[s]],
           UNCHANGED <<state, pending_reads, buffer>>,
           Outstanding' = Outstanding, JobsDistinct',
           \A w \in Worker : wpc'[w] = "ok" => wpc[w] = "ok" /\ wjob'[w] = wjob[w]
    PROVE  ReadInv'
<1>1. \A s \in Slot : Reading(s)' = Reading(s)
  BY DEF Reading
<1>2. \A j \in Outstanding : j[1] \in Slot \ gone /\ table'[j[1]] = table[j[1]]
  BY DEF Outstanding, ReadInv, ReadsTargetLoadingEntries, Evictable, Shape,
     WorkerShape, Job
<1>3. InTable' \subseteq InTable /\ \A s \in InTable' : table'[s] = table[s]
  BY DEF InTable
<1>4. ReadsTargetLoadingEntries'
  BY <1>2 DEF ReadInv, ReadsTargetLoadingEntries, IsLoading
<1>5. LoadingEntriesHaveReads'
  BY <1>1, <1>3 DEF ReadInv, LoadingEntriesHaveReads, IsLoading, InTable
<1>6. BuffersFilled'
  <2>1. ASSUME NEW w \in Worker, NEW s \in Slot, NEW x \in Component,
               wpc'[w] = "ok", wjob'[w] = <<s, x>>
        PROVE  buffer'[s][x] = table'[s]
    <3>1. <<s, x>> \in Outstanding
      BY <2>1 DEF Outstanding, Shape, WorkerShape
    <3> QED
      BY <2>1, <3>1, <1>2 DEF ReadInv, BuffersFilled
  <2> QED
    BY <2>1, <1>1, <1>3 DEF ReadInv, BuffersFilled, InTable
<1> QED
  BY <1>4, <1>5, <1>6 DEF ReadInv

(* Steps that leave entries, buffers and queues alone. *)
LEMMA ReadInvFrame ==
    ASSUME Shape, ReadInv, UNCHANGED <<entryVars, buffer, queueVars, wjob>>,
           \A w \in Worker : wpc'[w] = "ok" => wpc[w] = "ok"
    PROVE  ReadInv'
<1>1. table' = [s \in Slot |-> IF s \in {} THEN NoExpert ELSE table[s]]
  BY DEF Shape, EntryShape, entryVars
<1>2. {} \in SUBSET Evictable(InTable)
  OBVIOUS
<1>3. Outstanding' = Outstanding
  BY DEF Outstanding, queueVars
<1>4. JobsDistinct'
  BY DEF ReadInv, JobsDistinct, queueVars
<1> QED
  BY <1>1, <1>2, <1>3, <1>4, RemoveReadInv DEF entryVars

LEMMA DropFailedIdle ==
    ASSUME NEW K
    PROVE  DropFailed(K) \in SUBSET Evictable(InTable)
  BY DEF DropFailed, Evictable

LEMMA VictimsIdle ==
    ASSUME NEW l, NEW gone, NEW victims \in SUBSET Evictable(Pool(l) \ gone)
    PROVE  victims \in SUBSET Evictable(InTable)
  BY DEF Evictable, Pool

LEMMA ReadInvRequestMany ==
    ASSUME Shape, ReadInv, NEW c \in Client, NEW l \in Layer, NEW K \in Routes(l),
           RequestMany(c, l, K)
    PROVE  ReadInv'
<1> DEFINE gone == DropFailed(K)
           missing == {k \in K : Find(k) \ gone = {}}
           promoted == Promoted(K)
<1>1. PICK victims \in SUBSET Evictable(Pool(l) \ gone) :
      \E a \in Admissions(Slot \ (InTable \ (gone \cup victims)), missing) :
        /\ Install(gone \cup victims, a)
        /\ io_jobs' = io_jobs \cup promoted \cup JobsOf(DOMAIN a)
        /\ low_priority_io_jobs' = low_priority_io_jobs \ promoted
  BY DEF RequestMany
<1>2. PICK a \in Admissions(Slot \ (InTable \ (gone \cup victims)), missing) :
        /\ Install(gone \cup victims, a)
        /\ io_jobs' = io_jobs \cup promoted \cup JobsOf(DOMAIN a)
        /\ low_priority_io_jobs' = low_priority_io_jobs \ promoted
  BY <1>1
<1> DEFINE out == gone \cup victims
<1>3. missing \in SUBSET Expert /\ out \in SUBSET Evictable(InTable)
  <2>1. missing \in SUBSET Expert
    BY RoutesShape
  <2>2. gone \in SUBSET Evictable(InTable)
    BY DropFailedIdle
  <2> HIDE DEF gone, missing
  <2>3. victims \in SUBSET Evictable(InTable)
    BY VictimsIdle
  <2> QED
    BY <2>1, <2>2, <2>3
<1>4. promoted \subseteq low_priority_io_jobs
  BY DEF Promoted
<1>5. \A j \in JobsOf(DOMAIN a) : j \notin Outstanding
  BY AdmissionsShape, <1>3 DEF JobsOf, ReadInv, ReadsTargetLoadingEntries, Evictable,
     InTable, Job, Shape, WorkerShape, Outstanding
<1>6. io_jobs' \cap low_priority_io_jobs' = {}
  BY <1>2, <1>5 DEF Outstanding, ReadInv, JobsDistinct
<1> HIDE DEF missing, promoted, gone
<1>7. io_jobs' \cup low_priority_io_jobs' =
         io_jobs \cup low_priority_io_jobs \cup JobsOf(DOMAIN a)
  BY <1>2, <1>4
<1>8. UNCHANGED <<buffer, wpc, wjob>>
  BY DEF RequestMany, workerVars
<1> QED
  BY <1>2, <1>3, <1>6, <1>7, <1>8, InstallReadInv

LEMMA ReadInvPrefetch ==
    ASSUME Shape, ReadInv, NEW l \in Layer, NEW K \in Routes(l), Prefetch(l, K)
    PROVE  ReadInv'
<1> DEFINE gone == DropFailed(K)
           missing == {k \in K : Find(k) \ gone = {}}
<1>1. PICK victims \in SUBSET Evictable(Pool(l) \ gone) :
      \E a \in Admissions(Slot \ (InTable \ (gone \cup victims)), missing) :
        /\ Install(gone \cup victims, a)
        /\ low_priority_io_jobs' = low_priority_io_jobs \cup JobsOf(DOMAIN a)
  BY DEF Prefetch
<1>2. PICK a \in Admissions(Slot \ (InTable \ (gone \cup victims)), missing) :
        /\ Install(gone \cup victims, a)
        /\ low_priority_io_jobs' = low_priority_io_jobs \cup JobsOf(DOMAIN a)
  BY <1>1
<1> DEFINE out == gone \cup victims
<1>3. missing \in SUBSET Expert /\ out \in SUBSET Evictable(InTable)
  <2>1. missing \in SUBSET Expert
    BY RoutesShape
  <2>2. gone \in SUBSET Evictable(InTable)
    BY DropFailedIdle
  <2> HIDE DEF gone, missing
  <2>3. victims \in SUBSET Evictable(InTable)
    BY VictimsIdle
  <2> QED
    BY <2>1, <2>2, <2>3
<1>4. \A j \in JobsOf(DOMAIN a) : j \notin Outstanding
  BY AdmissionsShape, <1>3 DEF JobsOf, ReadInv, ReadsTargetLoadingEntries, Evictable,
     InTable, Job, Shape, WorkerShape, Outstanding
<1>5. UNCHANGED <<buffer, io_jobs, wpc, wjob>>
  BY DEF Prefetch, workerVars
<1>6. io_jobs' \cap low_priority_io_jobs' = {}
  BY <1>2, <1>4, <1>5 DEF Outstanding, ReadInv, JobsDistinct
<1> HIDE DEF missing, gone
<1>7. io_jobs' \cup low_priority_io_jobs' =
         io_jobs \cup low_priority_io_jobs \cup JobsOf(DOMAIN a)
  BY <1>2, <1>5
<1> QED
  BY <1>2, <1>3, <1>5, <1>6, <1>7, InstallReadInv

LEMMA ReadInvReserveOrSleep ==
    ASSUME Shape, ReadInv, NEW c \in Client, NEW k \in Expert,
           NEW gone \in SUBSET Evictable(InTable), ReserveOrSleep(c, k, gone),
           UNCHANGED <<buffer, low_priority_io_jobs, wpc, wjob>>
    PROVE  ReadInv'
<1>1. PICK victims \in SUBSET Evictable(Pool(LayerOf[k]) \ gone) :
      \E a \in Admissions(Slot \ (InTable \ (gone \cup victims)), {k}) :
        /\ Install(gone \cup victims, a)
        /\ io_jobs' = io_jobs \cup JobsOf(DOMAIN a)
  BY DEF ReserveOrSleep
<1>2. PICK a \in Admissions(Slot \ (InTable \ (gone \cup victims)), {k}) :
        /\ Install(gone \cup victims, a)
        /\ io_jobs' = io_jobs \cup JobsOf(DOMAIN a)
  BY <1>1
<1> DEFINE out == gone \cup victims
<1>3. {k} \in SUBSET Expert /\ out \in SUBSET Evictable(InTable)
  BY VictimsIdle
<1>4. \A j \in JobsOf(DOMAIN a) : j \notin Outstanding
  BY AdmissionsShape, <1>3 DEF JobsOf, ReadInv, ReadsTargetLoadingEntries, Evictable,
     InTable, Job, Shape, WorkerShape, Outstanding
<1>5. io_jobs' \cap low_priority_io_jobs' = {}
  BY <1>2, <1>4 DEF Outstanding, ReadInv, JobsDistinct
<1>6. io_jobs' \cup low_priority_io_jobs' =
         io_jobs \cup low_priority_io_jobs \cup JobsOf(DOMAIN a)
  BY <1>2
<1> QED
  BY <1>2, <1>3, <1>5, <1>6, InstallReadInv

LEMMA ReadInvWorkerTake ==
    ASSUME Shape, ReadInv, NEW w \in Worker, WorkerTake(w)
    PROVE  ReadInv'
<1>1. CASE NextJobs = {} /\ UNCHANGED <<wjob, queueVars>>
    /\ wpc' = [wpc EXCEPT ![w] = IF opc = "run" THEN "sleep" ELSE "exit"]
  BY <1>1, ReadInvFrame DEF WorkerTake, Shape, WorkerShape
<1>2. ASSUME NEW j \in NextJobs,
             wjob' = [wjob EXCEPT ![w] = j], wpc' = [wpc EXCEPT ![w] = "read"],
             IF io_jobs # {}
             THEN io_jobs' = io_jobs \ {j} /\ UNCHANGED low_priority_io_jobs
             ELSE low_priority_io_jobs' = low_priority_io_jobs \ {j} /\ UNCHANGED io_jobs
      PROVE  ReadInv'
  <2> USE DEF Shape, WorkerShape
  <2>1. UNCHANGED <<entryVars, buffer>> /\ wpc[w] = "run"
    BY DEF WorkerTake
  <2>2. wjob[w] = NoJob
    BY <2>1
  <2>3. j \in io_jobs \cup low_priority_io_jobs /\ j # NoJob
    BY CacheAssumption DEF NextJobs, Job, CacheAssumption
  <2>4. io_jobs' \cup low_priority_io_jobs' = (io_jobs \cup low_priority_io_jobs) \ {j}
    BY <1>2, <2>3 DEF NextJobs, ReadInv, JobsDistinct
  <2>5. wjob'[w] = j /\ \A v \in Worker \ {w} : wjob'[v] = wjob[v]
    BY <1>2
  <2>6. Outstanding' = Outstanding
    <3>1. {wjob'[v] : v \in {u \in Worker : wjob'[u] # NoJob}} =
              {wjob[v] : v \in {u \in Worker : wjob[u] # NoJob}} \cup {j}
      BY <2>2, <2>3, <2>5
    <3> QED
      BY <2>3, <2>4, <3>1 DEF Outstanding
  <2>7. JobsDistinct'
    <3>1. io_jobs' \subseteq io_jobs /\ low_priority_io_jobs' \subseteq low_priority_io_jobs
      BY <1>2
    <3>2. \A v \in Worker : wjob[v] # j
      BY <2>3 DEF ReadInv, JobsDistinct
    <3> QED
      BY <2>3, <2>4, <2>5, <3>1, <3>2 DEF ReadInv, JobsDistinct
  <2>8. \A v \in Worker : wpc'[v] = "ok" => wpc[v] = "ok" /\ wjob'[v] = wjob[v]
    BY <1>2
  <2>9. table' = [s \in Slot |-> IF s \in {} THEN NoExpert ELSE table[s]]
    BY <2>1 DEF EntryShape, entryVars
  <2>10. UNCHANGED <<state, pending_reads, buffer>> /\ {} \in SUBSET Evictable(InTable)
    BY <2>1 DEF entryVars
  <2> HIDE DEF Shape, WorkerShape
  <2> QED
    BY <2>6, <2>7, <2>8, <2>9, <2>10, RemoveReadInv
<1> QED
  BY <1>1, <1>2 DEF WorkerTake

(* A read fills or spoils one component of an entry that is loading. *)
LEMMA ReadInvWorkerRead ==
    ASSUME Shape, ReadInv, NEW w \in Worker, WorkerRead(w)
    PROVE  ReadInv'
<1> USE DEF Shape, WorkerShape
<1>1. PICK s \in Slot, x \in Component : wjob[w] = <<s, x>>
  BY DEF WorkerRead, Job
<1>2. UNCHANGED <<entryVars, queueVars, wjob>> /\ wpc[w] = "read"
  BY DEF WorkerRead
<1>3. Outstanding' = Outstanding /\ <<s, x>> \in Outstanding
  BY <1>1, <1>2 DEF Outstanding, queueVars
<1>4. \A r \in Slot : Reading(r)' = Reading(r)
  BY <1>3 DEF Reading
<1>5. x \in Reading(s)
  BY <1>3 DEF Reading
<1>6. \A r \in Slot, y \in Component : <<r, y>> # <<s, x>> => buffer'[r][y] = buffer[r][y]
  BY <1>1 DEF WorkerRead, EntryShape
<1>7. wpc'[w] = "ok" => buffer'[s][x] = table[s]
  BY <1>1 DEF WorkerRead, EntryShape
<1>8. \A v \in Worker \ {w} : wpc'[v] = wpc[v]
  BY DEF WorkerRead
<1>9. JobsDistinct' /\ ReadsTargetLoadingEntries' /\ LoadingEntriesHaveReads'
  BY <1>2, <1>3, <1>4 DEF ReadInv, JobsDistinct, ReadsTargetLoadingEntries,
     LoadingEntriesHaveReads, IsLoading, InTable, entryVars, queueVars
<1>10. BuffersFilled'
  <2>1. ASSUME NEW r \in InTable', NEW y \in Component
        PROVE  \/ state'[r] \notin {"Loading", "Ready"}
               \/ state'[r] = "Loading" /\ y \in Reading(r)'
               \/ buffer'[r][y] = table'[r]
    <3>1. CASE r = s /\ y = x
      <4>1. IsLoading(s)
        BY <1>3 DEF ReadInv, ReadsTargetLoadingEntries
      <4> QED
        BY <3>1, <4>1, <1>2, <1>4, <1>5 DEF IsLoading, entryVars
    <3>2. CASE <<r, y>> # <<s, x>>
      BY <3>2, <1>2, <1>4, <1>6 DEF ReadInv, BuffersFilled, InTable, entryVars
    <3> QED
      BY <3>1, <3>2
  <2>2. ASSUME NEW v \in Worker, NEW r \in Slot, NEW y \in Component,
               wpc'[v] = "ok", wjob'[v] = <<r, y>>
        PROVE  buffer'[r][y] = table'[r]
    <3>1. CASE v = w
      BY <3>1, <2>2, <1>1, <1>2, <1>7 DEF entryVars
    <3>2. CASE v # w
      <4>1. wjob[v] = <<r, y>> /\ wpc[v] = "ok"
        BY <3>2, <2>2, <1>2, <1>8
      <4>2. <<r, y>> # <<s, x>>
        BY <3>2, <4>1, <1>1, CacheAssumption DEF ReadInv, JobsDistinct, CacheAssumption
      <4> QED
        BY <4>1, <4>2, <1>2, <1>6 DEF ReadInv, BuffersFilled, entryVars
    <3> QED
      BY <3>1, <3>2
  <2> QED
    BY <2>1, <2>2 DEF BuffersFilled
<1> QED
  BY <1>9, <1>10 DEF ReadInv

(* The completion of a read takes exactly one job off those outstanding. *)
LEMMA ReadInvWorkerComplete ==
    ASSUME Shape, ReadInv, NEW w \in Worker, WorkerComplete(w)
    PROVE  ReadInv'
<1> USE DEF Shape, WorkerShape
<1>1. PICK s \in Slot, x \in Component : wjob[w] = <<s, x>>
  BY DEF WorkerComplete, Job
<1> DEFINE left == IF pending_reads[s] > 0 THEN pending_reads[s] - 1 ELSE 0
<1>2. /\ UNCHANGED <<table, buffer, queueVars>>
      /\ wjob' = [wjob EXCEPT ![w] = NoJob]
      /\ wpc' = [wpc EXCEPT ![w] = "notify"]
      /\ wpc[w] \in {"ok", "fail"}
      /\ pending_reads' = [pending_reads EXCEPT ![s] = left]
      /\ state' = [state EXCEPT ![s] = StateAfterRead(@, wpc[w] = "ok", left)]
  BY <1>1 DEF WorkerComplete
<1>3. <<s, x>> # NoJob
  BY CacheAssumption DEF CacheAssumption
<1>4. Outstanding' = Outstanding \ {<<s, x>>} /\ <<s, x>> \in Outstanding
  <2>1. <<s, x>> \notin io_jobs \cup low_priority_io_jobs
    BY <1>1 DEF ReadInv, JobsDistinct
  <2>2. \A v \in Worker : v # w => wjob'[v] = wjob[v] /\ wjob[v] # <<s, x>>
    BY <1>1, <1>2, <1>3 DEF ReadInv, JobsDistinct
  <2>3. {wjob'[v] : v \in {u \in Worker : wjob'[u] # NoJob}} =
            {wjob[v] : v \in {u \in Worker : wjob[u] # NoJob}} \ {<<s, x>>}
    BY <1>1, <1>2, <1>3, <2>2
  <2> QED
    BY <1>1, <1>2, <1>3, <2>1, <2>3 DEF Outstanding, queueVars
<1>5. /\ Reading(s)' = Reading(s) \ {x}
      /\ x \in Reading(s)
      /\ \A r \in Slot : r # s => Reading(r)' = Reading(r)
  BY <1>4 DEF Reading
<1>6. s \in InTable /\ IsLoading(s)
  BY <1>4 DEF ReadInv, ReadsTargetLoadingEntries, InTable
<1>7. /\ IsFiniteSet(Reading(s)) /\ Cardinality(Reading(s)) \in Nat \ {0}
      /\ Cardinality(Reading(s)') = Cardinality(Reading(s)) - 1
      /\ IsFiniteSet(Reading(s)')
      /\ Cardinality(Reading(s)') = 0 <=> Reading(s)' = {}
  <2>1. IsFiniteSet(Reading(s))
    BY FS_Subset, CacheAssumption DEF Reading, CacheAssumption
  <2>2. IsFiniteSet(Reading(s)')
    BY <2>1, <1>5, FS_Subset
  <2> QED
    BY <2>1, <2>2, <1>5, FS_RemoveElement, FS_CardinalityType, FS_EmptySet
<1>8. left = Cardinality(Reading(s)')
  BY <1>6, <1>7 DEF ReadInv, LoadingEntriesHaveReads
<1>9. JobsDistinct'
  <2>1. NoJob \notin io_jobs \cup low_priority_io_jobs
    BY CacheAssumption DEF CacheAssumption, Job
  <2>2. \A v \in Worker : wjob'[v] = IF v = w THEN NoJob ELSE wjob[v]
    BY <1>2
  <2> QED
    BY <1>2, <2>1, <2>2 DEF ReadInv, JobsDistinct, queueVars
<1>10. IsLoading(s)' <=> left # 0
  BY <1>2, <1>6 DEF StateAfterRead, IsLoading, EntryShape
<1>11. ReadsTargetLoadingEntries'
  <2> SUFFICES ASSUME NEW j \in Outstanding'
               PROVE  table'[j[1]] # NoExpert /\ IsLoading(j[1])'
    BY DEF ReadsTargetLoadingEntries
  <2>1. j \in Outstanding /\ j # <<s, x>> /\ j \in Slot \X Component
    BY <1>4 DEF Outstanding, Job
  <2>2. table[j[1]] # NoExpert /\ IsLoading(j[1])
    BY <2>1 DEF ReadInv, ReadsTargetLoadingEntries
  <2>3. CASE j[1] = s
    <3>1. j[2] \in Reading(s)'
      BY <2>1, <2>3, <1>4 DEF Reading
    <3> QED
      BY <3>1, <2>2, <2>3, <1>2, <1>7, <1>8, <1>10
  <2>4. CASE j[1] # s
    BY <2>1, <2>2, <2>4, <1>2 DEF IsLoading, EntryShape
  <2> QED
    BY <2>3, <2>4
<1>12. LoadingEntriesHaveReads'
  <2> SUFFICES ASSUME NEW r \in InTable'
               PROVE  /\ pending_reads'[r] = Cardinality(Reading(r)')
                      /\ IsLoading(r)' <=> Reading(r)' # {}
    BY DEF LoadingEntriesHaveReads
  <2>1. CASE r = s
    BY <2>1, <1>2, <1>7, <1>8, <1>10 DEF EntryShape
  <2>2. CASE r # s
    BY <2>2, <1>2, <1>5 DEF ReadInv, LoadingEntriesHaveReads, IsLoading, InTable, EntryShape
  <2> QED
    BY <2>1, <2>2
<1>13. BuffersFilled'
  <2>1. ASSUME NEW r \in InTable', NEW y \in Component
        PROVE  \/ state'[r] \notin {"Loading", "Ready"}
               \/ state'[r] = "Loading" /\ y \in Reading(r)'
               \/ buffer'[r][y] = table'[r]
    <3>1. CASE r # s
      BY <3>1, <1>2, <1>5 DEF ReadInv, BuffersFilled, InTable, EntryShape
    <3>2. CASE r = s /\ y = x
      <4>1. CASE wpc[w] = "ok"
        BY <3>2, <4>1, <1>1, <1>2 DEF ReadInv, BuffersFilled
      <4>2. CASE wpc[w] = "fail"
        BY <3>2, <4>2, <1>2, <1>6 DEF StateAfterRead, IsLoading, EntryShape
      <4> QED
        BY <4>1, <4>2, <1>2
    <3>3. CASE r = s /\ y # x
      <4>1. \/ state[s] \notin {"Loading", "Ready"}
            \/ state[s] = "Loading" /\ y \in Reading(s)
            \/ buffer[s][y] = table[s]
        BY <1>6 DEF ReadInv, BuffersFilled
      <4>2. CASE buffer[s][y] = table[s]
        BY <3>3, <4>2, <1>2
      <4>3. CASE state[s] = "LoadingFailed"
        BY <3>3, <4>3, <1>2 DEF StateAfterRead, EntryShape
      <4>4. CASE state[s] = "Loading" /\ y \in Reading(s)
        <5>1. y \in Reading(s)' /\ left # 0
          BY <3>3, <4>4, <1>5, <1>7, <1>8
        <5> QED
          BY <3>3, <4>4, <5>1, <1>2 DEF StateAfterRead, EntryShape
      <4> QED
        BY <4>1, <4>2, <4>3, <4>4, <1>6 DEF IsLoading
    <3> QED
      BY <3>1, <3>2, <3>3
  <2>2. ASSUME NEW v \in Worker, NEW r \in Slot, NEW y \in Component,
               wpc'[v] = "ok", wjob'[v] = <<r, y>>
        PROVE  buffer'[r][y] = table'[r]
    BY <2>2, <1>2 DEF ReadInv, BuffersFilled
  <2> QED
    BY <2>1, <2>2 DEF BuffersFilled
<1> QED
  BY <1>9, <1>11, <1>12, <1>13 DEF ReadInv

(* clear_resident and reopen leave an empty table and no job. *)
LEMMA ReadInvEmptied ==
    ASSUME Shape', table' = [s \in Slot |-> NoExpert], Outstanding' = {}, JobsDistinct'
    PROVE  ReadInv'
<1>1. InTable' = {}
  BY DEF InTable
<1>2. \A w \in Worker : wjob'[w] = NoJob
  BY DEF Outstanding
<1>3. ReadsTargetLoadingEntries' /\ LoadingEntriesHaveReads'
  BY <1>1 DEF ReadsTargetLoadingEntries, LoadingEntriesHaveReads
<1>4. BuffersFilled'
  <2>1. \A s \in Slot, x \in Component : <<s, x>> # NoJob
    BY CacheAssumption DEF CacheAssumption
  <2> QED
    BY <2>1, <1>1, <1>2 DEF BuffersFilled
<1> QED
  BY <1>3, <1>4 DEF ReadInv

(* The reads and the entries they fill agree in every reachable state. *)
THEOREM ReadInvHolds == Spec => []ReadInv
<1>1. Init => ReadInv
  BY CacheAssumption DEF Init, ReadInv, JobsDistinct, ReadsTargetLoadingEntries,
     LoadingEntriesHaveReads, BuffersFilled, InTable, Outstanding, CacheAssumption
<1>2. Shape /\ Shape' /\ ReadInv /\ [Next]_vars => ReadInv'
  <2> SUFFICES ASSUME Shape, Shape', ReadInv, [Next]_vars
               PROVE  ReadInv'
    OBVIOUS
  <2>1. ASSUME NEW c \in Client, NEW l \in Layer, NEW K \in Routes(l), RequestMany(c, l, K)
        PROVE  ReadInv'
    BY <2>1, ReadInvRequestMany
  <2>2. ASSUME NEW c \in Client, NEW k \in Expert, BorrowFound(c, k)
        PROVE  ReadInv'
    BY <2>2, ReadInvFrame DEF BorrowFound, workerVars
  <2>3. ASSUME NEW c \in Client, NEW k \in Expert, BorrowMissing(c, k)
        PROVE  ReadInv'
    BY <2>3, ReadInvReserveOrSleep, DropFailedIdle DEF BorrowMissing, workerVars
  <2>4. ASSUME NEW c \in Client, SlotWake(c)
        PROVE  ReadInv'
    <3>1. want[c] \in Expert /\ UNCHANGED <<buffer, wpc, wjob>>
      BY <2>4 DEF SlotWake, Shape, ClientShape, workerVars
    <3>2. CASE UNCHANGED <<entryVars, queueVars>>
      BY <3>1, <3>2, ReadInvFrame
    <3>3. CASE ReserveOrSleep(c, want[c], {}) /\ UNCHANGED low_priority_io_jobs
      BY <3>1, <3>3, ReadInvReserveOrSleep
    <3> QED
      BY <2>4, <3>2, <3>3 DEF SlotWake
  <2>5. ASSUME NEW c \in Client, LoadWake(c)
        PROVE  ReadInv'
    BY <2>5, ReadInvFrame DEF LoadWake, workerVars
  <2>6. ASSUME NEW c \in Client, Kick(c) \/ NotifyReady(c) \/ SubmitTask(c)
        PROVE  ReadInv'
    BY <2>6, ReadInvFrame DEF Kick, WakeWorkers, NotifyReady, SubmitTask, workerVars
  <2>7. ASSUME NEW c \in Client, NEW t \in lease[c], ReleaseLease(c, t)
        PROVE  ReadInv'
    BY <2>7, ReadInvFrame DEF ReleaseLease, workerVars
  <2>8. ASSUME NEW c \in Client, NEW k \in Expert, Evict(c, k)
        PROVE  ReadInv'
    <3>1. PICK s \in Evictable(InTable) : table' = [table EXCEPT ![s] = NoExpert]
      BY <2>8 DEF Evict
    <3>2. {s} \in SUBSET Evictable(InTable)
      BY <3>1
    <3>3. table' = [r \in Slot |-> IF r \in {s} THEN NoExpert ELSE table[r]]
      BY <3>1 DEF Shape, EntryShape
    <3>4. Outstanding' = Outstanding /\ JobsDistinct'
      BY <2>8 DEF Evict, Outstanding, ReadInv, JobsDistinct, queueVars, workerVars
    <3>5. UNCHANGED <<state, pending_reads, buffer, wpc, wjob>>
      BY <2>8 DEF Evict, workerVars
    <3> QED
      BY <3>2, <3>3, <3>4, <3>5, RemoveReadInv
  <2>9. ASSUME NEW l \in Layer, NEW K \in Routes(l), Prefetch(l, K)
        PROVE  ReadInv'
    BY <2>9, ReadInvPrefetch
  <2>10. CASE PredictTake \/ PredictKick \/ Stop \/ StopKick
    BY <2>10, ReadInvFrame DEF PredictTake, PredictKick, Stop, StopKick, WakeWorkers,
       workerVars
  <2>11. ASSUME NEW w \in Worker, WorkerTake(w)
         PROVE  ReadInv'
    BY <2>11, ReadInvWorkerTake
  <2>12. ASSUME NEW w \in Worker, WorkerRead(w)
         PROVE  ReadInv'
    BY <2>12, ReadInvWorkerRead
  <2>13. ASSUME NEW w \in Worker, WorkerComplete(w)
         PROVE  ReadInv'
    BY <2>13, ReadInvWorkerComplete
  <2>14. ASSUME NEW w \in Worker, WorkerNotify(w)
         PROVE  ReadInv'
    BY <2>14, ReadInvFrame DEF WorkerNotify
  <2>15. CASE ClearResident
    <3>1. Outstanding = {}
      <4>1. \A j \in Outstanding : j[1] \in InTable /\ IsLoading(j[1])
        BY DEF ReadInv, ReadsTargetLoadingEntries, InTable, Outstanding, Shape,
           WorkerShape, Job
      <4> QED
        BY <2>15, <4>1 DEF ClearResident, MayClear, Busy
    <3>2. Outstanding' = {} /\ JobsDistinct'
      BY <2>15, <3>1 DEF ClearResident, Outstanding, ReadInv, JobsDistinct, queueVars,
         workerVars
    <3> QED
      BY <2>15, <3>2, ReadInvEmptied DEF ClearResident
  <2>16. CASE Reopen
    <3>1. \A w \in Worker : wjob'[w] = NoJob
      BY <2>16 DEF Reopen, Shape, WorkerShape
    <3>2. Outstanding' = {} /\ JobsDistinct'
      BY <2>16, <3>1 DEF Reopen, Outstanding, JobsDistinct
    <3> QED
      BY <2>16, <3>2, ReadInvEmptied DEF Reopen
  <2>17. CASE UNCHANGED vars
    BY <2>17, ReadInvFrame DEF vars, entryVars, queueVars
  <2> QED
    BY <2>1, <2>2, <2>3, <2>4, <2>5, <2>6, <2>7, <2>8, <2>9, <2>10, <2>11, <2>12,
       <2>13, <2>14, <2>15, <2>16, <2>17
       DEF Next, ClientStep, WorkerStep, PredictorStep, OwnerStep
<1> QED
  BY <1>1, <1>2, ShapeHolds, PTL DEF Spec

-----------------------------------------------------------------------------
(***************************************************************************)
(* Stage 3.  Pins.  A lease is on a ready entry of its pair, a blocked     *)
(* borrow on an entry of the pair it wants, and pins counts both.  An      *)
(* entry that can be removed or reused has no pin, so nobody holds it.     *)
(***************************************************************************)
HoldersInTable ==
    /\ \A c \in Client : \A t \in lease[c] : table[t[1]] = t[2] /\ state[t[1]] = "Ready"
    /\ \A c \in Client : pin[c] \in Slot => table[pin[c]] = want[c]

PinInv == HoldersInTable /\ PinsAreHolders

LEMMA HoldersFinite ==
    ASSUME NEW s
    PROVE  /\ IsFiniteSet(Holders(s)) /\ Cardinality(Holders(s)) \in Nat
           /\ Cardinality(Holders(s)) = 0 <=> Holders(s) = {}
  BY CacheAssumption, FS_Subset, FS_CardinalityType, FS_EmptySet
     DEF Holders, CacheAssumption

(* Nobody holds an entry that is out of the table, or that may be removed. *)
LEMMA FreeUnheld ==
    ASSUME Shape, PinInv, NEW s \in Slot, s \notin InTable \/ s \in Evictable(InTable)
    PROVE  Holders(s) = {} /\ pins[s] = 0
<1>1. CASE s \notin InTable
  <2>1. \A c \in Client : pin[c] # s
    BY <1>1, CacheAssumption DEF PinInv, HoldersInTable, InTable, Shape, ClientShape,
       CacheAssumption
  <2>2. \A c \in Client : \A t \in lease[c] : t[1] # s
    BY <1>1, CacheAssumption DEF PinInv, HoldersInTable, InTable, Shape, ClientShape,
       CacheAssumption
  <2>3. Holders(s) = {}
    BY <2>1, <2>2 DEF Holders
  <2> QED
    BY <2>3, HoldersFinite DEF PinInv, PinsAreHolders
<1>2. CASE s \in Evictable(InTable)
  BY <1>2, HoldersFinite DEF Evictable, PinInv, PinsAreHolders
<1> QED
  BY <1>1, <1>2

(* Steps that make or drop no pin, and disturb no entry that somebody holds. *)
LEMMA PinInvFrame ==
    ASSUME Shape, PinInv, UNCHANGED <<pins, want, pin, lease>>,
           \A s \in Slot : Holders(s) # {} =>
               table'[s] = table[s] /\ (state[s] = "Ready" => state'[s] = "Ready")
    PROVE  PinInv'
<1>1. \A s \in Slot : Holders(s)' = Holders(s)
  BY DEF Holders
<1>2. \A c \in Client : pin[c] \in Slot => Holders(pin[c]) # {}
  BY DEF Holders
<1>3. \A c \in Client : \A t \in lease[c] : t[1] \in Slot /\ Holders(t[1]) # {}
  BY DEF Holders, Shape, ClientShape
<1>4. HoldersInTable'
  BY <1>2, <1>3 DEF PinInv, HoldersInTable
<1> QED
  BY <1>1, <1>4 DEF PinInv, PinsAreHolders

(* Removing idle entries and installing others disturbs no holder. *)
LEMMA InstallUnheld ==
    ASSUME Shape, PinInv, NEW M, NEW gone \in SUBSET Evictable(InTable),
           NEW a \in Admissions(Slot \ (InTable \ gone), M), Install(gone, a)
    PROVE  \A s \in Slot : Holders(s) # {} =>
               table'[s] = table[s] /\ state'[s] = state[s] /\ s \notin DOMAIN a
<1> SUFFICES ASSUME NEW s \in Slot, Holders(s) # {}
             PROVE  table'[s] = table[s] /\ state'[s] = state[s] /\ s \notin DOMAIN a
  OBVIOUS
<1>1. s \in InTable /\ s \notin Evictable(InTable)
  BY FreeUnheld
<1>2. s \notin DOMAIN a /\ s \notin gone
  BY <1>1, AdmissionsShape
<1> QED
  BY <1>2 DEF Install

(* The tail of acquire_impl moves, makes or drops the pin of one thread. *)
LEMMA PinInvAwait ==
    ASSUME Shape, PinInv, NEW c \in Client, NEW k \in Expert, NEW s \in Slot,
           Await(c, k, s), table[s] = k,
           pin[c] = s \/ (pin[c] = NoSlot /\ c \notin Holders(s)),
           state[s] # "Ready" => lease[c] = {},
           UNCHANGED <<table, state>>
    PROVE  PinInv'
<1> USE DEF Shape, EntryShape, ClientShape
<1> DEFINE fresh == IF pin[c] = s THEN 0 ELSE 1
<1>1. NoSlot \notin Slot
  BY CacheAssumption DEF CacheAssumption
<1>2. /\ \A d \in Client \ {c} : pin'[d] = pin[d] /\ want'[d] = want[d] /\ lease'[d] = lease[d]
      /\ \A r \in Slot \ {s} : pins'[r] = pins[r]
  BY DEF Await
<1>3. pin[c] = s => lease[c] = {}
  OBVIOUS
<1>4. \A r \in Slot : \A d \in Client \ {c} : d \in Holders(r)' <=> d \in Holders(r)
  BY <1>2 DEF Holders
<1>5. \A r \in Slot \ {s} : Holders(r)' = Holders(r)
  <2>1. \A r \in Slot \ {s} : c \in Holders(r)' <=> c \in Holders(r)
    BY <1>1, <1>3 DEF Await, Holders
  <2>2. \A r \in Slot : Holders(r) \subseteq Client /\ Holders(r)' \subseteq Client
    BY DEF Holders
  <2> HIDE DEF Shape, EntryShape, ClientShape
  <2> SUFFICES ASSUME NEW r \in Slot \ {s}
               PROVE  Holders(r)' = Holders(r)
    OBVIOUS
  <2>3. Holders(r) \subseteq Client /\ Holders(r)' \subseteq Client
    BY <2>2
  <2>4. \A d \in Client : d \in Holders(r)' <=> d \in Holders(r)
    BY <2>1, <1>4
  <2> QED
    BY <2>3, <2>4
<1>6. IsFiniteSet(Holders(s)) /\ pins[s] = Cardinality(Holders(s)) /\ pins[s] \in Nat
  BY HoldersFinite DEF PinInv, PinsAreHolders
<1>7. fresh = (IF c \in Holders(s) THEN 0 ELSE 1)
  BY <1>1 DEF Holders
<1>8. Holders(s) \subseteq Client /\ Holders(s)' \subseteq Client
  BY DEF Holders
<1>9. /\ Cardinality(Holders(s) \cup {c}) = pins[s] + fresh
      /\ Cardinality(Holders(s) \ {c}) = pins[s] + fresh - 1
  <2> HIDE DEF Shape, EntryShape, ClientShape, fresh
  <2>1. CASE c \in Holders(s)
    <3>1. Cardinality(Holders(s) \cup {c}) = Cardinality(Holders(s))
      BY <2>1, <1>6, FS_AddElement
    <3>2. Cardinality(Holders(s) \ {c}) = Cardinality(Holders(s)) - 1
      BY <2>1, <1>6, FS_RemoveElement
    <3>3. fresh = 0
      BY <2>1, <1>7
    <3> QED
      BY <3>1, <3>2, <3>3, <1>6
  <2>2. CASE c \notin Holders(s)
    <3>1. Holders(s) \ {c} = Holders(s)
      BY <2>2
    <3>2. Cardinality(Holders(s) \cup {c}) = Cardinality(Holders(s)) + 1
      BY <2>2, <1>6, FS_AddElement
    <3> QED
      BY <2>2, <3>1, <3>2, <1>6, <1>7
  <2> QED
    BY <2>1, <2>2
<1> HIDE DEF fresh
<1>10. CASE IsLoading(s)
  <2>1. /\ pins'[s] = pins[s] + fresh
        /\ pin'[c] = s /\ want'[c] = k /\ lease'[c] = lease[c]
    BY <1>10 DEF fresh, Await, IsLoading
  <2>2. Holders(s)' = Holders(s) \cup {c}
    <3>1. c \in Holders(s)'
      BY <2>1 DEF Holders
    <3> QED
      BY <3>1, <1>4, <1>8
  <2>3. pins'[s] = Cardinality(Holders(s)')
    BY <2>1, <2>2, <1>9
  <2>4. HoldersInTable'
    <3>1. lease' = lease
      BY <1>10 DEF Await, IsLoading
    <3>2. \A d \in Client : pin'[d] \in Slot => table[pin'[d]] = want'[d]
      BY <2>1, <1>2 DEF PinInv, HoldersInTable
    <3> QED
      BY <3>1, <3>2 DEF PinInv, HoldersInTable
  <2> QED
    BY <2>3, <2>4, <1>2, <1>5 DEF PinInv, PinsAreHolders
<1>11. CASE state[s] = "Ready"
  <2>1. /\ pins'[s] = pins[s] + fresh
        /\ pin'[c] = NoSlot /\ lease'[c] = lease[c] \cup {<<s, k>>}
    BY <1>11 DEF fresh, Await, IsLoading
  <2>2. Holders(s)' = Holders(s) \cup {c}
    <3>1. <<s, k>> \in lease'[c] /\ <<s, k>>[1] = s
      BY <2>1
    <3>2. c \in Holders(s)'
      BY <3>1 DEF Holders
    <3> QED
      BY <3>2, <1>4, <1>8
  <2>3. pins'[s] = Cardinality(Holders(s)')
    BY <2>1, <2>2, <1>9
  <2>4. HoldersInTable'
    <3>1. \A d \in Client : \A t \in lease'[d] : t \in lease[d] \/ t = <<s, k>>
      BY <2>1, <1>2
    <3>2. \A d \in Client : \A t \in lease'[d] :
             table'[t[1]] = t[2] /\ state'[t[1]] = "Ready"
      BY <3>1, <1>11 DEF PinInv, HoldersInTable
    <3>3. \A d \in Client : pin'[d] \in Slot => table[pin'[d]] = want'[d]
      BY <2>1, <1>1, <1>2 DEF PinInv, HoldersInTable
    <3> QED
      BY <3>2, <3>3 DEF HoldersInTable
  <2> QED
    BY <2>3, <2>4, <1>2, <1>5 DEF PinInv, PinsAreHolders
<1>12. CASE state[s] = "Failed"
  <2>1. /\ pins'[s] = pins[s] + fresh - 1
        /\ pin'[c] = NoSlot /\ lease'[c] = {}
    BY <1>12 DEF fresh, Await, IsLoading, UnpinAfterFailure
  <2>2. Holders(s)' = Holders(s) \ {c}
    BY <2>1, <1>1, <1>4 DEF Holders
  <2>3. pins'[s] = Cardinality(Holders(s)')
    BY <2>1, <2>2, <1>9
  <2>4. HoldersInTable'
    <3>1. \A d \in Client : \A t \in lease'[d] : t \in lease[d]
      BY <2>1, <1>2
    <3>2. \A d \in Client : \A t \in lease'[d] :
             table'[t[1]] = t[2] /\ state'[t[1]] = "Ready"
      BY <3>1 DEF PinInv, HoldersInTable
    <3>3. \A d \in Client : pin'[d] \in Slot => table[pin'[d]] = want'[d]
      BY <2>1, <1>1, <1>2 DEF PinInv, HoldersInTable
    <3> QED
      BY <3>2, <3>3 DEF HoldersInTable
  <2> QED
    BY <2>3, <2>4, <1>2, <1>5 DEF PinInv, PinsAreHolders
<1> QED
  BY <1>10, <1>11, <1>12 DEF Await

LEMMA PinInvReserveOrSleep ==
    ASSUME Shape, PinInv, NEW c \in Client, NEW k \in Expert,
           NEW gone \in SUBSET Evictable(InTable), ReserveOrSleep(c, k, gone),
           lease[c] = {}, pin[c] \notin Slot, lease' = lease
    PROVE  PinInv'
<1> USE DEF Shape, EntryShape, ClientShape
<1>1. PICK victims \in SUBSET Evictable(Pool(LayerOf[k]) \ gone) :
      \E a \in Admissions(Slot \ (InTable \ (gone \cup victims)), {k}) :
        /\ Install(gone \cup victims, a)
        /\ want' = [want EXCEPT ![c] = k]
        /\ pins' = [s \in Slot |-> IF s \in DOMAIN a THEN pins[s] + 1 ELSE pins[s]]
        /\ \/ DOMAIN a = {} /\ pin' = pin
           \/ \E s \in DOMAIN a : pin' = [pin EXCEPT ![c] = s]
  BY DEF ReserveOrSleep
<1>2. PICK a \in Admissions(Slot \ (InTable \ (gone \cup victims)), {k}) :
        /\ Install(gone \cup victims, a)
        /\ want' = [want EXCEPT ![c] = k]
        /\ pins' = [s \in Slot |-> IF s \in DOMAIN a THEN pins[s] + 1 ELSE pins[s]]
        /\ \/ DOMAIN a = {} /\ pin' = pin
           \/ \E s \in DOMAIN a : pin' = [pin EXCEPT ![c] = s]
  BY <1>1
<1> DEFINE out == gone \cup victims
<1>3. out \in SUBSET Evictable(InTable)
  BY VictimsIdle
<1>4. \A s \in Slot : Holders(s) # {} =>
          table'[s] = table[s] /\ state'[s] = state[s] /\ s \notin DOMAIN a
  BY <1>2, <1>3, InstallUnheld
<1>5. DOMAIN a \subseteq Slot /\ \A s, r \in DOMAIN a : a[s] = k /\ s = r
  BY <1>2, AdmissionsShape
<1>6. \A d \in Client \ {c} : pin'[d] = pin[d] /\ want'[d] = want[d]
  BY <1>2
<1>7. \A d \in Client : pin[d] \in Slot => Holders(pin[d]) # {}
  BY DEF Holders
<1>8. \A d \in Client : \A t \in lease[d] : t[1] \in Slot /\ Holders(t[1]) # {}
  BY DEF Holders
<1>9. CASE DOMAIN a = {} /\ pin' = pin
  <2>1. pins' = pins
    BY <1>2, <1>9
  <2>2. \A s \in Slot : Holders(s)' = Holders(s)
    BY <1>9 DEF Holders
  <2>3. HoldersInTable'
    <3>1. \A d \in Client : pin[d] \in Slot => want'[d] = want[d]
      BY <1>6
    <3>2. \A d \in Client : \A t \in lease'[d] :
             table'[t[1]] = t[2] /\ state'[t[1]] = "Ready"
      BY <1>4, <1>8 DEF PinInv, HoldersInTable
    <3>3. \A d \in Client : pin'[d] \in Slot => table'[pin'[d]] = want'[d]
      BY <3>1, <1>4, <1>7, <1>9 DEF PinInv, HoldersInTable
    <3> QED
      BY <3>2, <3>3 DEF HoldersInTable
  <2> QED
    BY <2>1, <2>2, <2>3 DEF PinInv, PinsAreHolders
<1>10. ASSUME NEW s \in DOMAIN a, pin' = [pin EXCEPT ![c] = s]
       PROVE  PinInv'
  <2>1. /\ s \in Slot /\ pins'[s] = pins[s] + 1 /\ \A r \in Slot \ {s} : pins'[r] = pins[r]
        /\ table'[s] = k /\ want'[c] = k /\ pin'[c] = s
    BY <1>2, <1>5, <1>10 DEF Install
  <2>2. Holders(s) = {}
    BY <1>4, <2>1
  <2>3. pins[s] = 0
    BY <2>1, <2>2, HoldersFinite DEF PinInv, PinsAreHolders
  <2>4. Holders(s)' = {c}
    BY <2>1, <2>2, <1>6 DEF Holders
  <2>5. \A r \in Slot \ {s} : Holders(r)' = Holders(r)
    BY <2>1, <1>6 DEF Holders
  <2>6. pins'[s] = Cardinality(Holders(s)')
    <3>1. Cardinality(Holders(s)') = 1
      BY <2>4, FS_Singleton
    <3> QED
      BY <3>1, <2>1, <2>3
  <2>7. HoldersInTable'
    BY <2>1, <1>4, <1>6, <1>7, <1>8 DEF PinInv, HoldersInTable
  <2> QED
    BY <2>1, <2>5, <2>6, <2>7 DEF PinInv, PinsAreHolders
<1> QED
  BY <1>2, <1>9, <1>10

(* Giving a lease back takes one holder off its entry. *)
LEMMA PinInvRelease ==
    ASSUME Shape, PinInv, NEW c \in Client, NEW t \in lease[c], ReleaseLease(c, t)
    PROVE  PinInv'
<1> USE DEF Shape, EntryShape, ClientShape
<1>1. /\ t[1] \in Slot /\ t = <<t[1], t[2]>>
      /\ lease' = [lease EXCEPT ![c] = @ \ {t}]
      /\ pins' = [pins EXCEPT ![t[1]] = @ - 1]
      /\ UNCHANGED <<table, state, want, pin>>
  BY DEF ReleaseLease, entryVars
<1> DEFINE s == t[1]
<1>2. pin[c] \notin Slot
  BY DEF ReleaseLease
<1>3. \A u \in lease[c] : u[1] = s => u = t
  <2>1. \A u \in lease[c] : u = <<u[1], u[2]>> /\ table[u[1]] = u[2]
    BY DEF PinInv, HoldersInTable
  <2> QED
    BY <2>1, <1>1
<1>4. c \in Holders(s) /\ c \notin Holders(s)'
  BY <1>1, <1>2, <1>3 DEF Holders
<1>5. \A r \in Slot : \A d \in Client : r # s \/ d # c =>
          (d \in Holders(r)' <=> d \in Holders(r))
  BY <1>1 DEF Holders
<1>6. \A r \in Slot : Holders(r) \subseteq Client /\ Holders(r)' \subseteq Client
  BY DEF Holders
<1>7. Holders(s)' = Holders(s) \ {c} /\ \A r \in Slot \ {s} : Holders(r)' = Holders(r)
  <2> HIDE DEF Shape, EntryShape, ClientShape, s
  <2> SUFFICES ASSUME NEW r \in Slot
               PROVE  Holders(r)' = IF r = s THEN Holders(r) \ {c} ELSE Holders(r)
    BY <1>1 DEF s
  <2>1. CASE r = s
    BY <2>1, <1>4, <1>5, <1>6
  <2>2. CASE r # s
    BY <2>2, <1>5, <1>6
  <2> QED
    BY <2>1, <2>2
<1>8. pins'[s] = Cardinality(Holders(s)')
  <2>1. IsFiniteSet(Holders(s)) /\ pins[s] = Cardinality(Holders(s))
    BY <1>1, HoldersFinite DEF PinInv, PinsAreHolders
  <2>2. pins'[s] = pins[s] - 1
    BY <1>1
  <2> HIDE DEF Shape, EntryShape, ClientShape, s
  <2>3. Cardinality(Holders(s)') = Cardinality(Holders(s)) - 1
    BY <2>1, <1>4, <1>7, FS_RemoveElement
  <2> QED
    BY <2>1, <2>2, <2>3
<1>9. HoldersInTable'
  BY <1>1 DEF PinInv, HoldersInTable
<1>10. \A r \in Slot \ {s} : pins'[r] = pins[r]
  BY <1>1
<1> HIDE DEF Shape, EntryShape, ClientShape, s
<1> QED
  BY <1>7, <1>8, <1>9, <1>10 DEF PinInv, PinsAreHolders

(* A thread outside borrow() has no pending pin; it holds s only by a lease. *)
LEMMA IdleHolds ==
    ASSUME Shape, PinInv, NEW c \in Client, cpc[c] \notin {"kick", "load"},
           NEW s \in Slot, NEW k, table[s] = k, <<s, k>> \notin lease[c]
    PROVE  pin[c] = NoSlot /\ c \notin Holders(s)
<1>1. pin[c] = NoSlot
  BY DEF Shape, ClientShape
<1>2. \A t \in lease[c] : t = <<t[1], t[2]>> /\ table[t[1]] = t[2]
  BY DEF Shape, ClientShape, PinInv, HoldersInTable
<1> QED
  BY <1>1, <1>2, CacheAssumption DEF Holders, CacheAssumption

(* Pins agree with their holders in every reachable state. *)
THEOREM PinInvHolds == Spec => []PinInv
<1>1. Init => PinInv
  <2> SUFFICES ASSUME Init PROVE PinInv
    OBVIOUS
  <2>1. \A s \in Slot : Holders(s) = {}
    BY CacheAssumption DEF Init, Holders, CacheAssumption
  <2> QED
    BY <2>1, CacheAssumption, FS_EmptySet
       DEF Init, PinInv, HoldersInTable, PinsAreHolders, CacheAssumption
<1>2. Shape /\ ReadInv /\ PinInv /\ [Next]_vars => PinInv'
  <2> SUFFICES ASSUME Shape, ReadInv, PinInv, [Next]_vars
               PROVE  PinInv'
    OBVIOUS
  <2>1. ASSUME NEW c \in Client, NEW l \in Layer, NEW K \in Routes(l), RequestMany(c, l, K)
        PROVE  PinInv'
    <3> DEFINE gone == DropFailed(K)
               missing == {k \in K : Find(k) \ gone = {}}
    <3>1. PICK victims \in SUBSET Evictable(Pool(l) \ gone) :
            \E a \in Admissions(Slot \ (InTable \ (gone \cup victims)), missing) :
               Install(gone \cup victims, a)
      BY <2>1 DEF RequestMany
    <3> HIDE DEF missing
    <3>2. gone \cup victims \in SUBSET Evictable(InTable)
      <4>1. gone \in SUBSET Evictable(InTable)
        BY DropFailedIdle
      <4> HIDE DEF gone
      <4>2. victims \in SUBSET Evictable(InTable)
        BY VictimsIdle
      <4> QED
        BY <4>1, <4>2
    <3> HIDE DEF gone
    <3>3. \A s \in Slot : Holders(s) # {} => table'[s] = table[s] /\ state'[s] = state[s]
      BY <3>1, <3>2, InstallUnheld
    <3> QED
      BY <2>1, <3>3, PinInvFrame DEF RequestMany
  <2>2. ASSUME NEW l \in Layer, NEW K \in Routes(l), Prefetch(l, K)
        PROVE  PinInv'
    <3> DEFINE gone == DropFailed(K)
               missing == {k \in K : Find(k) \ gone = {}}
    <3>1. PICK victims \in SUBSET Evictable(Pool(l) \ gone) :
            \E a \in Admissions(Slot \ (InTable \ (gone \cup victims)), missing) :
               Install(gone \cup victims, a)
      BY <2>2 DEF Prefetch
    <3> HIDE DEF missing
    <3>2. gone \cup victims \in SUBSET Evictable(InTable)
      <4>1. gone \in SUBSET Evictable(InTable)
        BY DropFailedIdle
      <4> HIDE DEF gone
      <4>2. victims \in SUBSET Evictable(InTable)
        BY VictimsIdle
      <4> QED
        BY <4>1, <4>2
    <3> HIDE DEF gone
    <3>3. \A s \in Slot : Holders(s) # {} => table'[s] = table[s] /\ state'[s] = state[s]
      BY <3>1, <3>2, InstallUnheld
    <3> QED
      BY <2>2, <3>3, PinInvFrame DEF Prefetch, clientVars
  <2>3. ASSUME NEW c \in Client, NEW k \in Expert, BorrowFound(c, k)
        PROVE  PinInv'
    <3>1. PICK s \in Find(k) : /\ <<s, k>> \notin lease[c]
                               /\ state[s] # "Ready" => lease[c] = {}
                               /\ Await(c, k, s)
      BY <2>3 DEF BorrowFound
    <3>2. s \in Slot /\ table[s] = k
      BY DEF Find, InTable
    <3>3. UNCHANGED <<table, state>> /\ cpc[c] = "idle"
      BY <2>3 DEF BorrowFound, entryVars, Idle
    <3> QED
      BY <3>1, <3>2, <3>3, IdleHolds, PinInvAwait
  <2>4. ASSUME NEW c \in Client, NEW k \in Expert, BorrowMissing(c, k)
        PROVE  PinInv'
    <3>1. pin[c] \notin Slot
      BY <2>4 DEF BorrowMissing, Idle, Shape, ClientShape
    <3> QED
      BY <2>4, <3>1, PinInvReserveOrSleep, DropFailedIdle DEF BorrowMissing
  <2>5. ASSUME NEW c \in Client, SlotWake(c)
        PROVE  PinInv'
    <3>1. want[c] \in Expert /\ lease[c] = {} /\ pin[c] \notin Slot /\ cpc[c] = "slot"
      BY <2>5 DEF SlotWake, Shape, ClientShape
    <3>2. ASSUME NEW s \in Find(want[c]), Await(c, want[c], s), UNCHANGED entryVars
          PROVE  PinInv'
      <4>1. s \in Slot /\ table[s] = want[c] /\ <<s, want[c]>> \notin lease[c]
        BY <3>1 DEF Find, InTable
      <4>2. pin[c] = NoSlot /\ c \notin Holders(s)
        BY <3>1, <4>1, IdleHolds
      <4> QED
        BY <3>1, <3>2, <4>1, <4>2, PinInvAwait DEF entryVars
    <3>3. CASE ReserveOrSleep(c, want[c], {}) /\ UNCHANGED lease
      <4>1. {} \in SUBSET Evictable(InTable)
        OBVIOUS
      <4> QED
        BY <3>1, <3>3, <4>1, PinInvReserveOrSleep
    <3> QED
      BY <2>5, <3>2, <3>3 DEF SlotWake
  <2>6. ASSUME NEW c \in Client, LoadWake(c)
        PROVE  PinInv'
    <3>1. /\ pin[c] \in Slot /\ want[c] \in Expert /\ lease[c] = {}
          /\ Await(c, want[c], pin[c]) /\ UNCHANGED <<table, state>>
      BY <2>6 DEF LoadWake, Shape, ClientShape, entryVars
    <3>2. PICK s \in Slot, k \in Expert : s = pin[c] /\ k = want[c]
      BY <3>1
    <3>3. table[s] = k
      BY <3>1, <3>2 DEF PinInv, HoldersInTable
    <3>4. Await(c, k, s)
      BY <3>1, <3>2
    <3>5. pin[c] = s \/ (pin[c] = NoSlot /\ c \notin Holders(s))
      BY <3>2
    <3>6. UNCHANGED <<table, state>> /\ (state[s] # "Ready" => lease[c] = {})
      BY <3>1
    <3> QED
      BY <3>3, <3>4, <3>5, <3>6, PinInvAwait
  <2>7. ASSUME NEW c \in Client, Kick(c) \/ NotifyReady(c) \/ SubmitTask(c)
        PROVE  PinInv'
    BY <2>7, PinInvFrame DEF Kick, NotifyReady, SubmitTask, entryVars, clientVars
  <2>8. ASSUME NEW c \in Client, NEW t \in lease[c], ReleaseLease(c, t)
        PROVE  PinInv'
    BY <2>8, PinInvRelease
  <2>9. ASSUME NEW c \in Client, NEW k \in Expert, Evict(c, k)
        PROVE  PinInv'
    <3>1. PICK r \in Evictable(InTable) : table' = [table EXCEPT ![r] = NoExpert]
      BY <2>9 DEF Evict
    <3>2. \A s \in Slot : Holders(s) # {} => table'[s] = table[s]
      BY <3>1, FreeUnheld DEF Shape, EntryShape
    <3> QED
      BY <2>9, <3>2, PinInvFrame DEF Evict, clientVars
  <2>10. CASE PredictTake \/ PredictKick \/ Stop \/ StopKick
    BY <2>10, PinInvFrame DEF PredictTake, PredictKick, Stop, StopKick, entryVars, clientVars
  <2>11. ASSUME NEW w \in Worker, WorkerTake(w) \/ WorkerRead(w) \/ WorkerNotify(w)
         PROVE  PinInv'
    BY <2>11, PinInvFrame DEF WorkerTake, WorkerRead, WorkerNotify, entryVars, clientVars
  <2>12. ASSUME NEW w \in Worker, WorkerComplete(w)
         PROVE  PinInv'
    <3> DEFINE s == wjob[w][1]
    <3>1. UNCHANGED <<table, pins, want, pin, lease>>
      BY <2>12 DEF WorkerComplete, clientVars
    <3>2. IsLoading(s)
      BY <2>12 DEF WorkerComplete, ReadInv, ReadsTargetLoadingEntries, Outstanding,
         Shape, WorkerShape
    <3>3. \A r \in Slot : r # s => state'[r] = state[r]
      BY <2>12 DEF WorkerComplete, Shape, EntryShape
    <3>4. \A r \in Slot : state[r] = "Ready" => state'[r] = "Ready"
      BY <3>2, <3>3 DEF IsLoading
    <3> QED
      BY <3>1, <3>4, PinInvFrame
  <2>13. CASE ClearResident
    <3>1. \A s \in InTable : Holders(s) = {}
      BY <2>13, HoldersFinite DEF ClearResident, MayClear, Busy, PinInv, PinsAreHolders, InTable
    <3>2. \A s \in Slot : Holders(s) = {}
      BY <3>1, FreeUnheld
    <3> QED
      BY <2>13, <3>2, PinInvFrame DEF ClearResident, clientVars
  <2>14. CASE Reopen
    <3>1. \A c \in Client : cpc[c] = "idle" /\ lease[c] = {} /\ pin[c] \notin Slot
      BY <2>14 DEF Reopen, Shape, OwnerShape, ClientShape
    <3>2. \A s \in Slot : Holders(s) = {}
      BY <3>1 DEF Holders
    <3> QED
      BY <2>14, <3>2, PinInvFrame DEF Reopen, clientVars
  <2>15. CASE UNCHANGED vars
    BY <2>15, PinInvFrame DEF vars
  <2> QED
    BY <2>1, <2>2, <2>3, <2>4, <2>5, <2>6, <2>7, <2>8, <2>9, <2>10, <2>11, <2>12,
       <2>13, <2>14, <2>15
       DEF Next, ClientStep, WorkerStep, PredictorStep, OwnerStep
<1> QED
  BY <1>1, <1>2, ShapeHolds, ReadInvHolds, PTL DEF Spec

-----------------------------------------------------------------------------
(* The properties of the specification that these invariants give.         *)

(* No eviction, clear or reopen frees buffers that a worker may still      *)
(* write: every queued or running read belongs to a loading entry.         *)
THEOREM ReadsAreSafe == Spec => []ReadsTargetLoadingEntries
<1>1. ReadInv => ReadsTargetLoadingEntries
  BY DEF ReadInv
<1> QED
  BY <1>1, ReadInvHolds, PTL

(* An entry loads exactly as long as it has reads outstanding.             *)
THEOREM LoadingIsBacked == Spec => []LoadingEntriesHaveReads
<1>1. ReadInv => LoadingEntriesHaveReads
  BY DEF ReadInv
<1> QED
  BY <1>1, ReadInvHolds, PTL

(* Both directions, for every number of layers, slots and threads.         *)
THEOREM ReadsAndEntriesAgree == Spec => []ReadsMatchEntries
<1>1. ReadsTargetLoadingEntries /\ LoadingEntriesHaveReads => ReadsMatchEntries
  BY DEF ReadsMatchEntries
<1> QED
  BY <1>1, ReadsAreSafe, LoadingIsBacked, PTL

(* pins counts the leases and blocked borrows of every entry.              *)
THEOREM PinsCount == Spec => []PinsAreHolders
<1>1. PinInv => PinsAreHolders
  BY DEF PinInv
<1> QED
  BY <1>1, PinInvHolds, PTL

(* Every variable stays in its type; in particular no unpin ever takes the *)
(* pin count of an entry below zero.                                       *)
THEOREM TypeCorrect == Spec => []TypeOK
<1>1. Shape /\ PinInv => TypeOK
  <2> SUFFICES ASSUME Shape, PinInv PROVE TypeOK
    OBVIOUS
  <2>1. pins \in [Slot -> Nat]
    BY HoldersFinite DEF PinInv, PinsAreHolders, Shape, EntryShape
  <2> QED
    BY <2>1 DEF TypeOK, Shape, EntryShape, WorkerShape, ClientShape, OwnerShape
<1> QED
  BY <1>1, ShapeHolds, PinInvHolds, PTL

(* A lease keeps its weights: whatever the other threads do, its entry     *)
(* holds every component of the pair that was borrowed.                    *)
THEOREM LeasesAreSafe == Spec => []LeasesHoldTheirWeights
<1>1. Shape /\ ReadInv /\ PinInv => LeasesHoldTheirWeights
  <2> SUFFICES ASSUME Shape, ReadInv, PinInv,
                      NEW c \in Client, NEW t \in lease[c], NEW x \in Component
               PROVE  table[t[1]] = t[2] /\ buffer[t[1]][x] = t[2]
    BY DEF LeasesHoldTheirWeights, PinInv, HoldersInTable
  <2>1. table[t[1]] = t[2] /\ state[t[1]] = "Ready"
    BY DEF PinInv, HoldersInTable
  <2>2. t[1] \in InTable
    BY <2>1, CacheAssumption DEF InTable, Shape, ClientShape, CacheAssumption
  <2>3. buffer[t[1]][x] = table[t[1]]
    BY <2>1, <2>2 DEF ReadInv, BuffersFilled
  <2> QED
    BY <2>1, <2>3
<1> QED
  BY <1>1, ShapeHolds, ReadInvHolds, PinInvHolds, PTL

-----------------------------------------------------------------------------
(***************************************************************************)
(* Stage 4.  The cache implements the provider.  What a client sees is a   *)
(* function of its leases alone, because a lease keeps its weights; and a  *)
(* step adds one lease, takes one away, or leaves them all alone.          *)
(***************************************************************************)
Seen(t) == <<t[1], t[2], Provider!Weights(t[2])>>
View(leases) == [c \in Client |-> {Seen(t) : t \in leases[c]}]

LEMMA HeldIsView == Shape /\ LeasesHoldTheirWeights => Held = View(lease)
<1> SUFFICES ASSUME Shape, LeasesHoldTheirWeights
             PROVE  Held = View(lease)
  OBVIOUS
<1>1. ASSUME NEW c \in Client, NEW t \in lease[c]
      PROVE  <<t[1], t[2], buffer[t[1]]>> = Seen(t)
  <2>1. t[1] \in Slot
    BY DEF Shape, ClientShape
  <2>2. buffer[t[1]] = [x \in Component |-> buffer[t[1]][x]]
    BY <2>1 DEF Shape, EntryShape
  <2>3. buffer[t[1]] = Provider!Weights(t[2])
    BY <2>2 DEF LeasesHoldTheirWeights, Provider!Weights
  <2> QED
    BY <2>3 DEF Seen
<1> QED
  BY <1>1, Zenon DEF Held, View

(* How a step may change the leases. *)
LEMMA LeaseSteps ==
    ASSUME Shape, [Next]_vars
    PROVE  \/ lease' = lease
           \/ \E c \in Client, k \in Expert, s \in Slot :
                lease' = [lease EXCEPT ![c] = @ \cup {<<s, k>>}]
           \/ \E c \in Client : \E t \in lease[c] :
                lease' = [lease EXCEPT ![c] = @ \ {t}]
<1> DEFINE Goal == \/ lease' = lease
                   \/ \E c \in Client, k \in Expert, s \in Slot :
                        lease' = [lease EXCEPT ![c] = @ \cup {<<s, k>>}]
                   \/ \E c \in Client : \E t \in lease[c] :
                        lease' = [lease EXCEPT ![c] = @ \ {t}]
<1>1. ASSUME NEW c \in Client, NEW k \in Expert, NEW s \in Slot, Await(c, k, s)
      PROVE  Goal
  BY <1>1 DEF Await
<1>2. ASSUME NEW c \in Client, SlotWake(c)
      PROVE  Goal
  <2>1. want[c] \in Expert
    BY <1>2 DEF SlotWake, Shape, ClientShape
  <2>2. CASE lease' = lease
    BY <2>2
  <2>3. ASSUME NEW s \in Find(want[c]), Await(c, want[c], s)
        PROVE  Goal
    <3>1. s \in Slot
      BY DEF Find, InTable
    <3> QED
      BY <2>1, <2>3, <3>1, <1>1
  <2> QED
    BY <1>2, <2>2, <2>3 DEF SlotWake
<1>3. ASSUME NEW c \in Client, LoadWake(c)
      PROVE  Goal
  <2>1. want[c] \in Expert /\ pin[c] \in Slot /\ Await(c, want[c], pin[c])
    BY <1>3 DEF LoadWake, Shape, ClientShape
  <2> QED
    BY <2>1, <1>1
<1>4. ASSUME NEW c \in Client, NEW k \in Expert, BorrowFound(c, k)
      PROVE  Goal
  <2>1. PICK s \in Find(k) : Await(c, k, s)
    BY <1>4 DEF BorrowFound
  <2>2. s \in Slot
    BY DEF Find, InTable
  <2> QED
    BY <2>1, <2>2, <1>1
<1>5. ASSUME NEW c \in Client, NEW t \in lease[c], ReleaseLease(c, t)
      PROVE  Goal
  BY <1>5 DEF ReleaseLease
<1>6. ASSUME NEW c \in Client, NEW k \in Expert, BorrowMissing(c, k)
      PROVE  lease' = lease
  BY <1>6 DEF BorrowMissing
<1>7. ASSUME NEW c \in Client, NEW l \in Layer, NEW K \in Routes(l), RequestMany(c, l, K)
      PROVE  lease' = lease
  BY <1>7 DEF RequestMany
<1>8. ASSUME NEW c \in Client, Kick(c) \/ NotifyReady(c) \/ SubmitTask(c)
      PROVE  lease' = lease
  BY <1>8 DEF Kick, NotifyReady, SubmitTask, clientVars
<1>9. ASSUME NEW c \in Client, NEW k \in Expert, Evict(c, k)
      PROVE  lease' = lease
  BY <1>9 DEF Evict, clientVars
<1>10. ASSUME PredictorStep PROVE lease' = lease
  BY <1>10 DEF PredictorStep, PredictTake, PredictKick, Prefetch, clientVars
<1>11. ASSUME NEW w \in Worker, WorkerStep(w) PROVE lease' = lease
  BY <1>11 DEF WorkerStep, WorkerTake, WorkerRead, WorkerComplete, WorkerNotify, clientVars
<1>12. ASSUME OwnerStep PROVE lease' = lease
  BY <1>12 DEF OwnerStep, ClearResident, Stop, StopKick, Reopen, clientVars
<1>13. ASSUME UNCHANGED vars PROVE lease' = lease
  BY <1>13 DEF vars
<1> HIDE DEF Goal
<1>14. lease' = lease => Goal
  BY DEF Goal
<1>15. Goal
  BY <1>2, <1>3, <1>4, <1>5, <1>6, <1>7, <1>8, <1>9, <1>10, <1>11, <1>12, <1>13, <1>14
     DEF Next, ClientStep
<1> QED
  BY <1>15 DEF Goal

(* The cache implements the abstract provider: every step of any thread is, *)
(* to a client, one borrow, one return, or nothing, and what it sees        *)
(* through a lease never changes.                                           *)
THEOREM CacheImplementsProvider == Spec => ProviderSpec
<1>1. Init => Provider!Init
  BY DEF Init, Provider!Init, Held
<1>2. ASSUME Shape, Shape', LeasesHoldTheirWeights, LeasesHoldTheirWeights', [Next]_vars
      PROVE  [Provider!Next]_Held
  <2>1. Held = View(lease) /\ Held' = View(lease')
    <3>1. (Shape /\ LeasesHoldTheirWeights => Held = View(lease))'
      BY HeldIsView, PTL
    <3> QED
      BY <1>2, <3>1, HeldIsView DEF View, Seen, Provider!Weights
  <2>2. CASE lease' = lease
    BY <2>1, <2>2
  <2>3. ASSUME NEW c \in Client, NEW k \in Expert, NEW s \in Slot,
               lease' = [lease EXCEPT ![c] = @ \cup {<<s, k>>}]
        PROVE  Provider!Next
    <3>1. View(lease') = [View(lease) EXCEPT ![c] = @ \cup {<<s, k, Provider!Weights(k)>>}]
      <4>1. lease'[c] = lease[c] \cup {<<s, k>>} /\ \A d \in Client \ {c} : lease'[d] = lease[d]
        BY <2>3, <1>2 DEF Shape, ClientShape
      <4>2. Seen(<<s, k>>) = <<s, k, Provider!Weights(k)>>
        BY DEF Seen
      <4>3. {Seen(u) : u \in lease'[c]} = {Seen(u) : u \in lease[c]} \cup {Seen(<<s, k>>)}
        BY <4>1
      <4> QED
        BY <4>1, <4>2, <4>3 DEF View
    <3> QED
      BY <2>1, <3>1 DEF Provider!Next, Provider!Borrow
  <2>4. ASSUME NEW c \in Client, NEW t \in lease[c],
               lease' = [lease EXCEPT ![c] = @ \ {t}]
        PROVE  Provider!Next
    <3>1. Seen(t) \in View(lease)[c]
      BY DEF View
    <3>2. View(lease') = [View(lease) EXCEPT ![c] = @ \ {Seen(t)}]
      <4>1. lease'[c] = lease[c] \ {t} /\ \A d \in Client \ {c} : lease'[d] = lease[d]
        BY <2>4, <1>2 DEF Shape, ClientShape
      <4>2. \A u \in lease[c] : Seen(u) = Seen(t) => u = t
        BY <1>2 DEF Seen, Shape, ClientShape
      <4>3. {Seen(u) : u \in lease'[c]} = {Seen(u) : u \in lease[c]} \ {Seen(t)}
        BY <4>1, <4>2
      <4> QED
        BY <4>1, <4>3 DEF View
    <3> QED
      BY <2>1, <3>1, <3>2 DEF Provider!Next, Provider!Return
  <2> QED
    BY <1>2, <2>2, <2>3, <2>4, LeaseSteps
<1> QED
  BY <1>1, <1>2, ShapeHolds, LeasesAreSafe, PTL DEF Spec, ProviderSpec, Provider!Spec

-----------------------------------------------------------------------------
(***************************************************************************)
(* Stage 5.  Capacity.  A reservation makes its room before it takes it,   *)
(* only in the pool of its own layer, and only for pairs that are missing. *)
(***************************************************************************)
LEMMA PoolFinite ==
    ASSUME NEW l
    PROVE  IsFiniteSet(Pool(l)) /\ Cardinality(Pool(l)) \in Nat
  BY CacheAssumption, FS_Subset, FS_CardinalityType DEF Pool, InTable, CacheAssumption

(* Removing entries, and keeping the pairs of the others, keeps the bound. *)
LEMMA CapacityShrinks ==
    ASSUME CapacityRespected, InTable' \subseteq InTable,
           \A s \in InTable' : table'[s] = table[s]
    PROVE  CapacityRespected'
<1>1. \A s, r \in InTable' : table'[s] = table'[r] => s = r
  BY DEF CapacityRespected
<1>2. ASSUME NEW l \in Layer
      PROVE  Cardinality(Pool(l)') <= Cap(l)
  <2>1. Pool(l)' \subseteq Pool(l)
    BY DEF Pool
  <2>2. /\ Cardinality(Pool(l)') <= Cardinality(Pool(l))
        /\ Cardinality(Pool(l)') \in Nat /\ Cardinality(Pool(l)) \in Nat
    BY <2>1, PoolFinite, FS_Subset, FS_CardinalityType
  <2>3. Cardinality(Pool(l)) <= Cap(l) /\ Cap(l) \in Nat
    BY CacheAssumption DEF CapacityRespected, Cap, CacheAssumption
  <2> QED
    BY <2>2, <2>3
<1> QED
  BY <1>1, <1>2 DEF CapacityRespected, Cap

(* The whole of a reservation, in the terms of reserve_entry_locked. *)
LEMMA CapacityInstall ==
    ASSUME Shape, CapacityRespected, NEW l \in Layer, NEW M \in SUBSET Expert,
           \A k \in M : LayerOf[k] = l,
           NEW gone \in SUBSET Slot, NEW victims \in SUBSET (Pool(l) \ gone),
           NEW a \in Admissions(Slot \ (InTable \ (gone \cup victims)), M),
           \A k \in M : Find(k) \ gone = {},
           Cardinality((Pool(l) \ gone) \ victims) + Cardinality(DOMAIN a) <= Cap(l),
           Install(gone \cup victims, a)
    PROVE  CapacityRespected'
<1> DEFINE stay == InTable \ (gone \cup victims)
<1>1. /\ DOMAIN a \subseteq Slot \ stay
      /\ \A s \in DOMAIN a : a[s] \in M
      /\ \A s, r \in DOMAIN a : a[s] = a[r] => s = r
  BY AdmissionsShape
<1>2. /\ \A s \in DOMAIN a : table'[s] = a[s]
      /\ \A s \in stay : table'[s] = table[s]
  BY <1>1 DEF Install, InTable
<1>3. InTable' = stay \cup DOMAIN a
  <2>1. \A k \in M : k # NoExpert
    BY CacheAssumption DEF CacheAssumption
  <2>2. \A s \in Slot : s \in InTable' <=> s \in stay \cup DOMAIN a
    BY <1>1, <2>1 DEF Install, InTable
  <2> QED
    BY <1>1, <2>2 DEF InTable
<1>4. \A s \in stay : table[s] \notin M
  BY DEF Find
<1>5. ASSUME NEW s \in InTable', NEW r \in InTable', table'[s] = table'[r]
      PROVE  s = r
  <2>1. CASE s \in stay /\ r \in stay
    BY <2>1, <1>2, <1>5 DEF CapacityRespected
  <2>2. CASE s \in DOMAIN a /\ r \in DOMAIN a
    BY <2>2, <1>1, <1>2, <1>5
  <2>3. CASE s \in stay /\ r \in DOMAIN a
    BY <2>3, <1>1, <1>2, <1>4, <1>5
  <2>4. CASE s \in DOMAIN a /\ r \in stay
    BY <2>4, <1>1, <1>2, <1>4, <1>5
  <2> QED
    BY <1>3, <1>5, <2>1, <2>2, <2>3, <2>4
<1>6. ASSUME NEW j \in Layer
      PROVE  Cardinality(Pool(j)') <= Cap(j)
  <2> DEFINE rest == (Pool(l) \ gone) \ victims
  <2>1. CASE GlobalPool \/ j = l
    <3>1. Pool(j)' \subseteq rest \cup DOMAIN a
      BY <2>1, <1>1, <1>2, <1>3 DEF Pool
    <3>2. IsFiniteSet(rest) /\ IsFiniteSet(DOMAIN a)
      BY <1>1, PoolFinite, FS_Subset, CacheAssumption DEF CacheAssumption
    <3>3. /\ IsFiniteSet(rest \cup DOMAIN a)
          /\ Cardinality(rest \cup DOMAIN a) =
               Cardinality(rest) + Cardinality(DOMAIN a) - Cardinality(rest \cap DOMAIN a)
          /\ Cardinality(rest \cap DOMAIN a) \in Nat
      <4> HIDE DEF rest
      <4> QED
        BY <3>2, FS_Union, FS_Intersection, FS_CardinalityType
    <3>4. /\ Cardinality(Pool(j)') <= Cardinality(rest \cup DOMAIN a)
          /\ Cardinality(Pool(j)') \in Nat
      BY <3>1, <3>3, FS_Subset, FS_CardinalityType
    <3>5. Cardinality(rest) \in Nat /\ Cardinality(DOMAIN a) \in Nat
      BY <3>2, FS_CardinalityType
    <3>6. Cap(j) = Cap(l) /\ Cap(l) \in Nat
      BY <2>1, CacheAssumption DEF Cap, CacheAssumption
    <3>7. Cardinality(rest) + Cardinality(DOMAIN a) <= Cap(l)
      OBVIOUS
    <3> HIDE DEF rest
    <3> QED
      BY <3>3, <3>4, <3>5, <3>6, <3>7
  <2>2. CASE ~GlobalPool /\ j # l
    <3>1. Pool(j)' \subseteq Pool(j)
      BY <2>2, <1>1, <1>2, <1>3 DEF Pool
    <3>2. /\ Cardinality(Pool(j)') <= Cardinality(Pool(j))
          /\ Cardinality(Pool(j)') \in Nat /\ Cardinality(Pool(j)) \in Nat
      BY <3>1, PoolFinite, FS_Subset, FS_CardinalityType
    <3>3. Cardinality(Pool(j)) <= Cap(j) /\ Cap(j) \in Nat
      BY CacheAssumption DEF CapacityRespected, Cap, CacheAssumption
    <3> QED
      BY <3>2, <3>3
  <2> QED
    BY <2>1, <2>2
<1> QED
  BY <1>5, <1>6 DEF CapacityRespected, Cap

LEMMA CapacityReserveOrSleep ==
    ASSUME Shape, CapacityRespected, NEW c \in Client, NEW k \in Expert,
           NEW gone \in SUBSET Slot, Find(k) \ gone = {}, ReserveOrSleep(c, k, gone)
    PROVE  CapacityRespected'
<1> DEFINE l == LayerOf[k]
<1>1. PICK victims \in SUBSET Evictable(Pool(l) \ gone) :
      \E a \in Admissions(Slot \ (InTable \ (gone \cup victims)), {k}) :
        /\ Reservation(l, {k}, gone, victims, a, FALSE)
        /\ Install(gone \cup victims, a)
  BY DEF ReserveOrSleep
<1>2. PICK a \in Admissions(Slot \ (InTable \ (gone \cup victims)), {k}) :
        /\ Cardinality((Pool(l) \ gone) \ victims) + Cardinality(DOMAIN a) <= Cap(l)
        /\ Install(gone \cup victims, a)
  BY <1>1 DEF Reservation
<1>3. l \in Layer /\ {k} \in SUBSET Expert /\ \A x \in {k} : LayerOf[x] = l
  BY CacheAssumption DEF CacheAssumption
<1>4. victims \in SUBSET (Pool(l) \ gone)
  BY DEF Evictable
<1> HIDE DEF l
<1> QED
  BY <1>2, <1>3, <1>4, CapacityInstall

(* The part that RequestMany and Prefetch share. *)
LEMMA CapacityRoute ==
    ASSUME Shape, CapacityRespected, NEW l \in Layer, NEW K \in Routes(l), NEW speculative,
           \E victims \in SUBSET Evictable(Pool(l) \ DropFailed(K)) :
           \E a \in Admissions(Slot \ (InTable \ (DropFailed(K) \cup victims)),
                               {k \in K : Find(k) \ DropFailed(K) = {}}) :
             /\ Reservation(l, {k \in K : Find(k) \ DropFailed(K) = {}}, DropFailed(K),
                            victims, a, speculative)
             /\ Install(DropFailed(K) \cup victims, a)
    PROVE  CapacityRespected'
<1> DEFINE gone == DropFailed(K)
           missing == {k \in K : Find(k) \ gone = {}}
<1>1. missing \in SUBSET Expert
  BY DEF Routes
<1>2. \A k \in missing : LayerOf[k] = l
  BY DEF Routes
<1>3. \A k \in missing : Find(k) \ gone = {}
  OBVIOUS
<1>4. gone \in SUBSET Slot
  BY DEF DropFailed, Evictable, InTable
<1>5. PICK victims \in SUBSET Evictable(Pool(l) \ gone) :
      \E a \in Admissions(Slot \ (InTable \ (gone \cup victims)), missing) :
        /\ Cardinality((Pool(l) \ gone) \ victims) + Cardinality(DOMAIN a) <= Cap(l)
        /\ Install(gone \cup victims, a)
  BY DEF Reservation
<1> HIDE DEF gone, missing
<1>6. PICK a \in Admissions(Slot \ (InTable \ (gone \cup victims)), missing) :
        /\ Cardinality((Pool(l) \ gone) \ victims) + Cardinality(DOMAIN a) <= Cap(l)
        /\ Install(gone \cup victims, a)
  BY <1>5
<1>7. victims \in SUBSET (Pool(l) \ gone)
  BY DEF Evictable
<1> QED
  BY <1>1, <1>2, <1>3, <1>4, <1>6, <1>7, CapacityInstall

(* No pair is resident twice, and no pool ever holds more than its capacity. *)
THEOREM CapacityIsABound == Spec => []CapacityRespected
<1>1. Init => CapacityRespected
  <2> SUFFICES ASSUME Init PROVE CapacityRespected
    OBVIOUS
  <2>1. InTable = {} /\ \A l \in Layer : Pool(l) = {} /\ Cap(l) \in Nat
    BY CacheAssumption DEF Init, InTable, Pool, Cap, CacheAssumption
  <2> QED
    BY <2>1, FS_EmptySet DEF CapacityRespected
<1>2. Shape /\ CapacityRespected /\ [Next]_vars => CapacityRespected'
  <2> SUFFICES ASSUME Shape, CapacityRespected, [Next]_vars
               PROVE  CapacityRespected'
    OBVIOUS
  <2>1. ASSUME NEW c \in Client, NEW l \in Layer, NEW K \in Routes(l), RequestMany(c, l, K)
        PROVE  CapacityRespected'
    BY <2>1, CapacityRoute DEF RequestMany
  <2>2. ASSUME NEW l \in Layer, NEW K \in Routes(l), Prefetch(l, K)
        PROVE  CapacityRespected'
    BY <2>2, CapacityRoute DEF Prefetch
  <2>3. ASSUME NEW c \in Client, NEW k \in Expert, BorrowMissing(c, k)
        PROVE  CapacityRespected'
    <3>1. DropFailed({k}) \in SUBSET Slot
      BY DEF DropFailed, Evictable, InTable
    <3> QED
      BY <2>3, <3>1, CapacityReserveOrSleep DEF BorrowMissing
  <2>4. ASSUME NEW c \in Client, SlotWake(c)
        PROVE  CapacityRespected'
    <3>1. want[c] \in Expert
      BY <2>4 DEF SlotWake, Shape, ClientShape
    <3>2. CASE table' = table
      BY <3>2, CapacityShrinks DEF InTable
    <3>3. CASE Find(want[c]) = {} /\ ReserveOrSleep(c, want[c], {})
      <4>1. {} \in SUBSET Slot /\ Find(want[c]) \ {} = {}
        BY <3>3
      <4> QED
        BY <3>1, <3>3, <4>1, CapacityReserveOrSleep
    <3> QED
      BY <2>4, <3>2, <3>3 DEF SlotWake, entryVars
  <2>5. CASE table' = table
    BY <2>5, CapacityShrinks DEF InTable
  <2>6. ASSUME NEW c \in Client, NEW k \in Expert, Evict(c, k)
        PROVE  CapacityRespected'
    BY <2>6, CapacityShrinks DEF Evict, InTable, Shape, EntryShape
  <2>7. CASE ClearResident \/ Reopen
    BY <2>7, CapacityShrinks DEF ClearResident, Reopen, InTable
  <2>8. ASSUME NEW c \in Client, NEW k \in Expert, BorrowFound(c, k)
        PROVE  table' = table
    BY <2>8 DEF BorrowFound, entryVars
  <2>9. ASSUME NEW c \in Client,
               LoadWake(c) \/ Kick(c) \/ NotifyReady(c) \/ SubmitTask(c)
                 \/ \E t \in lease[c] : ReleaseLease(c, t)
        PROVE  table' = table
    BY <2>9 DEF LoadWake, Kick, NotifyReady, SubmitTask, ReleaseLease, entryVars
  <2>10. ASSUME NEW w \in Worker, WorkerStep(w)
         PROVE  table' = table
    BY <2>10 DEF WorkerStep, WorkerTake, WorkerRead, WorkerComplete, WorkerNotify, entryVars
  <2>11. ASSUME PredictTake \/ PredictKick \/ Stop \/ StopKick \/ UNCHANGED vars
         PROVE  table' = table
    BY <2>11 DEF PredictTake, PredictKick, Stop, StopKick, entryVars, vars
  <2> QED
    BY <2>1, <2>2, <2>3, <2>4, <2>5, <2>6, <2>7, <2>8, <2>9, <2>10, <2>11
       DEF Next, ClientStep, PredictorStep, OwnerStep
<1> QED
  BY <1>1, <1>2, ShapeHolds, PTL DEF Spec

-----------------------------------------------------------------------------
(***************************************************************************)
(* Stage 6.  Wakeups.  NoLostWakeup is inductive once it is said who can   *)
(* sleep, and that a worker only exits when the cache is being stopped.    *)
(***************************************************************************)
FullAndBusy(l) ==
    /\ Cardinality(Pool(l)) = Cap(l)
    /\ \A s \in Pool(l) : Busy(s)

(* What a thread asleep on ready_cv_ may be waiting for. *)
Waits(c) ==
    \/ cpc[c] = "load" /\ IsLoading(pin[c])
    \/ cpc[c] = "slot" /\ FullAndBusy(LayerOf[want[c]])

SleepersWait == \A c \in asleep : NotifyPending \/ Waits(c)

QueuesServed ==
    io_jobs \cup low_priority_io_jobs # {} =>
        \/ \E w \in Worker : wpc[w] \notin {"sleep", "exit"}
        \/ \E c \in Client : cpc[c] = "kick"
        \/ ppc = "kick"
        \/ opc # "run"

BlockedSleep == \A c \in asleep : cpc[c] \in {"slot", "load"}
ExitsWhenStopped == \A w \in Worker : wpc[w] = "exit" => opc # "run"

WakeInv == BlockedSleep /\ ExitsWhenStopped /\ SleepersWait /\ QueuesServed

LEMMA WakeIsWake == NoLostWakeup <=> SleepersWait /\ QueuesServed
  BY DEF NoLostWakeup, SleepersWait, Waits, FullAndBusy, QueuesServed

(* A pool is one of two: the pool of the layer, or another. *)
LEMMA OnePoolOrAnother ==
    ASSUME NEW l \in Layer, NEW m \in Layer
    PROVE  \/ Pool(m) = Pool(l) /\ Cap(m) = Cap(l) /\ (GlobalPool \/ m = l)
           \/ Pool(m) \cap Pool(l) = {} /\ ~GlobalPool /\ m # l
  BY DEF Pool, Cap

(* An entry that is loading, or pinned, is in nobody's way: a reservation  *)
(* leaves a full pool of such entries as it is, whichever pool it is for.  *)
LEMMA InstallKeepsFull ==
    ASSUME Shape, NEW l \in Layer, NEW M \in SUBSET Expert,
           \A k \in M : LayerOf[k] = l,
           NEW gone \in SUBSET Evictable(InTable),
           NEW victims \in SUBSET Evictable(Pool(l) \ gone),
           NEW a \in Admissions(Slot \ (InTable \ (gone \cup victims)), M),
           Cardinality((Pool(l) \ gone) \ victims) + Cardinality(DOMAIN a) <= Cap(l),
           Install(gone \cup victims, a),
           \A s \in Slot : pins[s] # 0 => pins'[s] # 0,
           NEW m \in Layer, FullAndBusy(m)
    PROVE  FullAndBusy(m)'
<1>1. /\ DOMAIN a \subseteq Slot \ (InTable \ (gone \cup victims))
      /\ \A s \in DOMAIN a : a[s] \in M
  BY AdmissionsShape
<1>2. Pool(m) \cap (gone \cup victims) = {}
  BY DEF FullAndBusy, Busy, Evictable
<1>3. Pool(m) \subseteq InTable /\ InTable \subseteq Slot
  BY DEF Pool, InTable
<1>4. Pool(m) \cap DOMAIN a = {}
  BY <1>1, <1>2, <1>3
<1>5. \A s \in Pool(m) : table'[s] = table[s] /\ state'[s] = state[s]
  BY <1>2, <1>3, <1>4 DEF Install
<1>6. Pool(m)' = Pool(m)
  <2>1. Pool(m) \subseteq Pool(m)'
    BY <1>3, <1>5 DEF Pool, InTable
  <2>2. ASSUME NEW s \in Pool(m)', s \notin DOMAIN a
        PROVE  s \in Pool(m)
    BY <2>2 DEF Pool, InTable, Install
  <2>3. CASE Pool(m) \cap Pool(l) = {} /\ ~GlobalPool /\ m # l
    <3>1. \A s \in DOMAIN a : s \notin Pool(m)'
      BY <2>3, <1>1 DEF Install, Pool, InTable
    <3> QED
      BY <2>1, <2>2, <3>1
  <2>4. CASE Pool(m) = Pool(l) /\ Cap(m) = Cap(l)
    <3>1. (Pool(l) \ gone) \ victims = Pool(m)
      BY <2>4, <1>2
    <3>2. Cardinality(Pool(m)) = Cap(l) /\ Cardinality(Pool(m)) \in Nat
      BY <2>4, PoolFinite DEF FullAndBusy
    <3>3. IsFiniteSet(DOMAIN a)
      BY <1>1, FS_Subset, CacheAssumption DEF CacheAssumption
    <3>4. Cardinality(DOMAIN a) \in Nat
      BY <3>3, FS_CardinalityType
    <3>5. Cardinality(Pool(m)) + Cardinality(DOMAIN a) <= Cap(l)
      BY <3>1
    <3>6. Cardinality(DOMAIN a) = 0
      BY <3>2, <3>4, <3>5
    <3>7. DOMAIN a = {}
      BY <3>3, <3>6, FS_EmptySet
    <3> QED
      BY <2>1, <2>2, <3>7
  <2> QED
    BY <2>3, <2>4, OnePoolOrAnother
<1>7. \A s \in Pool(m) : Busy(s)'
  BY <1>3, <1>5 DEF FullAndBusy, Busy, IsLoading
<1> QED
  BY <1>6, <1>7 DEF FullAndBusy, Cap

(* The same, where the entries stay and pins are only added. *)
LEMMA PinsKeepFull ==
    ASSUME UNCHANGED table, NEW m \in Layer, FullAndBusy(m),
           \A s \in Slot : IsLoading(s) => IsLoading(s)',
           \A s \in Slot : pins[s] # 0 => pins'[s] # 0
    PROVE  FullAndBusy(m)'
<1>1. Pool(m)' = Pool(m) /\ Pool(m) \subseteq Slot
  BY DEF Pool, InTable
<1>2. \A s \in Pool(m) : Busy(s)'
  BY <1>1 DEF FullAndBusy, Busy
<1> QED
  BY <1>1, <1>2 DEF FullAndBusy, Cap

(* A step that neither wakes a thread nor ends its reason to sleep. *)
LEMMA SleepersFrame ==
    ASSUME Shape, BlockedSleep, SleepersWait, asleep' \subseteq asleep,
           NotifyPending => NotifyPending',
           \A c \in asleep : cpc'[c] = cpc[c] /\ want'[c] = want[c] /\ pin'[c] = pin[c],
           \A s \in Slot : IsLoading(s) => IsLoading(s)',
           \A m \in Layer : FullAndBusy(m) => FullAndBusy(m)'
    PROVE  BlockedSleep' /\ SleepersWait'
<1>1. BlockedSleep'
  BY DEF BlockedSleep
<1>2. ASSUME NEW c \in asleep'
      PROVE  (NotifyPending \/ Waits(c))'
  <2>1. c \in asleep /\ c \in Client
    BY DEF Shape, ClientShape
  <2>2. cpc'[c] = cpc[c] /\ want'[c] = want[c] /\ pin'[c] = pin[c]
    BY <2>1
  <2>3. CASE NotifyPending
    BY <2>3
  <2>4. CASE cpc[c] = "load" /\ IsLoading(pin[c])
    <3>1. PICK s \in Slot : s = pin[c]
      BY <2>1, <2>4 DEF Shape, ClientShape
    <3>2. IsLoading(s)'
      BY <2>4, <3>1
    <3>3. state'[pin'[c]] = state'[s]
      BY <2>2, <3>1
    <3> QED
      BY <2>2, <2>4, <3>2, <3>3 DEF Waits, IsLoading
  <2>5. CASE cpc[c] = "slot" /\ FullAndBusy(LayerOf[want[c]])
    <3>1. PICK m \in Layer : m = LayerOf[want[c]]
      BY <2>1, <2>5, CacheAssumption DEF Shape, ClientShape, CacheAssumption
    <3>2. FullAndBusy(m)'
      BY <2>5, <3>1
    <3>3. LayerOf[want'[c]] = m
      BY <2>2, <3>1
    <3> QED
      BY <2>2, <2>5, <3>2, <3>3 DEF Waits, FullAndBusy
  <2> QED
    BY <2>1, <2>3, <2>4, <2>5 DEF SleepersWait, Waits
<1> QED
  BY <1>1, <1>2 DEF SleepersWait

(* acquire_impl's tail: a thread sleeps only while its entry loads, and a  *)
(* failed one wakes everybody.                                             *)
LEMMA WakeAwait ==
    ASSUME Shape, TypeOK, BlockedSleep, SleepersWait, NEW c \in Client, c \notin asleep,
           cpc[c] # "notify", NEW k \in Expert, NEW s \in Slot, Await(c, k, s),
           UNCHANGED <<table, state, wpc>>
    PROVE  BlockedSleep' /\ SleepersWait'
<1>1. \A r \in Slot : IsLoading(r) => IsLoading(r)'
  BY DEF IsLoading
<1>2. NotifyPending => NotifyPending'
  <2>1. \A d \in Client : d # c => cpc'[d] = cpc[d]
    BY DEF Await, Shape, ClientShape
  <2> QED
    BY <2>1 DEF NotifyPending
<1>3. CASE state[s] = "Failed"
  <2>1. asleep' = {}
    BY <1>3 DEF Await, IsLoading
  <2> QED
    BY <2>1 DEF BlockedSleep, SleepersWait
<1>4. CASE state[s] # "Failed"
  <2>1. pins' = [pins EXCEPT ![s] = @ + (IF pin[c] = s THEN 0 ELSE 1)]
    BY <1>4 DEF Await
  <2>2. \A r \in Slot : pins[r] # 0 => pins'[r] # 0
    BY <2>1 DEF TypeOK
  <2>3. \A m \in Layer : FullAndBusy(m) => FullAndBusy(m)'
    BY <1>1, <2>2, PinsKeepFull
  <2>4. \A d \in Client : d # c => cpc'[d] = cpc[d] /\ want'[d] = want[d] /\ pin'[d] = pin[d]
    BY <1>4 DEF Await, Shape, ClientShape
  <2>5. CASE state[s] = "Ready"
    <3>1. asleep' = asleep
      BY <2>5 DEF Await, IsLoading
    <3>2. \A d \in asleep : cpc'[d] = cpc[d] /\ want'[d] = want[d] /\ pin'[d] = pin[d]
      BY <2>4 DEF Shape, ClientShape
    <3> QED
      BY <1>1, <1>2, <2>3, <3>1, <3>2, SleepersFrame
  <2>6. CASE IsLoading(s)
    <3>1. asleep' = asleep \cup {c} /\ cpc'[c] = "load" /\ pin'[c] = s
      BY <2>6 DEF Await, IsLoading, Shape, ClientShape
    <3>2. Waits(c)'
      BY <2>6, <3>1 DEF Waits, IsLoading
    <3>3. ASSUME NEW d \in asleep
          PROVE  cpc'[d] \in {"slot", "load"} /\ (NotifyPending' \/ Waits(d)')
      <4>1. d \in Client /\ d # c /\ cpc[d] \in {"slot", "load"}
        BY DEF Shape, ClientShape, BlockedSleep
      <4>2. cpc'[d] = cpc[d] /\ want'[d] = want[d] /\ pin'[d] = pin[d]
        BY <2>4, <4>1
      <4>3. CASE cpc[d] = "load" /\ IsLoading(pin[d])
        BY <4>2, <4>3 DEF Waits, IsLoading
      <4>4. CASE cpc[d] = "slot" /\ FullAndBusy(LayerOf[want[d]])
        <5>1. PICK m \in Layer : m = LayerOf[want[d]]
          BY <4>1, <4>4, CacheAssumption DEF Shape, ClientShape, CacheAssumption
        <5>2. FullAndBusy(m)'
          BY <4>4, <5>1, <2>3
        <5>3. LayerOf[want'[d]] = m
          BY <4>2, <5>1
        <5> QED
          BY <4>2, <4>4, <5>2, <5>3 DEF Waits, FullAndBusy
      <4> QED
        BY <1>2, <4>1, <4>2, <4>3, <4>4 DEF SleepersWait, Waits
    <3> QED
      BY <3>1, <3>2, <3>3 DEF BlockedSleep, SleepersWait
  <2> QED
    BY <1>4, <2>5, <2>6 DEF Await
<1> QED
  BY <1>3, <1>4

(* A thread that finds no slot sleeps on a full pool of busy entries: the  *)
(* reservation has just evicted everything that could be evicted.          *)
LEMMA WakeReserveOrSleep ==
    ASSUME Shape, TypeOK, BlockedSleep, SleepersWait, NEW c \in Client, c \notin asleep,
           cpc[c] # "notify", NEW k \in Expert,
           NEW gone \in SUBSET Evictable(InTable),
           ReserveOrSleep(c, k, gone), UNCHANGED wpc
    PROVE  BlockedSleep' /\ SleepersWait'
<1> DEFINE l == LayerOf[k]
<1>1. PICK victims \in SUBSET Evictable(Pool(l) \ gone) :
      \E a \in Admissions(Slot \ (InTable \ (gone \cup victims)), {k}) :
        /\ Reservation(l, {k}, gone, victims, a, FALSE)
        /\ Install(gone \cup victims, a)
        /\ want' = [want EXCEPT ![c] = k]
        /\ pins' = [s \in Slot |-> IF s \in DOMAIN a THEN pins[s] + 1 ELSE pins[s]]
        /\ \/ /\ DOMAIN a = {}
              /\ cpc' = [cpc EXCEPT ![c] = "slot"]
              /\ asleep' = asleep \cup {c}
              /\ UNCHANGED pin
           \/ \E s \in DOMAIN a :
              /\ cpc' = [cpc EXCEPT ![c] = "kick"]
              /\ pin' = [pin EXCEPT ![c] = s]
              /\ UNCHANGED asleep
  BY DEF ReserveOrSleep
<1>2. PICK a \in Admissions(Slot \ (InTable \ (gone \cup victims)), {k}) :
        /\ Reservation(l, {k}, gone, victims, a, FALSE)
        /\ Install(gone \cup victims, a)
        /\ want' = [want EXCEPT ![c] = k]
        /\ pins' = [s \in Slot |-> IF s \in DOMAIN a THEN pins[s] + 1 ELSE pins[s]]
        /\ \/ /\ DOMAIN a = {}
              /\ cpc' = [cpc EXCEPT ![c] = "slot"]
              /\ asleep' = asleep \cup {c}
              /\ UNCHANGED pin
           \/ \E s \in DOMAIN a :
              /\ cpc' = [cpc EXCEPT ![c] = "kick"]
              /\ pin' = [pin EXCEPT ![c] = s]
              /\ UNCHANGED asleep
  BY <1>1
<1>3. l \in Layer /\ {k} \in SUBSET Expert /\ \A x \in {k} : LayerOf[x] = l
  BY CacheAssumption DEF CacheAssumption
<1>4. Cardinality((Pool(l) \ gone) \ victims) + Cardinality(DOMAIN a) <= Cap(l)
  BY <1>2 DEF Reservation
<1>5. \A s \in Slot : pins[s] # 0 => pins'[s] # 0
  BY <1>2 DEF TypeOK
<1>6. \A s \in Slot : IsLoading(s) => IsLoading(s)'
  BY <1>2 DEF Install, IsLoading
<1>7. \A m \in Layer : FullAndBusy(m) => FullAndBusy(m)'
  <2> HIDE DEF l
  <2> QED
    BY <1>1, <1>2, <1>3, <1>4, <1>5, InstallKeepsFull
<1>8. NotifyPending => NotifyPending'
  <2>1. \A d \in Client : d # c => cpc'[d] = cpc[d]
    BY <1>2 DEF Shape, ClientShape
  <2> QED
    BY <2>1 DEF NotifyPending
<1>9. \A d \in Client : d # c => cpc'[d] = cpc[d] /\ want'[d] = want[d] /\ pin'[d] = pin[d]
  BY <1>2 DEF Shape, ClientShape
<1>10. CASE DOMAIN a # {}
  <2>1. asleep' = asleep
    BY <1>2, <1>10
  <2>2. \A d \in asleep : cpc'[d] = cpc[d] /\ want'[d] = want[d] /\ pin'[d] = pin[d]
    BY <1>9 DEF Shape, ClientShape
  <2> QED
    BY <1>6, <1>7, <1>8, <2>1, <2>2, SleepersFrame
<1>11. CASE DOMAIN a = {}
  <2>1. /\ asleep' = asleep \cup {c} /\ cpc'[c] = "slot" /\ want'[c] = k
    BY <1>2, <1>11 DEF Shape, ClientShape
  <2>2. FullAndBusy(l)'
    <3> DEFINE P == Pool(l) \ gone
    <3>1. {k} # {a[s] : s \in DOMAIN a}
      BY <1>11
    <3>2. /\ Cardinality(P \ victims) + Cardinality(DOMAIN a) = Cap(l)
          /\ victims = Evictable(P)
      BY <1>2, <3>1 DEF Reservation
    <3>3. Pool(l)' = P \ victims
      BY <1>2, <1>11 DEF Install, Pool, InTable
    <3>4. Cardinality(DOMAIN a) = 0 /\ Cardinality(P \ victims) \in Nat
      BY <1>11, FS_EmptySet, PoolFinite, FS_Subset, FS_CardinalityType
    <3>5. Cardinality(P \ victims) = Cap(l)
      <4> HIDE DEF P
      <4>1. Cap(l) \in Nat
        BY <1>3, CacheAssumption DEF Cap, CacheAssumption
      <4> QED
        BY <3>2, <3>4, <4>1
    <3>6. \A s \in P \ victims : s \in Slot /\ Busy(s)
      BY <3>2 DEF Evictable, Busy, Pool, InTable
    <3>7. \A s \in P \ victims : Busy(s)'
      BY <1>2, <1>11, <3>6 DEF Install, Busy, IsLoading
    <3> HIDE DEF P
    <3> QED
      BY <3>3, <3>5, <3>7 DEF FullAndBusy, Cap
  <2>3. Waits(c)'
    BY <2>1, <2>2 DEF Waits, FullAndBusy
  <2>4. ASSUME NEW d \in asleep
        PROVE  cpc'[d] \in {"slot", "load"} /\ (NotifyPending' \/ Waits(d)')
    <3>1. d \in Client /\ d # c /\ cpc[d] \in {"slot", "load"}
      BY DEF Shape, ClientShape, BlockedSleep
    <3>2. cpc'[d] = cpc[d] /\ want'[d] = want[d] /\ pin'[d] = pin[d]
      BY <1>9, <3>1
    <3>3. CASE cpc[d] = "load" /\ IsLoading(pin[d])
      <4>1. pin[d] \in Slot
        BY <3>1, <3>3 DEF Shape, ClientShape
      <4> QED
        BY <3>2, <3>3, <4>1, <1>6 DEF Waits, IsLoading
    <3>4. CASE cpc[d] = "slot" /\ FullAndBusy(LayerOf[want[d]])
      <4>1. PICK m \in Layer : m = LayerOf[want[d]]
        BY <3>1, <3>4, CacheAssumption DEF Shape, ClientShape, CacheAssumption
      <4>2. FullAndBusy(m)'
        BY <3>4, <4>1, <1>7
      <4>3. LayerOf[want'[d]] = m
        BY <3>2, <4>1
      <4> QED
        BY <3>2, <3>4, <4>2, <4>3 DEF Waits, FullAndBusy
    <3> QED
      BY <1>8, <3>1, <3>2, <3>3, <3>4 DEF SleepersWait, Waits
  <2> QED
    BY <2>1, <2>3, <2>4 DEF BlockedSleep, SleepersWait
<1> QED
  BY <1>10, <1>11

(* request_many and prefetch_many: nobody falls asleep, no reason ends. *)
LEMMA WakeRoute ==
    ASSUME Shape, BlockedSleep, SleepersWait, NEW l \in Layer, NEW K \in Routes(l),
           NEW speculative,
           \E victims \in SUBSET Evictable(Pool(l) \ DropFailed(K)) :
           \E a \in Admissions(Slot \ (InTable \ (DropFailed(K) \cup victims)),
                               {k \in K : Find(k) \ DropFailed(K) = {}}) :
             /\ Reservation(l, {k \in K : Find(k) \ DropFailed(K) = {}}, DropFailed(K),
                            victims, a, speculative)
             /\ Install(DropFailed(K) \cup victims, a),
           UNCHANGED <<pins, wpc, want, pin, asleep>>,
           \A c \in Client : cpc[c] # "idle" => cpc'[c] = cpc[c]
    PROVE  BlockedSleep' /\ SleepersWait'
<1> DEFINE gone == DropFailed(K)
           missing == {k \in K : Find(k) \ gone = {}}
<1>1. missing \in SUBSET Expert /\ \A k \in missing : LayerOf[k] = l
  BY DEF Routes
<1>2. gone \in SUBSET Evictable(InTable)
  BY DropFailedIdle
<1>3. PICK victims \in SUBSET Evictable(Pool(l) \ gone) :
      \E a \in Admissions(Slot \ (InTable \ (gone \cup victims)), missing) :
        /\ Cardinality((Pool(l) \ gone) \ victims) + Cardinality(DOMAIN a) <= Cap(l)
        /\ Install(gone \cup victims, a)
  BY DEF Reservation
<1> HIDE DEF gone, missing
<1>4. PICK a \in Admissions(Slot \ (InTable \ (gone \cup victims)), missing) :
        /\ Cardinality((Pool(l) \ gone) \ victims) + Cardinality(DOMAIN a) <= Cap(l)
        /\ Install(gone \cup victims, a)
  BY <1>3
<1>5. \A s \in Slot : pins[s] # 0 => pins'[s] # 0
  OBVIOUS
<1>6. \A m \in Layer : FullAndBusy(m) => FullAndBusy(m)'
  BY <1>1, <1>2, <1>4, <1>5, InstallKeepsFull
<1>7. \A s \in Slot : IsLoading(s) => IsLoading(s)'
  BY <1>4 DEF Install, IsLoading
<1>8. NotifyPending => NotifyPending'
  BY DEF NotifyPending
<1>9. \A c \in asleep : cpc'[c] = cpc[c] /\ want'[c] = want[c] /\ pin'[c] = pin[c]
  BY DEF BlockedSleep, Shape, ClientShape
<1> QED
  BY <1>6, <1>7, <1>8, <1>9, SleepersFrame

(* Every other step: the entries stay as they are, or those that leave are *)
(* idle; only workers, the predictor and the owner move.                   *)
LEMMA EmptiedKeepsFull ==
    ASSUME Shape, NEW m \in Layer, FullAndBusy(m), NEW gone,
           gone \subseteq {s \in InTable : ~Busy(s)},
           \A s \in Slot : table'[s] = IF s \in gone THEN NoExpert ELSE table[s],
           UNCHANGED <<state, pins>>
    PROVE  FullAndBusy(m)'
<1>1. Pool(m) \subseteq Slot /\ Pool(m) \cap gone = {}
  BY DEF Pool, InTable, FullAndBusy
<1>2. Pool(m)' = Pool(m)
  BY <1>1 DEF Pool, InTable
<1>3. \A s \in Pool(m) : Busy(s)'
  BY <1>1 DEF FullAndBusy, Busy, IsLoading
<1> QED
  BY <1>2, <1>3 DEF FullAndBusy, Cap

(* The sleepers' half, for the steps of compute threads. *)
LEMMA WakeClient ==
    ASSUME Shape, TypeOK, BlockedSleep, SleepersWait, NEW c \in Client, ClientStep(c)
    PROVE  BlockedSleep' /\ SleepersWait'
<1> USE CacheAssumption DEF CacheAssumption
<1>1. ASSUME NEW l \in Layer, NEW K \in Routes(l), RequestMany(c, l, K)
      PROVE  BlockedSleep' /\ SleepersWait'
  <2>1. /\ UNCHANGED <<pins, wpc, want, pin, asleep>>
        /\ \A d \in Client : cpc[d] # "idle" => cpc'[d] = cpc[d]
    BY <1>1 DEF RequestMany, Idle, workerVars, Shape, ClientShape
  <2>2. \E victims \in SUBSET Evictable(Pool(l) \ DropFailed(K)) :
        \E a \in Admissions(Slot \ (InTable \ (DropFailed(K) \cup victims)),
                            {k \in K : Find(k) \ DropFailed(K) = {}}) :
          /\ Reservation(l, {k \in K : Find(k) \ DropFailed(K) = {}}, DropFailed(K),
                         victims, a, FALSE)
          /\ Install(DropFailed(K) \cup victims, a)
    BY <1>1 DEF RequestMany
  <2> QED
    BY <2>1, <2>2, WakeRoute
<1>2. ASSUME NEW k \in Expert, BorrowFound(c, k)
      PROVE  BlockedSleep' /\ SleepersWait'
  <2>1. PICK s \in Find(k) : Await(c, k, s)
    BY <1>2 DEF BorrowFound
  <2>2. s \in Slot /\ cpc[c] = "idle" /\ UNCHANGED <<table, state, wpc>>
    BY <1>2 DEF Find, InTable, BorrowFound, Idle, entryVars, workerVars
  <2>3. c \notin asleep
    BY <2>2 DEF BlockedSleep
  <2> QED
    BY <2>1, <2>2, <2>3, WakeAwait
<1>3. ASSUME NEW k \in Expert, BorrowMissing(c, k)
      PROVE  BlockedSleep' /\ SleepersWait'
  <2>1. /\ cpc[c] = "idle" /\ UNCHANGED wpc
        /\ ReserveOrSleep(c, k, DropFailed({k}))
    BY <1>3 DEF BorrowMissing, Idle, workerVars
  <2>2. c \notin asleep
    BY <2>1 DEF BlockedSleep
  <2> QED
    BY <2>1, <2>2, DropFailedIdle, WakeReserveOrSleep
<1>4. ASSUME NEW k \in Expert, Evict(c, k)
      PROVE  BlockedSleep' /\ SleepersWait'
  <2>1. PICK s \in Evictable(InTable) : table' = [table EXCEPT ![s] = NoExpert]
    BY <1>4 DEF Evict
  <2>2. /\ UNCHANGED <<state, pins, wpc, cpc, want, pin, asleep>>
        /\ {s} \subseteq {r \in InTable : ~Busy(r)}
        /\ \A r \in Slot : table'[r] = IF r \in {s} THEN NoExpert ELSE table[r]
    BY <1>4, <2>1 DEF Evict, workerVars, clientVars, Evictable, Busy, Shape, EntryShape
  <2>3. \A m \in Layer : FullAndBusy(m) => FullAndBusy(m)'
    BY <2>2, EmptiedKeepsFull
  <2> QED
    BY <2>2, <2>3, SleepersFrame DEF NotifyPending, IsLoading
<1>5. ASSUME NEW t \in lease[c], ReleaseLease(c, t)
      PROVE  BlockedSleep' /\ SleepersWait'
  <2>1. NotifyPending' /\ asleep' = asleep /\ cpc[c] = "idle"
        /\ \A d \in Client : d # c => cpc'[d] = cpc[d]
    BY <1>5 DEF ReleaseLease, NotifyPending, Shape, ClientShape
  <2> QED
    BY <2>1 DEF BlockedSleep, SleepersWait, Shape, ClientShape
<1>6. CASE SubmitTask(c)
  <2>1. UNCHANGED <<table, state, pins, wpc, cpc, want, pin, asleep>>
    BY <1>6 DEF SubmitTask, entryVars, workerVars, clientVars
  <2>2. \A m \in Layer : FullAndBusy(m) => FullAndBusy(m)'
    BY <2>1, PinsKeepFull DEF IsLoading
  <2> QED
    BY <2>1, <2>2, SleepersFrame DEF NotifyPending, IsLoading
<1>7. CASE Kick(c)
  <2>1. UNCHANGED <<table, state, pins, want, pin, asleep>> /\ cpc[c] = "kick"
    BY <1>7 DEF Kick, entryVars
  <2>2. \A m \in Layer : FullAndBusy(m) => FullAndBusy(m)'
    BY <2>1, PinsKeepFull DEF IsLoading
  <2>3. \A d \in Client : d # c => cpc'[d] = cpc[d]
    BY <1>7 DEF Kick
  <2>4. NotifyPending => NotifyPending'
    BY <1>7, <2>1, <2>3 DEF Kick, WakeWorkers, NotifyPending
  <2>5. \A d \in asleep : cpc'[d] = cpc[d]
    BY <2>1, <2>3 DEF BlockedSleep, Shape, ClientShape
  <2> QED
    BY <2>1, <2>2, <2>4, <2>5, SleepersFrame DEF IsLoading
<1>8. CASE SlotWake(c)
  <2>1. c \notin asleep /\ cpc[c] = "slot" /\ UNCHANGED wpc /\ want[c] \in Expert
    BY <1>8 DEF SlotWake, workerVars, Shape, ClientShape
  <2>2. ASSUME NEW s \in Find(want[c]), Await(c, want[c], s), UNCHANGED <<entryVars, queueVars>>
        PROVE  BlockedSleep' /\ SleepersWait'
    <3>1. s \in Slot /\ UNCHANGED <<table, state>>
      BY <2>2 DEF Find, InTable, entryVars
    <3> QED
      BY <2>1, <2>2, <3>1, WakeAwait
  <2>3. CASE ReserveOrSleep(c, want[c], {})
    <3>1. {} \in SUBSET Evictable(InTable)
      OBVIOUS
    <3> QED
      BY <2>1, <2>3, <3>1, WakeReserveOrSleep
  <2> QED
    BY <1>8, <2>2, <2>3 DEF SlotWake
<1>9. CASE LoadWake(c)
  <2>1. /\ c \notin asleep /\ cpc[c] = "load" /\ UNCHANGED <<table, state, wpc>>
        /\ pin[c] \in Slot /\ want[c] \in Expert /\ Await(c, want[c], pin[c])
    BY <1>9 DEF LoadWake, entryVars, workerVars, Shape, ClientShape
  <2> QED
    BY <2>1, WakeAwait
<1>10. CASE NotifyReady(c)
  BY <1>10 DEF NotifyReady, BlockedSleep, SleepersWait
<1> QED
  BY <1>1, <1>2, <1>3, <1>4, <1>5, <1>6, <1>7, <1>8, <1>9, <1>10 DEF ClientStep

(* A read that ends is announced; no other step of a worker ends a reason. *)
LEMMA WakeWorker ==
    ASSUME Shape, BlockedSleep, SleepersWait, NEW w \in Worker, WorkerStep(w)
    PROVE  BlockedSleep' /\ SleepersWait'
<1>1. CASE WorkerTake(w) \/ WorkerRead(w)
  <2>1. UNCHANGED <<table, state, pins, cpc, want, pin, asleep>>
    BY <1>1 DEF WorkerTake, WorkerRead, entryVars, clientVars
  <2>2. wpc[w] # "notify" /\ \A v \in Worker : v # w => wpc'[v] = wpc[v]
    BY <1>1 DEF WorkerTake, WorkerRead, Shape, WorkerShape
  <2>3. NotifyPending => NotifyPending'
    BY <2>1, <2>2 DEF NotifyPending
  <2>4. \A m \in Layer : FullAndBusy(m) => FullAndBusy(m)'
    BY <2>1, PinsKeepFull DEF IsLoading
  <2> QED
    BY <2>1, <2>3, <2>4, SleepersFrame DEF IsLoading
<1>2. CASE WorkerComplete(w)
  <2>1. NotifyPending' /\ UNCHANGED <<cpc, asleep>>
    BY <1>2 DEF WorkerComplete, NotifyPending, clientVars, Shape, WorkerShape
  <2> QED
    BY <2>1 DEF BlockedSleep, SleepersWait
<1>3. CASE WorkerNotify(w)
  BY <1>3 DEF WorkerNotify, BlockedSleep, SleepersWait
<1> QED
  BY <1>1, <1>2, <1>3 DEF WorkerStep

LEMMA WakePredictorOwner ==
    ASSUME Shape, BlockedSleep, SleepersWait, PredictorStep \/ OwnerStep \/ UNCHANGED vars
    PROVE  BlockedSleep' /\ SleepersWait'
<1>1. ASSUME NEW l \in Layer, NEW K \in Routes(l), Prefetch(l, K)
      PROVE  BlockedSleep' /\ SleepersWait'
  <2>1. UNCHANGED <<pins, wpc, cpc, want, pin, asleep>>
    BY <1>1 DEF Prefetch, workerVars, clientVars
  <2>2. \E victims \in SUBSET Evictable(Pool(l) \ DropFailed(K)) :
        \E a \in Admissions(Slot \ (InTable \ (DropFailed(K) \cup victims)),
                            {k \in K : Find(k) \ DropFailed(K) = {}}) :
          /\ Reservation(l, {k \in K : Find(k) \ DropFailed(K) = {}}, DropFailed(K),
                         victims, a, TRUE)
          /\ Install(DropFailed(K) \cup victims, a)
    BY <1>1 DEF Prefetch
  <2> QED
    BY <2>1, <2>2, WakeRoute
<1>2. CASE PredictTake \/ PredictKick \/ Stop \/ StopKick \/ UNCHANGED vars
  <2>1. UNCHANGED <<table, state, pins, cpc, want, pin, asleep>>
    BY <1>2 DEF PredictTake, PredictKick, Stop, StopKick, vars, entryVars, clientVars
  <2>2. NotifyPending => NotifyPending'
    BY <1>2, <2>1 DEF PredictTake, PredictKick, Stop, StopKick, vars, workerVars,
                      WakeWorkers, NotifyPending
  <2>3. \A m \in Layer : FullAndBusy(m) => FullAndBusy(m)'
    BY <2>1, PinsKeepFull DEF IsLoading
  <2> QED
    BY <2>1, <2>2, <2>3, SleepersFrame DEF IsLoading
<1>3. CASE ClearResident
  <2>1. /\ UNCHANGED <<state, pins, wpc, cpc, want, pin, asleep>>
        /\ InTable \subseteq {s \in InTable : ~Busy(s)}
        /\ \A s \in Slot : table'[s] = IF s \in InTable THEN NoExpert ELSE table[s]
    BY <1>3 DEF ClearResident, MayClear, workerVars, clientVars, InTable
  <2>2. \A m \in Layer : FullAndBusy(m) => FullAndBusy(m)'
    BY <2>1, EmptiedKeepsFull
  <2> QED
    BY <2>1, <2>2, SleepersFrame DEF NotifyPending, IsLoading
<1>4. CASE Reopen
  <2>1. opc # "run" /\ UNCHANGED asleep
    BY <1>4 DEF Reopen
  <2>2. asleep = {}
    BY <2>1 DEF Shape, OwnerShape, ClientShape, BlockedSleep
  <2> QED
    BY <2>1, <2>2 DEF BlockedSleep, SleepersWait
<1> QED
  BY <1>1, <1>2, <1>3, <1>4 DEF PredictorStep, OwnerStep

(* Reads are queued by a thread that then notifies io_cv_; a worker goes   *)
(* to sleep only on empty queues, and leaves only when the cache stops.    *)
LEMMA QueueStep ==
    ASSUME Shape, ExitsWhenStopped, QueuesServed, [Next]_vars
    PROVE  ExitsWhenStopped' /\ QueuesServed'
<1>1. ASSUME NEW c \in Client, NEW l \in Layer, NEW K \in Routes(l), RequestMany(c, l, K)
      PROVE  ExitsWhenStopped' /\ QueuesServed'
  <2>1. PICK promoted, admit :
          /\ io_jobs' = io_jobs \cup promoted \cup JobsOf(DOMAIN admit)
          /\ low_priority_io_jobs' = low_priority_io_jobs \ promoted
          /\ cpc' = [cpc EXCEPT ![c] =
                        IF promoted = {} /\ DOMAIN admit = {} THEN "idle" ELSE "kick"]
    <3> DEFINE gone == DropFailed(K)
               missing == {k \in K : Find(k) \ gone = {}}
    <3>1. \E victims \in SUBSET Evictable(Pool(l) \ gone) :
          \E a \in Admissions(Slot \ (InTable \ (gone \cup victims)), missing) :
            /\ io_jobs' = io_jobs \cup Promoted(K) \cup JobsOf(DOMAIN a)
            /\ low_priority_io_jobs' = low_priority_io_jobs \ Promoted(K)
            /\ cpc' = [cpc EXCEPT ![c] =
                          IF Promoted(K) = {} /\ DOMAIN a = {} THEN "idle" ELSE "kick"]
      BY <1>1 DEF RequestMany
    <3> HIDE DEF gone, missing
    <3> QED
      BY <3>1
  <2>2. UNCHANGED <<wpc, ppc, opc>> /\ cpc[c] = "idle"
    BY <1>1 DEF RequestMany, workerVars, Idle
  <2>3. CASE promoted = {} /\ DOMAIN admit = {}
    <3>1. JobsOf(DOMAIN admit) = {}
      BY <2>3 DEF JobsOf
    <3>2. UNCHANGED <<io_jobs, low_priority_io_jobs, cpc>>
      BY <2>1, <2>2, <2>3, <3>1 DEF Shape, ClientShape
    <3> QED
      BY <2>2, <3>2 DEF ExitsWhenStopped, QueuesServed
  <2>4. CASE ~(promoted = {} /\ DOMAIN admit = {})
    <3>1. cpc'[c] = "kick"
      BY <2>1, <2>4 DEF Shape, ClientShape
    <3> QED
      BY <2>2, <3>1 DEF ExitsWhenStopped, QueuesServed
  <2> QED
    BY <2>3, <2>4
<1>2. ASSUME NEW l \in Layer, NEW K \in Routes(l), Prefetch(l, K)
      PROVE  ExitsWhenStopped' /\ QueuesServed'
  <2>1. PICK admit :
          /\ low_priority_io_jobs' = low_priority_io_jobs \cup JobsOf(DOMAIN admit)
          /\ ppc' = IF DOMAIN admit = {} THEN "run" ELSE "kick"
    BY <1>2 DEF Prefetch
  <2>2. UNCHANGED <<io_jobs, wpc, cpc, opc>> /\ ppc = "task"
    BY <1>2 DEF Prefetch, workerVars, clientVars
  <2>3. DOMAIN admit = {} => JobsOf(DOMAIN admit) = {}
    BY DEF JobsOf
  <2> QED
    BY <2>1, <2>2, <2>3 DEF ExitsWhenStopped, QueuesServed
<1>3. ASSUME NEW c \in Client, NEW k, NEW gone, ReserveOrSleep(c, k, gone),
             UNCHANGED <<low_priority_io_jobs, wpc, ppc, opc>>, cpc[c] # "kick"
      PROVE  ExitsWhenStopped' /\ QueuesServed'
  <2>1. PICK admit :
          /\ io_jobs' = io_jobs \cup JobsOf(DOMAIN admit)
          /\ \/ DOMAIN admit = {} /\ cpc' = [cpc EXCEPT ![c] = "slot"]
             \/ DOMAIN admit # {} /\ cpc' = [cpc EXCEPT ![c] = "kick"]
    BY <1>3 DEF ReserveOrSleep
  <2>2. DOMAIN admit = {} => JobsOf(DOMAIN admit) = {}
    BY DEF JobsOf
  <2>3. \A d \in Client : cpc[d] = "kick" => cpc'[d] = "kick"
    BY <1>3, <2>1 DEF Shape, ClientShape
  <2> QED
    BY <1>3, <2>1, <2>2, <2>3 DEF ExitsWhenStopped, QueuesServed, Shape, ClientShape
<1>4. ASSUME NEW c \in Client, NEW k \in Expert, BorrowMissing(c, k)
      PROVE  ExitsWhenStopped' /\ QueuesServed'
  BY <1>3, <1>4 DEF BorrowMissing, Idle, workerVars
<1>5. ASSUME UNCHANGED <<queueVars, wpc>>, opc # "run" => opc' # "run", ppc = "kick" => ppc' = "kick",
             \A c \in Client : cpc[c] = "kick" => cpc'[c] = "kick"
      PROVE  ExitsWhenStopped' /\ QueuesServed'
  BY <1>5 DEF ExitsWhenStopped, QueuesServed, queueVars
<1>6. ASSUME NEW c \in Client, NEW k, NEW s, Await(c, k, s), cpc[c] # "kick",
             UNCHANGED <<queueVars, wpc, ppc, opc>>
      PROVE  ExitsWhenStopped' /\ QueuesServed'
  <2>1. \A d \in Client : d # c => cpc'[d] = cpc[d]
    BY <1>6 DEF Await, Shape, ClientShape
  <2> QED
    BY <1>5, <1>6, <2>1
<1>7. ASSUME NEW c \in Client, NEW k \in Expert, BorrowFound(c, k)
      PROVE  ExitsWhenStopped' /\ QueuesServed'
  BY <1>6, <1>7 DEF BorrowFound, Idle, workerVars
<1>8. ASSUME NEW c \in Client, SlotWake(c)
      PROVE  ExitsWhenStopped' /\ QueuesServed'
  BY <1>3, <1>6, <1>8 DEF SlotWake, workerVars, queueVars
<1>9. ASSUME NEW c \in Client, LoadWake(c)
      PROVE  ExitsWhenStopped' /\ QueuesServed'
  BY <1>6, <1>9 DEF LoadWake, workerVars
<1>10. ASSUME NEW c \in Client, NEW k \in Expert, Evict(c, k)
       PROVE  ExitsWhenStopped' /\ QueuesServed'
  BY <1>5, <1>10 DEF Evict, workerVars, clientVars
<1>11. ASSUME NEW c \in Client, SubmitTask(c)
       PROVE  ExitsWhenStopped' /\ QueuesServed'
  BY <1>5, <1>11 DEF SubmitTask, workerVars, clientVars
<1>12. ASSUME NEW c \in Client, NotifyReady(c) \/ \E t \in lease[c] : ReleaseLease(c, t)
       PROVE  ExitsWhenStopped' /\ QueuesServed'
  <2>1. cpc[c] # "kick" /\ \A d \in Client : d # c => cpc'[d] = cpc[d]
    BY <1>12 DEF NotifyReady, ReleaseLease, Shape, ClientShape
  <2> QED
    BY <1>5, <1>12, <2>1 DEF NotifyReady, ReleaseLease, workerVars
<1>13. ASSUME WakeWorkers, UNCHANGED queueVars, opc # "run" => opc' # "run"
       PROVE  ExitsWhenStopped' /\ QueuesServed'
  <2>1. \A w \in Worker : wpc'[w] = IF wpc[w] = "sleep" THEN "run" ELSE wpc[w]
    BY <1>13 DEF WakeWorkers
  <2>2. ExitsWhenStopped'
    BY <1>13, <2>1 DEF ExitsWhenStopped
  <2>3. PICK w : w \in Worker
    BY CacheAssumption DEF CacheAssumption
  <2>4. wpc'[w] \notin {"sleep", "exit"} \/ opc' # "run"
    BY <2>1, <2>2, <2>3 DEF ExitsWhenStopped
  <2> QED
    BY <2>2, <2>3, <2>4 DEF QueuesServed
<1>14. ASSUME NEW c \in Client, Kick(c)
       PROVE  ExitsWhenStopped' /\ QueuesServed'
  BY <1>13, <1>14 DEF Kick
<1>15. CASE PredictKick \/ StopKick
  BY <1>13, <1>15 DEF PredictKick, StopKick
<1>16. CASE PredictTake
  BY <1>5, <1>16 DEF PredictTake, workerVars, clientVars
<1>17. ASSUME NEW w \in Worker, WorkerTake(w)
       PROVE  ExitsWhenStopped' /\ QueuesServed'
  <2>1. UNCHANGED <<cpc, ppc, opc>> /\ wpc[w] = "run"
    BY <1>17 DEF WorkerTake, clientVars
  <2>2. CASE wpc' = [wpc EXCEPT ![w] = "read"]
    <3>1. wpc'[w] = "read" /\ \A v \in Worker : v # w => wpc'[v] = wpc[v]
      BY <2>2 DEF Shape, WorkerShape
    <3> QED
      BY <2>1, <3>1 DEF ExitsWhenStopped, QueuesServed
  <2>3. CASE NextJobs = {} /\ wpc' = [wpc EXCEPT ![w] = IF opc = "run" THEN "sleep" ELSE "exit"]
               /\ UNCHANGED queueVars
    <3>1. io_jobs' \cup low_priority_io_jobs' = {}
      BY <2>3 DEF NextJobs, queueVars
    <3>2. wpc'[w] = "exit" => opc # "run"
      BY <2>3 DEF Shape, WorkerShape
    <3>3. \A v \in Worker : v # w => wpc'[v] = wpc[v]
      BY <2>3 DEF Shape, WorkerShape
    <3> QED
      BY <2>1, <3>1, <3>2, <3>3 DEF ExitsWhenStopped, QueuesServed
  <2> QED
    BY <1>17, <2>2, <2>3 DEF WorkerTake
<1>18. ASSUME NEW w \in Worker, WorkerRead(w) \/ WorkerComplete(w) \/ WorkerNotify(w)
       PROVE  ExitsWhenStopped' /\ QueuesServed'
  <2>1. UNCHANGED <<io_jobs, low_priority_io_jobs, cpc, ppc, opc>>
    BY <1>18 DEF WorkerRead, WorkerComplete, WorkerNotify, queueVars, clientVars
  <2>2. wpc'[w] \in {"ok", "fail", "notify", "run"} /\ \A v \in Worker : v # w => wpc'[v] = wpc[v]
    BY <1>18 DEF WorkerRead, WorkerComplete, WorkerNotify, Shape, WorkerShape
  <2> QED
    BY <2>1, <2>2 DEF ExitsWhenStopped, QueuesServed
<1>19. CASE ClearResident \/ UNCHANGED vars
  BY <1>5, <1>19 DEF ClearResident, vars, workerVars, queueVars, clientVars
<1>20. CASE Stop
  BY <1>5, <1>20 DEF Stop, workerVars, clientVars
<1>21. CASE Reopen
  BY <1>21 DEF Reopen, ExitsWhenStopped, QueuesServed
<1> QED
  BY <1>1, <1>2, <1>4, <1>7, <1>8, <1>9, <1>10, <1>11, <1>12, <1>14, <1>15, <1>16,
     <1>17, <1>18, <1>19, <1>20, <1>21
     DEF Next, ClientStep, WorkerStep, PredictorStep, OwnerStep

(* No notify is ever lost: a sleeping compute thread has an entry that is  *)
(* loading or a full pool of busy entries, or somebody is about to wake it;*)
(* a queued read has a worker that runs, or a thread about to wake one.    *)
THEOREM WakeupsAreNotLost == Spec => []NoLostWakeup
<1>1. Init => WakeInv
  BY DEF Init, WakeInv, BlockedSleep, ExitsWhenStopped, SleepersWait, QueuesServed
<1>2. Shape /\ TypeOK /\ WakeInv /\ [Next]_vars => WakeInv'
  BY WakeClient, WakeWorker, WakePredictorOwner, QueueStep DEF Next, WakeInv
<1>3. WakeInv => NoLostWakeup
  BY WakeIsWake DEF WakeInv
<1> QED
  BY <1>1, <1>2, <1>3, ShapeHolds, TypeCorrect, PTL DEF Spec

=============================================================================
