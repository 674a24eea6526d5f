------------------------------ MODULE JobQueue ------------------------------
(***************************************************************************)
(* The job queue: the SQLite tables jobs, job_deps and job_running         *)
(* (storage/sqlite.go) together with the request handlers of the service   *)
(* that drives them (service/service.go).                                  *)
(*                                                                         *)
(* Every storage call that writes is one transaction on the single writer  *)
(* connection, so it is one atomic step here.  A request that makes        *)
(* several storage calls (a submit reads its parents before it opens the   *)
(* insert transaction; a claim resolves dependencies, then claims; a       *)
(* release or a successful end resolves afterwards) is several steps, and  *)
(* the steps of different requests interleave.  A server crash forgets     *)
(* the requests in flight and keeps the tables.                            *)
(*                                                                         *)
(* Abstractions: a job's procs, mem, walltime and generic resources are    *)
(* one number Need; the tie-break of the claim order (submit_time, id) is  *)
(* left open; ids, names, notes, times and file lists are not modelled.    *)
(***************************************************************************)
EXTENDS Integers, FiniteSets

CONSTANTS
    Job,            \* the job ids (UUIDs)
    Array,          \* the array ids
    NoArray,        \* "this job carries no array_id detail"
    ArrayOf,        \* Job -> Array \cup {NoArray}: the array_id detail
    ArrayIndex,     \* Job -> Nat: the array_index detail
    Throttle,       \* Array -> Nat: the array_throttle detail, 0 = none
    Need,           \* Job -> Nat: what the job asks of a runner
    SimpleRunner,   \* runner ids that execute jobs themselves
    SlurmRunner,    \* runner ids that hand jobs to SLURM
    NoRunner,       \* "no job_running row"
    Handler,        \* request goroutines (bounds the requests in flight)
    Limit,          \* limits a claim may carry, 0 = unlimited
    Budget,         \* maxTasks a batch claim may carry, 0 = unbounded
    MinTasks,       \* minTasks a batch claim may carry, 0 = disabled
    Priority,       \* the priorities a job may have (bounds the deltas)
    MaxCrashes      \* bound on server crashes

Runner == SimpleRunner \cup SlurmRunner

ASSUME ConstantsAssumption ==
    /\ IsFiniteSet(Job)
    /\ NoArray \notin Array
    /\ ArrayOf \in [Job -> Array \cup {NoArray}]
    /\ ArrayIndex \in [Job -> Nat]
    /\ \A j, k \in Job : ArrayOf[j] = ArrayOf[k] /\ ArrayOf[j] # NoArray /\ j # k =>
         ArrayIndex[j] # ArrayIndex[k]
    /\ Throttle \in [Array -> Nat]
    /\ Need \in [Job -> Nat]
    /\ SimpleRunner \cap SlurmRunner = {}
    /\ NoRunner \notin Runner
    /\ Limit \subseteq Nat
    /\ Budget \subseteq Nat
    /\ MinTasks \subseteq Nat
    /\ 0 \in Priority /\ Priority \subseteq Int
    /\ MaxCrashes \in Nat

VARIABLES
    status,     \* jobs.status, "NONE" when there is no row
    deps,       \* job_deps: the afterok parents of each job
    runner,     \* job_running.job_runner, NoRunner when there is no row
    priority,   \* jobs.priority
    handler,    \* the request each handler is in the middle of
    poll,       \* where each runner is in its claim request
    crashes     \* server crashes so far

tables == <<status, deps, runner, priority>>
vars   == <<status, deps, runner, priority, handler, poll, crashes>>

-----------------------------------------------------------------------------
(***************************************************************************)
(* Status codes (jobs/jobdef.go).  UNKNOWN is never assigned.              *)
(***************************************************************************)
Live      == {"USERHOLD", "WAITING", "QUEUED", "PROXYQUEUED", "RUNNING"}
Dead      == {"CANCELED", "FAILED"}
Terminal  == Dead \cup {"SUCCESS"}
Status    == Live \cup Terminal \cup {"NONE"}

\* A parent in one of these lets its dependents be queued.
Satisfied == {"SUCCESS", "PROXYQUEUED"}

\* The statuses in which a job may be, or is being, run.
Started   == {"QUEUED", "RUNNING", "PROXYQUEUED"}

HoldableOrRunning == {"QUEUED", "WAITING", "USERHOLD", "RUNNING"}

\* The statuses a hold or a priority change accepts.
Holdable  == {"QUEUED", "WAITING", "USERHOLD"}

NoDeps == [j \in Job |-> {}]

Idle == [pc |-> "idle", tasks |-> {}, deps |-> NoDeps, left |-> {},
         hold |-> FALSE, prio |-> 0]

\* A request that still owes its trailing ResolveDependencies.
Resolving == [pc |-> "resolve", tasks |-> {}, deps |-> NoDeps, left |-> {},
              hold |-> FALSE, prio |-> 0]

\* A submit that has yet to read the parents in left.
Validating(tasks, ds, left, hold, prio) ==
    [pc |-> "validate", tasks |-> tasks, deps |-> ds, left |-> left,
     hold |-> hold, prio |-> prio]

Request == [pc    : {"idle", "validate", "resolve"},
            tasks : SUBSET Job,
            deps  : [Job -> SUBSET Job],
            left  : SUBSET Job,
            hold  : BOOLEAN,
            prio  : Priority]

Exists(j) == status[j] # "NONE"

TasksOf(a) == {j \in Job : ArrayOf[j] = a}

Members(a) == {j \in TasksOf(a) : Exists(j)}

\* What one submit creates: a plain job, or all the tasks of an array.
Submission == {{j} : j \in {k \in Job : ArrayOf[k] = NoArray}}
              \cup {TasksOf(a) : a \in Array}

TypeOK ==
    /\ status   \in [Job -> Status]
    /\ deps     \in [Job -> SUBSET Job]
    /\ runner   \in [Job -> Runner \cup {NoRunner}]
    /\ priority \in [Job -> Priority]
    /\ handler  \in [Handler -> Request]
    /\ poll     \in [Runner -> {"idle", "resolve", "claim"}]
    /\ crashes  \in 0..MaxCrashes

Init ==
    /\ status   = [j \in Job |-> "NONE"]
    /\ deps     = NoDeps
    /\ runner   = [j \in Job |-> NoRunner]
    /\ priority = [j \in Job |-> 0]
    /\ handler  = [h \in Handler |-> Idle]
    /\ poll     = [r \in Runner |-> "idle"]
    /\ crashes  = 0

-----------------------------------------------------------------------------
(***************************************************************************)
(* Submission: SubmitJob/SubmitArray look for an existing job, validateDeps *)
(* reads the parents one by one outside any transaction, and only then      *)
(* does InsertJob/InsertArray open the transaction that writes the rows.    *)
(***************************************************************************)
SubmitJob(h, tasks, ds, hold, prio) ==
    /\ handler[h] = Idle
    /\ \A j \in tasks : ~Exists(j)
    /\ handler' = [handler EXCEPT ![h] =
          Validating(tasks, ds, UNION {ds[j] : j \in tasks}, hold, prio)]
    /\ UNCHANGED <<tables, poll, crashes>>

validateDeps(h, d) ==
    LET req == handler[h] IN
    /\ req.pc = "validate"
    /\ d \in req.left
    /\ handler' = [handler EXCEPT ![h] =
          IF Exists(d) /\ status[d] \notin Dead
            THEN Validating(req.tasks, req.deps, req.left \ {d}, req.hold, req.prio)
            ELSE Idle]
    /\ UNCHANGED <<tables, poll, crashes>>

InitialStatus(req, j) ==
    IF req.hold THEN "USERHOLD"
    ELSE IF req.deps[j] = {} THEN "QUEUED" ELSE "WAITING"

\* The insert transaction's primary and foreign keys: fresh ids, live parents.
InsertAllowed(req) ==
    /\ \A j \in req.tasks : ~Exists(j)
    /\ \A j \in req.tasks : \A d \in req.deps[j] : Exists(d)

\* All rows of the submit in one transaction.
InsertJob(h) ==
    LET req == handler[h] IN
    /\ req.pc = "validate" /\ req.left = {}
    /\ InsertAllowed(req)
    /\ status'   = [j \in Job |-> IF j \in req.tasks THEN InitialStatus(req, j)
                                                     ELSE status[j]]
    /\ deps'     = [j \in Job |-> IF j \in req.tasks THEN req.deps[j] ELSE deps[j]]
    /\ priority' = [j \in Job |-> IF j \in req.tasks THEN req.prio ELSE priority[j]]
    /\ handler'  = [handler EXCEPT ![h] = Idle]
    /\ UNCHANGED <<runner, poll, crashes>>

\* A key violation rolls the transaction back: an overlapping retry won the
\* insert, or a parent was cleaned up since it was validated.
RejectInsert(h) ==
    /\ handler[h].pc = "validate" /\ handler[h].left = {}
    /\ ~InsertAllowed(handler[h])
    /\ handler' = [handler EXCEPT ![h] = Idle]
    /\ UNCHANGED <<tables, poll, crashes>>

-----------------------------------------------------------------------------
(***************************************************************************)
(* ResolveDependencies: one pass over the WAITING jobs in index order      *)
(* (priority, submit_time, id), which may visit a child before its parent. *)
(* A candidate sees what the pass has done so far, so a child of a job     *)
(* canceled in this pass is canceled too if it comes later, else it stays  *)
(* WAITING.  Canceling here does not cascade.                              *)
(***************************************************************************)
Waiting == {j \in Job : status[j] = "WAITING"}

NoneDoomed == {}

Doomed == {j \in Waiting : \E d \in deps[j] : status[d] \in Dead}

\* The sets of jobs that one pass, over some order, may cancel.
CanceledByPass ==
    {C \in SUBSET Waiting :
        /\ Doomed \subseteq C
        /\ \A j \in C \ Doomed : deps[j] \cap C # {}}

ReadyAnyParent ==
    {j \in Waiting : deps[j] = {} \/ \E d \in deps[j] : status[d] \in Satisfied}

Ready == {j \in Waiting : \A d \in deps[j] : status[d] \in Satisfied}

ResolveDependencies ==
    /\ \E C \in CanceledByPass :
         status' = [j \in Job |-> IF j \in C THEN "CANCELED"
                                  ELSE IF j \in Ready THEN "QUEUED"
                                  ELSE status[j]]
    /\ UNCHANGED <<deps, runner, priority>>

\* The trailing pass of a release, a proxy hand-off or a successful end.
FinishRequest(h) ==
    /\ handler[h].pc = "resolve"
    /\ ResolveDependencies
    /\ handler' = [handler EXCEPT ![h] = Idle]
    /\ UNCHANGED <<poll, crashes>>

-----------------------------------------------------------------------------
(***************************************************************************)
(* Claims.  A runner has one claim request in flight: resolve, then claim. *)
(***************************************************************************)
StartClaim(r) ==
    /\ poll[r] = "idle"
    /\ poll' = [poll EXCEPT ![r] = "resolve"]
    /\ UNCHANGED <<tables, handler, crashes>>

ResolveForClaim(r) ==
    /\ poll[r] = "resolve"
    /\ ResolveDependencies
    /\ poll' = [poll EXCEPT ![r] = "claim"]
    /\ UNCHANGED <<handler, crashes>>

Queued == {j \in Job : status[j] = "QUEUED"}

Fits(j, limit) == limit = 0 \/ Need[j] <= limit

RunningTasks(a) == {j \in TasksOf(a) : status[j] = "RUNNING"}

ThrottleOffByOne(j) ==
    \/ ArrayOf[j] = NoArray
    \/ Throttle[ArrayOf[j]] = 0
    \/ Cardinality(RunningTasks(ArrayOf[j])) <= Throttle[ArrayOf[j]]

jobArrayThrottleOK(j) ==
    \/ ArrayOf[j] = NoArray
    \/ Throttle[ArrayOf[j]] = 0
    \/ Cardinality(RunningTasks(ArrayOf[j])) < Throttle[ArrayOf[j]]

\* The first of a set of candidates in claim order.
First(S) == {j \in S : \A k \in S : priority[k] <= priority[j]}

\* claimJobTx on each job of S: the job_running row and the status flip.
claimJobs(r, S) ==
    /\ runner' = [j \in Job |-> IF j \in S THEN r ELSE runner[j]]
    /\ status' = [j \in Job |-> IF j \in S THEN "RUNNING" ELSE status[j]]

\* The jobs that a scan of the queue by a simple runner would accept; a job
\* that already has a job_running row is skipped (UNIQUE violation).
Claimable(limit) ==
    {j \in Queued : Fits(j, limit) /\ jobArrayThrottleOK(j) /\ runner[j] = NoRunner}

ClaimNextJob(r, limit) ==
    /\ poll[r] = "claim"
    /\ \/ /\ Claimable(limit) = {}
          /\ UNCHANGED <<status, runner>>
       \/ \E j \in First(Claimable(limit)) : claimJobs(r, {j})
    /\ poll' = [poll EXCEPT ![r] = "idle"]
    /\ UNCHANGED <<deps, priority, handler, crashes>>

QueuedTasks(a) == TasksOf(a) \cap Queued

BatchSize(a, maxTasks) ==
    LET available == Cardinality(QueuedTasks(a)) IN
    IF maxTasks > 0 /\ maxTasks < available THEN maxTasks ELSE available

\* The min-array / full-array gate.
Deferred(a, maxTasks, minTasks, fullArray) ==
    LET available    == Cardinality(QueuedTasks(a))
        claimable    == BatchSize(a, maxTasks)
        effectiveMin == IF fullArray THEN available ELSE minTasks
    IN effectiveMin > 0 /\ claimable < effectiveMin /\ available > claimable

\* Up to maxTasks of the array's queued tasks, in index order.
Batch(a, maxTasks) ==
    LET free == {j \in QueuedTasks(a) : runner[j] = NoRunner} IN
    {j \in free : \/ maxTasks = 0
                  \/ Cardinality({k \in free : ArrayIndex[k] < ArrayIndex[j]}) < maxTasks}

\* What claiming at job j takes: the job itself, or a batch of its array.
Unit(j, maxTasks) ==
    IF ArrayOf[j] = NoArray THEN {j} ELSE Batch(ArrayOf[j], maxTasks)

BatchClaimable(limit, maxTasks, minTasks, fullArray) ==
    {j \in Queued :
        /\ Fits(j, limit)
        /\ \/ ArrayOf[j] = NoArray /\ runner[j] = NoRunner
           \/ /\ ArrayOf[j] # NoArray
              /\ ~Deferred(ArrayOf[j], maxTasks, minTasks, fullArray)
              /\ Batch(ArrayOf[j], maxTasks) # {}}

ClaimNextArrayBatch(r, limit, maxTasks, minTasks, fullArray) ==
    LET S == BatchClaimable(limit, maxTasks, minTasks, fullArray) IN
    /\ poll[r] = "claim"
    /\ \/ /\ S = {}
          /\ UNCHANGED <<status, runner>>
       \/ \E j \in First(S) : claimJobs(r, Unit(j, maxTasks))
    /\ poll' = [poll EXCEPT ![r] = "idle"]
    /\ UNCHANGED <<deps, priority, handler, crashes>>

-----------------------------------------------------------------------------
(***************************************************************************)
(* cascadeCancel: the breadth-first walk from P over job_deps that visits   *)
(* and cancels live jobs only.  Its result is the least set closed under   *)
(* "a live job that depends on something reached".                         *)
(***************************************************************************)
IsClosed(P, D) ==
    \A j \in Job : status[j] \in Live /\ deps[j] \cap (P \cup D) # {} => j \in D

DirectDependents(P) ==
    {j \in Job : status[j] \in Live /\ deps[j] \cap P # {}}

LiveDescendants(P) ==
    {j \in Job : \A D \in SUBSET Job : IsClosed(P, D) => j \in D}

\* status with P's live jobs and all their live descendants canceled.
CancelAll(P) ==
    LET C == {j \in P : status[j] \in Live} \cup LiveDescendants(P) IN
    [j \in Job |-> IF j \in C THEN "CANCELED" ELSE status[j]]

\* status with p ended as s and its live descendants canceled.
EndAndCascade(p, s) ==
    [j \in Job |-> IF j = p THEN s
                   ELSE IF j \in LiveDescendants({p}) THEN "CANCELED"
                   ELSE status[j]]

-----------------------------------------------------------------------------
(***************************************************************************)
(* What runners report.                                                    *)
(***************************************************************************)

\* Idempotent: a retry finds the job PROXYQUEUED and changes nothing.
MarkJobProxied(h, r, j) ==
    /\ handler[h] = Idle
    /\ runner[j] = r
    /\ status[j] \in {"RUNNING", "PROXYQUEUED"}
    /\ status'  = [status EXCEPT ![j] = "PROXYQUEUED"]
    /\ handler' = [handler EXCEPT ![h] = Resolving]
    /\ UNCHANGED <<deps, runner, priority, poll, crashes>>

EndJob(h, r, j, success) ==
    /\ handler[h] = Idle
    /\ runner[j] = r
    /\ status[j] = "RUNNING"
    /\ \/ /\ success
          /\ status'  = [status EXCEPT ![j] = "SUCCESS"]
          /\ handler' = [handler EXCEPT ![h] = Resolving]
       \/ /\ ~success
          /\ status' = EndAndCascade(j, "FAILED")
          /\ UNCHANGED handler
    /\ UNCHANGED <<deps, runner, priority, poll, crashes>>

EndProxiedNoCascade(h, j, s) ==
    /\ handler[h] = Idle
    /\ status[j] = "PROXYQUEUED"
    /\ status'  = [status EXCEPT ![j] = s]
    /\ handler' = [handler EXCEPT ![h] = IF s = "SUCCESS" THEN Resolving ELSE @]
    /\ UNCHANGED <<deps, runner, priority, poll, crashes>>

\* Idempotent: a retry finds the job already at s and does not cascade again.
EndProxiedJob(h, j, s) ==
    /\ handler[h] = Idle
    /\ status[j] \in {"PROXYQUEUED", s}
    /\ status'  = IF status[j] = s THEN status
                  ELSE IF s = "SUCCESS" THEN [status EXCEPT ![j] = s]
                  ELSE EndAndCascade(j, s)
    /\ handler' = [handler EXCEPT ![h] = IF s = "SUCCESS" THEN Resolving ELSE @]
    /\ UNCHANGED <<deps, runner, priority, poll, crashes>>

-----------------------------------------------------------------------------
(***************************************************************************)
(* What users ask for.                                                     *)
(***************************************************************************)

\* The cascade runs whatever the status of j itself.
CancelJob(j) ==
    /\ Exists(j)
    /\ status' = CancelAll({j})
    /\ UNCHANGED <<deps, runner, priority, handler, poll, crashes>>

CancelArray(a) ==
    /\ Members(a) # {}
    /\ status' = CancelAll(Members(a))
    /\ UNCHANGED <<deps, runner, priority, handler, poll, crashes>>

\* HoldJob on one job, HoldArray on the members of an array.
Hold(S) ==
    /\ \E j \in S : status[j] \in Holdable
    /\ status' = [j \in Job |-> IF j \in S /\ status[j] \in Holdable
                                  THEN "USERHOLD" ELSE status[j]]
    /\ UNCHANGED <<deps, runner, priority, handler, poll, crashes>>

HoldJob(j) == Hold({j})

HoldArray(a) == Hold(Members(a))

Release(h, S) ==
    /\ handler[h] = Idle
    /\ status'  = [j \in Job |-> IF j \in S /\ status[j] = "USERHOLD"
                                   THEN "WAITING" ELSE status[j]]
    /\ handler' = [handler EXCEPT ![h] = Resolving]
    /\ UNCHANGED <<deps, runner, priority, poll, crashes>>

ReleaseJob(h, j) == status[j] = "USERHOLD" /\ Release(h, {j})

\* Releasing an array none of whose tasks is held still resolves.
ReleaseArray(h, a) == Members(a) # {} /\ Release(h, Members(a))

AdjustPriority(S, delta) ==
    /\ \E j \in S : status[j] \in Holdable
    /\ priority' = [j \in Job |-> IF j \in S /\ status[j] \in Holdable
                                    THEN priority[j] + delta ELSE priority[j]]
    /\ \A j \in Job : priority'[j] \in Priority
    /\ UNCHANGED <<status, deps, runner, handler, poll, crashes>>

AdjustJobPriority(j, delta) == AdjustPriority({j}, delta)

AdjustArrayPriority(a, delta) == AdjustPriority(Members(a), delta)

\* Refused (foreign key) while any job_deps row names j as a parent.
CleanupJob(j) ==
    /\ status[j] \in Terminal
    /\ \A k \in Job : j \notin deps[k]
    /\ status'   = [status EXCEPT ![j] = "NONE"]
    /\ deps'     = [deps EXCEPT ![j] = {}]
    /\ runner'   = [runner EXCEPT ![j] = NoRunner]
    /\ priority' = [priority EXCEPT ![j] = 0]
    /\ UNCHANGED <<handler, poll, crashes>>

\* The server dies: open transactions roll back, requests in flight vanish.
Crash ==
    /\ crashes < MaxCrashes
    /\ crashes' = crashes + 1
    /\ handler' = [h \in Handler |-> Idle]
    /\ poll'    = [r \in Runner |-> "idle"]
    /\ UNCHANGED tables

-----------------------------------------------------------------------------
Submit(h) ==
    \E tasks \in Submission :
      \E f \in [tasks -> SUBSET (Job \ tasks)], hold \in BOOLEAN, prio \in Priority :
        SubmitJob(h, tasks, [j \in Job |-> IF j \in tasks THEN f[j] ELSE {}],
                  hold, prio)

RunnerPoll(r) ==
    \/ StartClaim(r)
    \/ ResolveForClaim(r)
    \/ /\ r \in SimpleRunner
       /\ \E limit \in Limit : ClaimNextJob(r, limit)
    \/ /\ r \in SlurmRunner
       /\ \E limit \in Limit, maxTasks \in Budget, minTasks \in MinTasks,
             fullArray \in BOOLEAN :
            ClaimNextArrayBatch(r, limit, maxTasks, minTasks, fullArray)

RequestStep(h) ==
    \/ \E d \in Job : validateDeps(h, d)
    \/ InsertJob(h)
    \/ RejectInsert(h)
    \/ FinishRequest(h)

RunnerReport(h) ==
    \/ \E r \in SlurmRunner, j \in Job : MarkJobProxied(h, r, j)
    \/ \E r \in SimpleRunner, j \in Job, success \in BOOLEAN : EndJob(h, r, j, success)
    \/ \E j \in Job, s \in Terminal : EndProxiedJob(h, j, s)

UserRequest ==
    \/ \E j \in Job : CancelJob(j) \/ HoldJob(j) \/ CleanupJob(j)
    \/ \E a \in Array : CancelArray(a) \/ HoldArray(a)
    \/ \E h \in Handler, j \in Job : ReleaseJob(h, j)
    \/ \E h \in Handler, a \in Array : ReleaseArray(h, a)
    \/ \E j \in Job, delta \in {-1, 1} : AdjustJobPriority(j, delta)
    \/ \E a \in Array, delta \in {-1, 1} : AdjustArrayPriority(a, delta)

Next ==
    \/ \E h \in Handler : Submit(h) \/ RequestStep(h) \/ RunnerReport(h)
    \/ \E r \in Runner : RunnerPoll(r)
    \/ UserRequest
    \/ Crash

Spec == Init /\ [][Next]_vars

(***************************************************************************)
(* Fairness: a request the server has started runs to completion (each has *)
(* its own goroutine and the writer connection is handed out in turn), and *)
(* a runner in its --forever loop keeps polling.  Users owe nothing.       *)
(***************************************************************************)
Fairness ==
    /\ \A h \in Handler : WF_vars(RequestStep(h))
    /\ \A r \in Runner : WF_vars(RunnerPoll(r))

FairSpec == Spec /\ Fairness

(***************************************************************************)
(* Progress of the work itself: equal-priority jobs are claimed in submit  *)
(* order, so a job that stays claimable is claimed in the end, and a       *)
(* process or SLURM job that was started ends and is reported.             *)
(***************************************************************************)
ClaimOf(j) ==
    \E r \in Runner : RunnerPoll(r) /\ runner[j] = NoRunner /\ runner'[j] # NoRunner

ReportOf(j) ==
    \E h \in Handler : /\ RunnerReport(h)
                       /\ status[j] \in {"RUNNING", "PROXYQUEUED"}
                       /\ status'[j] # status[j]

WorkFairness == \A j \in Job : SF_vars(ClaimOf(j)) /\ SF_vars(ReportOf(j))

LiveSpec == FairSpec /\ WorkFairness

-----------------------------------------------------------------------------
(***************************************************************************)
(* Safety.                                                                 *)
(***************************************************************************)

Lifecycle == INSTANCE JobLifecycle

\* The tables move only as JobLifecycle, the abstract specification of the
\* storage interface, allows.
ImplementsLifecycle == Lifecycle!Spec

\* job_running rows and claimed statuses go together; see JobLifecycle.
ClaimLock == Lifecycle!ClaimLock

\* No runnable or running job has a failed, canceled or unfinished parent,
\* other than one handed to SLURM; see JobLifecycle.
DependencySafety == Lifecycle!DependencySafety

\* job_deps rows connect existing jobs; see JobLifecycle.
ReferentialIntegrity == Lifecycle!ReferentialIntegrity

\* Jobs never wait for one another in a ring; see JobLifecycle.
AcyclicDeps == Lifecycle!AcyclicDeps

\* Late or retried reports, cancels and cascades never change a terminal
\* status; see JobLifecycle.
TerminalIsFinal == Lifecycle!TerminalIsFinal

\* A job_running row never changes hands and outlives its job's run; see
\* JobLifecycle.
ClaimIsForLife == Lifecycle!ClaimIsForLife

\* A failure or a cancel takes all live dependents with it in the same
\* transaction; see JobLifecycle.
CascadeIsAtomic == Lifecycle!CascadeIsAtomic

\* The %N of an array bounds its tasks running under simple runners, also
\* while SLURM runners claim tasks of the same array.
ThrottleRespected ==
    \A a \in Array : Throttle[a] > 0 =>
        Cardinality({j \in RunningTasks(a) : runner[j] \in SimpleRunner}) <= Throttle[a]

-----------------------------------------------------------------------------
(***************************************************************************)
(* Liveness, under Fairness.                                               *)
(***************************************************************************)

\* A WAITING job whose parents have all ended does not stay WAITING: the next
\* poll promotes it or cancels it, also after a crash between the end of the
\* last parent and the pass that should have followed it.
WaitingIsResolved ==
    \A j \in Job :
        (status[j] = "WAITING" /\ \A d \in deps[j] : status[d] \in Terminal)
            ~> status[j] # "WAITING"

\* Every submitted job ends, unless jobs keep being held: no order of submits,
\* claims, ends, cancels and crashes leaves a job waiting for a pass, a claim
\* or a parent that never comes.
EveryJobEnds ==
    <>[](\A k \in Job : status[k] # "USERHOLD") =>
        \A j \in Job : Exists(j) ~> status[j] \in Terminal \cup {"NONE"}
=============================================================================
