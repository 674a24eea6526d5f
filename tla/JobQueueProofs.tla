--------------------------- MODULE JobQueueProofs ---------------------------
(***************************************************************************)
(* Proofs about JobQueue, for every set of jobs, arrays, runners and       *)
(* handlers.                                                               *)
(***************************************************************************)
EXTENDS JobQueue, FiniteSetTheorems, TLAPS

-----------------------------------------------------------------------------
(***************************************************************************)
(* Type correctness.                                                       *)
(***************************************************************************)

\* What the requests that handlers hold are made of.
LEMMA IdleType == Idle \in Request /\ Resolving \in Request
  BY ConstantsAssumption DEF Idle, Resolving, Request, NoDeps

\* A submit stores a well-typed request and touches no table.
LEMMA SubmitType ==
    ASSUME TypeOK, NEW h \in Handler, Submit(h)
    PROVE  TypeOK' /\ UNCHANGED <<tables, poll, crashes>>
<1>a. PICK tasks \in Submission :
         \E f \in [tasks -> SUBSET (Job \ tasks)], hold \in BOOLEAN, prio \in Priority :
           SubmitJob(h, tasks, [j \in Job |-> IF j \in tasks THEN f[j] ELSE {}],
                     hold, prio)
  BY DEF Submit
<1>1. PICK f \in [tasks -> SUBSET (Job \ tasks)], hold \in BOOLEAN, prio \in Priority :
         SubmitJob(h, tasks, [j \in Job |-> IF j \in tasks THEN f[j] ELSE {}],
                   hold, prio)
  BY <1>a
<1> DEFINE ds == [j \in Job |-> IF j \in tasks THEN f[j] ELSE {}]
<1>2. tasks \in SUBSET Job
  BY DEF Submission, TasksOf
<1>3. ds \in [Job -> SUBSET Job]
  BY <1>2
<1>4. UNION {ds[j] : j \in tasks} \in SUBSET Job
  BY <1>2, <1>3
<1>5. Validating(tasks, ds, UNION {ds[j] : j \in tasks}, hold, prio) \in Request
  BY <1>2, <1>3, <1>4 DEF Request, Validating
<1>6. handler' = [handler EXCEPT ![h] =
          Validating(tasks, ds, UNION {ds[j] : j \in tasks}, hold, prio)]
      /\ UNCHANGED <<tables, poll, crashes>>
  BY <1>1 DEF SubmitJob
<1> HIDE DEF ds
<1>7. handler' \in [Handler -> Request]
  BY <1>5, <1>6 DEF TypeOK
<1> QED
  BY <1>6, <1>7 DEF TypeOK, tables

\* A validated parent leaves the request well typed and touches no table.
LEMMA ValidateType ==
    ASSUME TypeOK, NEW h \in Handler, NEW d \in Job, validateDeps(h, d)
    PROVE  TypeOK' /\ UNCHANGED <<tables, poll, crashes>>
<1>1. handler[h] \in Request
  BY DEF TypeOK
<1>2. Validating(handler[h].tasks, handler[h].deps, handler[h].left \ {d},
                 handler[h].hold, handler[h].prio) \in Request
  BY <1>1 DEF Request, Validating
<1>4. handler' \in [Handler -> Request]
  BY <1>2, IdleType DEF TypeOK, validateDeps
<1> QED
  BY <1>4 DEF TypeOK, validateDeps, tables

\* ResolveDependencies only moves jobs between statuses.
LEMMA ResolveType ==
    ASSUME TypeOK, ResolveDependencies
    PROVE  status' \in [Job -> Status] /\ UNCHANGED <<deps, runner, priority>>
<1>1. PICK C \in CanceledByPass :
         status' = [j \in Job |-> IF j \in C THEN "CANCELED"
                                  ELSE IF j \in Ready THEN "QUEUED" ELSE status[j]]
  BY DEF ResolveDependencies
<1> QED
  BY <1>1 DEF ResolveDependencies, TypeOK, Status, Live, Terminal, Dead

\* Claiming a set of jobs keeps the types.
LEMMA ClaimType ==
    ASSUME TypeOK, NEW r \in Runner, NEW S, claimJobs(r, S)
    PROVE  status' \in [Job -> Status] /\ runner' \in [Job -> Runner \cup {NoRunner}]
  BY DEF claimJobs, TypeOK, Status, Live, Terminal, Dead

\* The two ways of canceling in bulk yield statuses.
LEMMA CascadeType ==
    ASSUME TypeOK
    PROVE  /\ \A P : CancelAll(P) \in [Job -> Status]
           /\ \A p \in Job, s \in Terminal : EndAndCascade(p, s) \in [Job -> Status]
  BY DEF CancelAll, EndAndCascade, TypeOK, Status, Live, Terminal, Dead

-----------------------------------------------------------------------------
(***************************************************************************)
(* cascadeCancel.  LiveDescendants(P) is defined as an intersection; these *)
(* are the two facts about it that the cascade's callers rely on.          *)
(***************************************************************************)

\* The walk reaches live jobs only: the set of all live jobs is closed.
LEMMA DescendantsLive ==
    ASSUME NEW P
    PROVE  \A j \in LiveDescendants(P) : j \in Job /\ status[j] \in Live
<1>1. IsClosed(P, {j \in Job : status[j] \in Live})
  BY DEF IsClosed
<1>2. {j \in Job : status[j] \in Live} \in SUBSET Job
  OBVIOUS
<1> QED
  BY <1>1, <1>2 DEF LiveDescendants

\* The walk misses no live dependent of what it reached.
LEMMA DescendantsClosed ==
    ASSUME NEW P
    PROVE  IsClosed(P, LiveDescendants(P))
<1> SUFFICES ASSUME NEW j \in Job, status[j] \in Live,
                    deps[j] \cap (P \cup LiveDescendants(P)) # {},
                    NEW D \in SUBSET Job, IsClosed(P, D)
             PROVE  j \in D
  BY DEF IsClosed, LiveDescendants
<1>1. LiveDescendants(P) \subseteq D
  BY DEF LiveDescendants
<1> QED
  BY <1>1 DEF IsClosed

-----------------------------------------------------------------------------
(***************************************************************************)
(* Every step but a claim, seen through JobLifecycle.                      *)
(***************************************************************************)
NonClaim ==
    \/ Lifecycle!Create \/ Lifecycle!Settle \/ Lifecycle!Advance
    \/ Lifecycle!Kill \/ Lifecycle!ParkOrResume \/ Lifecycle!Remove

\* Leaving the three tables alone is a stuttering step.
LEMMA TablesUnchanged ==
    ASSUME UNCHANGED <<status, deps, runner>>
    PROVE  NonClaim
  BY DEF NonClaim, Lifecycle!Advance, Lifecycle!Changed

\* Submits, validations, the start of a claim request and a crash touch no table.
LEMMA SilentSteps ==
    ASSUME TypeOK,
           \/ \E h \in Handler : Submit(h) \/ RejectInsert(h)
           \/ \E h \in Handler, d \in Job : validateDeps(h, d)
           \/ \E r \in Runner : StartClaim(r)
           \/ Crash
    PROVE  TypeOK' /\ NonClaim
<1>1. ASSUME NEW h \in Handler, Submit(h) PROVE TypeOK' /\ NonClaim
  BY <1>1, SubmitType, TablesUnchanged DEF tables
<1>2. ASSUME NEW h \in Handler, RejectInsert(h) PROVE TypeOK' /\ NonClaim
  BY <1>2, IdleType, TablesUnchanged DEF RejectInsert, tables, TypeOK
<1>3. ASSUME NEW h \in Handler, NEW d \in Job, validateDeps(h, d)
      PROVE  TypeOK' /\ NonClaim
  BY <1>3, ValidateType, TablesUnchanged DEF tables
<1>4. ASSUME NEW r \in Runner, StartClaim(r) PROVE TypeOK' /\ NonClaim
  BY <1>4, TablesUnchanged DEF StartClaim, tables, TypeOK
<1>5. ASSUME Crash PROVE TypeOK' /\ NonClaim
  BY <1>5, IdleType, TablesUnchanged, ConstantsAssumption DEF Crash, tables, TypeOK
<1> QED
  BY <1>1, <1>2, <1>3, <1>4, <1>5

\* The insert transaction creates the submitted jobs under existing parents.
LEMMA InsertStep ==
    ASSUME TypeOK, NEW h \in Handler, InsertJob(h)
    PROVE  TypeOK' /\ NonClaim
<1> DEFINE req == handler[h]
<1>1. req \in Request
  BY DEF TypeOK
<1>2. \A j \in Job : InitialStatus(req, j) \in Lifecycle!Unclaimed
  BY DEF InitialStatus, Lifecycle!Unclaimed
<1>3. \A j \in Job : InitialStatus(req, j) = "QUEUED" => req.deps[j] = {}
  BY DEF InitialStatus
<1>4. TypeOK'
  <2>1. status' \in [Job -> Status]
    BY <1>2 DEF InsertJob, TypeOK, Status, Live, Lifecycle!Unclaimed
  <2>2. deps' \in [Job -> SUBSET Job] /\ priority' \in [Job -> Priority]
    BY <1>1 DEF InsertJob, TypeOK, Request
  <2> QED
    BY <2>1, <2>2, IdleType DEF InsertJob, TypeOK
<1>5. Lifecycle!Create
  <2>1. \A j \in Lifecycle!Changed : j \in Job /\ j \in req.tasks
    BY DEF InsertJob, Lifecycle!Changed, TypeOK
  <2>2. \A j \in Job : j \in req.tasks =>
          /\ status[j] = "NONE" /\ status'[j] = InitialStatus(req, j)
          /\ deps'[j] = req.deps[j]
    BY DEF InsertJob, InsertAllowed, Exists
  <2>3. \A j \in Job : j \in req.tasks => j \in Lifecycle!Changed
    BY <2>2, <1>2 DEF Lifecycle!Changed, Lifecycle!Unclaimed
  <2>4. \A j \in Job : j \notin req.tasks => deps'[j] = deps[j]
    BY DEF InsertJob, TypeOK
  <2>5. \A j \in req.tasks : \A d \in req.deps[j] : Lifecycle!Exists(d)
    BY DEF InsertJob, InsertAllowed, Exists, Lifecycle!Exists
  <2>6. UNCHANGED runner
    BY DEF InsertJob
  <2> HIDE DEF req
  <2> QED
    BY <1>2, <1>3, <2>1, <2>2, <2>3, <2>4, <2>5, <2>6 DEF Lifecycle!Create
<1> QED
  BY <1>4, <1>5 DEF NonClaim

\* A dependency pass settles waiting jobs, whatever its order.
LEMMA ResolveStep ==
    ASSUME TypeOK, ResolveDependencies
    PROVE  Lifecycle!Settle
<1>1. PICK C \in CanceledByPass :
         status' = [j \in Job |-> IF j \in C THEN "CANCELED"
                                  ELSE IF j \in Ready THEN "QUEUED" ELSE status[j]]
  BY DEF ResolveDependencies
<1>2. C \subseteq Waiting
  BY DEF CanceledByPass
<1>3. ASSUME NEW j \in C PROVE \E d \in deps[j] : status'[d] \in Dead
  <2>1. CASE j \in Doomed
    <3>1. PICK d \in deps[j] : status[d] \in Dead
      BY <2>1 DEF Doomed
    <3>2. d \in Job /\ d \notin Waiting
      BY <1>2, <3>1 DEF Waiting, TypeOK, Dead
    <3>3. status'[d] = status[d]
      BY <1>1, <1>2, <3>2 DEF Ready
    <3> QED
      BY <3>1, <3>3
  <2>2. CASE j \notin Doomed
    <3>1. PICK d \in deps[j] : d \in C
      BY <2>2 DEF CanceledByPass
    <3>2. status'[d] = "CANCELED"
      BY <1>1, <1>2, <3>1 DEF Waiting
    <3> QED
      BY <3>1, <3>2 DEF Dead
  <2> QED
    BY <2>1, <2>2
<1>4. ASSUME NEW j \in Lifecycle!Changed
      PROVE  /\ status[j] = "WAITING"
             /\ \/ status'[j] = "QUEUED" /\ \A d \in deps[j] : status[d] \in Lifecycle!Satisfied
                \/ status'[j] = "CANCELED" /\ \E d \in deps[j] : status'[d] \in Lifecycle!Dead
  <2>1. j \in Job /\ j \in C \cup Ready
    BY <1>1 DEF Lifecycle!Changed
  <2>2. status[j] = "WAITING"
    BY <1>2, <2>1 DEF Ready, Waiting
  <2>3. CASE j \in C
    BY <1>1, <1>3, <2>1, <2>2, <2>3 DEF Dead, Lifecycle!Dead
  <2>4. CASE j \notin C
    <3>1. j \in Ready
      BY <2>1, <2>4
    <3>2. status'[j] = "QUEUED"
      BY <1>1, <2>1, <2>4, <3>1
    <3> QED
      BY <2>2, <3>1, <3>2 DEF Ready, Satisfied, Lifecycle!Satisfied
  <2> QED
    BY <2>3, <2>4
<1> QED
  BY <1>4 DEF Lifecycle!Settle, ResolveDependencies

\* The trailing pass of a request, and the pass before a claim.
LEMMA ResolveSteps ==
    ASSUME TypeOK,
           \/ \E h \in Handler : FinishRequest(h)
           \/ \E r \in Runner : ResolveForClaim(r)
    PROVE  TypeOK' /\ NonClaim
<1>1. ASSUME NEW h \in Handler, FinishRequest(h) PROVE TypeOK' /\ NonClaim
  BY <1>1, IdleType, ResolveType, ResolveStep DEF FinishRequest, TypeOK, NonClaim
<1>2. ASSUME NEW r \in Runner, ResolveForClaim(r) PROVE TypeOK' /\ NonClaim
  BY <1>2, ResolveType, ResolveStep DEF ResolveForClaim, TypeOK, NonClaim
<1> QED
  BY <1>1, <1>2

\* Canceling a set of jobs and its live descendants leaves no live job behind
\* that depends on a job canceled here.
LEMMA CancelKills ==
    ASSUME TypeOK, NEW P \in SUBSET Job, status' = CancelAll(P),
           UNCHANGED <<deps, runner>>
    PROVE  Lifecycle!Kill
<1> DEFINE C == {j \in P : status[j] \in Live} \cup LiveDescendants(P)
<1>1. status' = [j \in Job |-> IF j \in C THEN "CANCELED" ELSE status[j]]
  BY DEF CancelAll
<1>2. \A j \in C : j \in Job /\ status[j] \in Live
  BY DescendantsLive
<1>3. \A j \in Job : status[j] \in Live /\ deps[j] \cap C # {} => j \in C
  BY DescendantsClosed DEF IsClosed
<1> HIDE DEF C
<1>4. \A j \in C : status'[j] \in Dead /\ j \in Lifecycle!Changed
  BY <1>1, <1>2 DEF Dead, Live, Lifecycle!Changed
<1>5. \A j \in Lifecycle!Changed : j \in C
  BY <1>1 DEF Lifecycle!Changed
<1> QED
  BY <1>2, <1>3, <1>4, <1>5 DEF Lifecycle!Kill, Lifecycle!Live, Lifecycle!Dead, Live, Dead

\* So does a failed end with its cascade.
LEMMA EndKills ==
    ASSUME TypeOK, NEW p \in Job, NEW s \in Dead, status[p] \in Live,
           status' = EndAndCascade(p, s), UNCHANGED <<deps, runner>>
    PROVE  Lifecycle!Kill
<1> DEFINE C == {p} \cup LiveDescendants({p})
<1>1. \A j \in Job : status'[j] = IF j = p THEN s
                                  ELSE IF j \in C THEN "CANCELED" ELSE status[j]
  BY DEF EndAndCascade
<1>2. \A j \in C : j \in Job /\ status[j] \in Live
  BY DescendantsLive
<1>3. \A j \in Job : status[j] \in Live /\ deps[j] \cap C # {} => j \in C
  BY DescendantsClosed DEF IsClosed
<1>p. p \in C
  OBVIOUS
<1> HIDE DEF C
<1>4. \A j \in C : status'[j] \in Dead /\ j \in Lifecycle!Changed
  BY <1>1, <1>2 DEF Dead, Live, Lifecycle!Changed
<1>5. \A j \in Lifecycle!Changed : j \in C
  BY <1>1, <1>p DEF Lifecycle!Changed
<1> QED
  BY <1>2, <1>3, <1>4, <1>5 DEF Lifecycle!Kill, Lifecycle!Live, Lifecycle!Dead, Live, Dead

\* A runner's reports advance a claimed job or kill it with its dependents.
LEMMA ReportSteps ==
    ASSUME TypeOK, NEW h \in Handler, RunnerReport(h)
    PROVE  TypeOK' /\ NonClaim
<1>1. ASSUME NEW r \in SlurmRunner, NEW j \in Job, MarkJobProxied(h, r, j)
      PROVE  TypeOK' /\ NonClaim
  <2>1. TypeOK'
    BY <1>1, IdleType DEF MarkJobProxied, TypeOK, Status, Live
  <2>2. Lifecycle!Advance
    BY <1>1 DEF MarkJobProxied, TypeOK, Lifecycle!Advance, Lifecycle!Changed
  <2> QED
    BY <2>1, <2>2 DEF NonClaim
<1>2. ASSUME NEW r \in SimpleRunner, NEW j \in Job, EndJob(h, r, j, TRUE)
      PROVE  TypeOK' /\ NonClaim
  <2>1. TypeOK'
    BY <1>2, IdleType DEF EndJob, TypeOK, Status, Terminal
  <2>2. Lifecycle!Advance
    BY <1>2 DEF EndJob, TypeOK, Lifecycle!Advance, Lifecycle!Changed
  <2> QED
    BY <2>1, <2>2 DEF NonClaim
<1>3. ASSUME NEW r \in SimpleRunner, NEW j \in Job, EndJob(h, r, j, FALSE)
      PROVE  TypeOK' /\ NonClaim
  <2>1. TypeOK'
    BY <1>3, CascadeType DEF EndJob, TypeOK, Terminal, Dead
  <2>2. Lifecycle!Kill
    BY <1>3, EndKills DEF EndJob, Dead, Live
  <2> QED
    BY <2>1, <2>2 DEF NonClaim
<1>4. ASSUME NEW j \in Job, NEW s \in Terminal, EndProxiedJob(h, j, s)
      PROVE  TypeOK' /\ NonClaim
  <2>1. TypeOK'
    <3>1. status' \in [Job -> Status]
      BY <1>4, CascadeType DEF EndProxiedJob, TypeOK, Status
    <3>2. handler' \in [Handler -> Request]
      BY <1>4, IdleType DEF EndProxiedJob, TypeOK
    <3> QED
      BY <1>4, <3>1, <3>2 DEF EndProxiedJob, TypeOK
  <2>2. CASE status[j] = s
    BY <1>4, <2>1, <2>2, TablesUnchanged DEF EndProxiedJob
  <2>3. CASE status[j] = "PROXYQUEUED" /\ s = "SUCCESS"
    <3>1. Lifecycle!Advance
      BY <1>4, <2>3 DEF EndProxiedJob, TypeOK, Lifecycle!Advance, Lifecycle!Changed
    <3> QED
      BY <2>1, <3>1 DEF NonClaim
  <2>4. CASE status[j] = "PROXYQUEUED" /\ s \in Dead
    <3>1. Lifecycle!Kill
      BY <1>4, <2>4, EndKills DEF EndProxiedJob, Dead, Live
    <3> QED
      BY <2>1, <3>1 DEF NonClaim
  <2> QED
    BY <1>4, <2>2, <2>3, <2>4 DEF EndProxiedJob, Terminal
<1>5. ASSUME NEW r \in SimpleRunner, NEW j \in Job, NEW success \in BOOLEAN,
             EndJob(h, r, j, success)
      PROVE  TypeOK' /\ NonClaim
  BY <1>2, <1>3, <1>5
<1> QED
  BY <1>1, <1>4, <1>5 DEF RunnerReport

\* Cancels kill, holds and releases park and resume, a cleanup removes.
LEMMA UserSteps ==
    ASSUME TypeOK, UserRequest
    PROVE  TypeOK' /\ NonClaim
<1>1. ASSUME NEW P \in SUBSET Job, status' = CancelAll(P),
             UNCHANGED <<deps, runner, priority, handler, poll, crashes>>
      PROVE  TypeOK' /\ NonClaim
  BY <1>1, CascadeType, CancelKills DEF TypeOK, NonClaim
<1>2. ASSUME NEW S, Hold(S) PROVE TypeOK' /\ NonClaim
  <2>1. TypeOK'
    BY <1>2 DEF Hold, TypeOK, Status, Live
  <2>2. Lifecycle!ParkOrResume
    BY <1>2 DEF Hold, TypeOK, Holdable, Lifecycle!ParkOrResume, Lifecycle!Changed,
       Lifecycle!Unclaimed
  <2> QED
    BY <2>1, <2>2 DEF NonClaim
<1>3. ASSUME NEW h \in Handler, NEW S, Release(h, S) PROVE TypeOK' /\ NonClaim
  <2>1. TypeOK'
    BY <1>3, IdleType DEF Release, TypeOK, Status, Live
  <2>2. Lifecycle!ParkOrResume
    BY <1>3 DEF Release, TypeOK, Lifecycle!ParkOrResume, Lifecycle!Changed
  <2> QED
    BY <2>1, <2>2 DEF NonClaim
<1>4. ASSUME NEW S, NEW delta \in {-1, 1}, AdjustPriority(S, delta)
      PROVE  TypeOK' /\ NonClaim
  <2>1. priority' \in [Job -> Priority]
    BY <1>4 DEF AdjustPriority
  <2> QED
    BY <1>4, <2>1, TablesUnchanged DEF AdjustPriority, TypeOK
<1>5. ASSUME NEW j \in Job, CleanupJob(j) PROVE TypeOK' /\ NonClaim
  <2>1. TypeOK'
    BY <1>5, ConstantsAssumption DEF CleanupJob, TypeOK, Status
  <2>2. Lifecycle!Remove
    BY <1>5 DEF CleanupJob, TypeOK, Terminal, Dead, Lifecycle!Remove,
       Lifecycle!Changed, Lifecycle!Terminal, Lifecycle!Dead
  <2> QED
    BY <2>1, <2>2 DEF NonClaim
<1>6. ASSUME NEW j \in Job, CancelJob(j) PROVE TypeOK' /\ NonClaim
  BY <1>1, <1>6 DEF CancelJob
<1>7. ASSUME NEW a \in Array, CancelArray(a) PROVE TypeOK' /\ NonClaim
  <2>1. Members(a) \in SUBSET Job
    BY DEF Members, TasksOf
  <2> QED
    BY <1>1, <1>7, <2>1 DEF CancelArray
<1> QED
  BY <1>2, <1>3, <1>4, <1>5, <1>6, <1>7
  DEF UserRequest, HoldJob, HoldArray, ReleaseJob, ReleaseArray,
      AdjustJobPriority, AdjustArrayPriority

-----------------------------------------------------------------------------
(***************************************************************************)
(* Claims.                                                                 *)
(***************************************************************************)

\* Claiming free queued jobs for one runner.
LEMMA ClaimsQueued ==
    ASSUME TypeOK, NEW r \in Runner, NEW S,
           \A j \in S : j \in Queued /\ runner[j] = NoRunner,
           claimJobs(r, S), UNCHANGED deps
    PROVE  Lifecycle!Claim
  BY DEF claimJobs, Queued, TypeOK, Lifecycle!Claim, Lifecycle!Changed

\* A simple runner's claim takes at most one job, a free one.
LEMMA ClaimOneStep ==
    ASSUME TypeOK, NEW r \in Runner, NEW limit, ClaimNextJob(r, limit)
    PROVE  TypeOK' /\ (Lifecycle!Claim \/ UNCHANGED <<status, deps, runner>>)
<1>1. CASE UNCHANGED <<status, runner>>
  BY <1>1 DEF ClaimNextJob, TypeOK
<1>2. ASSUME NEW j \in First(Claimable(limit)), claimJobs(r, {j})
      PROVE  TypeOK' /\ Lifecycle!Claim
  <2>1. j \in Queued /\ runner[j] = NoRunner
    BY DEF First, Claimable
  <2>2. Lifecycle!Claim
    BY <1>2, <2>1, ClaimsQueued DEF ClaimNextJob
  <2> QED
    BY <1>2, <2>2, ClaimType DEF ClaimNextJob, TypeOK
<1> QED
  BY <1>1, <1>2 DEF ClaimNextJob

\* A SLURM runner's claim takes one plain job or a batch of free queued tasks.
LEMMA ClaimBatchStep ==
    ASSUME TypeOK, NEW r \in Runner, NEW limit, NEW maxTasks, NEW minTasks,
           NEW fullArray, ClaimNextArrayBatch(r, limit, maxTasks, minTasks, fullArray)
    PROVE  TypeOK' /\ (Lifecycle!Claim \/ UNCHANGED <<status, deps, runner>>)
<1> DEFINE S == BatchClaimable(limit, maxTasks, minTasks, fullArray)
<1>1. CASE UNCHANGED <<status, runner>>
  BY <1>1 DEF ClaimNextArrayBatch, TypeOK
<1>2. ASSUME NEW j \in First(S), claimJobs(r, Unit(j, maxTasks))
      PROVE  TypeOK' /\ Lifecycle!Claim
  <2>1. j \in S
    BY DEF First
  <2>2. \A k \in Unit(j, maxTasks) : k \in Queued /\ runner[k] = NoRunner
    BY <2>1 DEF BatchClaimable, Unit, Batch, QueuedTasks
  <2>3. Lifecycle!Claim
    BY <1>2, <2>2, ClaimsQueued DEF ClaimNextArrayBatch
  <2> QED
    BY <1>2, <2>3, ClaimType DEF ClaimNextArrayBatch, TypeOK
<1> QED
  BY <1>1, <1>2 DEF ClaimNextArrayBatch

\* A step that claims.
ClaimStep ==
    \/ \E r \in SimpleRunner, limit \in Limit : ClaimNextJob(r, limit)
    \/ \E r \in SlurmRunner, limit \in Limit, maxTasks \in Budget,
          minTasks \in MinTasks, fullArray \in BOOLEAN :
         ClaimNextArrayBatch(r, limit, maxTasks, minTasks, fullArray)

\* Every step keeps the types, and claims or does what JobLifecycle's other
\* actions allow.
LEMMA StepLemma ==
    ASSUME TypeOK, Next
    PROVE  /\ TypeOK'
           /\ NonClaim \/ (ClaimStep /\ (Lifecycle!Claim \/ UNCHANGED <<status, deps, runner>>))
<1> DEFINE Goal == /\ TypeOK'
                   /\ \/ NonClaim
                      \/ ClaimStep /\ (Lifecycle!Claim \/ UNCHANGED <<status, deps, runner>>)
<1>1. ASSUME NEW h \in Handler, Submit(h) PROVE Goal
  BY <1>1, SilentSteps
<1>2. ASSUME NEW h \in Handler, RequestStep(h) PROVE Goal
  BY <1>2, SilentSteps, InsertStep, ResolveSteps DEF RequestStep
<1>3. ASSUME NEW h \in Handler, RunnerReport(h) PROVE Goal
  BY <1>3, ReportSteps
<1>4. ASSUME NEW r \in Runner, RunnerPoll(r) PROVE Goal
  <2>1. CASE StartClaim(r)
    BY <2>1, SilentSteps
  <2>2. CASE ResolveForClaim(r)
    BY <2>2, ResolveSteps
  <2>3. ASSUME r \in SimpleRunner, NEW limit \in Limit, ClaimNextJob(r, limit)
        PROVE  Goal
    BY <2>3, ClaimOneStep DEF ClaimStep
  <2>4. ASSUME r \in SlurmRunner, NEW limit \in Limit, NEW maxTasks \in Budget,
               NEW minTasks \in MinTasks, NEW fullArray \in BOOLEAN,
               ClaimNextArrayBatch(r, limit, maxTasks, minTasks, fullArray)
        PROVE  Goal
    BY <2>4, ClaimBatchStep DEF ClaimStep
  <2> QED
    BY <1>4, <2>1, <2>2, <2>3, <2>4 DEF RunnerPoll
<1>5. CASE UserRequest
  BY <1>5, UserSteps
<1>6. CASE Crash
  BY <1>6, SilentSteps
<1> QED
  BY <1>1, <1>2, <1>3, <1>4, <1>5, <1>6 DEF Next

-----------------------------------------------------------------------------
(***************************************************************************)
(* The theorems.                                                           *)
(***************************************************************************)

\* Tables and requests keep their types: in particular a well-typed request
\* survives its steps, so an insert only ever writes job ids and priorities.
THEOREM TypeCorrect == Spec => []TypeOK
<1>1. ASSUME Init PROVE TypeOK
  BY <1>1, IdleType, ConstantsAssumption
  DEF Init, TypeOK, Status, NoDeps
<1>2. ASSUME TypeOK, [Next]_vars PROVE TypeOK'
  BY <1>2, StepLemma DEF vars, TypeOK
<1> QED
  BY <1>1, <1>2, PTL DEF Spec

\* Seen through JobLifecycle, a step of the queue is a step or a stutter.
LEMMA StepRefines ==
    ASSUME TypeOK, [Next]_vars
    PROVE  [Lifecycle!Next]_(Lifecycle!vars)
<1>1. CASE UNCHANGED vars
  BY <1>1 DEF vars, Lifecycle!vars
<1>2. CASE Next
  <2>1. TypeOK'
    BY <1>2, StepLemma
  <2>2. Lifecycle!TypeOK'
    BY <2>1 DEF TypeOK, Lifecycle!TypeOK, Status, Live, Terminal, Dead,
       Lifecycle!Status, Lifecycle!Live, Lifecycle!Terminal, Lifecycle!Dead
  <2> QED
    BY <1>2, <2>2, StepLemma DEF NonClaim, Lifecycle!Next, Lifecycle!vars
<1> QED
  BY <1>1, <1>2

\* The request handlers and transactions implement the storage interface's
\* promise: every reachable step is one that JobLifecycle allows.
THEOREM Refinement == Spec => ImplementsLifecycle
<1>1. ASSUME Init PROVE Lifecycle!Init
  BY <1>1 DEF Init, Lifecycle!Init, NoDeps
<1> QED
  BY <1>1, StepRefines, TypeCorrect, PTL
  DEF Spec, ImplementsLifecycle, Lifecycle!Spec

LifecycleP == INSTANCE JobLifecycleProofs

\* JobLifecycle and the module of its proofs have the same behaviours.
LEMMA SameLifecycle == Lifecycle!Spec => LifecycleP!Spec
<1>1. ASSUME Lifecycle!Init PROVE LifecycleP!Init
  BY <1>1 DEF Lifecycle!Init, LifecycleP!Init
<1>2. ASSUME [Lifecycle!Next]_(Lifecycle!vars)
      PROVE  [LifecycleP!Next]_(LifecycleP!vars)
  BY <1>2 DEF Lifecycle!Next, LifecycleP!Next, Lifecycle!vars,
     LifecycleP!vars, Lifecycle!TypeOK, LifecycleP!TypeOK,
     Lifecycle!Status, LifecycleP!Status, Lifecycle!Create,
     LifecycleP!Create, Lifecycle!Settle, LifecycleP!Settle,
     Lifecycle!Claim, LifecycleP!Claim, Lifecycle!Advance,
     LifecycleP!Advance, Lifecycle!Kill, LifecycleP!Kill,
     Lifecycle!ParkOrResume, LifecycleP!ParkOrResume, Lifecycle!Remove,
     LifecycleP!Remove, Lifecycle!Changed, LifecycleP!Changed,
     Lifecycle!Exists, LifecycleP!Exists, Lifecycle!Live, LifecycleP!Live,
     Lifecycle!Dead, LifecycleP!Dead, Lifecycle!Terminal,
     LifecycleP!Terminal, Lifecycle!Unclaimed, LifecycleP!Unclaimed,
     Lifecycle!Satisfied, LifecycleP!Satisfied
<1> QED
  BY <1>1, <1>2, PTL DEF Lifecycle!Spec, LifecycleP!Spec

\* Claim rows and claimed statuses go together, for every number of jobs,
\* runners, requests in flight and crashes.
THEOREM ClaimLockTheorem == Spec => []ClaimLock
<1>1. ASSUME LifecycleP!Inv PROVE ClaimLock
  BY <1>1 DEF LifecycleP!Inv, ClaimLock, Lifecycle!ClaimLock,
     LifecycleP!ClaimLock, Lifecycle!Unclaimed, LifecycleP!Unclaimed
<1> QED
  BY <1>1, Refinement, SameLifecycle, LifecycleP!Invariance, PTL
  DEF ImplementsLifecycle

\* A failed or canceled parent never leaves a runnable child behind.
THEOREM DependencySafetyTheorem == Spec => []DependencySafety
<1>1. ASSUME LifecycleP!Inv PROVE DependencySafety
  BY <1>1 DEF LifecycleP!Inv, DependencySafety,
     Lifecycle!DependencySafety, LifecycleP!DependencySafety,
     Lifecycle!Started, LifecycleP!Started, Lifecycle!Satisfied,
     LifecycleP!Satisfied
<1> QED
  BY <1>1, Refinement, SameLifecycle, LifecycleP!Invariance, PTL
  DEF ImplementsLifecycle

\* job_deps rows connect existing jobs, also when a parent is cleaned up
\* between its validation and the insert.
THEOREM ReferentialTheorem == Spec => []ReferentialIntegrity
<1>1. ASSUME LifecycleP!Inv PROVE ReferentialIntegrity
  BY <1>1 DEF LifecycleP!Inv, ReferentialIntegrity,
     Lifecycle!ReferentialIntegrity, LifecycleP!ReferentialIntegrity,
     Lifecycle!Exists, LifecycleP!Exists
<1> QED
  BY <1>1, Refinement, SameLifecycle, LifecycleP!Invariance, PTL
  DEF ImplementsLifecycle

\* Jobs never wait for one another in a ring.
THEOREM AcyclicTheorem == Spec => []AcyclicDeps
<1>1. ASSUME LifecycleP!Inv PROVE AcyclicDeps
  BY <1>1 DEF LifecycleP!Inv, AcyclicDeps, Lifecycle!AcyclicDeps,
     LifecycleP!AcyclicDeps
<1> QED
  BY <1>1, Refinement, SameLifecycle, LifecycleP!Invariance, PTL
  DEF ImplementsLifecycle

\* Terminal statuses are final under late and repeated reports, cancels and
\* cascades.
THEOREM TerminalIsFinalTheorem == Spec => TerminalIsFinal
<1>1. LifecycleP!TerminalIsFinal => TerminalIsFinal
  BY PTL DEF TerminalIsFinal, Lifecycle!TerminalIsFinal,
     LifecycleP!TerminalIsFinal, Lifecycle!Terminal, LifecycleP!Terminal,
     Lifecycle!Dead, LifecycleP!Dead, Lifecycle!vars, LifecycleP!vars
<1> QED
  BY <1>1, Refinement, SameLifecycle, LifecycleP!TerminalTheorem, PTL
  DEF ImplementsLifecycle

\* A claim is for life: no step hands a claimed job to another runner.
THEOREM ClaimIsForLifeTheorem == Spec => ClaimIsForLife
<1>1. LifecycleP!ClaimIsForLife => ClaimIsForLife
  BY PTL DEF ClaimIsForLife, Lifecycle!ClaimIsForLife,
     LifecycleP!ClaimIsForLife, Lifecycle!Terminal, LifecycleP!Terminal,
     Lifecycle!Dead, LifecycleP!Dead, Lifecycle!vars, LifecycleP!vars
<1> QED
  BY <1>1, Refinement, SameLifecycle, LifecycleP!ClaimTheorem, PTL
  DEF ImplementsLifecycle

\* A failure or a cancel takes its live dependents along in one transaction.
THEOREM CascadeIsAtomicTheorem == Spec => CascadeIsAtomic
<1>1. LifecycleP!CascadeIsAtomic => CascadeIsAtomic
  BY PTL DEF CascadeIsAtomic, Lifecycle!CascadeIsAtomic,
     LifecycleP!CascadeIsAtomic, Lifecycle!Terminal, LifecycleP!Terminal,
     Lifecycle!Dead, LifecycleP!Dead, Lifecycle!Live, LifecycleP!Live,
     Lifecycle!vars, LifecycleP!vars
<1> QED
  BY <1>1, Refinement, SameLifecycle, LifecycleP!CascadeTheorem, PTL
  DEF ImplementsLifecycle

-----------------------------------------------------------------------------
(***************************************************************************)
(* The array throttle.                                                     *)
(***************************************************************************)
SimplyRunning(a) == {j \in RunningTasks(a) : runner[j] \in SimpleRunner}

\* A step that starts no task of array a under a simple runner keeps its bound.
LEMMA ThrottleMonotone ==
    ASSUME TypeOK, ThrottleRespected, NEW a \in Array,
           \A j \in Job : status'[j] = "RUNNING" /\ runner'[j] \in SimpleRunner
                          => status[j] = "RUNNING" /\ runner[j] \in SimpleRunner
    PROVE  Throttle[a] > 0 => Cardinality(SimplyRunning(a)') <= Throttle[a]
<1>1. IsFiniteSet(SimplyRunning(a))
  <2>1. SimplyRunning(a) \in SUBSET Job
    BY DEF SimplyRunning, RunningTasks, TasksOf
  <2> QED
    BY <2>1, FS_Subset, ConstantsAssumption
<1>2. SimplyRunning(a)' \in SUBSET SimplyRunning(a)
  BY DEF SimplyRunning, RunningTasks, TasksOf
<1>3. /\ Cardinality(SimplyRunning(a)') <= Cardinality(SimplyRunning(a))
      /\ IsFiniteSet(SimplyRunning(a)')
  BY <1>1, <1>2, FS_Subset
<1>4. Cardinality(SimplyRunning(a)) \in Nat /\ Cardinality(SimplyRunning(a)') \in Nat
  BY <1>1, <1>3, FS_CardinalityType
<1>5. Throttle[a] > 0 => Cardinality(SimplyRunning(a)) <= Throttle[a]
  BY DEF ThrottleRespected, SimplyRunning
<1>6. Throttle[a] \in Nat
  BY ConstantsAssumption
<1> QED
  BY <1>3, <1>4, <1>5, <1>6

\* No step but a claim makes a job RUNNING or gives it an owner.
LEMMA NonClaimStartsNothing ==
    ASSUME TypeOK, NonClaim
    PROVE  \A j \in Job : status'[j] = "RUNNING" /\ runner'[j] \in SimpleRunner
                          => status[j] = "RUNNING" /\ runner[j] \in SimpleRunner
<1> USE DEF Lifecycle!Changed
<1>1. CASE Lifecycle!Remove
  BY <1>1 DEF Lifecycle!Remove
<1>2. CASE Lifecycle!Create
  BY <1>2 DEF Lifecycle!Create, Lifecycle!Unclaimed
<1>3. CASE Lifecycle!Settle
  BY <1>3 DEF Lifecycle!Settle
<1>4. CASE Lifecycle!Advance
  BY <1>4 DEF Lifecycle!Advance
<1>5. CASE Lifecycle!Kill
  BY <1>5 DEF Lifecycle!Kill, Lifecycle!Dead
<1>6. CASE Lifecycle!ParkOrResume
  BY <1>6 DEF Lifecycle!ParkOrResume
<1> QED
  BY <1>1, <1>2, <1>3, <1>4, <1>5, <1>6 DEF NonClaim

\* A simple runner's claim adds one task, after jobArrayThrottleOK counted.
LEMMA ThrottledClaim ==
    ASSUME TypeOK, ThrottleRespected, NEW r \in SimpleRunner, NEW j \in Job,
           jobArrayThrottleOK(j), claimJobs(r, {j}), NEW a \in Array
    PROVE  Throttle[a] > 0 => Cardinality(SimplyRunning(a)') <= Throttle[a]
<1>1. CASE ArrayOf[j] # a
  <2>1. SimplyRunning(a)' = SimplyRunning(a)
    BY <1>1 DEF claimJobs, SimplyRunning, RunningTasks, TasksOf, TypeOK
  <2> QED
    BY <2>1 DEF ThrottleRespected, SimplyRunning
<1>2. CASE ArrayOf[j] = a
  <2> SUFFICES ASSUME Throttle[a] > 0
               PROVE  Cardinality(SimplyRunning(a)') <= Throttle[a]
    OBVIOUS
  <2>1. Throttle[a] \in Nat /\ a # NoArray
    BY ConstantsAssumption
  <2>2. Cardinality(RunningTasks(a)) < Throttle[a]
    BY <1>2, <2>1 DEF jobArrayThrottleOK
  <2>3. RunningTasks(a) \in SUBSET Job
    BY DEF RunningTasks, TasksOf
  <2>4. IsFiniteSet(RunningTasks(a)) /\ Cardinality(RunningTasks(a)) \in Nat
    BY <2>3, FS_Subset, FS_CardinalityType, ConstantsAssumption
  <2> DEFINE T == RunningTasks(a) \cup {j}
  <2>5. /\ IsFiniteSet(T)
        /\ Cardinality(T) = IF j \in RunningTasks(a) THEN Cardinality(RunningTasks(a))
                            ELSE Cardinality(RunningTasks(a)) + 1
    BY <2>4, FS_AddElement
  <2>6. SimplyRunning(a)' \in SUBSET T
    BY DEF claimJobs, SimplyRunning, RunningTasks, TasksOf
  <2> HIDE DEF T
  <2>7. /\ Cardinality(SimplyRunning(a)') <= Cardinality(T)
        /\ IsFiniteSet(SimplyRunning(a)')
    BY <2>5, <2>6, FS_Subset
  <2>8. Cardinality(SimplyRunning(a)') \in Nat
    BY <2>7, FS_CardinalityType
  <2> QED
    BY <2>1, <2>2, <2>4, <2>5, <2>7, <2>8
<1> QED
  BY <1>1, <1>2

\* The %N of an array bounds its tasks running under simple runners, whatever
\* SLURM runners claim of it, whatever its size and however many runners poll.
THEOREM ThrottleTheorem == Spec => []ThrottleRespected
<1>1. ASSUME Init PROVE ThrottleRespected
  <2> SUFFICES ASSUME NEW a \in Array, Throttle[a] > 0
               PROVE  Cardinality(SimplyRunning(a)) <= Throttle[a]
    BY DEF ThrottleRespected, SimplyRunning
  <2>1. SimplyRunning(a) = {}
    BY <1>1 DEF Init, SimplyRunning, RunningTasks, TasksOf
  <2> QED
    BY <2>1, FS_EmptySet, ConstantsAssumption
<1>2. ASSUME TypeOK, ThrottleRespected, [Next]_vars PROVE ThrottleRespected'
  <2> SUFFICES ASSUME NEW a \in Array
               PROVE  Throttle[a] > 0 => Cardinality(SimplyRunning(a)') <= Throttle[a]
    BY DEF ThrottleRespected, SimplyRunning
  <2>1. CASE NonClaim
    BY <1>2, <2>1, NonClaimStartsNothing, ThrottleMonotone
  <2>2. CASE UNCHANGED <<status, deps, runner>>
    BY <1>2, <2>2, ThrottleMonotone
  <2>3. ASSUME NEW r \in SimpleRunner, NEW limit \in Limit, ClaimNextJob(r, limit)
        PROVE  Throttle[a] > 0 => Cardinality(SimplyRunning(a)') <= Throttle[a]
    <3>1. CASE UNCHANGED <<status, runner>>
      BY <1>2, <3>1, ThrottleMonotone
    <3>2. ASSUME NEW j \in First(Claimable(limit)), claimJobs(r, {j})
          PROVE  Throttle[a] > 0 => Cardinality(SimplyRunning(a)') <= Throttle[a]
      <4>1. j \in Job /\ jobArrayThrottleOK(j)
        BY DEF First, Claimable, Queued
      <4> QED
        BY <1>2, <3>2, <4>1, ThrottledClaim
    <3> QED
      BY <2>3, <3>1, <3>2 DEF ClaimNextJob
  <2>4. ASSUME NEW r \in SlurmRunner, NEW limit, NEW maxTasks, NEW minTasks,
               NEW fullArray,
               ClaimNextArrayBatch(r, limit, maxTasks, minTasks, fullArray)
        PROVE  Throttle[a] > 0 => Cardinality(SimplyRunning(a)') <= Throttle[a]
    <3>1. CASE UNCHANGED <<status, runner>>
      BY <1>2, <3>1, ThrottleMonotone
    <3>2. ASSUME NEW S, claimJobs(r, S)
          PROVE  Throttle[a] > 0 => Cardinality(SimplyRunning(a)') <= Throttle[a]
      <4>1. r \notin SimpleRunner
        BY ConstantsAssumption
      <4>2. \A j \in Job : status'[j] = "RUNNING" /\ runner'[j] \in SimpleRunner
                           => status[j] = "RUNNING" /\ runner[j] \in SimpleRunner
        BY <1>2, <3>2, <4>1 DEF claimJobs, TypeOK
      <4> QED
        BY <1>2, <4>2, ThrottleMonotone
    <3> QED
      BY <2>4, <3>1, <3>2 DEF ClaimNextArrayBatch
  <2>5. CASE Next
    BY <1>2, <2>1, <2>2, <2>3, <2>4, <2>5, StepLemma DEF ClaimStep
  <2> QED
    BY <1>2, <2>2, <2>5 DEF vars
<1> QED
  BY <1>1, <1>2, TypeCorrect, PTL DEF Spec
=============================================================================
