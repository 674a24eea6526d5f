----------------------------- MODULE SlurmRunner -----------------------------
(***************************************************************************)
(* The SLURM runner (runner/slurm.go): processes started by hand, by cron  *)
(* or by a loop, each of which makes one pass: reconcile the jobs handed   *)
(* over earlier, re-drive orphaned claims, claim and sbatch new work while *)
(* the budget lasts, reconcile again.  Beside them the batchq cancel       *)
(* command (cmd/hold.go), the job tables, and SLURM itself, which is known *)
(* only through sbatch, squeue, sacct and scancel.                         *)
(*                                                                         *)
(* A request to the server is one step, or several where it makes several  *)
(* transactions; a request whose answer may be late or lost is split into  *)
(* its commit and its answer.  Time matters in one place, the age gate of  *)
(* the recovery: Tick lets claims age and requests in flight use up the    *)
(* time they have.                                                         *)
(*                                                                         *)
(* The queue's operators (dependency pass, batch claim, cascade) are those *)
(* of JobQueue.  The jobs and their dependencies are given: submission,    *)
(* holds and cleanup are JobQueue's business.                              *)
(***************************************************************************)
EXTENDS Integers, FiniteSets

CONSTANTS
    Job, Array, NoArray, ArrayOf, ArrayIndex,   \* as in JobQueue
    Parents,          \* Job -> SUBSET Job: the afterok parents
    Pass,             \* runner processes; each one runs again and again
    RunnerId,         \* the values of --runner-id
    NoRunner,
    RunnerOf,         \* Pass -> RunnerId
    Host,             \* host names
    NoHost,           \* no "host" running detail
    HostOf,           \* Pass -> Host \cup {NoHost}
    RecoverOrphans,   \* the passes with --slurm-recover-orphans
    RecoverHostless,  \* the passes with --slurm-recover-hostless
    MaxUserJobs,      \* --slurm-max-jobs, not positive = unset
    MaxJobs,          \* --max-jobs, -1 = unset
    MinArray,         \* --slurm-min-array, not positive = unset
    FullArray,        \* --slurm-full-array
    MinAge,           \* orphanRecoveryMinAge
    ClaimTime,        \* how late the answer to a claim may be (claimTimeout)
    SbatchTime,       \* how long building and submitting a script may take
    MarkTime,         \* how late a MarkJobProxied may be (proxyWriteTimeout)
    CancelTarget,     \* the sets of jobs that users cancel: a job or an array
    Fault,            \* the faults that may happen
    MaxCrashes,       \* bound on runner crashes
    MaxSbatch         \* bound on successful sbatch calls

FaultKind == {"claimLost", "hostLost", "markLost", "writeLost", "readLost",
              "squeueFails", "sbatchFails", "nodeFail", "timeLimit", "crash"}

\* SLURM job ids; 0 is "no slurm_job_id/slurm_array_id recorded".
SlurmId == 1..MaxSbatch

ASSUME SlurmAssumption ==
    /\ IsFiniteSet(Job)
    /\ NoArray \notin Array
    /\ ArrayOf \in [Job -> Array \cup {NoArray}]
    /\ ArrayIndex \in [Job -> Nat]
    /\ \A j, k \in Job : ArrayOf[j] = ArrayOf[k] /\ ArrayOf[j] # NoArray /\ j # k =>
         ArrayIndex[j] # ArrayIndex[k]
    /\ Parents \in [Job -> SUBSET Job]
    /\ NoRunner \notin RunnerId
    /\ RunnerOf \in [Pass -> RunnerId]
    /\ NoHost \notin Host
    /\ HostOf \in [Pass -> Host \cup {NoHost}]
    /\ RecoverOrphans \subseteq Pass
    /\ RecoverHostless \subseteq Pass
    /\ MaxUserJobs \in Int /\ MaxJobs \in Int /\ MinArray \in Int
    /\ FullArray \in BOOLEAN
    /\ {MinAge, ClaimTime, SbatchTime, MarkTime} \subseteq Nat
    /\ CancelTarget \subseteq SUBSET Job
    /\ Fault \subseteq FaultKind
    /\ MaxCrashes \in Nat
    /\ MaxSbatch \in Nat

VARIABLES
    \* the job tables
    status,     \* jobs.status
    owner,      \* job_running.job_runner
    host,       \* the "host" running detail
    slurmId,    \* the slurm_job_id or slurm_array_id running detail
    age,        \* time since start_time, counted up to MinAge
    owed,       \* the passes whose request still runs a dependency pass
    \* SLURM
    slurm,      \* SlurmId -> Job -> state of that job's task
    after,      \* SlurmId -> the <<id, task>> its -d afterok names
    \* the runner processes
    pc,         \* where each pass is
    unit,       \* the job, or the array tasks, in hand
    req,        \* the afterok directive of the script in hand
    work,       \* the <<job, slurm id>> of the current list still to do
    orphans,    \* the units of the recovery still to do
    limit,      \* maxTasks of the claim to come, 0 = unbounded
    avail,      \* availJobs
    one,        \* submittedOne
    sent,       \* hand-offs acknowledged in this invocation (history)
    wait,       \* time spent in the current request
    crashes,
    \* batchq cancel
    user

tables  == <<status, owner, host, slurmId, age>>
cluster == <<slurm, after>>
hand    == <<unit, req, orphans, limit>>
vars    == <<status, owner, host, slurmId, age, owed, slurm, after, pc, unit,
             req, work, orphans, limit, avail, one, sent, wait, crashes, user>>

Queue == INSTANCE JobQueue
    WITH deps <- Parents, runner <- owner, SimpleRunner <- {},
         SlurmRunner <- RunnerId, Throttle <- [a \in Array |-> 0],
         Need <- [j \in Job |-> 0], priority <- [j \in Job |-> 0],
         Priority <- {0}, Limit <- {0}, Budget <- {0}, MinTasks <- {0},
         Handler <- {}, handler <- <<>>, poll <- <<>>, crashes <- 0,
         MaxCrashes <- 0

LiveStatus  == {"WAITING", "QUEUED", "RUNNING", "PROXYQUEUED"}
DeadStatus  == {"CANCELED", "FAILED"}
EndStatus   == DeadStatus \cup {"SUCCESS"}

InSlurm     == {"PENDING", "RUNNING"}
SlurmFailed == {"FAILED", "TIMEOUT", "CANCELLED", "NODE_FAIL"}
SlurmState  == InSlurm \cup SlurmFailed \cup {"COMPLETED", "NONE"}

Pc == {"off", "update", "recover", "next", "claim", "response", "build",
       "sbatch", "mark", "drop", "finish"}

NoCommand == [pc |-> "idle", tasks |-> {}, targets |-> {}]

TypeOK ==
    /\ status  \in [Job -> LiveStatus \cup EndStatus]
    /\ owner   \in [Job -> RunnerId \cup {NoRunner}]
    /\ host    \in [Job -> Host \cup {NoHost}]
    /\ slurmId \in [Job -> SlurmId \cup {0}]
    /\ age     \in [Job -> 0..MinAge]
    /\ owed    \subseteq Pass
    /\ slurm   \in [SlurmId -> [Job -> SlurmState]]
    /\ after   \in [SlurmId -> SUBSET (SlurmId \X Job)]
    /\ pc      \in [Pass -> Pc]
    /\ unit    \in [Pass -> SUBSET Job]
    /\ req     \in [Pass -> SUBSET (SlurmId \X Job)]
    /\ work    \in [Pass -> SUBSET (Job \X (SlurmId \cup {0}))]
    /\ orphans \in [Pass -> SUBSET SUBSET Job]
    /\ limit   \in [Pass -> Nat]
    /\ avail   \in [Pass -> Int]
    /\ one     \in [Pass -> BOOLEAN]
    /\ sent    \in [Pass -> Nat]
    /\ wait    \in [Pass -> Nat]
    /\ crashes \in 0..MaxCrashes
    /\ user    \in [pc : {"idle", "scancel", "cancel"}, tasks : SUBSET Job,
                    targets : SUBSET (SlurmId \X Job)]

Init ==
    /\ status  = [j \in Job |-> IF Parents[j] = {} THEN "QUEUED" ELSE "WAITING"]
    /\ owner   = [j \in Job |-> NoRunner]
    /\ host    = [j \in Job |-> NoHost]
    /\ slurmId = [j \in Job |-> 0]
    /\ age     = [j \in Job |-> 0]
    /\ owed    = {}
    /\ slurm   = [n \in SlurmId |-> [j \in Job |-> "NONE"]]
    /\ after   = [n \in SlurmId |-> {}]
    /\ pc      = [p \in Pass |-> "off"]
    /\ unit    = [p \in Pass |-> {}]
    /\ req     = [p \in Pass |-> {}]
    /\ work    = [p \in Pass |-> {}]
    /\ orphans = [p \in Pass |-> {}]
    /\ limit   = [p \in Pass |-> 0]
    /\ avail   = [p \in Pass |-> 0]
    /\ one     = [p \in Pass |-> FALSE]
    /\ sent    = [p \in Pass |-> 0]
    /\ wait    = [p \in Pass |-> 0]
    /\ crashes = 0
    /\ user    = NoCommand

TasksOf(a) == {j \in Job : ArrayOf[j] = a}

\* What squeue lists, array tasks one by one.
LiveInSlurm == {t \in SlurmId \X Job : slurm[t[1]][t[2]] \in InSlurm}

Goto(p, l) == pc' = [pc EXCEPT ![p] = l]

-----------------------------------------------------------------------------
(***************************************************************************)
(* Start, and the reconciliation at both ends of a pass.                   *)
(***************************************************************************)

\* ListJobs(PROXYQUEUED), with the SLURM id of each job as it is now.
Proxied == {<<j, slurmId[j]>> : j \in {k \in Job : status[k] = "PROXYQUEUED"}}

Start(p) ==
    /\ pc[p] = "off" /\ p \notin owed
    /\ Goto(p, "update")
    /\ work'  = [work EXCEPT ![p] = Proxied]
    /\ avail' = [avail EXCEPT ![p] = MaxJobs]
    /\ UNCHANGED <<tables, owed, cluster, hand, one, sent, wait, crashes, user>>

OutcomeElseFailed(s) == IF s = "COMPLETED" THEN "SUCCESS"
                        ELSE IF s \in InSlurm THEN "" ELSE "FAILED"

\* The status that a SLURM state stands for; "" leaves the job as it is
\* (PENDING, RUNNING, and every state the runner does not know).
Outcome(s) == IF s = "COMPLETED" THEN "SUCCESS"
              ELSE IF s = "CANCELLED" THEN "CANCELED"
              ELSE IF s \in {"FAILED", "TIMEOUT"} THEN "FAILED"  \* also OUT_OF_MEMORY
              ELSE ""

EndProxiedBlindly(p, j, s) ==
    /\ status' = [status EXCEPT ![j] = s]
    /\ owed'   = owed

\* EndProxiedJob as JobQueue has it; a success runs a dependency pass after.
EndProxiedJob(p, j, s) ==
    /\ status' = IF status[j] # "PROXYQUEUED" THEN status
                 ELSE IF s = "SUCCESS" THEN [status EXCEPT ![j] = s]
                 ELSE Queue!EndAndCascade(j, s)
    /\ owed' = IF s = "SUCCESS" /\ status[j] \in {"PROXYQUEUED", s}
                 THEN owed \cup {p} ELSE owed

\* One job of the list: sacct, then the report of what it says.
applySlurmState(p, j, n) ==
    /\ pc[p] \in {"update", "finish"} /\ p \notin owed
    /\ <<j, n>> \in work[p]
    /\ work' = [work EXCEPT ![p] = @ \ {<<j, n>>}]
    /\ IF n # 0 /\ Outcome(slurm[n][j]) # ""
         THEN EndProxiedJob(p, j, Outcome(slurm[n][j]))
         ELSE UNCHANGED <<status, owed>>
    /\ UNCHANGED <<owner, host, slurmId, age, cluster, pc, hand, avail, one,
                   sent, wait, crashes, user>>

\* sacct lags or fails, or the report never reaches the server.
ReconcileLost(p, j, n) ==
    /\ "writeLost" \in Fault
    /\ pc[p] \in {"update", "finish"} /\ p \notin owed
    /\ <<j, n>> \in work[p]
    /\ work' = [work EXCEPT ![p] = @ \ {<<j, n>>}]
    /\ UNCHANGED <<tables, owed, cluster, pc, hand, avail, one, sent, wait,
                   crashes, user>>

Recovering(p) == p \in RecoverOrphans \cup RecoverHostless

Updated(p) ==
    /\ pc[p] = "update" /\ work[p] = {} /\ p \notin owed
    /\ Goto(p, IF Recovering(p) THEN "recover" ELSE "next")
    /\ UNCHANGED <<tables, owed, cluster, hand, work, avail, one, sent, wait,
                   crashes, user>>

\* The end of the submit loop: reconcile once more if anything was submitted.
LeaveLoop(p) ==
    /\ Goto(p, "finish")
    /\ work' = [work EXCEPT ![p] = IF one[p] THEN Proxied ELSE {}]

Exit(p) ==
    /\ pc[p] = "finish" /\ work[p] = {} /\ p \notin owed
    /\ Goto(p, "off")
    /\ avail' = [avail EXCEPT ![p] = 0]
    /\ one'   = [one EXCEPT ![p] = FALSE]
    /\ sent'  = [sent EXCEPT ![p] = 0]
    /\ UNCHANGED <<tables, owed, cluster, hand, work, wait, crashes, user>>

-----------------------------------------------------------------------------
(***************************************************************************)
(* Recovery of orphaned claims.                                            *)
(***************************************************************************)

\* The claim was made on this host, or left no host and this pass takes those.
Attributable(p, j) ==
    IF host[j] = NoHost THEN p \in RecoverHostless ELSE host[j] = HostOf[p]

OrphanOfAnyAge(p, j) ==
    /\ status[j] = "RUNNING"
    /\ slurmId[j] = 0
    /\ Attributable(p, j)

isOrphanedClaim(p, j) ==
    /\ status[j] = "RUNNING"
    /\ slurmId[j] = 0
    /\ age[j] >= MinAge
    /\ Attributable(p, j)

\* Plain jobs one by one, the tasks of an array together.
Regroup(S) ==
    {{j} : j \in {k \in S : ArrayOf[k] = NoArray}}
    \cup ({S \cap TasksOf(a) : a \in Array} \ {{}})

recoverOrphanedClaims(p) ==
    /\ pc[p] = "recover"
    /\ Goto(p, "next")
    /\ orphans' = [orphans EXCEPT ![p] = Regroup({j \in Job : isOrphanedClaim(p, j)})]
    /\ UNCHANGED <<tables, owed, cluster, unit, req, limit, work, avail, one,
                   sent, wait, crashes, user>>

\* The jobs are as the list had them: their status is not looked at again.
NextOrphan(p) ==
    /\ pc[p] = "next"
    /\ \E u \in orphans[p] :
         /\ unit'    = [unit EXCEPT ![p] = u]
         /\ orphans' = [orphans EXCEPT ![p] = @ \ {u}]
    /\ Goto(p, "build")
    /\ wait' = [wait EXCEPT ![p] = 0]
    /\ UNCHANGED <<tables, owed, cluster, req, limit, work, avail, one, sent,
                   crashes, user>>

-----------------------------------------------------------------------------
(***************************************************************************)
(* The submit loop.                                                        *)
(***************************************************************************)
UnclampedMinArray == MinArray

clampMinArray ==
    LET ceiling == IF MaxJobs > 0 /\ (MaxUserJobs <= 0 \/ MaxJobs < MaxUserJobs)
                     THEN MaxJobs ELSE MaxUserJobs
    IN IF MinArray > 0 /\ ceiling > 0 /\ MinArray > ceiling THEN ceiling ELSE MinArray

BudgetOffByOne == MaxUserJobs - Cardinality(LiveInSlurm) + 1

\* What squeue leaves of --slurm-max-jobs.
LiveBudget == MaxUserJobs - Cardinality(LiveInSlurm)

\* maxTasks: the smaller of the two budgets that are set, 0 = unbounded.
MaxTasks(p) ==
    IF MaxUserJobs > 0 /\ (avail[p] < 0 \/ LiveBudget < avail[p]) THEN LiveBudget
    ELSE IF avail[p] > 0 THEN avail[p] ELSE 0

Exhausted(p) == (MaxUserJobs > 0 /\ LiveBudget <= 0) \/ avail[p] = 0

\* squeue, then the claim request, which runs a dependency pass first.
GetBudget(p) ==
    /\ pc[p] = "next" /\ orphans[p] = {}
    /\ IF Exhausted(p)
         THEN LeaveLoop(p) /\ UNCHANGED <<limit, owed>>
         ELSE /\ Goto(p, "claim")
              /\ limit' = [limit EXCEPT ![p] = MaxTasks(p)]
              /\ owed'  = owed \cup {p}
              /\ UNCHANGED work
    /\ UNCHANGED <<tables, cluster, unit, req, orphans, avail, one, sent, wait,
                   crashes, user>>

\* The hosts a claim may leave on a job: the detail is a write of its own, one
\* for each task.
HostsRecorded(p) ==
    {HostOf[p]} \cup (IF "hostLost" \in Fault THEN {NoHost} ELSE {})

\* The claim's transaction: a plain job, or a batch of one array.
ClaimNextArrayBatch(p) ==
    LET S == Queue!BatchClaimable(0, limit[p], clampMinArray, FullArray) IN
    /\ pc[p] = "claim" /\ p \notin owed
    /\ limit' = [limit EXCEPT ![p] = 0]
    /\ \/ /\ S = {}
          /\ LeaveLoop(p)
          /\ UNCHANGED <<status, owner, host, age, unit, wait>>
       \/ \E j \in S :
            LET U == Queue!Unit(j, limit[p]) IN
            /\ Queue!claimJobs(RunnerOf[p], U)
            /\ \E h \in [U -> HostsRecorded(p)] :
                 host' = [k \in Job |-> IF k \in U THEN h[k] ELSE host[k]]
            /\ age'  = [k \in Job |-> IF k \in U THEN 0 ELSE age[k]]
            /\ unit' = [unit EXCEPT ![p] = U]
            /\ wait' = [wait EXCEPT ![p] = 0]
            /\ Goto(p, "response")
            /\ UNCHANGED work
    /\ UNCHANGED <<slurmId, owed, cluster, req, orphans, avail, one, sent,
                   crashes, user>>

ClaimAnswered(p) ==
    /\ pc[p] = "response"
    /\ Goto(p, "build")
    /\ wait' = [wait EXCEPT ![p] = 0]
    /\ UNCHANGED <<tables, owed, cluster, hand, work, avail, one, sent, crashes, user>>

\* The claim is committed but its answer is lost: the runner gives up.
ClaimLost(p) ==
    /\ "claimLost" \in Fault
    /\ pc[p] = "response"
    /\ LeaveLoop(p)
    /\ unit' = [unit EXCEPT ![p] = {}]
    /\ UNCHANGED <<tables, owed, cluster, req, orphans, limit, avail, one, sent,
                   wait, crashes, user>>

-----------------------------------------------------------------------------
(***************************************************************************)
(* Submission of one unit.                                                 *)
(***************************************************************************)

\* The representative of a batch: its first task.
Template(u) == CHOOSE j \in u : \A k \in u : ArrayIndex[j] <= ArrayIndex[k]

Pending(j) == {d \in Job : d \in Parents[j] /\ status[d] \in {"RUNNING", "PROXYQUEUED"}}

\* A parent that failed, is not ready, or has no SLURM id on record.
BadParent(j) ==
    \/ \E d \in Parents[j] : status[d] \in DeadStatus \cup {"WAITING"}
    \/ \E d \in Pending(j) : slurmId[d] = 0

\* Every task of d's array is among the pending parents.
WholeArray(j, d) == ArrayOf[d] # NoArray /\ TasksOf(ArrayOf[d]) \subseteq Pending(j)

AfterOkPlainJobs(j) == {<<slurmId[d], d>> : d \in {e \in Pending(j) : ArrayOf[e] = NoArray}}

\* -d afterok: the pending parents, and where j waits for a whole array, all
\* tasks of each SLURM array that its tasks went out in.
slurmAfterOkDirective(j) ==
    {<<slurmId[d], d>> : d \in Pending(j)}
    \cup UNION {{slurmId[d]} \X {k \in Job : slurm[slurmId[d]][k] # "NONE"} :
                  d \in {e \in Pending(j) : WholeArray(j, e)}}

buildSBatchScript(p) ==
    LET j == Template(unit[p]) IN
    /\ pc[p] = "build"
    /\ IF BadParent(j)
         THEN /\ Goto(p, "drop")
              /\ work' = [work EXCEPT ![p] = unit[p] \X {0}]
              /\ UNCHANGED req
         ELSE /\ Goto(p, "sbatch")
              /\ req' = [req EXCEPT ![p] = slurmAfterOkDirective(j)]
              /\ UNCHANGED work
    /\ UNCHANGED <<tables, owed, cluster, unit, orphans, limit, avail, one, sent,
                   wait, crashes, user>>

Free == {n \in SlurmId : \A j \in Job : slurm[n][j] = "NONE"}

SlurmSbatch(p) ==
    /\ pc[p] = "sbatch"
    /\ \E n \in Free :
         /\ \A m \in Free : n <= m
         /\ slurm' = [slurm EXCEPT ![n] = [j \in Job |-> IF j \in unit[p] THEN "PENDING"
                                                         ELSE "NONE"]]
         /\ after' = [after EXCEPT ![n] = req[p]]
         /\ work'  = [work EXCEPT ![p] = unit[p] \X {n}]
    /\ req'  = [req EXCEPT ![p] = {}]
    /\ wait' = [wait EXCEPT ![p] = 0]
    /\ Goto(p, "mark")
    /\ UNCHANGED <<tables, owed, unit, orphans, limit, avail, one, sent, crashes, user>>

SbatchFails(p) ==
    /\ "sbatchFails" \in Fault
    /\ pc[p] = "sbatch"
    /\ req'  = [req EXCEPT ![p] = {}]
    /\ work' = [work EXCEPT ![p] = unit[p] \X {0}]
    /\ Goto(p, "drop")
    /\ UNCHANGED <<tables, owed, cluster, unit, orphans, limit, avail, one, sent,
                   wait, crashes, user>>

\* A read from the server fails: no recovery in this pass, an orphan skipped for
\* now, or a script that cannot be built for want of a parent's record.
ReadLost(p) ==
    /\ "readLost" \in Fault
    /\ \/ /\ pc[p] = "recover"
          /\ Goto(p, "next")
          /\ UNCHANGED <<orphans, work>>
       \/ /\ pc[p] = "next"
          /\ \E u \in orphans[p] : orphans' = [orphans EXCEPT ![p] = @ \ {u}]
          /\ UNCHANGED <<pc, work>>
       \/ /\ pc[p] = "build" /\ Parents[Template(unit[p])] # {}
          /\ Goto(p, "drop")
          /\ work' = [work EXCEPT ![p] = unit[p] \X {0}]
          /\ UNCHANGED orphans
    /\ UNCHANGED <<tables, owed, cluster, unit, req, limit, avail, one, sent, wait,
                   crashes, user>>

\* squeue fails: the pass ends at once, without its second reconciliation.
SqueueFails(p) ==
    /\ "squeueFails" \in Fault
    /\ pc[p] = "next" /\ orphans[p] = {} /\ MaxUserJobs > 0
    /\ Goto(p, "finish")
    /\ UNCHANGED <<tables, owed, cluster, hand, work, avail, one, sent, wait, crashes,
                   user>>

\* A unit that could not be submitted: each of its jobs is canceled.
cancelJob(p, j) ==
    /\ pc[p] = "drop"
    /\ <<j, 0>> \in work[p]
    /\ work' = [work EXCEPT ![p] = @ \ {<<j, 0>>}]
    /\ \/ status' = Queue!CancelAll({j})
       \/ "writeLost" \in Fault /\ UNCHANGED status
    /\ UNCHANGED <<owner, host, slurmId, age, owed, cluster, pc, hand, avail, one,
                   sent, wait, crashes, user>>

SpentUnguarded(n) == n - 1

\* availJobs after one hand-off: never from 0 to -1, which means unlimited.
Spent(n) == IF n > 0 THEN n - 1 ELSE n

MarkAllowed(p, j) ==
    owner[j] = RunnerOf[p] /\ status[j] \in {"RUNNING", "PROXYQUEUED"}

RecordHandoff(p, j, n) ==
    /\ status'  = [status EXCEPT ![j] = "PROXYQUEUED"]
    /\ slurmId' = [slurmId EXCEPT ![j] = n]
    /\ owed'    = owed \cup {p}

\* The hand-off of one task; a job canceled meanwhile, or another runner's, is
\* refused.
MarkJobProxied(p, j, n) ==
    /\ pc[p] = "mark" /\ p \notin owed
    /\ <<j, n>> \in work[p]
    /\ work' = [work EXCEPT ![p] = @ \ {<<j, n>>}]
    /\ wait' = [wait EXCEPT ![p] = 0]
    /\ IF MarkAllowed(p, j)
         THEN /\ RecordHandoff(p, j, n)
              /\ avail' = [avail EXCEPT ![p] = Spent(@)]
              /\ one'   = [one EXCEPT ![p] = TRUE]
              /\ sent'  = [sent EXCEPT ![p] = @ + 1]
         ELSE UNCHANGED <<status, slurmId, owed, avail, one, sent>>
    /\ UNCHANGED <<owner, host, age, cluster, pc, hand, crashes, user>>

\* All retries of the hand-off fail; one of them may have been committed.
MarkLost(p, j, n) ==
    /\ "markLost" \in Fault
    /\ pc[p] = "mark" /\ p \notin owed
    /\ <<j, n>> \in work[p]
    /\ work' = [work EXCEPT ![p] = @ \ {<<j, n>>}]
    /\ wait' = [wait EXCEPT ![p] = 0]
    /\ \/ UNCHANGED <<status, slurmId, owed>>
       \/ MarkAllowed(p, j) /\ RecordHandoff(p, j, n)
    /\ UNCHANGED <<owner, host, age, cluster, pc, hand, avail, one, sent, crashes,
                   user>>

UnitDone(p) ==
    /\ pc[p] \in {"mark", "drop"} /\ work[p] = {} /\ p \notin owed
    /\ Goto(p, "next")
    /\ unit' = [unit EXCEPT ![p] = {}]
    /\ UNCHANGED <<tables, owed, cluster, req, orphans, limit, work, avail, one,
                   sent, wait, crashes, user>>

-----------------------------------------------------------------------------
(***************************************************************************)
(* The runner process dies; its request in flight completes.               *)
(***************************************************************************)
Crash(p) ==
    /\ "crash" \in Fault
    /\ pc[p] # "off" /\ crashes < MaxCrashes
    /\ crashes' = crashes + 1
    /\ Goto(p, "off")
    /\ unit'    = [unit EXCEPT ![p] = {}]
    /\ req'     = [req EXCEPT ![p] = {}]
    /\ work'    = [work EXCEPT ![p] = {}]
    /\ orphans' = [orphans EXCEPT ![p] = {}]
    /\ limit'   = [limit EXCEPT ![p] = 0]
    /\ avail'   = [avail EXCEPT ![p] = 0]
    /\ one'     = [one EXCEPT ![p] = FALSE]
    /\ sent'    = [sent EXCEPT ![p] = 0]
    /\ wait'    = [wait EXCEPT ![p] = 0]
    /\ UNCHANGED <<tables, owed, cluster, user>>

\* The dependency pass of a request, before its answer.
ResolveDependencies(p) ==
    /\ p \in owed
    /\ Queue!ResolveDependencies
    /\ owed' = owed \ {p}
    /\ UNCHANGED <<owner, host, slurmId, age, cluster, pc, hand, work, avail, one,
                   sent, wait, crashes, user>>

(***************************************************************************)
(* Time.  Nothing holds up the clock but requests that have used up their  *)
(* time: they are answered, or given up, before it goes on.                *)
(***************************************************************************)
Patience(l) == CASE l = "response" -> ClaimTime
                 [] l \in {"build", "sbatch"} -> SbatchTime
                 [] l = "mark" -> MarkTime

Timed == {p \in Pass : \/ pc[p] \in {"response", "build", "sbatch"}
                       \/ pc[p] = "mark" /\ work[p] # {}}

Tick ==
    /\ \A p \in Timed : wait[p] < Patience(pc[p])
    /\ age'  = [j \in Job |-> IF status[j] = "RUNNING" /\ age[j] < MinAge
                                THEN age[j] + 1 ELSE age[j]]
    /\ wait' = [p \in Pass |-> IF p \in Timed THEN wait[p] + 1 ELSE wait[p]]
    /\ UNCHANGED <<status, owner, host, slurmId, owed, cluster, pc, hand, work,
                   avail, one, sent, crashes, user>>

-----------------------------------------------------------------------------
(***************************************************************************)
(* batchq cancel: fetch the job (or the array's members), scancel what it   *)
(* has on record, then cancel in the queue.                                *)
(***************************************************************************)
ScancelTargets(S) ==
    LET known == {j \in S : slurmId[j] # 0} IN
    IF \E a \in Array : S = TasksOf(a)
      THEN {slurmId[j] : j \in known} \X Job       \* scancel <array id>
      ELSE {<<slurmId[j], j>> : j \in known}        \* scancel <id>[_<index>]

CancelFetch(S) ==
    /\ user = NoCommand
    /\ user' = [pc |-> "scancel", tasks |-> S, targets |-> ScancelTargets(S)]
    /\ UNCHANGED <<tables, owed, cluster, pc, hand, work, avail, one, sent, wait,
                   crashes>>

scancel ==
    /\ user.pc = "scancel"
    /\ slurm' = [n \in SlurmId |-> [j \in Job |->
                   IF <<n, j>> \in user.targets /\ slurm[n][j] \in InSlurm
                     THEN "CANCELLED" ELSE slurm[n][j]]]
    /\ user' = [pc |-> "cancel", tasks |-> user.tasks, targets |-> user.targets]
    /\ UNCHANGED <<tables, owed, after, pc, hand, work, avail, one, sent, wait,
                   crashes>>

CancelInQueue ==
    /\ user.pc = "cancel"
    /\ status' = Queue!CancelAll(user.tasks)
    /\ user' = NoCommand
    /\ UNCHANGED <<owner, host, slurmId, age, owed, cluster, pc, hand, work, avail,
                   one, sent, wait, crashes>>

-----------------------------------------------------------------------------
(***************************************************************************)
(* SLURM: a task starts when the tasks it is to come after have completed, *)
(* is killed when one of them cannot (--kill-on-invalid-dep), and ends.    *)
(***************************************************************************)
SetSlurm(n, j, s) ==
    /\ slurm' = [slurm EXCEPT ![n] = [@ EXCEPT ![j] = s]]
    /\ UNCHANGED <<tables, owed, after, pc, hand, work, avail, one, sent, wait,
                   crashes, user>>

SlurmStart(n, j) ==
    /\ slurm[n][j] = "PENDING"
    /\ \A t \in after[n] : slurm[t[1]][t[2]] = "COMPLETED"
    /\ SetSlurm(n, j, "RUNNING")

SlurmKill(n, j) ==
    /\ slurm[n][j] = "PENDING"
    /\ \E t \in after[n] : slurm[t[1]][t[2]] \in SlurmFailed
    /\ SetSlurm(n, j, "CANCELLED")

SlurmEnd(n, j) ==
    /\ slurm[n][j] = "RUNNING"
    /\ \E s \in {"COMPLETED", "FAILED"}
               \cup (IF "timeLimit" \in Fault THEN {"TIMEOUT"} ELSE {})
               \cup (IF "nodeFail" \in Fault THEN {"NODE_FAIL"} ELSE {}) :
         SetSlurm(n, j, s)

SlurmStep(n, j) == SlurmStart(n, j) \/ SlurmKill(n, j) \/ SlurmEnd(n, j)

-----------------------------------------------------------------------------
PassStep(p) ==
    \/ Start(p) \/ Updated(p) \/ Exit(p)
    \/ recoverOrphanedClaims(p) \/ NextOrphan(p)
    \/ GetBudget(p) \/ ClaimNextArrayBatch(p) \/ ClaimAnswered(p)
    \/ buildSBatchScript(p) \/ SlurmSbatch(p) \/ UnitDone(p)
    \/ \E j \in Job : cancelJob(p, j)
    \/ \E j \in Job, n \in SlurmId \cup {0} :
         applySlurmState(p, j, n) \/ MarkJobProxied(p, j, n)

PassFault(p) ==
    \/ ClaimLost(p) \/ ReadLost(p) \/ SqueueFails(p) \/ SbatchFails(p) \/ Crash(p)
    \/ \E j \in Job, n \in SlurmId \cup {0} :
         ReconcileLost(p, j, n) \/ MarkLost(p, j, n)

User == (\E S \in CancelTarget : CancelFetch(S)) \/ scancel \/ CancelInQueue

Next ==
    \/ \E p \in Pass : PassStep(p) \/ PassFault(p) \/ ResolveDependencies(p)
    \/ \E n \in SlurmId, j \in Job : SlurmStep(n, j)
    \/ User
    \/ Tick

Spec == Init /\ [][Next]_vars

(***************************************************************************)
(* Fairness: a runner that is up goes on and one that has exited is started *)
(* again (cron, or a loop around batchq run); the server answers; SLURM     *)
(* schedules and finishes what it has; time passes.                         *)
(***************************************************************************)
FairSpec ==
    /\ Spec
    /\ \A p \in Pass : WF_vars(PassStep(p)) /\ WF_vars(ResolveDependencies(p))
    /\ \A n \in SlurmId, j \in Job : WF_vars(SlurmStep(n, j))
    /\ WF_vars(Tick)

-----------------------------------------------------------------------------
(***************************************************************************)
(* Safety.                                                                 *)
(***************************************************************************)

\* The SLURM tasks that run, or have run, job j.
Submissions(j) == {n \in SlurmId : slurm[n][j] # "NONE"}

\* No job is submitted to SLURM twice, as the comment on orphanRecoveryMinAge
\* and docs/slurm.md promise.  Without a recovery it holds whatever fails; a
\* recovery breaks it, because a claim and its hand-off may each take
\* proxyWriteTimeout and the age gate is shorter than the two together.
NoDoubleSubmit == \A j \in Job : Cardinality(Submissions(j)) <= 1

\* A job is in SLURM more than once only where recoverOrphanedClaims may have
\* put it there: its claim has the age of the gate, and some pass that recovers
\* takes claims of its host.  Claims that race, lost answers, lost hand-offs,
\* crashes and restarts alone never submit a job again.
OnlyRecoveryResubmits ==
    \A j \in Job : Cardinality(Submissions(j)) > 1 =>
        /\ age[j] >= MinAge
        /\ \E p \in Pass : Recovering(p) /\ Attributable(p, j)

\* SLURM runs a job only after all its parents have completed in SLURM, though
\* batchq submits it while they are still queued there: the -d afterok directive
\* built from the recorded ids covers what the dependency pass lets through.
ParentsRunFirst ==
    \A n \in SlurmId, j \in Job :
        slurm[n][j] \in SlurmState \ {"NONE", "PENDING", "CANCELLED"} =>
            \A d \in Parents[j] : \E m \in SlurmId : slurm[m][d] = "COMPLETED"

\* SUCCESS and FAILED are reported only of a job that ended so in SLURM, also
\* when lists are stale, reports are lost, or ids are recorded a second time.  A
\* time-out counts as FAILED, as applySlurmState has it; docs/slurm.md says
\* CANCELED (README, divergences).
StatusMatchesSlurm ==
    \A j \in Job :
        /\ status[j] = "SUCCESS" => \E n \in SlurmId : slurm[n][j] = "COMPLETED"
        /\ status[j] = "FAILED"  =>
             \E n \in SlurmId : slurm[n][j] \in {"FAILED", "TIMEOUT"}

\* --slurm-max-jobs: the user's tasks in SLURM never exceed it, with one runner
\* at a time and no recovery.
LiveQueueBounded == MaxUserJobs > 0 => Cardinality(LiveInSlurm) <= MaxUserJobs

\* --max-jobs: a claim never takes more than this invocation has left, also
\* when a recovery has handed over more than the cap before the first claim.
InvocationCap ==
    [][\A p \in Pass : MaxJobs >= 0 /\ pc[p] = "claim" /\ pc'[p] = "response" =>
         sent[p] + Cardinality(unit'[p]) <= MaxJobs]_vars

Lifecycle == INSTANCE JobLifecycle
    WITH Runner <- RunnerId, deps <- Parents, runner <- owner

\* All the runner, the cancel command and the recovery do to the tables is
\* allowed by the storage's abstract specification.
LifecycleRespected == [][Lifecycle!Next]_<<status, owner>>

(***************************************************************************)
(* Liveness.                                                               *)
(***************************************************************************)

\* Every job that can be claimed ends: lost claims are re-driven, arrays below
\* the minimum are not held back for ever, ends in SLURM are reported.
EveryJobSettles ==
    \A j \in Job : status[j] \in LiveStatus ~> status[j] \in EndStatus
=============================================================================
