---------------------------- MODULE SimpleRunner ----------------------------
(***************************************************************************)
(* The simple runner (runner/simple.go): a process that claims jobs and    *)
(* runs them itself.  Its run loop looks after the jobs it has (canceled?  *)
(* over their walltime?), claims one more if there is room, and sleeps     *)
(* until a job ends or a heartbeat.  One goroutine per job waits for its   *)
(* process, reports the end and returns what the job had reserved; another *)
(* handles Ctrl+C.  They share curJobs and the counters under one lock,    *)
(* which a reporting goroutine holds across its request.                   *)
(*                                                                         *)
(* The tables are those of JobQueue, whose operators do the claim's        *)
(* dependency pass and the cascades; there are no arrays, and jobs and     *)
(* dependencies are given.  Each request is one step, or two where a       *)
(* dependency pass is a transaction of its own.                            *)
(***************************************************************************)
EXTENDS Integers, FiniteSets, FiniteSetsExt

CONSTANTS
    Job,
    Parents,      \* Job -> SUBSET Job: the afterok parents
    Me,           \* --runner-id
    NoRunner,
    Procs, Mem,   \* Job -> Nat: what the job asks for, 0 = nothing
    Resource,     \* names of countable resources
    Types,        \* Resource -> SUBSET Resource: gpu -> {gpu:a100, ...}
    Want,         \* Job -> Resource -> Nat
    Suits,        \* the jobs whose walltime and labels the runner accepts
    Timed,        \* the jobs with a walltime
    Hangs,        \* the jobs whose process never ends by itself
    MaxProcs, MaxMem,  \* --max-procs, --max-mem, -1 = unset
    Pool,         \* Resource -> Nat: what the runner advertises
    MaxJobs,      \* --max-jobs, -1 = unset
    Forever,      \* --forever
    Fault,        \* the faults, and users' actions, that may happen
    MaxFaults,    \* bound on how many of them
    MaxStarts     \* bound on invocations of batchq run

FaultKind == {"claimLost", "readLost", "cancelLost", "reportLost", "startFails",
              "crash", "interrupt", "drain", "cancel"}

ASSUME SimpleAssumption ==
    /\ IsFiniteSet(Job) /\ IsFiniteSet(Resource)
    /\ Parents \in [Job -> SUBSET Job]
    /\ NoRunner # Me
    /\ Procs \in [Job -> Nat] /\ Mem \in [Job -> Nat]
    /\ Types \in [Resource -> SUBSET Resource]
    /\ Want \in [Job -> [Resource -> Nat]]
    /\ Suits \subseteq Job /\ Timed \subseteq Job /\ Hangs \subseteq Job
    /\ MaxProcs \in Int /\ MaxMem \in Int /\ MaxJobs \in Int
    /\ Pool \in [Resource -> Nat]
    /\ Forever \in BOOLEAN
    /\ Fault \subseteq FaultKind
    /\ MaxStarts \in Nat /\ MaxFaults \in Nat

VARIABLES
    \* the job tables
    status, owner,
    \* the machine
    proc,         \* the job's process: "none", "running", "done", "failed"
    late,         \* the running jobs that are over their walltime
    drain,        \* the drain file exists
    \* the runner, under r.lock
    cur,          \* curJobs
    availProcs, availMem,
    track,        \* where the job's completion goroutine is
    \* the run loop
    pc,
    todo,         \* jobs of the snapshot still to look at
    inHand,       \* the job it is dealing with
    offer,        \* the limits of the claim: procs, mem and resources
    availJobs,
    keepRunning,
    wakeup,       \* the wakeup channel (one place) is full
    \* the signal handler
    sig,          \* Ctrl+C presses since draining began
    kill,         \* jobs still to kill
    starts, faults,
    news          \* jobs that ended since the loop last looked (history)

tables == <<status, owner>>
machine == <<proc, late, drain>>
shared == <<cur, availProcs, availMem, track>>
loop   == <<pc, todo, inHand, offer, availJobs>>
signal == <<sig, kill>>
bounds == <<starts, faults>>
vars   == <<status, owner, proc, late, drain, cur, availProcs, availMem, track, pc,
            todo, inHand, offer, availJobs, keepRunning, wakeup, sig, kill, starts,
            faults, news>>

Queue == INSTANCE JobQueue
    WITH deps <- Parents, runner <- owner, SimpleRunner <- {Me}, SlurmRunner <- {},
         Array <- {}, NoArray <- "none", ArrayOf <- [j \in Job |-> "none"],
         ArrayIndex <- [j \in Job |-> 0], Throttle <- <<>>,
         Need <- [j \in Job |-> 0], priority <- [j \in Job |-> 0],
         Priority <- {0}, Limit <- {0}, Budget <- {0}, MinTasks <- {0},
         Handler <- {}, handler <- <<>>, poll <- <<>>, crashes <- 0,
         MaxCrashes <- 0

LiveStatus == {"WAITING", "QUEUED", "RUNNING"}
DeadStatus == {"CANCELED", "FAILED"}
EndStatus  == DeadStatus \cup {"SUCCESS"}

Pc    == {"off", "top", "check", "overtime", "offer", "resolve", "claim", "answer",
          "rest", "wait"}
Track == {"none", "wait", "resolve", "return", "wake"}

TypeOK ==
    /\ status \in [Job -> LiveStatus \cup EndStatus]
    /\ owner  \in [Job -> {Me, NoRunner}]
    /\ proc   \in [Job -> {"none", "running", "done", "failed"}]
    /\ late   \subseteq Job
    /\ drain  \in BOOLEAN
    /\ cur    \subseteq Job
    /\ availProcs \in Int /\ availMem \in Int /\ availJobs \in Int
    /\ track  \in [Job -> Track]
    /\ pc     \in Pc
    /\ todo   \subseteq Job
    /\ inHand \subseteq Job
    /\ offer.procs \in Int /\ offer.mem \in Int
    /\ keepRunning \in BOOLEAN
    /\ wakeup \in BOOLEAN
    /\ sig    \in 0..2
    /\ kill   \subseteq Job
    /\ starts \in 0..MaxStarts /\ faults \in 0..MaxFaults
    /\ news   \subseteq Job

NoOffer == [procs |-> 0, mem |-> 0, res |-> [n \in Resource |-> 0]]

Init ==
    /\ status = [j \in Job |-> IF Parents[j] = {} THEN "QUEUED" ELSE "WAITING"]
    /\ owner  = [j \in Job |-> NoRunner]
    /\ proc   = [j \in Job |-> "none"]
    /\ late   = {}
    /\ drain  = FALSE
    /\ cur    = {}
    /\ availProcs = 0 /\ availMem = 0 /\ availJobs = 0
    /\ track  = [j \in Job |-> "none"]
    /\ pc     = "off"
    /\ todo   = {}
    /\ inHand = {}
    /\ offer  = NoOffer
    /\ keepRunning = FALSE
    /\ wakeup = FALSE
    /\ sig    = 0
    /\ kill   = {}
    /\ starts = 0 /\ faults = 0
    /\ news   = {}

\* One more of the bounded number of faults; lost reads are not counted.
MayHappen(f) == f \in Fault /\ faults < MaxFaults /\ faults' = faults + 1

\* r.lock is held by a goroutine that reports the end of its job.
Locked == \E j \in Job : track[j] \in {"resolve", "return"}

\* cmd.Cancel: SIGKILL to the process group, if it is still there.
Kill(j) == proc' = [proc EXCEPT ![j] = IF @ = "running" THEN "failed" ELSE @]

-----------------------------------------------------------------------------
(***************************************************************************)
(* The run loop.                                                           *)
(***************************************************************************)
Start ==
    /\ pc = "off" /\ starts < MaxStarts
    /\ starts' = starts + 1
    /\ drain'  = FALSE
    /\ availProcs' = MaxProcs /\ availMem' = MaxMem /\ availJobs' = MaxJobs
    /\ keepRunning' = TRUE
    /\ pc' = "top"
    /\ UNCHANGED <<tables, proc, late, cur, track, todo, inHand, offer, wakeup,
                   signal, faults, news>>

\* What the process takes with it when it exits.
Gone ==
    /\ pc'     = "off"
    /\ cur'    = {}
    /\ track'  = [j \in Job |-> "none"]
    /\ todo'   = {} /\ inHand' = {} /\ kill' = {} /\ news' = {}
    /\ sig'    = 0
    /\ offer'  = NoOffer
    /\ availProcs' = 0 /\ availMem' = 0 /\ availJobs' = 0
    /\ keepRunning' = FALSE /\ wakeup' = FALSE
    /\ UNCHANGED <<tables, machine, starts>>

LoopTop ==
    /\ pc = "top" /\ ~Locked
    /\ \/ /\ keepRunning \/ cur # {}
          /\ pc' = "check" /\ todo' = cur
          /\ UNCHANGED <<tables, machine, shared, inHand, offer, availJobs,
                         keepRunning, wakeup, signal, bounds, news>>
       \/ ~keepRunning /\ cur = {} /\ Gone /\ UNCHANGED faults

CanceledUnseen(j) == status[j] = "FAILED"

MustDie(j) == status[j] = "CANCELED"

NeverOvertime(j) == FALSE

Overtime(j) == status[j] = "RUNNING" /\ j \in late

\* GetJob and what follows from it; the snapshot may hold jobs that have ended.
CheckJob(j) ==
    /\ pc = "check" /\ j \in todo
    /\ todo' = todo \ {j}
    /\ IF MustDie(j) THEN Kill(j) ELSE UNCHANGED proc
    /\ IF Overtime(j)
         THEN pc' = "overtime" /\ inHand' = {j}
         ELSE UNCHANGED <<pc, inHand>>
    /\ UNCHANGED <<tables, late, drain, shared, offer, availJobs, keepRunning,
                   wakeup, signal, bounds, news>>

CheckLost(j) ==
    /\ "readLost" \in Fault
    /\ pc = "check" /\ j \in todo
    /\ todo' = todo \ {j}
    /\ UNCHANGED <<tables, machine, shared, pc, inHand, offer, availJobs,
                   keepRunning, wakeup, signal, bounds, news>>

\* CancelJob, whose error is only logged, then cmd.Cancel.
CancelAndKill(j) ==
    /\ \/ status' = Queue!CancelAll({j}) /\ UNCHANGED faults
       \/ MayHappen("cancelLost") /\ UNCHANGED status
    /\ Kill(j)

CancelOvertime ==
    /\ pc = "overtime"
    /\ \E j \in inHand : CancelAndKill(j)
    /\ inHand' = {}
    /\ pc' = "check"
    /\ UNCHANGED <<owner, late, drain, shared, todo, offer, availJobs, keepRunning,
                   wakeup, signal, starts, news>>

\* With no limit on procs or memory, one job at a time.
FindJob ==
    IF MaxProcs <= 0 /\ MaxMem <= 0
      THEN cur = {}
      ELSE \/ availMem > 0 /\ availProcs > 0
           \/ availMem > 0 /\ availProcs = -1
           \/ availProcs > 0 /\ availMem = -1

KeepRunningInDrain == keepRunning

\* A drain by signal stops the loop by itself, one by file when nothing runs.
KeepRunningWhenDraining == keepRunning /\ ~(drain /\ cur = {})

\* Drain, stop at the job limit, claim, or do nothing in this round.
Decide ==
    /\ pc = "check" /\ todo = {} /\ ~Locked
    /\ news' = {}
    /\ LET draining == drain \/ ~keepRunning
           claiming == ~draining /\ FindJob /\ availJobs # 0
       IN /\ keepRunning' = IF draining THEN KeepRunningWhenDraining
                            ELSE availJobs # 0
          /\ pc' = IF claiming THEN "offer" ELSE "rest"
          /\ offer' = IF claiming
                        THEN [procs |-> availProcs, mem |-> availMem,
                              res |-> [n \in Resource |-> 0]]
                        ELSE offer
    /\ UNCHANGED <<tables, machine, shared, todo, inHand, availJobs, wakeup, signal,
                   bounds>>

Total(f, S) == MapThenSumSet(LAMBDA j : f[j], S)

Reserved(n) == Total([j \in Job |-> Want[j][n]], cur)

LeftIgnoringJobs(n) == Pool[n]

Left(n) == IF Reserved(n) > Pool[n] THEN 0 ELSE Pool[n] - Reserved(n)

\* The countable resources that the running jobs leave.
availableResources ==
    /\ pc = "offer" /\ ~Locked
    /\ offer' = [procs |-> offer.procs, mem |-> offer.mem,
                 res |-> [n \in Resource |-> Left(n)]]
    /\ pc' = "resolve"
    /\ UNCHANGED <<tables, machine, shared, todo, inHand, availJobs, keepRunning,
                   wakeup, signal, bounds, news>>

ResolveForClaim ==
    /\ pc = "resolve"
    /\ Queue!ResolveDependencies
    /\ pc' = "claim"
    /\ UNCHANGED <<owner, machine, shared, todo, inHand, offer, availJobs,
                   keepRunning, wakeup, signal, bounds, news>>

jobFitsLimits(j, o) ==
    /\ o.procs > 0 => Procs[j] <= o.procs
    /\ o.mem > 0 => Mem[j] <= o.mem

\* A request for gpu is also served by gpu:a100 and the like.
jobFitsResources(j, o) ==
    \A n \in Resource :
        Want[j][n] <= o.res[n] + Total(o.res, Types[n])

ClaimableUnresolved(o) ==
    {j \in Suits : jobFitsLimits(j, o) /\ jobFitsResources(j, o) /\ owner[j] = NoRunner}

Claimable(o) ==
    {j \in Queue!Queued : /\ j \in Suits
                          /\ jobFitsLimits(j, o)
                          /\ jobFitsResources(j, o)
                          /\ owner[j] = NoRunner}

\* MoreEligible is never set: a QUEUED job has no job_running row.
ClaimNextJob ==
    /\ pc = "claim"
    /\ \/ /\ Claimable(offer) = {}
          /\ UNCHANGED <<tables, inHand>>
       \/ \E j \in Claimable(offer) : Queue!claimJobs(Me, {j}) /\ inHand' = {j}
    /\ pc' = "answer"
    /\ UNCHANGED <<machine, shared, todo, offer, availJobs, keepRunning, wakeup,
                   signal, bounds, news>>

\* The request fails, before or after the claim was committed.
ClaimLost ==
    /\ MayHappen("claimLost")
    /\ pc \in {"claim", "answer"}
    /\ pc' = "rest"
    /\ inHand' = {}
    /\ UNCHANGED <<tables, machine, shared, todo, offer, availJobs, keepRunning,
                   wakeup, signal, starts, news>>

\* A counter after reserving, or returning, n; -1 is no limit.
Less(avail, n) == IF avail # -1 /\ n > 0 THEN avail - n ELSE avail
Kept(avail, n) == avail
More(avail, n) == IF avail # -1 /\ n > 0 THEN avail + n ELSE avail

startJob(j) ==
    /\ pc = "answer" /\ j \in inHand /\ ~Locked
    /\ proc'   = [proc EXCEPT ![j] = "running"]
    /\ cur'    = cur \cup {j}
    /\ track'  = [track EXCEPT ![j] = "wait"]
    /\ availProcs' = Less(availProcs, Procs[j])
    /\ availMem'   = Less(availMem, Mem[j])
    /\ availJobs'  = IF availJobs > 0 THEN availJobs - 1 ELSE availJobs
    /\ inHand' = {}
    /\ pc' = "top"
    /\ UNCHANGED <<tables, late, drain, todo, offer, keepRunning, wakeup, signal,
                   bounds, news>>

EndJobUnguarded(j, ok) ==
    IF ok THEN status' = [status EXCEPT ![j] = "SUCCESS"]
    ELSE status' = Queue!EndAndCascade(j, "FAILED")

EndJobAsSuccess(j, ok) ==
    IF status[j] # "RUNNING" \/ owner[j] # Me THEN UNCHANGED status
    ELSE status' = [status EXCEPT ![j] = "SUCCESS"]

\* EndJob on a job that is not RUNNING under this runner is refused.
EndJob(j, ok) ==
    IF status[j] # "RUNNING" \/ owner[j] # Me THEN UNCHANGED status
    ELSE IF ok THEN status' = [status EXCEPT ![j] = "SUCCESS"]
    ELSE status' = Queue!EndAndCascade(j, "FAILED")

\* A bad detail, no output file, no process: the job is failed and the runner
\* drains.
failClaimedJob(j) ==
    /\ MayHappen("startFails")
    /\ pc = "answer" /\ j \in inHand /\ ~Locked
    /\ \/ EndJob(j, FALSE)
       \/ "reportLost" \in Fault /\ UNCHANGED status
    /\ keepRunning' = FALSE
    /\ availJobs' = IF availJobs > 0 THEN availJobs - 1 ELSE availJobs
    /\ inHand' = {}
    /\ pc' = "top"
    /\ UNCHANGED <<owner, machine, shared, todo, offer, wakeup, signal, starts, news>>

\* The runner stops when it runs nothing and was given nothing.
NothingClaimed ==
    /\ pc = "answer" /\ inHand = {} /\ ~Locked
    /\ keepRunning' = (keepRunning /\ (cur # {} \/ Forever))
    /\ pc' = "rest"
    /\ UNCHANGED <<tables, machine, shared, todo, inHand, offer, availJobs, wakeup,
                   signal, bounds, news>>

Rest ==
    /\ pc = "rest" /\ ~Locked
    /\ pc' = IF keepRunning \/ cur # {} THEN "wait" ELSE "top"
    /\ UNCHANGED <<tables, machine, shared, todo, inHand, offer, availJobs,
                   keepRunning, wakeup, signal, bounds, news>>

WakeUp ==
    /\ pc = "wait" /\ wakeup
    /\ wakeup' = FALSE
    /\ pc' = "top"
    /\ UNCHANGED <<tables, machine, shared, todo, inHand, offer, availJobs,
                   keepRunning, signal, bounds, news>>

\* 15 seconds.
Heartbeat ==
    /\ pc = "wait"
    /\ pc' = "top"
    /\ UNCHANGED <<tables, machine, shared, todo, inHand, offer, availJobs,
                   keepRunning, wakeup, signal, bounds, news>>

-----------------------------------------------------------------------------
(***************************************************************************)
(* The completion goroutine of a job.                                      *)
(***************************************************************************)

\* The process has been waited for: lock, and report once.
Report(j) ==
    /\ track[j] = "wait" /\ proc[j] \in {"done", "failed"} /\ ~Locked
    /\ EndJob(j, proc[j] = "done")
    /\ track' = [track EXCEPT ![j] =
                   IF status'[j] = "SUCCESS" /\ status[j] # "SUCCESS" THEN "resolve"
                   ELSE "return"]
    /\ UNCHANGED <<owner, machine, cur, availProcs, availMem, loop, keepRunning,
                   wakeup, signal, bounds, news>>

\* An error is only logged.
ReportLost(j) ==
    /\ MayHappen("reportLost")
    /\ track[j] = "wait" /\ proc[j] \in {"done", "failed"} /\ ~Locked
    /\ track' = [track EXCEPT ![j] = "return"]
    /\ UNCHANGED <<tables, machine, cur, availProcs, availMem, loop, keepRunning,
                   wakeup, signal, starts, news>>

ResolveAfterEnd(j) ==
    /\ track[j] = "resolve"
    /\ Queue!ResolveDependencies
    /\ track' = [track EXCEPT ![j] = "return"]
    /\ UNCHANGED <<owner, machine, cur, availProcs, availMem, loop, keepRunning,
                   wakeup, signal, bounds, news>>

\* Give back what the job had, and unlock.
Return(j) ==
    /\ track[j] = "return"
    /\ track' = [track EXCEPT ![j] = "wake"]
    /\ cur'   = cur \ {j}
    /\ late'  = late \ {j}
    /\ availProcs' = More(availProcs, Procs[j])
    /\ availMem'   = More(availMem, Mem[j])
    /\ news'  = news \cup {j}
    /\ UNCHANGED <<tables, proc, drain, loop, keepRunning, wakeup, signal, bounds>>

Unbuffered == wakeup \/ pc = "wait"

\* The channel has one place; a wake-up that finds it full is dropped.
Buffered == TRUE

wake(j) ==
    /\ track[j] = "wake"
    /\ track'  = [track EXCEPT ![j] = "none"]
    /\ wakeup' = Buffered
    /\ UNCHANGED <<tables, machine, cur, availProcs, availMem, loop, keepRunning,
                   signal, bounds, news>>

-----------------------------------------------------------------------------
(***************************************************************************)
(* Ctrl+C: drain, then kill everything, then leave the jobs alone.         *)
(***************************************************************************)
Drain ==
    /\ MayHappen("interrupt")
    /\ pc # "off" /\ sig = 0
    /\ sig' = 1
    /\ keepRunning' = FALSE
    /\ wakeup' = TRUE
    /\ UNCHANGED <<tables, machine, shared, loop, kill, starts, news>>

KillAll ==
    /\ pc # "off" /\ sig = 1 /\ ~Locked
    /\ sig'  = 2
    /\ kill' = cur
    /\ wakeup' = (wakeup \/ cur = {})
    /\ UNCHANGED <<tables, machine, shared, loop, keepRunning, bounds, news>>

KillOne(j) ==
    /\ j \in kill
    /\ CancelAndKill(j)
    /\ kill'   = kill \ {j}
    /\ wakeup' = (wakeup \/ kill = {j})
    /\ UNCHANGED <<owner, late, drain, shared, loop, keepRunning, sig, starts, news>>

\* os.Exit on the third, or the process is killed: its jobs run on unattended.
Die ==
    /\ pc # "off"
    /\ \/ sig = 2 /\ kill = {} /\ UNCHANGED faults
       \/ MayHappen("crash")
    /\ Gone

-----------------------------------------------------------------------------
(***************************************************************************)
(* Processes, time and users.                                              *)
(***************************************************************************)
ProcessEnds(j) ==
    /\ proc[j] = "running" /\ j \notin Hangs
    /\ \E s \in {"done", "failed"} : proc' = [proc EXCEPT ![j] = s]
    /\ UNCHANGED <<tables, late, drain, shared, loop, keepRunning, wakeup, signal,
                   bounds, news>>

WalltimePasses(j) ==
    /\ j \in (Timed \cap cur) \ late
    /\ late' = late \cup {j}
    /\ UNCHANGED <<tables, proc, drain, shared, loop, keepRunning, wakeup, signal,
                   bounds, news>>

UserCancels(j) ==
    /\ MayHappen("cancel")
    /\ status' = Queue!CancelAll({j})
    /\ UNCHANGED <<owner, machine, shared, loop, keepRunning, wakeup, signal, starts,
                   news>>

UserDrains ==
    /\ MayHappen("drain") /\ pc # "off"
    /\ drain' = TRUE
    /\ UNCHANGED <<tables, proc, late, shared, loop, keepRunning, wakeup, signal,
                   starts, news>>

-----------------------------------------------------------------------------
Loop ==
    \/ LoopTop \/ CancelOvertime \/ Decide \/ availableResources
    \/ ResolveForClaim \/ ClaimNextJob \/ NothingClaimed \/ Rest \/ WakeUp
    \/ Heartbeat
    \/ \E j \in Job : CheckJob(j) \/ startJob(j)

Goroutine(j) == Report(j) \/ ResolveAfterEnd(j) \/ Return(j) \/ wake(j)

Next ==
    \/ Start \/ Loop \/ ClaimLost \/ Drain \/ KillAll \/ Die \/ UserDrains
    \/ \E j \in Job :
         \/ CheckLost(j) \/ failClaimedJob(j)
         \/ Goroutine(j) \/ ReportLost(j)
         \/ KillOne(j)
         \/ ProcessEnds(j) \/ WalltimePasses(j) \/ UserCancels(j)

Spec == Init /\ [][Next]_vars

(***************************************************************************)
(* Fairness: the goroutines of the process are scheduled and the server    *)
(* answers them, a read or a claim made again and again is answered in     *)
(* the end, processes that do not hang end, time passes, and the runner is *)
(* started again (cron, or a service manager).                             *)
(***************************************************************************)
FairSpec ==
    /\ Spec
    /\ WF_vars(Start) /\ WF_vars(Loop) /\ SF_vars(ClaimNextJob)
    /\ \A j \in Job :
         /\ SF_vars(CheckJob(j))
         /\ WF_vars(Goroutine(j)) /\ WF_vars(KillOne(j))
         /\ WF_vars(ProcessEnds(j)) /\ WF_vars(WalltimePasses(j))

-----------------------------------------------------------------------------
(***************************************************************************)
(* Safety.                                                                 *)
(***************************************************************************)

\* What the running jobs ask for is exactly what is missing from the counters,
\* and never more than there is: the claim uses a snapshot that goroutines may
\* have made stale, and jobs leave by ends, kills, walltimes and Ctrl+C.
CapacityConserved ==
    pc # "off" =>
      /\ MaxProcs > 0 => /\ availProcs >= 0
                         /\ availProcs = MaxProcs - Total(Procs, cur)
      /\ MaxMem > 0   => /\ availMem >= 0
                         /\ availMem = MaxMem - Total(Mem, cur)
      /\ MaxProcs <= 0 /\ MaxMem <= 0 => Cardinality(cur) <= 1

\* The running jobs never use more of a resource than is advertised, where
\* requests name what is advertised (no untyped request meets typed supply).
ResourcesWithinPool == \A n \in Resource : Reserved(n) <= Pool[n]

\* The loop never sleeps through the end of a job: if it sleeps with the channel
\* empty, every job that ended since it last looked still owes its wake-up.
NoLostWakeup == pc = "wait" /\ ~wakeup => \A j \in news : track[j] = "wake"

\* A job's process starts once, also across restarts with the same runner id,
\* and only when the processes of all its parents have succeeded.
RunsOnceAfterParents ==
    [][\A j \in Job : proc'[j] = "running" /\ proc[j] # "running" =>
         proc[j] = "none" /\ \A d \in Parents[j] : proc[d] = "done"]_vars

\* SUCCESS is reported only of a process that succeeded, and a process that runs
\* belongs to a job that is RUNNING or was canceled: no report ends a job early.
ReportsAreTrue ==
    \A j \in Job : /\ status[j] = "SUCCESS" => proc[j] = "done"
                   /\ proc[j] = "running" => status[j] \in {"RUNNING", "CANCELED"}

Lifecycle == INSTANCE JobLifecycle
    WITH Runner <- {Me}, deps <- Parents, runner <- owner

\* All the runner does to the tables is allowed by the storage's abstract
\* specification.
LifecycleRespected == [][Lifecycle!Next]_<<status, owner>>

-----------------------------------------------------------------------------
(***************************************************************************)
(* Liveness.                                                               *)
(***************************************************************************)

\* The process of a canceled job is killed, also if the cancel comes between
\* the claim and the start, while the runner drains, or while reads fail.
CanceledDies ==
    \A j \in Job : status[j] = "CANCELED" /\ j \in cur /\ proc[j] = "running"
                     ~> proc[j] # "running" \/ pc = "off"

\* A job whose claim or end was lost, or whose runner died: nothing in the
\* simple runner takes it up again.
Orphaned(j) ==
    /\ status[j] = "RUNNING"
    /\ j \notin cur \cup inHand

\* A runner that stays up ends all its jobs, small ones and big ones, hanging
\* ones by their walltime, unless an answer or a report is lost.
EveryJobEnds ==
    <>[](pc # "off") /\ [](\A j \in Job : ~Orphaned(j)) =>
        \A j \in Job : status[j] \in LiveStatus ~> status[j] \in EndStatus

\* A runner told to drain or to kill its jobs gets to its end, whatever it was
\* doing when told.
DrainEnds == sig > 0 \/ drain ~> pc = "off"
=============================================================================
