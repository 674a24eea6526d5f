---------------------------- MODULE JobLifecycle ----------------------------
(***************************************************************************)
(* What the storage layer promises about jobs (the Storage interface in    *)
(* storage/storage.go and the status diagram of docs/overview.md), said    *)
(* without requests, handlers, arrays, limits or search algorithms.  Three *)
(* tables: a status, the afterok parents and the owning runner of every    *)
(* job.  JobQueue, which models the code, implements this specification.   *)
(*                                                                         *)
(* The heart of it is how jobs die: the set of jobs that fails or is       *)
(* canceled in one step takes all its live dependents along (Kill), except *)
(* that a dependency pass may cancel waiting jobs piecemeal (Settle).      *)
(***************************************************************************)
CONSTANTS Job, Runner, NoRunner

VARIABLES status, deps, runner

vars == <<status, deps, runner>>

Live      == {"USERHOLD", "WAITING", "QUEUED", "PROXYQUEUED", "RUNNING"}
Dead      == {"CANCELED", "FAILED"}
Terminal  == Dead \cup {"SUCCESS"}
Status    == Live \cup Terminal \cup {"NONE"}

\* A parent in one of these lets its dependents be queued.
Satisfied == {"SUCCESS", "PROXYQUEUED"}

\* The statuses in which a job may be run, or is being run.
Started   == {"QUEUED", "RUNNING", "PROXYQUEUED"}

\* The statuses of a job that no runner has claimed yet.
Unclaimed == {"QUEUED", "WAITING", "USERHOLD"}

Exists(j) == status[j] # "NONE"

TypeOK ==
    /\ status \in [Job -> Status]
    /\ deps   \in [Job -> SUBSET Job]
    /\ runner \in [Job -> Runner \cup {NoRunner}]

Init ==
    /\ status = [j \in Job |-> "NONE"]
    /\ deps   = [j \in Job |-> {}]
    /\ runner = [j \in Job |-> NoRunner]

-----------------------------------------------------------------------------
(***************************************************************************)
(* Each action says which jobs may change status in a step, and how.       *)
(***************************************************************************)
Changed == {j \in Job : status'[j] # status[j]}

\* New jobs appear under existing parents; one with parents is not queued.
Create ==
    /\ \A j \in Changed :
         /\ status[j] = "NONE" /\ status'[j] \in Unclaimed
         /\ \A d \in deps'[j] : Exists(d)
         /\ status'[j] = "QUEUED" => deps'[j] = {}
    /\ \A j \in Job \ Changed : deps'[j] = deps[j]
    /\ UNCHANGED runner

\* A dependency pass: a waiting job is queued when all its parents are done or
\* handed off, canceled when one of them is dead.
Settle ==
    /\ \A j \in Changed :
         /\ status[j] = "WAITING"
         /\ \/ status'[j] = "QUEUED" /\ \A d \in deps[j] : status[d] \in Satisfied
            \/ status'[j] = "CANCELED" /\ \E d \in deps[j] : status'[d] \in Dead
    /\ UNCHANGED <<deps, runner>>

\* One runner takes unclaimed queued jobs.
Claim ==
    /\ \E r \in Runner : \A j \in Changed :
         /\ status[j] = "QUEUED" /\ runner[j] = NoRunner
         /\ status'[j] = "RUNNING" /\ runner'[j] = r
    /\ \A j \in Job \ Changed : runner'[j] = runner[j]
    /\ UNCHANGED deps

\* A claimed job is handed to SLURM or succeeds.
Advance ==
    /\ \A j \in Changed :
         \/ status[j] = "RUNNING" /\ status'[j] \in {"PROXYQUEUED", "SUCCESS"}
         \/ status[j] = "PROXYQUEUED" /\ status'[j] = "SUCCESS"
    /\ UNCHANGED <<deps, runner>>

\* Jobs fail or are canceled, and so are all live jobs that depend on them.
Kill ==
    /\ \A j \in Changed : status[j] \in Live /\ status'[j] \in Dead
    /\ \A j \in Job : status[j] \in Live /\ deps[j] \cap Changed # {} => j \in Changed
    /\ UNCHANGED <<deps, runner>>

\* A hold parks unclaimed jobs; a release lets the next pass decide.
ParkOrResume ==
    /\ \A j \in Changed :
         \/ status[j] \in Unclaimed /\ status'[j] = "USERHOLD"
         \/ status[j] = "USERHOLD" /\ status'[j] = "WAITING"
    /\ UNCHANGED <<deps, runner>>

\* A finished job that is nobody's parent goes, with all its rows.
Remove ==
    /\ \A j \in Changed :
         /\ status[j] \in Terminal /\ status'[j] = "NONE"
         /\ \A k \in Job : j \notin deps[k]
         /\ deps'[j] = {} /\ runner'[j] = NoRunner
    /\ \A j \in Job \ Changed : deps'[j] = deps[j] /\ runner'[j] = runner[j]

Next ==
    /\ TypeOK'
    /\ Create \/ Settle \/ Claim \/ Advance \/ Kill \/ ParkOrResume \/ Remove

Spec == Init /\ [][Next]_vars

-----------------------------------------------------------------------------
(***************************************************************************)
(* What the promise amounts to.                                            *)
(***************************************************************************)

\* A job_running row exists exactly for jobs that were claimed: a job that can
\* still be queued has none (the UNIQUE key would make it unclaimable for
\* ever), and a job being run always has an owner to report its end.
ClaimLock ==
    \A j \in Job :
        /\ status[j] \in Unclaimed => runner[j] = NoRunner
        /\ status[j] \in {"RUNNING", "PROXYQUEUED"} => runner[j] \in Runner

\* No job is queued, running or handed to SLURM unless each of its parents has
\* succeeded or is itself handed to SLURM: whatever the interleaving of
\* submits, cancels, holds, failures and cleanups, a failed parent never
\* leaves a runnable child behind.
DependencySafety ==
    \A j \in Job : status[j] \in Started =>
        \A d \in deps[j] : status[d] \in Satisfied

\* job_deps rows connect existing jobs, and a removed job leaves no row behind.
ReferentialIntegrity ==
    \A j \in Job :
        /\ \A d \in deps[j] : Exists(d)
        /\ ~Exists(j) => deps[j] = {} /\ runner[j] = NoRunner

\* The dependency graph has no cycle (each set of jobs has one that depends on
\* none of them), so WAITING jobs never wait for one another in a ring.
AcyclicDeps ==
    \A S \in SUBSET Job : S # {} => \E j \in S : deps[j] \cap S = {}

\* CANCELED, SUCCESS and FAILED are final: late reports, retried reports,
\* cancels and cascades leave them alone; only a cleanup removes the row.
TerminalIsFinal ==
    [][\A j \in Job : status[j] \in Terminal => status'[j] \in {status[j], "NONE"}]_vars

\* A claim is for life: no step moves a job_running row to another runner, or
\* removes it while its job is live.
ClaimIsForLife ==
    [][\A j \in Job : runner[j] # NoRunner =>
         runner'[j] = runner[j] \/ status[j] \in Terminal]_vars

\* A failure or a cancel takes with it, in the same step, every live job that
\* waits on the dead one; the exception is a job that a resolve pass cancels,
\* whose children are left to the next pass.
CascadeIsAtomic ==
    [][\A p, j \in Job :
         /\ status[p] \in Live \ {"WAITING"} /\ status'[p] \in Dead
         /\ p \in deps[j]
         => status'[j] \in Terminal]_vars
=============================================================================
