# A TLA+ model of batchq

batchq is a batch queue for one user or one small cluster: a server process
owns a SQLite file, clients talk to it over a unix socket (and start it when it
is not there), runners claim jobs from it and either execute them (`simple`) or
hand them to SLURM (`slurm`). This directory models that system, checks the
models with TLC and proves their main properties with TLAPS.

## The system

| part | state | operations | hard behaviour | what makes it correct |
|---|---|---|---|---|
| storage (`storage/sqlite.go`) | `jobs`, `job_deps`, `job_running`, `job_details` | insert, resolve, claim, batch claim, hand off, end, cancel, hold, release, priority, cleanup; each writer is one transaction on one connection | cascades, order of a resolve pass, races for a claim, throttles at their limit | one owner per job, no runnable job under a dead parent, final statuses, no dangling or cyclic dependencies |
| service (`service/service.go`) | `cleanupRunning` | one handler per request, several storage calls each | reads before a transaction and uses after it; a crash between the calls; overlapping retries | the storage's properties survive every interleaving; nothing waits for ever |
| server process (`server/server.go`, `cmd/server.go`) | socket file, listener, `draining`, `inFlight`, open database | elect by bind, recover a stale socket, serve, idle cull, forced stop, ownership check, teardown, crash | check-then-unlink races, an idle cull racing a request, teardown order | at most one process has the database open; a request never loses the database under it; an orphan steps down |
| client (`client/client.go`, `client/autospawn.go`) | retries so far | send, retry, idempotent retry, `ensureUp`, remove a stale socket, spawn | retry of something already done | a retry never applies a request twice; every request settles |
| simple runner (`runner/simple.go`) | `curJobs`, free procs, memory and resources, the wake-up channel, one goroutine per job | claim, start, complete, walltime and cancel kill, drain, Ctrl+C | completion racing the loop, stale limits, lost answers and reports, restart | capacity respected and returned, no wake-up lost, canceled jobs die, a job runs once and after its parents |
| SLURM runner (`runner/slurm.go`) | live-queue budget; SLURM's own queue | claim batch, sbatch, mark proxied, recover orphans, reconcile | crash between sbatch and hand-off, unknown SLURM states | no job lost, and none submitted twice but by a recovery |
| cleanup and archive (`service.go` 863-1208, `sqlite.go` 2255-2606) | archive files, `cleanupRunning` | plan, copy, delete in chunks and in two phases | plan from two queries and used later, crash between copy and delete, overlapping requests | no live job loses a parent, no record is lost, a finished archive is final |
| submit (`cmd/submit.go`, `jobs/arrayspec.go`, `service.go` 89-458) | the ids of an attempt | parse the spec, expand dependencies, find, validate, insert, look again | time-outs after a commit, parents that change meanwhile, retries | the rows are inserted once, the answer is true, the expansion is the intended set |
| HTTP handlers (`server/handlers.go`) | none | decode, one service call, encode; errors become status codes | the status code decides whether a client retries | modelled with the service calls they make |
| web dashboard, configuration, the other commands | none | encode, decode, print | - | not modelled: I/O around one call each |

A request travels client -> handler -> service -> storage. Runners are clients
too. Nothing calls back: runners poll, and learn of a cancel by asking. State is
shared only through the database, the archive files, the socket path and the
runners' own memory.

## Modules

| module | models | role |
|---|---|---|
| `JobLifecycle` | the `Storage` interface (`storage/storage.go`) | abstract specification: three tables, seven kinds of step |
| `JobQueue` | `storage/sqlite.go` with the handlers of `service/service.go` | detailed specification; implements `JobLifecycle` |
| `ServerLifecycle` | `server/server.go`, `cmd/server.go`, `client/client.go`, `client/autospawn.go` | server processes, the socket and the requests |
| `SlurmRunner` | `runner/slurm.go`, `batchq cancel` (`cmd/hold.go`, `cmd/idresolve.go`), SLURM as seen through its commands | runner processes over the operators of `JobQueue`; every step on the tables is checked against `JobLifecycle` |
| `SimpleRunner` | `runner/simple.go`, the matching of limits and resources in `storage/sqlite.go` | run loop, goroutines and signal handler of one runner over the operators of `JobQueue`; every step on the tables is checked against `JobLifecycle` |
| `Cleanup` | bulk cleanup, archive and cleanup of one job, through service and storage | overlapping requests over the live database and the archive files |
| `ArraySubmit` | `batchq submit` from the array spec to the tables and back | one command, its attempts and their handlers |
| `MCJobQueue`, `MCServerLifecycle`, `MCSlurmRunner`, `MCSimpleRunner`, `MCCleanup`, `MCArraySubmit` | - | TLC instances |
| `JobLifecycleProofs`, `JobQueueProofs`, `ServerLifecycleProofs`, `SlurmRunnerProofs`, `SimpleRunnerProofs`, `CleanupProofs`, `ArraySubmitProofs` | - | theorems |

Operators named `...Unguarded`, `...OffByOne`, `DirectDependents` and the like,
placed just before the definition they vary, are deliberate errors: each run's
properties are shown to fail when one of them takes the place of the real
definition.

### JobQueue

`status`, `deps`, `runner` and `priority` are the tables. `handler[h]` is what
a request goroutine has still to do: parents to validate and a row to insert,
or a trailing `ResolveDependencies`. `poll[r]` is where a runner's claim request
is (resolve first, then claim). Each storage call that writes is one step; a
request that makes several is several steps; a server crash empties `handler`
and `poll` and leaves the tables.

A resolve pass is one transaction that visits WAITING jobs in an order that has
nothing to do with dependencies, and each visit sees what the pass has done:
`CanceledByPass` is the set of outcomes over all orders. `cascadeCancel` is a
breadth-first walk; `LiveDescendants` is its result, a least fixed point, so
that no recursion is needed and the cascade can be reasoned about.

Abstractions: what a job asks for (procs, mem, walltime, resources) is one
number `Need`; the tie-break of the claim order is left open, which allows more
than the code does; ids, names, times, notes, paths are absent. Database errors
other than key violations are not modelled.

### ServerLifecycle

`path` is the process whose socket file is at the path (or `NoServer`); a file
that belongs to a dead process is a stale one. `main[s]` is the main goroutine
of a process, `stopper[s]` the goroutine inside `shutdown`. The store of
`draining`, the load of `inFlight`, the add to `inFlight`, the load of
`draining`, the close of the database and of the listener and the unlink are
separate steps. A request goes from the client (`send`, `ensureUp`, `stale`,
`remove`, `spawn`) into a server (`sent`, `entered`, `handling`, `committed`)
and back.

Three things can happen that the code does not prevent; `Env` says which of
them do, so that a run can show what holds without them and what still holds
with all of them:

- `forced`: a signal or `POST /admin/shutdown` stops a server that is busy;
- `slowTeardown`: the second or so of probing by another process passes while
  a process is between closing its listener and unlinking its socket;
- `recoveryRace`: a server binds between another process's last probe and its
  unlink.

### SlurmRunner

`pc[p]` is where runner process `p` is in its pass (`Start`): `update` (first
reconciliation), `recover`, `next` (top of the submit loop), `claim` and
`response` (the request and its answer), `build`, `sbatch`, `mark` (the
hand-offs of a unit), `drop` (cancels of a unit that could not be submitted),
`finish` (second reconciliation). `unit[p]` is the job or batch in hand,
`work[p]` what is left of the current list. `status`, `owner`, `host`,
`slurmId` and `age` are the columns the runner depends on; `slurm` and `after`
are SLURM's queue with its dependencies. The dependency pass that ends some
requests is a step of its own (`owed`), as in `JobQueue`; the passes, claims and
cascades are `JobQueue`'s operators, used through `INSTANCE`.

Time appears where the code has a timing assumption: a claim ages
(`Tick`) up to `MinAge` (`orphanRecoveryMinAge`), and a request in flight may
use up its time (`ClaimTime`, `SbatchTime`, `MarkTime`) before it must be
answered or given up. All other delays are unbounded.

`Fault` says what may go wrong: an answer to a claim lost after the commit
(`claimLost`), the host detail not written (`hostLost`), hand-offs or other
writes lost (`markLost`, `writeLost`), failing reads and commands (`readLost`,
`squeueFails`, `sbatchFails`), a node failure (`nodeFail`), a time limit that
SLURM enforces (`timeLimit`), a crash at any point (`crash`).

Abstractions: the jobs and their dependencies are given at the start;
OUT_OF_MEMORY is not told from FAILED, which the code does not do either; of a script only the `-d afterok`
directive is kept; the `slurm_status` detail, which only displays read, is
absent. squeue is taken to list array tasks one by one, as the comment at
`runner/slurm.go:307` says. `MaxSbatch` bounds the number of submissions.

### SimpleRunner

`cur`, `availProcs` and `availMem` are what the code keeps under `r.lock`;
`track[j]` is where the completion goroutine of a job is: waiting for its
process, in the report (which holds the lock across the request and, in the
server, across the dependency pass), returning capacity, waking the loop.
`pc` is the run loop: `top`, `check` (each job of the snapshot), `overtime`,
`offer`, `resolve`, `claim` and `answer` (the two snapshots that make up the
limits of a claim, and the request), `rest`, `wait`. `sig` counts presses of
Ctrl+C once the drain has begun, `kill` is what the second one has still to
kill. `proc` is the job's process, which lives on when the runner dies.

`Fault` holds both what may go wrong (answers, reads, cancels and reports lost,
a start that fails, a crash) and what users may do (a cancel, a drain file,
Ctrl+C).

Abstractions: jobs and dependencies are given and there are no arrays (the
throttle is `JobQueue`'s); walltime and label matching is a set `Suits` of jobs
the runner accepts; a file, credential or cgroup that cannot be prepared is one
failing start; the first Ctrl+C, which only lists jobs, and the `pid` detail are
left out. Requests for a resource are served by its types as well, as in
`jobFitsResources`.

### Cleanup

A job's record is its `jobs` row (`row`) and its child rows (`whole`, `deps`):
deleting takes the child rows of all jobs first and the rows next, so a row may
be hollow in between. An archive is a file (`none`, `open`, `sealed`) with rows
and child rows of its own. `pc[o]` is where request `o` is: `edges` (between the
two queries of `CleanupCandidates`), `stat`, `open`, `load`, `copy`, `children`,
`rows` (chunk by chunk for an archive; all children, then all rows, for a plain
delete), `close`.

`planRemoval` is translated with the code's two recursions (`canRemove` with its
visiting set, `add` in post-order) as recursive functions, over the order in
which the two queries return their rows, which is left open. `PlanIsExact`
compares it with a definition that has no recursion.

Abstractions: which jobs a request selects by status and age is any set; the list
of `POST /jobs/archive` is planned like a cleanup's; loading a chunk is one
step; VACUUM and progress events are absent. Two things are assumed away unless
`Fault` names them: a job submitted under one that is being archived
(`newDependent`, shown by `cleanup_loss`) and two requests in flight with the
same archive name (`sameName`).

### ArraySubmit

`client` is where the command is, `pc[k]` where the handler of attempt `k` is: a
handler goes on when its client has stopped waiting. A job looks for its id
first and expands dependencies then, an array the other way round, as in
`SubmitJob` and `SubmitArray`. An insert that fails looks again (`recheck`).
`answer` holds status codes, made from errors as `httpStatus` makes them, since
they decide what is retried. Meanwhile the existing jobs fail and are cleaned
up. Array specs are sequences of terms, dependencies sequences of kind, name and
index: the parsing of characters is left out.

Assumption: attempts of one array do not overlap in the server (the 30 s that a
client waits are enough for a handler), unless `Fault` has `overlap`; a
single job's attempts may overlap, since its id is the primary key. The
expansions of all tasks of one request are one step.

## Runs

| run | instance | shows |
|---|---|---|
| `array` | 2-task array with throttle 1, a plain job that may be parent or dependent of the tasks, one runner of each kind, limits, budgets, the min-array gate, 2 priorities (1.2M states) | refinement of `JobLifecycle`, claims, dependency safety, the throttle where batch and single claims meet. A submit in flight races cancels, cleanups, claims and ends; overlapping submits are left to the proofs, which hold for any number of requests |
| `resolve` | 3 jobs, all dependency graphs, 1 crash, weak fairness of requests and polls (79k states) | a death takes all live dependents along; no WAITING job is forgotten. Three jobs are needed for a grandchild, a diamond, a cascade past a held child and a pass that visits child before parent |
| `live` | the jobs of `array`, 1 simple runner, 1 crash, also fairness of claims and reports (29k states) | every job ends |
| `server_orderly` | 3 processes, 2 requests, `Env = {}` | the socket is a lock; handlers keep their database |
| `server_hazards` | 2 processes, 1 request, all of `Env`, fairness | retries are safe, orphans step down, requests settle |
| `slurm_gather` | array of 2 and a job after both, 1 runner, 2 places in SLURM, all faults but lost claims, 1 crash, cancels of tasks and of the array (1.6M states) | dependencies kept by SLURM, reports agree with SLURM, live queue bounded, tables as `JobLifecycle` allows. Two tasks may go out together or in two SLURM arrays, which is what the collapsing of the directive is about |
| `slurm_recovery` | array of 2, 2 runners on one host, 1 recovering, the code's times in minutes: `ClaimTime` 3, `MarkTime` 3, `MinAge` 5; no fault | `NoDoubleSubmit` is violated (finding) |
| `slurm_live` | 3 jobs, 1 runner that recovers, 1 place in SLURM, 1 job per invocation, minimum batch 5, lost claims and hosts, 1 crash at any point (406k states) | every job ends; the cap counts recovered jobs (two lost claims, recovered together, exceed it) and never turns into "unlimited"; a job is in SLURM a second time only where the recovery may have put it there. The crash may come after an sbatch, so that second submissions do happen; that several runners at once add none is proved (`OnlyRecoveryTheorem`) |
| `simple` | 3 jobs, 3 procs, 3 units of memory, 1 gpu that two of them want; the third depends on the first, hangs and has a walltime; 2 jobs per invocation, 2 invocations, 1 fault of nine kinds, lost reads without limit (53k states) | capacity and resources are conserved, no wake-up is lost, reports are true, a job runs once and after its parents, canceled jobs die, drains end, a runner that stays up ends its jobs. Two jobs run at a time; of the claims that do not fit, it is the gpu that refuses them, never procs or memory, whose bounds are left to `CapacityTheorem` |
| `cleanup` | 3 jobs, 2 requests, 2 names, chunks of 2, 1 fault of five kinds (2.0M states up to symmetry) | nothing is lost, a copied chunk can be deleted, jobs that stay keep their parents, plans are the largest safe ones, a sealed archive is final, the guard is given back. Three jobs make a plan of two chunks; two requests may both be archives, or an archive and a cleanup |
| `cleanup_loss` | 2 jobs, 1 request, no bounded fault, `newDependent` | `NothingLost` is violated (finding) |
| `submit` | single jobs and arrays of up to 3 tasks from six specs, eleven dependency lists, 3 attempts, 2 faults of five kinds (732k states) | rows are inserted once, the ids in the response are the rows, a definite failure left nothing behind, specs and dependencies mean what they say, the command ends. With 3 attempts a lost answer, a failed insert and a success can follow each other |

Two runs show statements of the repository not to hold.

`slurm_recovery`: the comment on `orphanRecoveryMinAge` (`runner/slurm.go:41-46`)
says that "recovery never re-submits a job whose handoff is still legitimately in
flight in a concurrently-running runner", and `docs/slurm.md:254-255` that
"recovery can never double-submit live work". The gate (5 minutes) exceeds
`proxyWriteTimeout` (3 minutes), but age counts from the claim, whose answer may
take `claimTimeout` (3 minutes) itself, before the sbatch and a hand-off of 3
minutes. In the trace nothing fails: the answer to one runner's claim comes late,
its hand-off is being retried, and the other runner on the host finds the job five
minutes old without a SLURM id and submits it again. For an array each task has
its own hand-off, one after the other. What still holds at any times is
`OnlyRecoveryResubmits`; what a gate would have to exceed is proved
(`NoDoubleSubmitIfRecoveryIsSafe`, below).

`cleanup_loss`: `service/service.go:890-892` says that archiving never loses a
job. Child rows and rows are deleted in two transactions, and `archiveOrdered`
removes the file if it has counted no archived job. When the second transaction of the first
chunk fails, because a job submitted since the plan names one of its jobs as
parent, the only whole record is in the file that is removed.

Divergences met while modelling that no run is kept for; each is a behaviour of
the modules as they are, a few steps long, under the constants named:

Storage and server
- a job starts on a simple runner while its parent is PROXYQUEUED
  (`storage/sqlite.go:1190`; `docs/submitting-jobs.md:97` promises SUCCESS);
- canceling a succeeded job cancels its dependents (`storage/sqlite.go:2016`;
  `storage/storage.go:218` calls it a no-op); so does a walltime cancel that
  races a successful end (`runner/simple.go:366`);
- low priorities starve: claims go by priority alone;
- a forced stop under load unlinks the socket while the database is open
  (`server/server.go:224`; line 444 says after), and another process may take
  the socket before `cleanupSocket` (line 355; line 438 says none can);
- two recoveries of one stale socket give two writers: the second unlinks, by
  path, the socket that the first has just bound (`client/autospawn.go:214`,
  `server/server.go:355`; lines 329-333 call the window acceptable because "the
  loser's second bind still fails"). `OneWriter` of `ServerLifecycle` is violated
  with `recoveryRace` in `Env`.

SLURM runner
- a batch has the dependencies of its first task only, so under aftercorr SLURM
  starts other tasks before their parents (`runner/slurm.go:439`,
  `storage/sqlite.go:1437`; `docs/job-arrays.md:203`);
- a failed sbatch cancels the job and its dependents (`runner/slurm.go:405`;
  `docs/slurm.md:221` says back to QUEUED);
- with recovery, a crash or a lost hand-off after an sbatch leads to a second
  submission too (`runner/slurm.go:409`; `docs/slurm.md:257-258` says "a job that
  already reached `sbatch` is never re-driven"): with `crash` or `markLost` in
  `Fault` TLC violates `NoDoubleSubmit` at any times;
- runners without a host name have a new id each time they start, so the server
  refuses the hand-off of a recovered hostless orphan and each pass submits it
  again (`storage/sqlite.go:2091`; `docs/slurm.md:299` says it self-heals);
- `docs/slurm.md:226-227` says that a time-out and a node failure are reported as
  CANCELED: a TIMEOUT job becomes FAILED (`runner/slurm.go:766`), which is what
  `StatusMatchesSlurm` states, and a NODE_FAIL job stays PROXYQUEUED for ever
  (`runner/slurm.go:768`);
- recovery exceeds `--slurm-max-jobs` (`runner/slurm.go:552`;
  `docs/slurm.md:209`): `LiveQueueBounded` is for a run without recovery;
- a hand-off recorded between the read and the cancel of `batchq cancel`
  survives in SLURM (`cmd/hold.go:92`; `docs/managing-jobs.md:140`).

Simple runner
- a walltime overrun cancels the job and kills it at once
  (`runner/simple.go:366-374`); `docs/running-jobs.md:32` and 151-153 say SIGTERM,
  then SIGKILL, and FAILED;
- it runs as many jobs at a time as fit its limits; `docs/running-jobs.md:54` and
  257 say one at a time;
- it may exit although a queued job fits: the limits of the claim were taken while
  a job ran that has ended by the time the empty answer is looked at
  (`runner/simple.go:442-447` says they "were our full capacity";
  `docs/running-jobs.md:54`); `simple` uses `--forever`;
- a lost answer to a claim, a lost report or a crash leaves the job RUNNING under
  a runner that does not know it (`Orphaned`): nothing takes it up;
- an untyped request may be granted out of typed supply
  (`storage/sqlite.go:1663`), but `availableResources` subtracts only keys of the
  same name (`runner/simple.go:157`), so the typed supply is given out twice;
  `ResourcesWithinPool` is for requests that name what is advertised;
- a job whose claim is in flight at the second Ctrl+C is started after the
  kill-all and survives it; `--max-procs 0` together with `--max-mem` never
  claims and polls on.

Cleanup and archive
- a crash between the two phases leaves a hollow live row that hides the whole
  archived copy from `GetJob`, and any reader sees it so between the phases;
- of two archive requests with the same name (the default is the second they
  start in) the one that moves nothing removes the file of the other
  (`service/service.go:911`, 976): with `sameName` TLC violates `SealedIsFinal`
  and `NothingLost`;
- archives are opened `immutable=1` also while they are being written
  (`storage/sqlite.go:113`).

Submit
- overlapping retries of an array submit insert the array twice
  (`service/service.go:428-429` and `client/client.go:586-588` say a retry finds
  the first): with `overlap` in `Fault` TLC violates `SubmittedOnce`;
- a parent named twice is a duplicate key and so a 500, and so is a failed or
  canceled parent: the client retries what cannot succeed;
- afterok on an array some of whose failed tasks were cleaned up covers only the
  remaining ones;
- `SubmitArray` expands dependencies before it looks for the id, so the retry of
  a submit that went through may be told 400;
- an EOF or reset after the request was sent is not retried, and the command
  fails although the rows may be there;
- a range that ends at the largest integer makes the loop of `ParseArraySpec`
  wrap around.

Fairness. A request that has started runs on: each has its goroutine, and
SQLite's single writer connection is handed out in turn. A runner started with
`--forever` keeps polling. `live` adds that a job that stays claimable is
claimed (equal priorities go in submit order) and that a started process ends
and is reported. `server_hazards` assumes that an elected process, a shutdown
that has begun, the ownership ticker, clients and handlers go on, and that the
ownership monitor gets the shutdown mutex in the end (`sync.Mutex` does not
starve a waiter: strong fairness). Nobody need crash, stop a server or send a
request. `EveryJobEnds` is conditional on jobs not being held again and again.
`slurm_live` assumes that a runner that has exited or died
is started again (cron, or a loop around `batchq run`), that the server answers,
that SLURM schedules and finishes what it has, and that time passes; crashes are
bounded, lost claims are not (no fairness is assumed of faults).
`simple` assumes that the Go scheduler runs the loop, the goroutines and the
signal handler, that processes which do not hang end, that walltimes pass, and
that a runner that is off is started again; a read of a job that is made every
round is answered in the end and a claim that stays possible is made (strong
fairness of `CheckJob` and `ClaimNextJob`). Its `EveryJobEnds` is for a runner
that stays up and loses no job. `submit` assumes that the command and the
handlers run. `cleanup` needs no fairness.

## Proofs

`JobLifecycleProofs` proves, for any jobs and runners, the inductive invariant
`Inv` (typing, references, claims, dependencies, acyclicity) and from it the
three action properties. Dependency safety needs all of them: that a queued job
has only satisfied parents survives a kill because the kill takes dependents
along, and survives a removal because a parent that is named is never removed.

`JobQueueProofs` proves type correctness and that every step of `JobQueue` is a
step of `JobLifecycle` or leaves the tables alone (`Refinement`). The lemmas
follow the code: what a cascade reaches is live and closed under dependents
(`DescendantsLive`, `DescendantsClosed`), so a cancel or a failed end is a
`Kill`; what a claim takes was queued and unclaimed (`ClaimsQueued`), so it is a
`Claim`; and so on, one lemma per group of actions. The properties of
`JobLifecycle` then carry over. `ThrottleTheorem` is proved separately: only a
claim by a simple runner adds to what the throttle counts, and it adds one job
to a count that was below the limit.

`ServerLifecycleProofs` proves, for any number of processes and requests and
`Env = {}`, that the path is a lock on the database and that handlers keep it
open. The invariant says who may be about to unlink (`Election`), the order of
a shutdown (`Order`) and what a handler relies on (`Gated`). `RetryTheorem`
and type correctness hold for every `Env`.

`SlurmRunnerProofs` proves, for any jobs, arrays, runner processes, budgets,
timeouts and faults, type correctness and these properties:

- `StatusMatchesSlurm` rests on two lemmas about one step: what has ended in SLURM
  stays as it ended (`EndsAreKept`), and a job becomes SUCCESS or FAILED only
  through a report of what sacct says of it (`EndsAreReported`); so it needs no
  assumption that a job is submitted only once.
- `LifecycleRespected`: each step on the tables is a step of `JobLifecycle`
  (`LifecycleStep`), with the cascade lemmas of the queue restated for this
  instance. The later proofs use it for "no job goes back to the queue"
  (`PastStays`) and "only a claim gives a job an owner" (`OwnerStep`).
- `InvocationCap`: `CapKept` says that what is left and what was handed over make
  up `--max-jobs`, or nothing is left. That a claim takes at most its limit is
  `UnitSize`: in an array with distinct indices fewer than *m* tasks come before
  each of the first *m* (`FewBefore`).
- `LiveQueueBounded`, if one runner works at a time and recovers nothing
  (`OneRunnerNoRecovery`): `RoomKept` says that what is in SLURM and what the
  pass may still send there fit into the limit together. Two runners read squeue
  before either submits, so the condition is needed.
- `ParentsRunFirst`, if the tasks of an array have the same parents
  (`TasksShareParents`; with aftercorr it does not hold, see above). The chain:
  a parent of a queued job is past the queue (`ClaimedInOrder`); a unit whose
  script is built has for each parent a completed task or one that the directive
  names (`UnitsInOrder`, `DirectiveCovers`); what SLURM was told stays true of
  what it runs (`SlurmInOrder`).
- `OnlyRecoveryResubmits`, at any times and whatever fails: `SentOnceOrEntitled`
  says that a job which no recovery is entitled to is in SLURM at most once, in
  the hands of at most one pass, and not in SLURM as long as it is in hand. Claims
  keep it because they take queued jobs, which nobody has sent yet
  (`ClaimedBeforeSent`); a recovery keeps it because what it lists is entitled
  (`OrphansAreEntitled`) and stays so: host and age of a job are set once
  (`ClaimDetailsStay`).
- `NoDoubleSubmit`, where nobody recovers (`NoDoubleSubmitTheorem`): the same
  invariant with nobody entitled. With the code's recovery it is false
  (`slurm_recovery`).

`NoDoubleSubmitIfRecoveryIsSafe` says what would make a recovery safe
(`RecoveryIsSafe`): one recovering process, the same runner id for all (or the
server refuses the hand-off), no crash and no hand-off cut off after its sbatch,
and claim, sbatch and all hand-offs of a unit together faster than the age gate
(`HandoffsAreInTime`). The code's constants do not meet the last condition, and
nothing ensures the others: the theorem is about a corrected gate, not about the
program as it is. Its argument: a running job that SLURM knows and the tables do
not is in the hands of a pass that is about to record it (`Recoverable`), and the
age of all it has in hand is bounded by the requests made so far (`InTime`: the
claim, the sbatch, *x* hand-offs and the wait for the next), hence below the gate
(`TooYoung`).

`SimpleRunnerProofs` proves, for any jobs, limits, resources and faults, type
correctness and six properties. `NoLostWakeup` rests on `Told`: from the
moment the loop has looked at the tables until it sleeps, each job that ends is
announced by the channel or by a goroutine that is about to fill it; the loop
empties the channel only when it starts over. `ReportsAreTrue` and
`RunsOnceAfterParents` need each other: `Sound` adds that a queued or running
job has only succeeded parents (so their processes are done), that a job that
waits has no process, and that the job in the loop's hand has not been started
by anybody, even if it has been canceled since. All steps but a claim and a
start only move statuses forward (`MovesAreSound`); these two are done apart.
`LifecycleTheorem` maps each step on the tables to a step of `JobLifecycle`,
with the cascade lemmas of the queue restated for this instance.
`CapacityConserved` and `ResourcesWithinPool` are about sums over the running
jobs (`Total`). A sum is counted, not folded: it is the cardinality of the set of
units (`Share`), so that adding or removing a job is a fact about finite sets.
Capacity then needs that each job in `cur` still owes its share exactly once
(`Tracked`) and that what was offered is there when the job starts, because
goroutines only give back in between (`Offered`). Resources need the same of the
offer (`Affordable`) and that requests name what is advertised
(`RequestsAreTyped`, see the divergence on typed supply).

`CleanupProofs` proves, for any jobs, requests, names, chunk size and faults, that
`cleanupRunning` is held exactly by the one cleanup under way (`GuardTheorem`;
`Modes` says which requests have a mode) and, if no two requests in flight use
the same name, that a sealed archive is final (`SealedTheorem`; `Files` says
that a request is alone with its file and finds it as it left it). The frame is
proved once: a step of one request leaves the state of the others alone
(`LocalStep`). Three theorems have `PlanIsExact` as a hypothesis: what
`planRemoval` computes is checked by TLC on all plans of three jobs, and what
follows from it for every number of jobs, chunks, overlapping requests and
crashes is proved. `KeptJobsTheorem` needs nothing more: planned jobs have ended
(`Planned`), and jobs that have ended never change again but for being deleted
(`Aging`). `ChunkTheorem` follows the deletion through the plan (`Worked`: what is
stripped, what is deleted, dependents first) and excludes jobs that come to
depend on what is being archived. `NothingLostTheorem` adds what is in the file
(`Copying`: the jobs about to be stripped are in it, whole) and excludes also
equal names and a move that fails halfway; without these exclusions the
statement is false (`cleanup_loss`, and the divergences).

`ArraySubmitProofs` proves, for any specs, dependencies, existing jobs, number of
attempts and faults, type correctness and five properties. `FailureIsTrue`:
`Told` says that whoever inserts answers 201 and that, as long as the command has
lost track of no attempt, those it is done with inserted nothing. `SubmittedOnce`
and `ReplyIsTrue`, if attempts of an array do not overlap: `OneAtATime` says that
the only handler at work is the one waited for, and that it found no rows;
`Replied` that whoever says that the request is done names the rows. The order
of the ids needs that sorting by distinct keys has one result, which is shown by
rank: the *n*th element is the one with *n* - 1 before it. `SpecIsExpanded`: a
term `lo-hi:step` yields what it denotes because no first number after which the
two differ exists. `DepsAreExpanded` goes through the kinds of dependency.

Induction over data is replaced by least counterexamples (`LeastOf`, from the
well-foundedness of the naturals) and by counting: the library's induction
principles cannot be instantiated by the installed provers.

Assumptions: `ConstantsAssumption` (finitely many jobs, distinct markers, the
types of the parameters, distinct indices within an array, which
`ParseArraySpec` ensures by dropping repetitions), `ServerAssumption`,
`SlurmAssumption`, `SimpleAssumption`, `CleanupAssumption` and
`SubmitAssumption`. Type correctness is not a property of the runs: it is proved,
for all modules but `Cleanup`, whose plan comes out of a recursion.

Only model-checked: liveness, which needs fairness and is out of the prover's
reach (`WaitingIsResolved`, `EveryJobEnds`, `OrphanStepsDown`, `RequestSettles`,
`EveryJobSettles`, `CanceledDies`, `DrainEnds`, `SubmitSettles`), and
`PlanIsExact`, which is about a doubly recursive walk of the dependency graph:
that the recursion defines anything at all is already an induction over the
graph.

## Not modelled

- the web dashboard, configuration, paths, printing: no state of the queue is
  changed by them except through the requests that are modelled;
- backup (`VACUUM INTO`), vacuum and authorization of requests;
- the files, environment, credentials and cgroups that the simple runner
  prepares for a process, beyond that preparing may fail;
- the parsing of command lines, job scripts and array specs as characters;
- SQLite itself: transactions are atomic and durable, keys are enforced;
- SLURM itself, beyond what sbatch, squeue, sacct and scancel show.

## Plan

1. done: `JobLifecycle`, `JobQueue`, their proofs
2. done: `ServerLifecycle`, its proofs
3. done: `SlurmRunner`, all its safety properties proved
4. done: `ArraySubmit`, all its safety properties proved
5. done: `Cleanup`, its safety properties proved, three of them from `PlanIsExact`
6. done: `SimpleRunner`, all its safety properties proved
7. left: `PlanIsExact` itself, perhaps by stating `canRemove` as a largest fixed
   point; several recovering runners on different hosts in `RecoveryIsSafe`
