------------------------- MODULE SimpleRunnerProofs -------------------------
(***************************************************************************)
(* Theorems about SimpleRunner, for any jobs and dependencies, any limits, *)
(* any faults and any number of restarts.                                  *)
(***************************************************************************)
EXTENDS SimpleRunner, FiniteSetTheorems, WellFoundedInduction, TLAPS

USE DEF tables, machine, shared, loop, signal, bounds

-----------------------------------------------------------------------------
(***************************************************************************)
(* The wake-up channel.                                                    *)
(***************************************************************************)

\* Between its look at the jobs (Decide) and its sleep the loop is told of every
\* job that ends, by the channel or by a goroutine that is about to.
Told ==
    /\ track = [j \in Job |-> track[j]]
    /\ pc \in {"offer", "resolve", "claim", "answer", "rest", "wait"} =>
         \A j \in news : j \in Job /\ (wakeup \/ track[j] = "wake")

\* The loop itself clears the channel only when it starts over.
LEMMA ToldLoop ==
    ASSUME Told, Start \/ Loop \/ ClaimLost \/ Drain \/ KillAll \/ Die \/ UserDrains
    PROVE  Told'
<1>1. CASE Start \/ ClaimLost \/ Drain \/ Die \/ UserDrains
  BY <1>1 DEF Told, Start, ClaimLost, Drain, Die, Gone, UserDrains
<1>5. CASE KillAll
  <2>1. wakeup => wakeup'
    BY <1>5 DEF KillAll
  <2> QED
    BY <1>5, <2>1 DEF Told, KillAll
<1>2. CASE LoopTop \/ CancelOvertime \/ Decide \/ availableResources
  BY <1>2 DEF Told, LoopTop, Gone, CancelOvertime, Decide, availableResources
<1>3. CASE ResolveForClaim \/ ClaimNextJob \/ NothingClaimed \/ Rest \/ WakeUp \/ Heartbeat
  BY <1>3 DEF Told, ResolveForClaim, ClaimNextJob, NothingClaimed, Rest, WakeUp, Heartbeat
<1>4. CASE \E j \in Job : CheckJob(j) \/ startJob(j)
  BY <1>4 DEF Told, CheckJob, startJob
<1> QED
  BY <1>1, <1>2, <1>3, <1>4, <1>5 DEF Loop

\* A goroutine that returns a job's share is about to wake the loop.
LEMMA ToldJob ==
    ASSUME Told, NEW j \in Job,
           \/ CheckLost(j) \/ failClaimedJob(j) \/ Goroutine(j) \/ ReportLost(j)
           \/ KillOne(j) \/ ProcessEnds(j) \/ WalltimePasses(j) \/ UserCancels(j)
    PROVE  Told'
<1>1. CASE CheckLost(j) \/ ProcessEnds(j) \/ WalltimePasses(j) \/ UserCancels(j)
  BY <1>1 DEF Told, CheckLost, ProcessEnds, WalltimePasses, UserCancels
<1>6. CASE failClaimedJob(j)
  <2>1. pc' = "top" /\ UNCHANGED track
    BY <1>6 DEF failClaimedJob
  <2> QED
    BY <2>1 DEF Told
<1>5. CASE KillOne(j)
  <2>1. wakeup => wakeup'
    BY <1>5 DEF KillOne
  <2> QED
    BY <1>5, <2>1 DEF Told, KillOne
<1>2. CASE Report(j) \/ ReportLost(j) \/ ResolveAfterEnd(j)
  BY <1>2 DEF Told, Report, ReportLost, ResolveAfterEnd
<1>3. CASE Return(j)
  BY <1>3 DEF Told, Return
<1>4. CASE wake(j)
  BY <1>4 DEF Told, wake, Buffered
<1> QED
  BY <1>1, <1>2, <1>3, <1>4, <1>5, <1>6 DEF Goroutine

\* The loop never sleeps through the end of a job (the wakeup channel of run and
\* of the completion goroutines), whatever the goroutines do between its look at
\* curJobs and its select.
THEOREM WakeupTheorem == Spec => []NoLostWakeup
<1>1. Init => Told
  BY DEF Init, Told
<1>2. Told /\ [Next]_vars => Told'
  <2>1. Told /\ UNCHANGED vars => Told'
    BY DEF Told, vars
  <2> QED
    BY <2>1, ToldLoop, ToldJob DEF Next
<1>3. Told => NoLostWakeup
  BY DEF Told, NoLostWakeup
<1> QED
  BY <1>1, <1>2, <1>3, PTL DEF Spec
-----------------------------------------------------------------------------
(***************************************************************************)
(* What the queue's operators do to the statuses.                          *)
(***************************************************************************)
USE DEF LiveStatus, DeadStatus, EndStatus

Statuses == [Job -> LiveStatus \cup EndStatus]

\* A cascade reaches live jobs only.
LEMMA CascadeLive ==
    ASSUME status \in Statuses, NEW P
    PROVE  \A j \in Queue!LiveDescendants(P) : j \in Job /\ status[j] \in LiveStatus
<1> DEFINE D == {j \in Job : status[j] \in LiveStatus}
<1>1. Queue!IsClosed(P, D)
  BY DEF Queue!IsClosed, Queue!Live, Statuses
<1>2. D \in SUBSET Job
  OBVIOUS
<1> QED
  BY <1>1, <1>2 DEF Queue!LiveDescendants

\* A cancel cancels live jobs and nothing else.
LEMMA CancelMoves ==
    ASSUME status \in Statuses, NEW P \in SUBSET Job, status' = Queue!CancelAll(P)
    PROVE  /\ status' \in Statuses
           /\ \A j \in Job : status'[j] # status[j] =>
                status[j] \in LiveStatus /\ status'[j] = "CANCELED"
<1> DEFINE C == {j \in P : status[j] \in Queue!Live} \cup Queue!LiveDescendants(P)
<1>1. status' = [j \in Job |-> IF j \in C THEN "CANCELED" ELSE status[j]]
  BY DEF Queue!CancelAll
<1>2. \A j \in C : j \in Job /\ status[j] \in LiveStatus
  BY CascadeLive DEF Queue!Live, Statuses
<1> HIDE DEF C
<1> QED
  BY <1>1, <1>2 DEF Statuses

\* An end ends its own job, which must be running, and cancels live jobs.
LEMMA EndMoves ==
    ASSUME status \in Statuses, NEW k \in Job, NEW ok \in BOOLEAN, EndJob(k, ok)
    PROVE  /\ status' \in Statuses
           /\ \A j \in Job : status'[j] # status[j] =>
                \/ status[j] \in LiveStatus /\ status'[j] = "CANCELED"
                \/ /\ j = k /\ status[j] = "RUNNING"
                   /\ status'[j] = IF ok THEN "SUCCESS" ELSE "FAILED"
<1>1. CASE status' = status
  BY <1>1
<1>2. CASE status[k] = "RUNNING" /\ ok /\ status' = [status EXCEPT ![k] = "SUCCESS"]
  BY <1>2 DEF Statuses
<1>3. CASE status[k] = "RUNNING" /\ ~ok /\ status' = Queue!EndAndCascade(k, "FAILED")
  <2> DEFINE C == Queue!LiveDescendants({k})
  <2>1. status' = [j \in Job |-> IF j = k THEN "FAILED"
                                 ELSE IF j \in C THEN "CANCELED" ELSE status[j]]
    BY <1>3 DEF Queue!EndAndCascade
  <2>2. \A j \in C : j \in Job /\ status[j] \in LiveStatus
    BY CascadeLive
  <2> HIDE DEF C
  <2> QED
    BY <1>3, <2>1, <2>2 DEF Statuses
<1> QED
  BY <1>1, <1>2, <1>3 DEF EndJob

\* A dependency pass cancels waiting jobs and queues those whose parents have
\* all succeeded.
LEMMA ResolveMoves ==
    ASSUME status \in Statuses, Queue!ResolveDependencies
    PROVE  /\ status' \in Statuses
           /\ \A j \in Job : status'[j] # status[j] =>
                /\ status[j] = "WAITING"
                /\ \/ status'[j] = "CANCELED"
                   \/ /\ status'[j] = "QUEUED"
                      /\ \A d \in Parents[j] : status[d] = "SUCCESS"
<1>1. PICK C \in Queue!CanceledByPass :
        status' = [j \in Job |-> IF j \in C THEN "CANCELED"
                                 ELSE IF j \in Queue!Ready THEN "QUEUED"
                                 ELSE status[j]]
  BY DEF Queue!ResolveDependencies
<1>2. \A j \in C : status[j] = "WAITING"
  BY DEF Queue!CanceledByPass, Queue!Waiting
<1>3. \A j \in Queue!Ready : /\ status[j] = "WAITING"
                             /\ \A d \in Parents[j] : status[d] = "SUCCESS"
  <2>1. \A j \in Job : \A d \in Parents[j] : d \in Job
    BY SimpleAssumption
  <2> QED
    BY <2>1 DEF Queue!Ready, Queue!Waiting, Queue!Satisfied, Statuses
<1> QED
  BY <1>1, <1>2, <1>3 DEF Statuses
-----------------------------------------------------------------------------
(***************************************************************************)
(* Types.                                                                  *)
(***************************************************************************)
\* TypeOK in two parts: the provers keep flags apart from everything else.
Flags == drain \in BOOLEAN /\ keepRunning \in BOOLEAN /\ wakeup \in BOOLEAN

Others ==
    /\ status \in Statuses
    /\ owner  \in [Job -> {Me, NoRunner}]
    /\ proc   \in [Job -> {"none", "running", "done", "failed"}]
    /\ late   \subseteq Job
    /\ cur    \subseteq Job
    /\ availProcs \in Int /\ availMem \in Int /\ availJobs \in Int
    /\ track  \in [Job -> Track]
    /\ pc     \in Pc
    /\ todo   \subseteq Job
    /\ inHand \subseteq Job
    /\ offer.procs \in Int /\ offer.mem \in Int
    /\ sig    \in 0..2
    /\ kill   \subseteq Job
    /\ starts \in 0..MaxStarts /\ faults \in 0..MaxFaults
    /\ news   \subseteq Job

LEMMA TwoParts == TypeOK <=> Flags /\ Others
  BY DEF TypeOK, Flags, Others, Statuses

LEMMA TwoPartsNext == TypeOK' <=> Flags' /\ Others'
  BY DEF TypeOK, Flags, Others, Statuses

LEMMA NoOfferType == NoOffer.procs \in Int /\ NoOffer.mem \in Int
  BY DEF NoOffer

LEMMA TypeInit == Init => TypeOK
<1> SUFFICES ASSUME Init PROVE TypeOK
  OBVIOUS
<1>1. status \in Statuses
  BY DEF Init, Statuses
<1>2. starts \in 0..MaxStarts /\ faults \in 0..MaxFaults
  BY SimpleAssumption DEF Init
<1>3. offer.procs \in Int /\ offer.mem \in Int
  BY NoOfferType DEF Init
<1>4. owner \in [Job -> {Me, NoRunner}] /\ track \in [Job -> Track]
  BY DEF Init, Track
<1>5. proc \in [Job -> {"none", "running", "done", "failed"}]
  BY DEF Init
<1> QED
  <2>1. Flags
    BY DEF Init, Flags
  <2>2. Others
    BY <1>1, <1>2, <1>3, <1>4, <1>5 DEF Init, Others, Pc
  <2> QED
    BY <2>1, <2>2, TwoParts

LEMMA MayHappenType ==
    ASSUME TypeOK, NEW f, MayHappen(f)
    PROVE  faults' \in 0..MaxFaults
  BY SimpleAssumption DEF TypeOK, MayHappen

\* Leaving the process takes the runner to where it began.
LEMMA GoneType ==
    ASSUME TypeOK, Gone, faults' \in 0..MaxFaults
    PROVE  TypeOK'
<1>1. offer'.procs \in Int /\ offer'.mem \in Int
  BY NoOfferType DEF Gone
<1>2. track' \in [Job -> Track]
  BY DEF Gone, Track
<1> QED
  <2>1. Flags'
    BY TwoParts DEF Gone, Flags
  <2>2. Others'
    BY <1>1, <1>2, TwoParts DEF Gone, Others, Pc
  <2> QED
    BY <2>1, <2>2, TwoPartsNext

\* Cancels, by the loop and by the signal handler.
LEMMA CancelAndKillType ==
    ASSUME TypeOK, NEW j \in Job, CancelAndKill(j)
    PROVE  /\ status' \in Statuses
           /\ proc' \in [Job -> {"none", "running", "done", "failed"}]
           /\ faults' \in 0..MaxFaults
           /\ \A k \in Job : status'[k] # status[k] =>
                status[k] \in LiveStatus /\ status'[k] = "CANCELED"
<1>1. status \in Statuses
  BY DEF TypeOK, Statuses
<1>2. CASE status' = Queue!CancelAll({j}) /\ UNCHANGED faults
  BY <1>1, <1>2, CancelMoves DEF CancelAndKill, Kill, TypeOK
<1>3. CASE MayHappen("cancelLost") /\ UNCHANGED status
  BY <1>1, <1>3, MayHappenType DEF CancelAndKill, Kill, TypeOK
<1> QED
  BY <1>2, <1>3 DEF CancelAndKill

\* The run loop.
LEMMA TypeLoop ==
    ASSUME TypeOK, Loop
    PROVE  TypeOK'
<1> USE DEF Pc
<1>1. CASE LoopTop
  <2>1. CASE Gone /\ UNCHANGED faults
    BY <2>1, GoneType DEF TypeOK
  <2>2. CASE ~(Gone /\ UNCHANGED faults)
    BY <1>1, <2>2 DEF LoopTop, TypeOK
  <2> QED
    BY <2>1, <2>2
<1>2. CASE CancelOvertime
  <2>1. PICK j \in inHand : CancelAndKill(j)
    BY <1>2 DEF CancelOvertime
  <2>2. j \in Job
    BY <2>1 DEF TypeOK
  <2> QED
    BY <1>2, <2>1, <2>2, CancelAndKillType DEF TypeOK, CancelOvertime, Statuses
<1>3. CASE Decide
  <2>1. keepRunning' \in BOOLEAN
    BY <1>3 DEF Decide, KeepRunningWhenDraining, TypeOK
  <2>2. offer'.procs \in Int /\ offer'.mem \in Int
    BY <1>3 DEF Decide, TypeOK
  <2> QED
    BY <1>3, <2>1, <2>2 DEF TypeOK, Decide
<1>4. CASE availableResources
  BY <1>4 DEF TypeOK, availableResources
<1>5. CASE ResolveForClaim
  <2>1. status' \in Statuses
    BY <1>5, ResolveMoves DEF ResolveForClaim, TypeOK, Statuses
  <2> QED
    BY <1>5, <2>1 DEF TypeOK, ResolveForClaim, Statuses
<1>6. CASE ClaimNextJob
  <2>1. CASE UNCHANGED <<tables, inHand>>
    BY <1>6, <2>1 DEF TypeOK, ClaimNextJob
  <2>2. ASSUME NEW j \in Claimable(offer), Queue!claimJobs(Me, {j}), inHand' = {j}
        PROVE  TypeOK'
    <3>1. j \in Job
      BY <2>2 DEF Claimable, Queue!Queued
    <3> QED
      BY <1>6, <2>2, <3>1 DEF TypeOK, ClaimNextJob, Queue!claimJobs
  <2> QED
    BY <1>6, <2>1, <2>2 DEF ClaimNextJob
<1>7. CASE NothingClaimed
  BY <1>7 DEF TypeOK, NothingClaimed
<1>8. CASE Rest \/ WakeUp \/ Heartbeat
  BY <1>8 DEF TypeOK, Rest, WakeUp, Heartbeat
<1>9. ASSUME NEW j \in Job, CheckJob(j)
      PROVE  TypeOK'
  BY <1>9 DEF TypeOK, CheckJob, Kill
<1>10. ASSUME NEW j \in Job, startJob(j)
       PROVE  TypeOK'
  BY <1>10, SimpleAssumption DEF TypeOK, startJob, Less, Track
<1> QED
  BY <1>1, <1>2, <1>3, <1>4, <1>5, <1>6, <1>7, <1>8, <1>9, <1>10 DEF Loop

\* The goroutines of the jobs.
LEMMA TypeGoroutine ==
    ASSUME TypeOK, NEW j \in Job, Goroutine(j) \/ ReportLost(j)
    PROVE  TypeOK'
<1> USE DEF Track
<1>0. status \in Statuses
  BY DEF TypeOK, Statuses
<1>1. CASE Report(j)
  <2>1. status' \in Statuses
    BY <1>0, <1>1, EndMoves DEF Report
  <2> QED
    BY <1>1, <2>1 DEF TypeOK, Report, Statuses
<1>2. CASE ResolveAfterEnd(j)
  BY <1>0, <1>2, ResolveMoves DEF TypeOK, ResolveAfterEnd, Statuses
<1>3. CASE Return(j)
  BY <1>3, SimpleAssumption DEF TypeOK, Return, More
<1>4. CASE wake(j)
  BY <1>4 DEF TypeOK, wake, Buffered
<1>5. CASE ReportLost(j)
  BY <1>5, MayHappenType DEF TypeOK, ReportLost
<1> QED
  BY <1>1, <1>2, <1>3, <1>4, <1>5 DEF Goroutine

\* Starts, signals, faults, processes and users.
LEMMA TypeOther ==
    ASSUME TypeOK,
           \/ Start \/ ClaimLost \/ Drain \/ KillAll \/ Die \/ UserDrains
           \/ \E j \in Job : \/ CheckLost(j) \/ failClaimedJob(j) \/ KillOne(j)
                             \/ ProcessEnds(j) \/ WalltimePasses(j) \/ UserCancels(j)
    PROVE  TypeOK'
<1> USE DEF Pc
<1>0. status \in Statuses
  BY DEF TypeOK, Statuses
<1>1. CASE Start
  <2>1. Flags'
    BY <1>1, TwoParts DEF Start, Flags
  <2>2. Others'
    BY <1>1, TwoParts, SimpleAssumption DEF Start, Others
  <2> QED
    BY <2>1, <2>2, TwoPartsNext
<1>2. CASE ClaimLost
  BY <1>2, MayHappenType DEF TypeOK, ClaimLost
<1>3. CASE Drain
  <2>1. faults' \in 0..MaxFaults
    BY <1>3, MayHappenType DEF Drain
  <2>2. Flags'
    BY <1>3, TwoParts DEF Drain, Flags
  <2>3. Others'
    BY <1>3, <2>1, TwoParts DEF Drain, Others
  <2> QED
    BY <2>2, <2>3, TwoPartsNext
<1>4. CASE KillAll
  <2>1. wakeup' \in BOOLEAN
    BY <1>4 DEF KillAll
  <2> QED
    BY <1>4, <2>1 DEF TypeOK, KillAll
<1>5. CASE Die
  <2>1. faults' \in 0..MaxFaults
    BY <1>5, MayHappenType DEF Die, TypeOK
  <2> QED
    BY <1>5, <2>1, GoneType DEF Die
<1>6. CASE UserDrains
  BY <1>6, MayHappenType DEF TypeOK, UserDrains
<1>7. ASSUME NEW j \in Job, CheckLost(j) PROVE TypeOK'
  BY <1>7 DEF TypeOK, CheckLost
<1>8. ASSUME NEW j \in Job, failClaimedJob(j) PROVE TypeOK'
  <2>1. status' \in Statuses
    BY <1>0, <1>8, EndMoves DEF failClaimedJob
  <2>2. faults' \in 0..MaxFaults
    BY <1>8, MayHappenType DEF failClaimedJob
  <2>3. /\ keepRunning' = FALSE /\ inHand' = {} /\ pc' = "top"
        /\ availJobs' = IF availJobs > 0 THEN availJobs - 1 ELSE availJobs
        /\ UNCHANGED <<owner, machine, shared, todo, offer, wakeup, signal, starts, news>>
    BY <1>8 DEF failClaimedJob
  <2>4. Flags'
    BY <2>3, TwoParts DEF Flags
  <2>5. Others'
    BY <2>1, <2>2, <2>3, TwoParts DEF Others, Pc
  <2> QED
    BY <2>4, <2>5, TwoPartsNext
<1>9. ASSUME NEW j \in Job, KillOne(j) PROVE TypeOK'
  BY <1>9, CancelAndKillType DEF TypeOK, KillOne, Statuses
<1>10. ASSUME NEW j \in Job, ProcessEnds(j) PROVE TypeOK'
  BY <1>10 DEF TypeOK, ProcessEnds
<1>11. ASSUME NEW j \in Job, WalltimePasses(j) PROVE TypeOK'
  BY <1>11 DEF TypeOK, WalltimePasses
<1>12. ASSUME NEW j \in Job, UserCancels(j) PROVE TypeOK'
  <2>1. status' \in Statuses
    BY <1>0, <1>12, CancelMoves DEF UserCancels
  <2>2. faults' \in 0..MaxFaults
    BY <1>12, MayHappenType DEF UserCancels
  <2> QED
    BY <1>12, <2>1, <2>2 DEF TypeOK, UserCancels, Statuses
<1> QED
  BY <1>1, <1>2, <1>3, <1>4, <1>5, <1>6, <1>7, <1>8, <1>9, <1>10, <1>11, <1>12

LEMMA TypeStep ==
    ASSUME TypeOK, [Next]_vars
    PROVE  TypeOK'
<1>1. CASE UNCHANGED vars
  BY <1>1 DEF TypeOK, vars
<1> QED
  BY <1>1, TypeLoop, TypeGoroutine, TypeOther DEF Next

\* Type correctness of the runner, of what it writes to the tables and of what
\* it counts: the counters stay numbers although -1 in them means no limit.
THEOREM TypeTheorem == Spec => []TypeOK
  BY TypeInit, TypeStep, PTL DEF Spec
-----------------------------------------------------------------------------
(***************************************************************************)
(* Processes and statuses.                                                 *)
(***************************************************************************)

\* A job has parents that succeeded from the time it is queued until it ends, and
\* no process until it is started.
QueuedAfterParents ==
    \A j \in Job :
        /\ status[j] \in {"WAITING", "QUEUED"} => proc[j] = "none"
        /\ status[j] \in {"QUEUED", "RUNNING"} =>
             \A d \in Parents[j] : status[d] = "SUCCESS"

\* The job that the loop was given has not been started, by anybody, and may be,
\* even if it has been canceled since.
InHandIsNew ==
    /\ pc \notin {"answer", "overtime"} => inHand = {}
    /\ pc = "answer" => \A j \in inHand :
         /\ proc[j] = "none" /\ status[j] \in {"RUNNING", "CANCELED"}
         /\ \A d \in Parents[j] : proc[d] = "done"

Sound == TypeOK /\ QueuedAfterParents /\ InHandIsNew /\ ReportsAreTrue

LEMMA ParentsAreJobs == \A j \in Job : \A d \in Parents[j] : d \in Job
  BY SimpleAssumption

\* What all steps but a claim and a start do to processes, statuses and the job
\* in hand.
ProcMoves ==
    \A j \in Job : \/ proc'[j] = proc[j]
                   \/ proc[j] = "running" /\ proc'[j] \in {"done", "failed"}

Cancels(j) == status[j] \in LiveStatus /\ status'[j] = "CANCELED"

Queues(j) ==
    /\ status[j] = "WAITING" /\ status'[j] = "QUEUED"
    /\ \A d \in Parents[j] : status[d] = "SUCCESS"

Ends(j) ==
    /\ status[j] = "RUNNING" /\ status'[j] \in {"SUCCESS", "FAILED"}
    /\ proc[j] \in {"done", "failed"} \/ (proc[j] = "none" /\ inHand' = {})
    /\ status'[j] = "SUCCESS" => proc[j] = "done"

StatusMoves ==
    \A j \in Job : status'[j] # status[j] => Cancels(j) \/ Queues(j) \/ Ends(j)

HandMoves == inHand' = {} \/ pc' = "overtime" \/ UNCHANGED <<pc, inHand>>

\* Such steps keep the invariant.
LEMMA MovesKeepSound ==
    ASSUME Sound, TypeOK', ProcMoves, StatusMoves
    PROVE  QueuedAfterParents' /\ ReportsAreTrue'
<1> USE DEF ProcMoves, StatusMoves, Cancels, Queues, Ends
<1>1. \A j \in Job : status[j] = "SUCCESS" => status'[j] = "SUCCESS"
  OBVIOUS
<1>2. \A j \in Job : proc[j] \in {"none", "done"} => proc'[j] = proc[j]
  OBVIOUS
<1>3. ASSUME NEW j \in Job
      PROVE  /\ status'[j] \in {"WAITING", "QUEUED"} => proc'[j] = "none"
             /\ status'[j] \in {"QUEUED", "RUNNING"} =>
                  \A d \in Parents[j] : status'[d] = "SUCCESS"
  <2>1. status'[j] \in {"WAITING", "QUEUED"} => status[j] \in {"WAITING", "QUEUED"}
    OBVIOUS
  <2>2. status'[j] \in {"QUEUED", "RUNNING"} =>
          \A d \in Parents[j] : status[d] = "SUCCESS"
    BY DEF Sound, QueuedAfterParents
  <2> QED
    BY <1>1, <1>2, <2>1, <2>2, ParentsAreJobs DEF Sound, QueuedAfterParents
<1>4. ASSUME NEW j \in Job
      PROVE  /\ status'[j] = "SUCCESS" => proc'[j] = "done"
             /\ proc'[j] = "running" => status'[j] \in {"RUNNING", "CANCELED"}
  <2>1. status'[j] = "SUCCESS" => proc[j] = "done"
    BY DEF Sound, ReportsAreTrue
  <2>2. proc'[j] = "running" => proc[j] = "running"
    OBVIOUS
  <2>3. proc[j] = "running" => status[j] \in {"RUNNING", "CANCELED"}
    BY DEF Sound, ReportsAreTrue
  <2> QED
    BY <1>2, <2>1, <2>2, <2>3
<1> QED
  BY <1>3, <1>4 DEF QueuedAfterParents, ReportsAreTrue

LEMMA MovesKeepHand ==
    ASSUME Sound, TypeOK', ProcMoves, StatusMoves, HandMoves
    PROVE  InHandIsNew'
<1>1. CASE inHand' = {} \/ pc' = "overtime"
  BY <1>1 DEF InHandIsNew
<1>2. CASE UNCHANGED <<pc, inHand>> /\ inHand' # {}
  <2>1. \A j \in Job : proc[j] \in {"none", "done"} => proc'[j] = proc[j]
    BY DEF ProcMoves
  <2>2. \A j \in Job : status[j] \in {"RUNNING", "CANCELED"} /\ proc[j] = "none"
                          => status'[j] \in {"RUNNING", "CANCELED"}
    BY <1>2 DEF StatusMoves, Cancels, Queues, Ends
  <2>3. inHand \subseteq Job
    BY DEF Sound, TypeOK
  <2> QED
    BY <1>2, <2>1, <2>2, <2>3, ParentsAreJobs DEF Sound, InHandIsNew
<1> QED
  BY <1>1, <1>2 DEF HandMoves

LEMMA MovesAreSound ==
    ASSUME Sound, TypeOK', ProcMoves, StatusMoves, HandMoves
    PROVE  Sound'
  BY MovesKeepSound, MovesKeepHand DEF Sound

\* The loop, but for a claim and a start.
LEMMA LoopMoves ==
    ASSUME Sound,
           \/ LoopTop \/ CancelOvertime \/ Decide \/ availableResources
           \/ ResolveForClaim \/ NothingClaimed \/ Rest \/ WakeUp \/ Heartbeat
           \/ \E j \in Job : CheckJob(j)
    PROVE  ProcMoves /\ StatusMoves /\ HandMoves
<1>0. status \in Statuses /\ TypeOK
  BY DEF Sound, TypeOK, Statuses
<1>1. CASE LoopTop \/ Decide \/ availableResources \/ NothingClaimed \/ Rest \/ WakeUp
           \/ Heartbeat
  <2>1. UNCHANGED <<status, proc>>
    BY <1>1 DEF LoopTop, Gone, Decide, availableResources, NothingClaimed, Rest, WakeUp,
       Heartbeat
  <2>2. inHand' = {}
    BY <1>1 DEF LoopTop, Gone, Decide, availableResources, NothingClaimed, Rest, WakeUp,
       Heartbeat, Sound, InHandIsNew
  <2> QED
    BY <2>1, <2>2 DEF ProcMoves, StatusMoves, HandMoves
<1>2. CASE CancelOvertime
  <2>1. PICK j \in Job : CancelAndKill(j)
    BY <1>0, <1>2 DEF CancelOvertime, TypeOK
  <2>2. StatusMoves
    BY <1>0, <2>1, CancelAndKillType DEF StatusMoves, Cancels
  <2>3. ProcMoves
    BY <1>0, <2>1 DEF CancelAndKill, Kill, ProcMoves, TypeOK
  <2> QED
    BY <1>2, <2>2, <2>3 DEF CancelOvertime, HandMoves
<1>3. CASE ResolveForClaim
  <2>1. StatusMoves
    BY <1>0, <1>3, ResolveMoves DEF ResolveForClaim, StatusMoves, Cancels, Queues
  <2> QED
    BY <1>3, <2>1 DEF ResolveForClaim, ProcMoves, HandMoves, Sound, InHandIsNew
<1>4. ASSUME NEW j \in Job, CheckJob(j)
      PROVE  ProcMoves /\ StatusMoves /\ HandMoves
  <2>1. ProcMoves
    BY <1>0, <1>4 DEF CheckJob, Kill, ProcMoves, TypeOK
  <2> QED
    BY <1>4, <2>1 DEF CheckJob, StatusMoves, HandMoves
<1> QED
  BY <1>1, <1>2, <1>3, <1>4

\* Everything else but a claim and a start.
LEMMA OtherMoves ==
    ASSUME Sound,
           \/ Start \/ ClaimLost \/ Drain \/ KillAll \/ Die \/ UserDrains
           \/ UNCHANGED vars
           \/ \E j \in Job : \/ CheckLost(j) \/ failClaimedJob(j) \/ Goroutine(j)
                             \/ ReportLost(j) \/ KillOne(j) \/ ProcessEnds(j)
                             \/ WalltimePasses(j) \/ UserCancels(j)
    PROVE  ProcMoves /\ StatusMoves /\ HandMoves
<1>0. status \in Statuses /\ TypeOK
  BY DEF Sound, TypeOK, Statuses
<1>1. CASE \/ Start \/ ClaimLost \/ Drain \/ KillAll \/ Die \/ UserDrains
           \/ UNCHANGED vars
  <2>1. UNCHANGED <<status, proc>>
    BY <1>1 DEF Start, ClaimLost, Drain, KillAll, Die, Gone, UserDrains, vars
  <2>2. HandMoves
    BY <1>1 DEF Start, ClaimLost, Drain, KillAll, Die, Gone, UserDrains, vars, HandMoves,
       Sound, InHandIsNew
  <2> QED
    BY <2>1, <2>2 DEF ProcMoves, StatusMoves
<1>2. ASSUME NEW j \in Job, \/ CheckLost(j) \/ ReportLost(j) \/ Return(j) \/ wake(j)
                            \/ WalltimePasses(j)
      PROVE  UNCHANGED <<status, proc, pc, inHand>>
  BY <1>2 DEF CheckLost, ReportLost, Return, wake, WalltimePasses
<1>3. ASSUME NEW j \in Job, failClaimedJob(j)
      PROVE  ProcMoves /\ StatusMoves /\ HandMoves
  <2>1. inHand' = {} /\ UNCHANGED proc /\ proc[j] = "none"
    BY <1>3 DEF failClaimedJob, Sound, InHandIsNew
  <2>2. EndJob(j, FALSE) \/ UNCHANGED status
    BY <1>3 DEF failClaimedJob
  <2>3. StatusMoves
    BY <1>0, <2>1, <2>2, EndMoves DEF StatusMoves, Cancels, Ends
  <2> QED
    BY <2>1, <2>3 DEF ProcMoves, HandMoves
<1>4. ASSUME NEW j \in Job, Report(j)
      PROVE  ProcMoves /\ StatusMoves /\ HandMoves
  <2>1. StatusMoves
    BY <1>0, <1>4, EndMoves, ZenonT(30) DEF Report, StatusMoves, Cancels, Ends
  <2> QED
    BY <1>4, <2>1 DEF Report, ProcMoves, HandMoves
<1>5. ASSUME NEW j \in Job, ResolveAfterEnd(j)
      PROVE  ProcMoves /\ StatusMoves /\ HandMoves
  <2>1. StatusMoves
    BY <1>0, <1>5, ResolveMoves DEF ResolveAfterEnd, StatusMoves, Cancels, Queues
  <2> QED
    BY <1>5, <2>1 DEF ResolveAfterEnd, ProcMoves, HandMoves
<1>6. ASSUME NEW j \in Job, KillOne(j)
      PROVE  ProcMoves /\ StatusMoves /\ HandMoves
  <2>1. StatusMoves
    BY <1>0, <1>6, CancelAndKillType DEF KillOne, StatusMoves, Cancels
  <2>2. ProcMoves
    BY <1>0, <1>6 DEF KillOne, CancelAndKill, Kill, ProcMoves, TypeOK
  <2> QED
    BY <1>6, <2>1, <2>2 DEF KillOne, HandMoves
<1>7. ASSUME NEW j \in Job, ProcessEnds(j)
      PROVE  ProcMoves /\ StatusMoves /\ HandMoves
  BY <1>0, <1>7 DEF ProcessEnds, ProcMoves, StatusMoves, HandMoves, TypeOK
<1>8. ASSUME NEW j \in Job, UserCancels(j)
      PROVE  ProcMoves /\ StatusMoves /\ HandMoves
  <2>1. StatusMoves
    BY <1>0, <1>8, CancelMoves DEF UserCancels, StatusMoves, Cancels
  <2> QED
    BY <1>8, <2>1 DEF UserCancels, ProcMoves, HandMoves
<1> QED
  BY <1>1, <1>2, <1>3, <1>4, <1>5, <1>6, <1>7, <1>8
  DEF Goroutine, ProcMoves, StatusMoves, HandMoves

\* A claim takes queued jobs, whose parents have succeeded.
LEMMA ClaimIsSound ==
    ASSUME Sound, TypeOK', ClaimNextJob
    PROVE  Sound' /\ UNCHANGED proc
<1>1. inHand = {} /\ UNCHANGED proc /\ pc' = "answer"
  BY DEF ClaimNextJob, Sound, InHandIsNew
<1>2. CASE UNCHANGED <<tables, inHand>>
  BY <1>1, <1>2 DEF Sound, QueuedAfterParents, InHandIsNew, ReportsAreTrue
<1>3. ASSUME NEW j \in Claimable(offer), Queue!claimJobs(Me, {j}), inHand' = {j}
      PROVE  Sound'
  <2>1. j \in Job /\ status[j] = "QUEUED"
    BY DEF Claimable, Queue!Queued
  <2>2. proc[j] = "none" /\ \A d \in Parents[j] : status[d] = "SUCCESS" /\ proc[d] = "done"
    BY <2>1, ParentsAreJobs DEF Sound, QueuedAfterParents, ReportsAreTrue
  <2>3. status' = [k \in Job |-> IF k = j THEN "RUNNING" ELSE status[k]]
    BY <1>3 DEF Queue!claimJobs
  <2>4. InHandIsNew'
    BY <1>1, <1>3, <2>1, <2>2, <2>3 DEF InHandIsNew
  <2>5. \A k \in Job : status[k] = "SUCCESS" => status'[k] = "SUCCESS"
    BY <2>1, <2>3
  <2>6. QueuedAfterParents'
    BY <1>1, <2>1, <2>2, <2>3, <2>5, ParentsAreJobs DEF Sound, QueuedAfterParents
  <2>7. ReportsAreTrue'
    BY <1>1, <2>1, <2>2, <2>3 DEF Sound, ReportsAreTrue
  <2> QED
    BY <2>4, <2>6, <2>7 DEF Sound
<1> QED
  BY <1>1, <1>2, <1>3 DEF ClaimNextJob

\* A start runs the job in hand.
LEMMA StartIsSound ==
    ASSUME Sound, TypeOK', NEW j \in Job, startJob(j)
    PROVE  /\ Sound' /\ proc' = [proc EXCEPT ![j] = "running"]
           /\ proc[j] = "none" /\ \A d \in Parents[j] : proc[d] = "done"
<1>1. /\ proc[j] = "none" /\ status[j] \in {"RUNNING", "CANCELED"}
      /\ \A d \in Parents[j] : proc[d] = "done"
  BY DEF startJob, Sound, InHandIsNew
<1>2. /\ proc' = [proc EXCEPT ![j] = "running"] /\ UNCHANGED status
      /\ inHand' = {} /\ pc' = "top"
  BY DEF startJob
<1>3. \A k \in Job : proc'[k] = IF k = j THEN "running" ELSE proc[k]
  BY <1>2 DEF Sound, TypeOK
<1>4. InHandIsNew'
  BY <1>2 DEF InHandIsNew
<1>5. QueuedAfterParents' /\ ReportsAreTrue'
  BY <1>1, <1>2, <1>3 DEF Sound, QueuedAfterParents, ReportsAreTrue
<1> QED
  BY <1>1, <1>2, <1>4, <1>5 DEF Sound

\* Every step is one of the three.
LEMMA StepKinds ==
    ASSUME Sound, [Next]_vars
    PROVE  \/ ProcMoves /\ StatusMoves /\ HandMoves
           \/ ClaimNextJob
           \/ \E j \in Job : startJob(j)
  BY LoopMoves, OtherMoves DEF Next, Loop

LEMMA SoundStep ==
    ASSUME Sound, [Next]_vars
    PROVE  Sound'
<1>1. TypeOK'
  BY TypeStep DEF Sound
<1> QED
  BY <1>1, StepKinds, MovesAreSound, ClaimIsSound, StartIsSound

LEMMA SoundTheorem == Spec => []Sound
<1>1. Init => QueuedAfterParents /\ InHandIsNew /\ ReportsAreTrue
  BY DEF Init, QueuedAfterParents, InHandIsNew, ReportsAreTrue
<1>2. Init => Sound
  BY <1>1, TypeInit DEF Sound
<1> QED
  BY <1>2, SoundStep, PTL DEF Spec

\* SUCCESS in the tables means that the job's process succeeded, and a process
\* that runs belongs to a job that is RUNNING or was canceled (EndJob, the
\* completion goroutine, walltime and Ctrl+C), across restarts of the runner.
THEOREM ReportsTheorem == Spec => []ReportsAreTrue
<1>1. Sound => ReportsAreTrue
  BY DEF Sound
<1> QED
  BY <1>1, SoundTheorem, PTL

\* A job is started at most once, by whichever invocation of the runner, and only
\* after the processes of all its parents have succeeded (ClaimNextJob, startJob).
THEOREM RunsOnceTheorem == Spec => RunsOnceAfterParents
<1>1. Sound /\ [Next]_vars =>
        [\A j \in Job : proc'[j] = "running" /\ proc[j] # "running" =>
           proc[j] = "none" /\ \A d \in Parents[j] : proc[d] = "done"]_vars
  <2> SUFFICES ASSUME Sound, [Next]_vars, NEW j \in Job,
                      proc'[j] = "running", proc[j] # "running"
               PROVE  proc[j] = "none" /\ \A d \in Parents[j] : proc[d] = "done"
    OBVIOUS
  <2>1. TypeOK'
    BY TypeStep DEF Sound
  <2>2. PICK k \in Job : startJob(k)
    BY <2>1, StepKinds, ClaimIsSound DEF ProcMoves
  <2>3. /\ proc' = [proc EXCEPT ![k] = "running"]
        /\ proc[k] = "none" /\ \A d \in Parents[k] : proc[d] = "done"
    BY <2>1, <2>2, StartIsSound
  <2>4. j = k
    BY <2>3 DEF Sound, TypeOK
  <2> QED
    BY <2>3, <2>4
<1> QED
  BY <1>1, SoundTheorem, PTL DEF Spec, RunsOnceAfterParents

-----------------------------------------------------------------------------
(***************************************************************************)
(* The runner's requests, seen through JobLifecycle.                       *)
(***************************************************************************)

\* The walk of a cascade misses no live dependent of what it reached.
LEMMA CascadeClosed ==
    ASSUME NEW P
    PROVE  Queue!IsClosed(P, Queue!LiveDescendants(P))
<1> SUFFICES ASSUME NEW j \in Job, status[j] \in Queue!Live,
                    Parents[j] \cap (P \cup Queue!LiveDescendants(P)) # {},
                    NEW D \in SUBSET Job, Queue!IsClosed(P, D)
             PROVE  j \in D
  BY DEF Queue!IsClosed, Queue!LiveDescendants
<1>1. Queue!LiveDescendants(P) \subseteq D
  BY DEF Queue!LiveDescendants
<1> QED
  BY <1>1 DEF Queue!IsClosed

\* The statuses and owners after a step are of the types of JobLifecycle.
LEMMA LifecycleType ==
    ASSUME TypeOK'
    PROVE  Lifecycle!TypeOK'
  BY SimpleAssumption DEF TypeOK, Lifecycle!TypeOK, Lifecycle!Status, Lifecycle!Live,
     Lifecycle!Terminal, Lifecycle!Dead

\* A set of live jobs that dies with all its live dependents.
LEMMA DeathIsKill ==
    ASSUME status \in Statuses, NEW C, UNCHANGED owner,
           \A j \in C : j \in Job /\ status[j] \in LiveStatus /\ status'[j] \in DeadStatus,
           \A j \in Job : status[j] \in LiveStatus /\ Parents[j] \cap C # {} => j \in C,
           \A j \in Job : j \notin C => status'[j] = status[j]
    PROVE  Lifecycle!Kill
<1>1. \A j \in Job : j \in Lifecycle!Changed <=> j \in C
  BY DEF Lifecycle!Changed
<1>2. \A j \in Job : status[j] \in Lifecycle!Live => status[j] \in LiveStatus
  BY DEF Statuses, Lifecycle!Live
<1>3. \A j \in Job : Parents[j] \cap Lifecycle!Changed = Parents[j] \cap C
  BY <1>1, ParentsAreJobs DEF Lifecycle!Changed
<1>4. \A j \in Lifecycle!Changed : j \in Job
  BY DEF Lifecycle!Changed
<1> QED
  BY <1>1, <1>2, <1>3, <1>4 DEF Lifecycle!Kill, Lifecycle!Live, Lifecycle!Dead

LEMMA CancelIsKill ==
    ASSUME status \in Statuses, NEW P \in SUBSET Job, status' = Queue!CancelAll(P),
           UNCHANGED owner
    PROVE  Lifecycle!Kill
<1> DEFINE C == {j \in P : status[j] \in Queue!Live} \cup Queue!LiveDescendants(P)
<1>1. status' = [j \in Job |-> IF j \in C THEN "CANCELED" ELSE status[j]]
  BY DEF Queue!CancelAll
<1>2. \A j \in C : j \in Job /\ status[j] \in LiveStatus
  BY CascadeLive DEF Queue!Live, Statuses
<1>3. \A j \in Job : status[j] \in LiveStatus /\ Parents[j] \cap C # {} => j \in C
  BY CascadeClosed DEF Queue!IsClosed, Queue!Live
<1> HIDE DEF C
<1> QED
  BY <1>1, <1>2, <1>3, DeathIsKill

LEMMA FailureIsKill ==
    ASSUME status \in Statuses, NEW k \in Job, status[k] \in LiveStatus,
           status' = Queue!EndAndCascade(k, "FAILED"), UNCHANGED owner
    PROVE  Lifecycle!Kill
<1> DEFINE C == {k} \cup Queue!LiveDescendants({k})
<1>1. \A j \in Job : status'[j] = IF j = k THEN "FAILED"
                                  ELSE IF j \in C THEN "CANCELED" ELSE status[j]
  BY DEF Queue!EndAndCascade
<1>2. \A j \in C : j \in Job /\ status[j] \in LiveStatus
  BY CascadeLive
<1>3. \A j \in Job : status[j] \in LiveStatus /\ Parents[j] \cap C # {} => j \in C
  BY CascadeClosed DEF Queue!IsClosed, Queue!Live
<1>4. k \in C
  OBVIOUS
<1> HIDE DEF C
<1> QED
  BY <1>1, <1>2, <1>3, <1>4, DeathIsKill

\* A dependency pass.
LEMMA ResolveIsSettle ==
    ASSUME status \in Statuses, Queue!ResolveDependencies, UNCHANGED owner
    PROVE  Lifecycle!Settle
<1>1. PICK C \in Queue!CanceledByPass :
        status' = [j \in Job |-> IF j \in C THEN "CANCELED"
                                 ELSE IF j \in Queue!Ready THEN "QUEUED"
                                 ELSE status[j]]
  BY DEF Queue!ResolveDependencies
<1>2. \A j \in C : j \in Job /\ status[j] = "WAITING" /\ status'[j] = "CANCELED"
  BY <1>1 DEF Queue!CanceledByPass, Queue!Waiting
<1>3. ASSUME NEW j \in C PROVE \E d \in Parents[j] : status'[d] \in Lifecycle!Dead
  <2>1. CASE j \in Queue!Doomed
    <3>1. PICK d \in Parents[j] : status[d] \in Queue!Dead
      BY <2>1 DEF Queue!Doomed
    <3>2. d \in Job
      BY <1>2, ParentsAreJobs
    <3>3. status'[d] = status[d]
      BY <3>1, <3>2, ResolveMoves DEF Queue!Dead
    <3> QED
      BY <3>1, <3>3 DEF Queue!Dead, Lifecycle!Dead
  <2>2. CASE j \notin Queue!Doomed
    BY <1>2, <2>2 DEF Queue!CanceledByPass, Lifecycle!Dead
  <2> QED
    BY <2>1, <2>2
<1>4. ASSUME NEW j \in Lifecycle!Changed
      PROVE  /\ status[j] = "WAITING"
             /\ \/ /\ status'[j] = "QUEUED"
                   /\ \A d \in Parents[j] : status[d] \in Lifecycle!Satisfied
                \/ /\ status'[j] = "CANCELED"
                   /\ \E d \in Parents[j] : status'[d] \in Lifecycle!Dead
  <2>1. j \in Job /\ status'[j] # status[j]
    BY DEF Lifecycle!Changed
  <2>2. /\ status[j] = "WAITING"
        /\ \/ status'[j] = "CANCELED"
           \/ /\ status'[j] = "QUEUED"
              /\ \A d \in Parents[j] : status[d] = "SUCCESS"
    BY <2>1, ResolveMoves
  <2>3. status'[j] = "CANCELED" => j \in C
    BY <1>1, <2>1, <2>2
  <2> QED
    BY <1>3, <2>2, <2>3 DEF Lifecycle!Satisfied
<1> QED
  BY <1>4 DEF Lifecycle!Settle

\* The report of an end.
LEMMA EndIsAllowed ==
    ASSUME status \in Statuses, NEW k \in Job, NEW ok \in BOOLEAN, EndJob(k, ok),
           UNCHANGED owner
    PROVE  UNCHANGED status \/ Lifecycle!Advance \/ Lifecycle!Kill
<1>1. CASE status[k] = "RUNNING" /\ ok /\ status' = [status EXCEPT ![k] = "SUCCESS"]
  <2>1. \A j \in Lifecycle!Changed : j = k /\ status'[k] = "SUCCESS"
    BY <1>1 DEF Lifecycle!Changed, Statuses
  <2> QED
    BY <1>1, <2>1 DEF Lifecycle!Advance
<1>2. CASE status[k] = "RUNNING" /\ status' = Queue!EndAndCascade(k, "FAILED")
  BY <1>2, FailureIsKill
<1> QED
  BY <1>1, <1>2 DEF EndJob

\* A claim.
LEMMA ClaimIsClaim ==
    ASSUME TypeOK, NEW o, NEW k \in Claimable(o), Queue!claimJobs(Me, {k})
    PROVE  Lifecycle!Claim
<1>1. k \in Job /\ status[k] = "QUEUED" /\ owner[k] = NoRunner
  BY DEF Claimable, Queue!Queued
<1>2. /\ status' = [j \in Job |-> IF j = k THEN "RUNNING" ELSE status[j]]
      /\ owner' = [j \in Job |-> IF j = k THEN Me ELSE owner[j]]
  BY DEF Queue!claimJobs
<1>3. \A j \in Lifecycle!Changed : j = k
  BY <1>2 DEF Lifecycle!Changed
<1>4. k \in Lifecycle!Changed
  BY <1>1, <1>2 DEF Lifecycle!Changed
<1>5. \A j \in Job : j # k => owner'[j] = owner[j]
  BY <1>2
<1> QED
  BY <1>1, <1>2, <1>3, <1>4, <1>5 DEF Lifecycle!Claim

LEMMA CancelAndKillIsKill ==
    ASSUME TypeOK, NEW j \in Job, CancelAndKill(j), UNCHANGED owner
    PROVE  UNCHANGED status \/ Lifecycle!Kill
  BY CancelIsKill DEF CancelAndKill, TypeOK, Statuses

\* All the runner does to the tables, the claims of its loop, the cancels of its
\* walltime check and of Ctrl+C, the reports of its goroutines, is allowed by
\* the storage's abstract specification.
THEOREM LifecycleTheorem == Spec => LifecycleRespected
<1>1. ASSUME TypeOK, [Next]_vars
      PROVE  \/ UNCHANGED <<status, owner>>
             \/ Lifecycle!Kill \/ Lifecycle!Settle \/ Lifecycle!Claim \/ Lifecycle!Advance
  <2>0. status \in Statuses
    BY <1>1 DEF TypeOK, Statuses
  <2>1. CASE CancelOvertime
    <3>1. PICK j \in Job : CancelAndKill(j)
      BY <1>1, <2>1 DEF CancelOvertime, TypeOK
    <3> QED
      BY <1>1, <2>1, <3>1, CancelAndKillIsKill DEF CancelOvertime
  <2>2. CASE ResolveForClaim
    BY <2>0, <2>2, ResolveIsSettle DEF ResolveForClaim
  <2>3. CASE ClaimNextJob
    BY <1>1, <2>3, ClaimIsClaim DEF ClaimNextJob
  <2>4. ASSUME NEW j \in Job, failClaimedJob(j)
        PROVE  UNCHANGED <<status, owner>> \/ Lifecycle!Advance \/ Lifecycle!Kill
    <3>1. UNCHANGED owner /\ (UNCHANGED status \/ EndJob(j, FALSE))
      BY <2>4 DEF failClaimedJob
    <3> QED
      BY <2>0, <3>1, EndIsAllowed
  <2>5. ASSUME NEW j \in Job, Report(j)
        PROVE  UNCHANGED <<status, owner>> \/ Lifecycle!Advance \/ Lifecycle!Kill
    <3>1. UNCHANGED owner /\ EndJob(j, proc[j] = "done")
      BY <2>5 DEF Report
    <3> QED
      BY <2>0, <3>1, EndIsAllowed
  <2>6. ASSUME NEW j \in Job, ResolveAfterEnd(j)
        PROVE  Lifecycle!Settle
    BY <2>0, <2>6, ResolveIsSettle DEF ResolveAfterEnd
  <2>7. ASSUME NEW j \in Job, KillOne(j)
        PROVE  UNCHANGED <<status, owner>> \/ Lifecycle!Kill
    BY <1>1, <2>7, CancelAndKillIsKill DEF KillOne
  <2>8. ASSUME NEW j \in Job, UserCancels(j)
        PROVE  Lifecycle!Kill
    BY <2>0, <2>8, CancelIsKill DEF UserCancels
  <2>9. CASE \/ Start \/ LoopTop \/ Decide \/ availableResources \/ NothingClaimed
             \/ Rest \/ WakeUp \/ Heartbeat \/ ClaimLost \/ Drain \/ KillAll \/ Die
             \/ UserDrains \/ UNCHANGED vars
    BY <2>9 DEF Start, LoopTop, Gone, Decide, availableResources, NothingClaimed, Rest,
       WakeUp, Heartbeat, ClaimLost, Drain, KillAll, Die, UserDrains, vars
  <2>10. ASSUME NEW j \in Job,
                \/ CheckJob(j) \/ startJob(j) \/ CheckLost(j) \/ ReportLost(j)
                \/ Return(j) \/ wake(j) \/ ProcessEnds(j) \/ WalltimePasses(j)
         PROVE  UNCHANGED <<status, owner>>
    BY <2>10 DEF CheckJob, startJob, CheckLost, ReportLost, Return, wake, ProcessEnds,
       WalltimePasses
  <2> QED
    BY <1>1, <2>1, <2>2, <2>3, <2>4, <2>5, <2>6, <2>7, <2>8, <2>9, <2>10
    DEF Next, Loop, Goroutine
<1>2. TypeOK /\ [Next]_vars => [Lifecycle!Next]_<<status, owner>>
  BY <1>1, TypeStep, LifecycleType DEF Lifecycle!Next
<1> QED
  BY <1>2, TypeTheorem, PTL DEF Spec, LifecycleRespected

-----------------------------------------------------------------------------
(***************************************************************************)
(* Sums.  The total of f over S is the number of units of which each       *)
(* element j of S has f[j]: adding an element adds its units.              *)
(***************************************************************************)
\* The units of one element.
Share(f, j) == {j} \X (1..f[j])

Units(f, S) == UNION {Share(f, j) : j \in S}

LEMMA ShareCount ==
    ASSUME NEW f, NEW j, f[j] \in Nat
    PROVE  IsFiniteSet(Share(f, j)) /\ Cardinality(Share(f, j)) = f[j]
<1>1. IsFiniteSet({j}) /\ Cardinality({j}) = 1
  BY FS_Singleton
<1>2. IsFiniteSet(1..f[j]) /\ Cardinality(1..f[j]) = f[j]
  BY FS_Interval
<1>3. IsFiniteSet({j} \X (1..f[j])) /\ Cardinality({j} \X (1..f[j])) = 1 * f[j]
  BY <1>1, <1>2, FS_Product, ZenonT(30)
<1> QED
  BY <1>3 DEF Share

LEMMA UnitsFinite ==
    ASSUME NEW S, IsFiniteSet(S), NEW f, \A j \in S : f[j] \in Nat
    PROVE  IsFiniteSet(Units(f, S))
<1> DEFINE R == {Share(f, j) : j \in S}
           g == [j \in S |-> Share(f, j)]
<1>1. g \in Surjection(S, R)
  BY DEF Surjection
<1>2. IsFiniteSet(R)
  BY <1>1, FS_Surjection
<1>3. \A U \in R : IsFiniteSet(U)
  BY ShareCount
<1> QED
  BY <1>2, <1>3, FS_UNION DEF Units

LEMMA UnitsOfMore ==
    ASSUME NEW S, IsFiniteSet(S), NEW x, x \notin S, NEW f, \A j \in S \cup {x} : f[j] \in Nat
    PROVE  Cardinality(Units(f, S \cup {x})) = Cardinality(Units(f, S)) + f[x]
<1>1. Units(f, S \cup {x}) = Units(f, S) \cup Share(f, x)
  BY DEF Units
<1>2. Units(f, S) \cap Share(f, x) = {}
  BY DEF Units, Share
<1>3. IsFiniteSet(Units(f, S)) /\ IsFiniteSet(Share(f, x)) /\ Cardinality(Share(f, x)) = f[x]
  BY UnitsFinite, ShareCount
<1>4. Cardinality(Units(f, S)) \in Nat
  BY <1>3, FS_CardinalityType
<1>5. Cardinality(Units(f, S) \cup Share(f, x)) =
        Cardinality(Units(f, S)) + Cardinality(Share(f, x))
          - Cardinality(Units(f, S) \cap Share(f, x))
  BY <1>3, FS_Union
<1>6. Cardinality(Units(f, S) \cap Share(f, x)) = 0
  BY <1>2, FS_EmptySet
<1>7. f[x] \in Nat
  OBVIOUS
<1>8. \A n, m \in Nat : n + m - 0 = n + m
  OBVIOUS
<1> QED
  BY <1>1, <1>3, <1>4, <1>5, <1>6, <1>7, <1>8

LEMMA UnitsOfNone ==
    ASSUME NEW f
    PROVE  Cardinality(Units(f, {})) = 0
<1>1. Units(f, {}) = {}
  BY DEF Units
<1> QED
  BY <1>1, FS_EmptySet

\* The fold picks the elements in an order of its own; that it computes this count
\* is shown by the least set for which it does not.
LEMMA TotalIsCount ==
    ASSUME NEW S, IsFiniteSet(S), NEW f, \A j \in S : f[j] \in Nat
    PROVE  Total(f, S) = Cardinality(Units(f, S))
<1> DEFINE Pick(s) == CHOOSE x \in s : TRUE
           Body(h) == [s \in SUBSET S |-> IF s = {} THEN 0 ELSE f[Pick(s)] + h[s \ {Pick(s)}]]
           count == [s \in SUBSET S |-> Cardinality(Units(f, s))]
           iter == CHOOSE h : h = Body(h)
<1>1. \A s \in SUBSET S : s # {} => Pick(s) \in s
  OBVIOUS
<1>2. ASSUME NEW s \in SUBSET S, s # {}
      PROVE  Cardinality(Units(f, s)) = f[Pick(s)] + Cardinality(Units(f, s \ {Pick(s)}))
  <2> DEFINE x == Pick(s)
             r == s \ {x}
  <2>1. x \in s /\ x \notin r /\ s = r \cup {x}
    BY <1>1, <1>2
  <2>2. IsFiniteSet(r)
    BY FS_Subset
  <2>3. \A j \in r \cup {x} : f[j] \in Nat
    BY <2>1
  <2> HIDE DEF x, r
  <2>4. Cardinality(Units(f, r)) \in Nat
    BY <2>2, <2>3, UnitsFinite, FS_CardinalityType
  <2>5. Cardinality(Units(f, r \cup {x})) = Cardinality(Units(f, r)) + f[x]
    BY <2>1, <2>2, <2>3, UnitsOfMore
  <2>6. Cardinality(Units(f, s)) = f[x] + Cardinality(Units(f, r))
    BY <2>1, <2>3, <2>4, <2>5
  <2> QED
    BY <2>6 DEF x, r
<1>3. count = Body(count)
  <2> SUFFICES ASSUME NEW s \in SUBSET S
               PROVE  count[s] = IF s = {} THEN 0 ELSE f[Pick(s)] + count[s \ {Pick(s)}]
    OBVIOUS
  <2>1. CASE s = {}
    BY <2>1, UnitsOfNone
  <2>2. CASE s # {}
    BY <1>2, <2>2
  <2> QED
    BY <2>1, <2>2
<1>4. iter = Body(iter)
  <2> HIDE DEF Body, count
  <2> QED
    BY <1>3
<1>5. Total(f, S) = iter[S]
  BY DEF Total, MapThenSumSet, MapThenFoldSet
<1>6. ASSUME NEW s \in SUBSET S, \A r \in SUBSET S : r \subseteq s /\ r # s => iter[r] = count[r]
      PROVE  iter[s] = count[s]
  <2>1. iter[s] = IF s = {} THEN 0 ELSE f[Pick(s)] + iter[s \ {Pick(s)}]
    <3> HIDE DEF iter
    <3> QED
      BY <1>4
  <2>2. count[s] = IF s = {} THEN 0 ELSE f[Pick(s)] + count[s \ {Pick(s)}]
    <3> HIDE DEF count
    <3> QED
      BY <1>3
  <2>3. s # {} => iter[s \ {Pick(s)}] = count[s \ {Pick(s)}]
    <3>1. s # {} => s \ {Pick(s)} \subseteq s /\ s \ {Pick(s)} # s /\ s \ {Pick(s)} \in SUBSET S
      BY <1>1
    <3> HIDE DEF iter, count
    <3> QED
      BY <1>6, <3>1
  <2> HIDE DEF iter, count
  <2> QED
    BY <2>1, <2>2, <2>3
<1>7. iter[S] = count[S]
  <2> HIDE DEF iter, count
  <2> DEFINE T == {s \in SUBSET S : iter[s] # count[s]}
  <2> SUFFICES ASSUME T # {} PROVE FALSE
    OBVIOUS
  <2>1. IsWellFoundedOn(StrictSubsetOrdering(S), SUBSET S)
    BY FS_StrictSubsetOrderingWellFounded, FS_FiniteSubsetsOfFinite
  <2>2. T \subseteq SUBSET S
    OBVIOUS
  <2>3. PICK s \in T : \A r \in T : ~(<<r, s>> \in StrictSubsetOrdering(S))
    <3> HIDE DEF T
    <3> QED
      BY <2>1, <2>2, WFMin
  <2>4. \A r \in SUBSET S : r \subseteq s /\ r # s => iter[r] = count[r]
    BY <2>3 DEF StrictSubsetOrdering
  <2> QED
    BY <1>6, <2>4
<1> QED
  BY <1>5, <1>7

LEMMA TotalOfNone ==
    ASSUME NEW f
    PROVE  Total(f, {}) = 0
  BY TotalIsCount, UnitsOfNone, FS_EmptySet

LEMMA TotalOfMore ==
    ASSUME NEW S, IsFiniteSet(S), NEW x, x \notin S, NEW f, \A j \in S \cup {x} : f[j] \in Nat
    PROVE  Total(f, S) \in Nat /\ Total(f, S \cup {x}) = Total(f, S) + f[x]
<1>1. IsFiniteSet(S \cup {x})
  BY FS_AddElement
<1>2. /\ Total(f, S) = Cardinality(Units(f, S))
      /\ Total(f, S \cup {x}) = Cardinality(Units(f, S \cup {x}))
  BY <1>1, TotalIsCount
<1>3. Cardinality(Units(f, S)) \in Nat
  BY UnitsFinite, FS_CardinalityType
<1> QED
  BY <1>2, <1>3, UnitsOfMore, ZenonT(30)

LEMMA TotalOfLess ==
    ASSUME NEW S, IsFiniteSet(S), NEW x \in S, NEW f, \A j \in S : f[j] \in Nat
    PROVE  Total(f, S) \in Nat /\ Total(f, S \ {x}) \in Nat /\ f[x] \in Nat
           /\ Total(f, S) = Total(f, S \ {x}) + f[x]
<1> DEFINE r == S \ {x}
<1>1. IsFiniteSet(r) /\ x \notin r /\ r \cup {x} = S
  BY FS_RemoveElement
<1>2. f[x] \in Nat
  OBVIOUS
<1>3. Total(f, r) \in Nat /\ Total(f, r \cup {x}) = Total(f, r) + f[x]
  <2> HIDE DEF r
  <2> QED
    BY <1>1, TotalOfMore
<1>4. Total(f, r) + f[x] \in Nat
  BY <1>2, <1>3
<1> QED
  BY <1>1, <1>2, <1>3, <1>4

-----------------------------------------------------------------------------
(***************************************************************************)
(* Capacity.                                                               *)
(***************************************************************************)

\* The jobs of the runner are those whose goroutines have not returned their
\* share, and none of them is new.
Tracked ==
    /\ pc = "off" => cur = {}
    /\ \A j \in Job : /\ j \in cur <=> track[j] \in {"wait", "resolve", "return"}
                      /\ track[j] # "none" => proc[j] # "none"

\* A counter with a limit is what the running jobs leave of it.
Balanced(max, avail, f) == max > 0 => avail >= 0 /\ avail = max - Total(f, cur)

Counted == pc # "off" => /\ Balanced(MaxProcs, availProcs, Procs)
                         /\ Balanced(MaxMem, availMem, Mem)

Offering == {"offer", "resolve", "claim", "answer"}

OneAtATime == MaxProcs <= 0 /\ MaxMem <= 0

\* What the loop offers, and what it was given for it, is there when it starts the
\* job: goroutines return shares meanwhile, and none is taken.
Offered ==
    /\ pc \in Offering =>
         /\ MaxProcs > 0 => 0 < offer.procs /\ offer.procs <= availProcs
         /\ MaxMem > 0 => 0 < offer.mem /\ offer.mem <= availMem
         /\ OneAtATime => cur = {}
    /\ pc = "answer" => \A j \in inHand : /\ MaxProcs > 0 => Procs[j] <= offer.procs
                                          /\ MaxMem > 0 => Mem[j] <= offer.mem

Single == OneAtATime => cur = {} \/ \E j \in Job : cur = {j}

\* What the steps do to the counters.
SharedKept ==
    /\ UNCHANGED <<cur, availProcs, availMem, track>>
    /\ pc' = "off" <=> pc = "off"

LEMMA SharedKinds ==
    ASSUME [Next]_vars
    PROVE  \/ SharedKept \/ Start \/ Gone
           \/ \E j \in Job : startJob(j) \/ Goroutine(j) \/ ReportLost(j)
<1> USE DEF SharedKept
<1>1. CASE \/ CancelOvertime \/ Decide \/ availableResources \/ ResolveForClaim
           \/ ClaimNextJob \/ NothingClaimed \/ Rest \/ WakeUp \/ Heartbeat \/ ClaimLost
           \/ UNCHANGED vars
  BY <1>1 DEF CancelOvertime, Decide, availableResources, ResolveForClaim, ClaimNextJob,
     NothingClaimed, Rest, WakeUp, Heartbeat, ClaimLost, vars
<1>2. CASE Drain \/ KillAll \/ UserDrains
  BY <1>2 DEF Drain, KillAll, UserDrains
<1>3. CASE LoopTop \/ Die
  BY <1>3 DEF LoopTop, Die
<1>4. ASSUME NEW j \in Job, CheckJob(j) \/ CheckLost(j) \/ failClaimedJob(j) PROVE SharedKept
  BY <1>4 DEF CheckJob, CheckLost, failClaimedJob
<1>5. ASSUME NEW j \in Job,
             KillOne(j) \/ ProcessEnds(j) \/ WalltimePasses(j) \/ UserCancels(j)
      PROVE  SharedKept
  BY <1>5 DEF KillOne, ProcessEnds, WalltimePasses, UserCancels
<1> QED
  BY <1>1, <1>2, <1>3, <1>4, <1>5 DEF Next, Loop

\* A job that has a process keeps having one.
LEMMA ProcStays ==
    ASSUME Sound, [Next]_vars
    PROVE  \A j \in Job : proc[j] # "none" => proc'[j] # "none"
<1>1. TypeOK'
  BY TypeStep DEF Sound
<1>2. ASSUME NEW k \in Job, startJob(k) PROVE \A j \in Job : proc[j] # "none" => proc'[j] # "none"
  BY <1>1, <1>2, StartIsSound DEF Sound, TypeOK
<1> QED
  BY <1>1, <1>2, StepKinds, ClaimIsSound DEF ProcMoves

LEMMA TrackedStep ==
    ASSUME Sound, Tracked, [Next]_vars
    PROVE  Tracked'
<1>0. TypeOK /\ TypeOK' /\ \A j \in Job : proc[j] # "none" => proc'[j] # "none"
  BY TypeStep, ProcStays DEF Sound
<1>1. CASE SharedKept
  BY <1>0, <1>1 DEF Tracked, SharedKept
<1>2. CASE Start
  BY <1>0, <1>2 DEF Tracked, Start
<1>3. CASE Gone
  BY <1>3 DEF Tracked, Gone
<1>4. ASSUME NEW j \in Job, startJob(j) PROVE Tracked'
  <2>1. /\ cur' = cur \cup {j} /\ track' = [track EXCEPT ![j] = "wait"] /\ pc' = "top"
        /\ proc' = [proc EXCEPT ![j] = "running"]
    BY <1>4 DEF startJob
  <2> QED
    BY <1>0, <2>1 DEF Tracked, TypeOK
<1>5. ASSUME NEW j \in Job, Goroutine(j) \/ ReportLost(j) PROVE Tracked'
  <2>0. track \in [Job -> Track] /\ UNCHANGED pc
    BY <1>0, <1>5 DEF TypeOK, Goroutine, Report, ReportLost, ResolveAfterEnd, Return, wake
  <2>1. CASE Report(j) \/ ReportLost(j) \/ ResolveAfterEnd(j)
    <3>1. PICK t \in {"resolve", "return"} : track' = [track EXCEPT ![j] = t]
      BY <2>1 DEF Report, ReportLost, ResolveAfterEnd
    <3>2. track[j] \in {"wait", "resolve"} /\ cur' = cur
      BY <2>1 DEF Report, ReportLost, ResolveAfterEnd
    <3> QED
      BY <1>0, <2>0, <3>1, <3>2 DEF Tracked
  <2>2. CASE Return(j)
    <3>1. track[j] = "return" /\ track' = [track EXCEPT ![j] = "wake"] /\ cur' = cur \ {j}
      BY <2>2 DEF Return
    <3> QED
      BY <1>0, <2>0, <3>1 DEF Tracked
  <2>3. CASE wake(j)
    <3>1. track[j] = "wake" /\ track' = [track EXCEPT ![j] = "none"] /\ cur' = cur
      BY <2>3 DEF wake
    <3> QED
      BY <1>0, <2>0, <3>1 DEF Tracked
  <2> QED
    BY <1>5, <2>1, <2>2, <2>3 DEF Goroutine
<1> QED
  BY <1>1, <1>2, <1>3, <1>4, <1>5, SharedKinds

\* A job that is started takes its share, one that is done gives it back.
LEMMA TakeShare ==
    ASSUME TypeOK, NEW max \in Int, max > 0, NEW avail \in Int, NEW avail2, NEW j \in Job, j \notin cur,
           NEW f \in [Job -> Nat], f[j] <= avail, avail2 = Less(avail, f[j]),
           cur' = cur \cup {j}, avail = max - Total(f, cur)
    PROVE  avail2 >= 0 /\ avail2 = max - Total(f, cur')
<1>1. IsFiniteSet(cur) /\ \A k \in cur \cup {j} : f[k] \in Nat
  BY SimpleAssumption, FS_Subset DEF TypeOK
<1>2. Total(f, cur) \in Nat /\ Total(f, cur \cup {j}) = Total(f, cur) + f[j]
  BY <1>1, TotalOfMore
<1>3. f[j] \in Nat
  OBVIOUS
<1>4. PICK n \in Nat, t \in Nat : n = f[j] /\ t = Total(f, cur)
  BY <1>2, <1>3
<1>5. Total(f, cur') = t + n
  BY <1>2, <1>4
<1>6. avail = max - t /\ n <= avail /\ avail2 = Less(avail, n)
  BY <1>4
<1>7. avail2 = avail - n
  BY <1>6 DEF Less
<1> QED
  BY <1>5, <1>6, <1>7

LEMMA GiveBack ==
    ASSUME TypeOK, NEW j \in cur, NEW f \in [Job -> Nat]
    PROVE  \E n, t \in Nat : f[j] = n /\ Total(f, cur \ {j}) = t /\ Total(f, cur) = t + n
<1>1. IsFiniteSet(cur) /\ \A k \in cur : f[k] \in Nat
  BY SimpleAssumption, FS_Subset DEF TypeOK
<1> QED
  BY <1>1, TotalOfLess

\* The job in hand is none of the running ones.
LEMMA HandIsNotRunning ==
    ASSUME Sound, Tracked, NEW j \in Job, startJob(j)
    PROVE  j \notin cur
  BY DEF startJob, Sound, InHandIsNew, Tracked

\* The goroutine of a job raises the counters.
LEMMA ReturnCounts ==
    ASSUME TypeOK, TypeOK', Tracked, Counted, pc # "off", NEW j \in Job, Return(j)
    PROVE  /\ MaxProcs > 0 => /\ availProcs' >= availProcs /\ availProcs' >= 0
                              /\ availProcs' = MaxProcs - Total(Procs, cur')
           /\ MaxMem > 0 => /\ availMem' >= availMem /\ availMem' >= 0
                            /\ availMem' = MaxMem - Total(Mem, cur')
<1>1. j \in cur /\ cur' = cur \ {j}
  BY DEF Return, Tracked
<1>2. /\ MaxProcs \in Int /\ Procs \in [Job -> Nat] /\ MaxMem \in Int /\ Mem \in [Job -> Nat]
      /\ availProcs \in Int /\ availProcs' \in Int /\ availMem \in Int /\ availMem' \in Int
  BY SimpleAssumption DEF TypeOK
<1>3. ASSUME MaxProcs > 0
      PROVE  /\ availProcs' >= availProcs /\ availProcs' >= 0
             /\ availProcs' = MaxProcs - Total(Procs, cur')
  <2>1. availProcs >= 0 /\ availProcs = MaxProcs - Total(Procs, cur)
    BY <1>3 DEF Counted, Balanced
  <2>2. availProcs' = More(availProcs, Procs[j])
    BY DEF Return
  <2>3. availProcs' >= availProcs /\ availProcs' = MaxProcs - Total(Procs, cur')
    <3>1. PICK n \in Nat, t \in Nat :
            Procs[j] = n /\ Total(Procs, cur \ {j}) = t /\ Total(Procs, cur) = t + n
      BY <1>1, <1>2, GiveBack
    <3>2. availProcs = MaxProcs - (t + n) /\ availProcs' = More(availProcs, n)
      BY <2>1, <2>2, <3>1
    <3>3. availProcs' = availProcs + n
      BY <2>1, <3>2 DEF More
    <3>4. Total(Procs, cur') = t
      BY <1>1, <3>1
    <3> QED
      BY <1>2, <3>2, <3>3, <3>4
  <2>4. availProcs' >= 0
    BY <1>2, <2>1, <2>3
  <2> QED
    BY <2>3, <2>4
<1>4. ASSUME MaxMem > 0
      PROVE  /\ availMem' >= availMem /\ availMem' >= 0
             /\ availMem' = MaxMem - Total(Mem, cur')
  <2>1. availMem >= 0 /\ availMem = MaxMem - Total(Mem, cur)
    BY <1>4 DEF Counted, Balanced
  <2>2. availMem' = More(availMem, Mem[j])
    BY DEF Return
  <2>3. availMem' >= availMem /\ availMem' = MaxMem - Total(Mem, cur')
    <3>1. PICK n \in Nat, t \in Nat :
            Mem[j] = n /\ Total(Mem, cur \ {j}) = t /\ Total(Mem, cur) = t + n
      BY <1>1, <1>2, GiveBack
    <3>2. availMem = MaxMem - (t + n) /\ availMem' = More(availMem, n)
      BY <2>1, <2>2, <3>1
    <3>3. availMem' = availMem + n
      BY <2>1, <3>2 DEF More
    <3>4. Total(Mem, cur') = t
      BY <1>1, <3>1
    <3> QED
      BY <1>2, <3>2, <3>3, <3>4
  <2>4. availMem' >= 0
    BY <1>2, <2>1, <2>3
  <2> QED
    BY <2>3, <2>4
<1> QED
  BY <1>3, <1>4

LEMMA CountedStep ==
    ASSUME Sound, Tracked, Counted, Offered, [Next]_vars
    PROVE  Counted'
<1>0. TypeOK /\ TypeOK'
  BY TypeStep DEF Sound
<1>1. CASE SharedKept
  BY <1>1 DEF Counted, Balanced, SharedKept
<1>2. CASE Start
  <2>1. cur' = {} /\ availProcs' = MaxProcs /\ availMem' = MaxMem
    BY <1>2 DEF Start, Tracked
  <2>2. \A f : Total(f, {}) = 0
    BY TotalOfNone
  <2> QED
    BY <2>1, <2>2, SimpleAssumption DEF Counted, Balanced
<1>3. CASE Gone
  BY <1>3 DEF Counted, Gone
<1>4. ASSUME NEW j \in Job, startJob(j) PROVE Counted'
  <2>1. /\ pc = "answer" /\ j \in inHand /\ cur' = cur \cup {j}
        /\ availProcs' = Less(availProcs, Procs[j])
        /\ availMem' = Less(availMem, Mem[j])
    BY <1>4 DEF startJob
  <2>2. j \notin cur
    BY <1>4, HandIsNotRunning
  <2>3. ASSUME MaxProcs > 0 PROVE availProcs' >= 0 /\ availProcs' = MaxProcs - Total(Procs, cur')
    <3>1. availProcs = MaxProcs - Total(Procs, cur)
      BY <2>1, <2>3 DEF Counted, Balanced
    <3>2. Procs[j] <= availProcs
      <4>1. Procs[j] <= offer.procs /\ offer.procs <= availProcs
        BY <2>1, <2>3 DEF Offered, Offering
      <4> QED
        BY <1>0, <4>1, SimpleAssumption DEF TypeOK
    <3> QED
      BY <1>0, <2>1, <2>2, <2>3, <3>1, <3>2, TakeShare, SimpleAssumption, ZenonT(30) DEF TypeOK
  <2>4. ASSUME MaxMem > 0 PROVE availMem' >= 0 /\ availMem' = MaxMem - Total(Mem, cur')
    <3>1. availMem = MaxMem - Total(Mem, cur)
      BY <2>1, <2>4 DEF Counted, Balanced
    <3>2. Mem[j] <= availMem
      <4>1. Mem[j] <= offer.mem /\ offer.mem <= availMem
        BY <2>1, <2>4 DEF Offered, Offering
      <4> QED
        BY <1>0, <4>1, SimpleAssumption DEF TypeOK
    <3> QED
      BY <1>0, <2>1, <2>2, <2>4, <3>1, <3>2, TakeShare, SimpleAssumption, ZenonT(30) DEF TypeOK
  <2> QED
    BY <2>3, <2>4 DEF Counted, Balanced
<1>5. ASSUME NEW j \in Job, Goroutine(j) \/ ReportLost(j) PROVE Counted'
  <2>1. CASE Return(j)
    <3>1. UNCHANGED pc
      BY <2>1 DEF Return
    <3> QED
      BY <1>0, <2>1, <3>1, ReturnCounts DEF Counted, Balanced
  <2>2. CASE Report(j) \/ ReportLost(j) \/ ResolveAfterEnd(j) \/ wake(j)
    BY <2>2 DEF Report, ReportLost, ResolveAfterEnd, wake, Counted, Balanced
  <2> QED
    BY <1>5, <2>1, <2>2 DEF Goroutine
<1> QED
  BY <1>1, <1>2, <1>3, <1>4, <1>5, SharedKinds

\* Between its look at the counters and a start the loop is on its own with what
\* it was offered; goroutines only return shares.
OfferKept ==
    /\ UNCHANGED <<pc, offer, inHand>>
    /\ UNCHANGED <<cur, availProcs, availMem>> \/ \E j \in Job : Return(j)

LEMMA OfferKinds ==
    ASSUME [Next]_vars
    PROVE  \/ pc' \notin Offering \/ OfferKept
           \/ Decide \/ availableResources \/ ResolveForClaim \/ ClaimNextJob
<1>1. CASE LoopTop \/ CancelOvertime \/ NothingClaimed \/ Rest \/ WakeUp \/ Heartbeat
           \/ Start \/ ClaimLost \/ Die
  BY <1>1 DEF LoopTop, Gone, CancelOvertime, NothingClaimed, Rest, WakeUp, Heartbeat, Start,
     ClaimLost, Die, Offering
<1>2. CASE Drain \/ KillAll \/ UserDrains \/ UNCHANGED vars
  BY <1>2 DEF Drain, KillAll, UserDrains, vars, OfferKept
<1>3. ASSUME NEW j \in Job, CheckJob(j) \/ startJob(j) \/ CheckLost(j) \/ failClaimedJob(j)
      PROVE  pc' \notin Offering
  BY <1>3 DEF CheckJob, startJob, CheckLost, failClaimedJob, Offering
<1>4. ASSUME NEW j \in Job,
             KillOne(j) \/ ProcessEnds(j) \/ WalltimePasses(j) \/ UserCancels(j)
      PROVE  OfferKept
  BY <1>4 DEF KillOne, ProcessEnds, WalltimePasses, UserCancels, OfferKept
<1>5. ASSUME NEW j \in Job, Goroutine(j) \/ ReportLost(j) PROVE OfferKept
  <2>1. CASE Return(j)
    <3>1. UNCHANGED <<pc, offer, inHand>>
      BY <2>1 DEF Return
    <3> QED
      BY <2>1, <3>1 DEF OfferKept
  <2>2. CASE Report(j) \/ ReportLost(j) \/ ResolveAfterEnd(j) \/ wake(j)
    BY <2>2 DEF Report, ReportLost, ResolveAfterEnd, wake, OfferKept
  <2> QED
    BY <1>5, <2>1, <2>2 DEF Goroutine
<1> QED
  BY <1>1, <1>2, <1>3, <1>4, <1>5 DEF Next, Loop

\* What the loop offers is what there is, if there is any (findJob).
LEMMA DecideOffers ==
    ASSUME TypeOK, Counted, Decide, pc' \in Offering
    PROVE  /\ MaxProcs > 0 => 0 < offer'.procs /\ offer'.procs = availProcs
           /\ MaxMem > 0 => 0 < offer'.mem /\ offer'.mem = availMem
           /\ OneAtATime => cur = {}
<1>1. FindJob /\ offer' = [procs |-> availProcs, mem |-> availMem,
                           res |-> [n \in Resource |-> 0]]
  BY DEF Decide, Offering
<1>2. offer'.procs = availProcs /\ offer'.mem = availMem
  BY <1>1
<1>3. pc # "off"
  BY DEF Decide
<1>4. availProcs \in Int /\ availMem \in Int /\ MaxProcs \in Int /\ MaxMem \in Int
  BY SimpleAssumption DEF TypeOK
<1>5. /\ MaxProcs > 0 => availProcs >= 0
      /\ MaxMem > 0 => availMem >= 0
  BY <1>3 DEF Counted, Balanced
<1>6. OneAtATime => cur = {}
  BY <1>1 DEF FindJob, OneAtATime
<1>7. MaxProcs > 0 => 0 < availProcs
  BY <1>1, <1>4, <1>5 DEF FindJob
<1>8. MaxMem > 0 => 0 < availMem
  BY <1>1, <1>4, <1>5 DEF FindJob
<1> QED
  BY <1>2, <1>6, <1>7, <1>8

LEMMA OfferedStep ==
    ASSUME Sound, Tracked, Counted, Offered, [Next]_vars
    PROVE  Offered'
<1>0. TypeOK /\ TypeOK'
  BY TypeStep DEF Sound
<1>t. /\ MaxProcs \in Int /\ MaxMem \in Int /\ Procs \in [Job -> Nat] /\ Mem \in [Job -> Nat]
      /\ availProcs \in Int /\ availMem \in Int /\ availProcs' \in Int /\ availMem' \in Int
      /\ offer.procs \in Int /\ offer.mem \in Int
  BY <1>0, SimpleAssumption DEF TypeOK
<1>1. CASE pc' \notin Offering
  BY <1>1 DEF Offered, Offering
<1>2. CASE OfferKept /\ UNCHANGED <<cur, availProcs, availMem>>
  BY <1>2 DEF OfferKept, Offered
<1>3. ASSUME NEW j \in Job, Return(j), pc \in Offering PROVE Offered'
  <2>1. UNCHANGED <<pc, offer, inHand>> /\ cur' \subseteq cur /\ pc # "off"
    BY <1>3 DEF Return, Offering
  <2>2. /\ MaxProcs > 0 => availProcs' >= availProcs
        /\ MaxMem > 0 => availMem' >= availMem
    BY <1>0, <1>3, <2>1, ReturnCounts
  <2>3. MaxProcs > 0 => 0 < offer'.procs /\ offer'.procs <= availProcs'
    BY <1>3, <1>t, <2>1, <2>2 DEF Offered
  <2>4. MaxMem > 0 => 0 < offer'.mem /\ offer'.mem <= availMem'
    BY <1>3, <1>t, <2>1, <2>2 DEF Offered
  <2> QED
    BY <1>3, <2>1, <2>3, <2>4 DEF Offered
<1>4. CASE Decide /\ pc' \in Offering
  <2>1. pc' # "answer" /\ UNCHANGED <<cur, availProcs, availMem>>
    BY <1>4 DEF Decide
  <2>2. /\ MaxProcs > 0 => 0 < offer'.procs /\ offer'.procs = availProcs
        /\ MaxMem > 0 => 0 < offer'.mem /\ offer'.mem = availMem
        /\ OneAtATime => cur = {}
    BY <1>0, <1>4, DecideOffers
  <2> QED
    BY <1>t, <2>1, <2>2 DEF Offered
<1>5. CASE availableResources
  <2>1. /\ pc = "offer" /\ pc' = "resolve" /\ UNCHANGED <<cur, availProcs, availMem>>
        /\ offer'.procs = offer.procs /\ offer'.mem = offer.mem
    BY <1>5 DEF availableResources
  <2> QED
    BY <2>1 DEF Offered, Offering
<1>6. CASE ResolveForClaim
  BY <1>6 DEF ResolveForClaim, Offered, Offering
<1>7. CASE ClaimNextJob
  <2>1. /\ pc = "claim" /\ pc' = "answer" /\ UNCHANGED <<cur, availProcs, availMem, offer>>
        /\ inHand = {}
    BY <1>7 DEF ClaimNextJob, Sound, InHandIsNew
  <2>2. \A j \in inHand' : j \in Claimable(offer)
    BY <1>7, <2>1 DEF ClaimNextJob
  <2>3. \A j \in inHand' : jobFitsLimits(j, offer)
    BY <2>2 DEF Claimable
  <2>4. /\ MaxProcs > 0 => 0 < offer.procs /\ offer.procs <= availProcs
        /\ MaxMem > 0 => 0 < offer.mem /\ offer.mem <= availMem
        /\ OneAtATime => cur = {}
    BY <2>1 DEF Offered, Offering
  <2>5. \A j \in inHand' : /\ MaxProcs > 0 => Procs[j] <= offer.procs
                           /\ MaxMem > 0 => Mem[j] <= offer.mem
    BY <1>t, <2>3, <2>4 DEF jobFitsLimits
  <2> QED
    BY <2>1, <2>4, <2>5 DEF Offered
<1>8. CASE OfferKept /\ pc' \in Offering
  BY <1>2, <1>3, <1>8 DEF OfferKept
<1> QED
  BY <1>1, <1>4, <1>5, <1>6, <1>7, <1>8, OfferKinds

LEMMA SingleStep ==
    ASSUME Sound, Tracked, Offered, Single, [Next]_vars
    PROVE  Single'
<1>1. CASE cur' \subseteq cur
  BY <1>1 DEF Single
<1>2. CASE SharedKept \/ Gone \/ Start
  BY <1>1, <1>2 DEF SharedKept, Gone, Start
<1>3. ASSUME NEW j \in Job, startJob(j) PROVE Single'
  BY <1>3 DEF startJob, Offered, Offering, Single
<1>4. ASSUME NEW j \in Job, Goroutine(j) \/ ReportLost(j) PROVE cur' \subseteq cur
  BY <1>4 DEF Goroutine, Report, ReportLost, ResolveAfterEnd, Return, wake
<1> QED
  BY <1>1, <1>2, <1>3, <1>4, SharedKinds

\* The counters of procs and memory are exactly what the running jobs leave, never
\* below zero, and with no limits set one job runs at a time: whatever ends, is
\* killed, canceled or lost between the offer of a claim and the start of its job
\* (run, startJob and the completion goroutine, under r.lock).
THEOREM CapacityTheorem == Spec => []CapacityConserved
<1> DEFINE I == Sound /\ Tracked /\ Counted /\ Offered /\ Single
<1>1. Init => I
  <2> SUFFICES ASSUME Init PROVE I
    OBVIOUS
  <2>1. QueuedAfterParents /\ InHandIsNew /\ ReportsAreTrue
    BY DEF Init, QueuedAfterParents, InHandIsNew, ReportsAreTrue
  <2>2. Tracked /\ Counted /\ Offered /\ Single
    BY DEF Init, Tracked, Counted, Offered, Offering, Single
  <2> QED
    BY <2>1, <2>2, TypeInit DEF Sound
<1>2. I /\ [Next]_vars => I'
  BY SoundStep, TrackedStep, CountedStep, OfferedStep, SingleStep
<1>3. I => CapacityConserved
  <2>1. ASSUME Single, OneAtATime PROVE Cardinality(cur) <= 1
    <3>1. CASE cur = {}
      BY <3>1, FS_EmptySet
    <3>2. ASSUME NEW j \in Job, cur = {j} PROVE Cardinality(cur) <= 1
      <4>1. Cardinality({j}) = 1
        BY FS_Singleton
      <4> QED
        BY <3>2, <4>1
    <3> QED
      BY <2>1, <3>1, <3>2 DEF Single
  <2> QED
    BY <2>1 DEF Counted, Balanced, OneAtATime, CapacityConserved
<1> HIDE DEF I
<1> QED
  BY <1>1, <1>2, <1>3, PTL DEF Spec

-----------------------------------------------------------------------------
(***************************************************************************)
(* Countable resources.                                                    *)
(***************************************************************************)

\* Requests name what is advertised: none is for a name that also stands for
\* typed resources.
RequestsAreTyped ==
    \A n \in Resource : (\E j \in Job : Want[j][n] > 0) => Types[n] = {}

\* Once the loop has counted the resources, what it offers is there together with
\* what is reserved, and what it is given fits the offer.
Affordable ==
    /\ \A n \in Resource : Reserved(n) <= Pool[n]
    /\ pc \in {"resolve", "claim", "answer"} =>
         \A n \in Resource : offer.res[n] \in Nat /\ offer.res[n] + Reserved(n) <= Pool[n]
    /\ pc = "answer" =>
         \A j \in inHand, n \in Resource : Want[j][n] <= offer.res[n]

LEMMA ReservedIsNat ==
    ASSUME NEW n \in Resource, NEW S \in SUBSET Job
    PROVE  Total([j \in Job |-> Want[j][n]], S) \in Nat
<1> DEFINE f == [j \in Job |-> Want[j][n]]
<1>1. IsFiniteSet(S) /\ \A k \in S : f[k] \in Nat
  BY SimpleAssumption, FS_Subset
<1>2. Total(f, S) = Cardinality(Units(f, S)) /\ IsFiniteSet(Units(f, S))
  <2> HIDE DEF f
  <2> QED
    BY <1>1, TotalIsCount, UnitsFinite
<1> QED
  BY <1>2, FS_CardinalityType

LEMMA ReservedTypes ==
    ASSUME TypeOK, NEW n \in Resource
    PROVE  /\ Reserved(n) \in Nat /\ Pool[n] \in Nat
           /\ \A j \in Job : Want[j][n] \in Nat
  BY SimpleAssumption, ReservedIsNat DEF Reserved, TypeOK

LEMMA ReservedMore ==
    ASSUME TypeOK, NEW n \in Resource, NEW j \in Job, j \notin cur, cur' = cur \cup {j}
    PROVE  \E r, w \in Nat : Reserved(n) = r /\ Want[j][n] = w /\ Reserved(n)' = r + w
<1> DEFINE f == [k \in Job |-> Want[k][n]]
<1>1. \A k \in Job : f[k] \in Nat
  BY SimpleAssumption
<1>2. IsFiniteSet(cur) /\ \A k \in cur \cup {j} : f[k] \in Nat
  BY <1>1, SimpleAssumption, FS_Subset DEF TypeOK
<1>3. Total(f, cur) \in Nat /\ Total(f, cur \cup {j}) = Total(f, cur) + f[j]
  <2> HIDE DEF f
  <2> QED
    BY <1>2, TotalOfMore
<1>4. f[j] = Want[j][n] /\ f[j] \in Nat
  BY <1>1
<1>5. Reserved(n) = Total(f, cur) /\ Reserved(n)' = Total(f, cur \cup {j})
  BY DEF Reserved
<1> HIDE DEF f
<1> QED
  BY <1>3, <1>4, <1>5

LEMMA ReservedLess ==
    ASSUME TypeOK, NEW n \in Resource, NEW j \in cur, cur' = cur \ {j}
    PROVE  Reserved(n)' <= Reserved(n)
<1> DEFINE f == [k \in Job |-> Want[k][n]]
<1>1. f \in [Job -> Nat]
  BY SimpleAssumption
<1>2. PICK w \in Nat, t \in Nat : f[j] = w /\ Total(f, cur \ {j}) = t /\ Total(f, cur) = t + w
  <2> HIDE DEF f
  <2> QED
    BY <1>1, GiveBack
<1>3. Reserved(n) = t + w /\ Reserved(n)' = t
  <2>1. Reserved(n) = Total(f, cur) /\ Reserved(n)' = Total(f, cur \ {j})
    BY DEF Reserved
  <2> HIDE DEF f
  <2> QED
    BY <1>2, <2>1
<1> QED
  BY <1>3

\* What is left, added to what is reserved, is what is advertised.
LEMMA LeftIsThere ==
    ASSUME TypeOK, NEW n \in Resource, Reserved(n) <= Pool[n]
    PROVE  Left(n) \in Nat /\ Left(n) + Reserved(n) <= Pool[n]
<1>1. PICK r \in Nat, p \in Nat : Reserved(n) = r /\ Pool[n] = p
  BY ReservedTypes
<1>2. Left(n) = p - r
  BY <1>1 DEF Left
<1> QED
  BY <1>1, <1>2

\* The claim fits the resources that are offered under their own names.
LEMMA ClaimFits ==
    ASSUME RequestsAreTyped, TypeOK, NEW n \in Resource, NEW j \in Job,
           offer.res[n] \in Nat, jobFitsResources(j, offer)
    PROVE  Want[j][n] <= offer.res[n]
<1>1. PICK w \in Nat, a \in Nat : Want[j][n] = w /\ offer.res[n] = a
  BY ReservedTypes
<1>2. CASE w = 0
  BY <1>1, <1>2
<1>3. CASE w > 0
  <2>1. Types[n] = {}
    BY <1>1, <1>3 DEF RequestsAreTyped
  <2>2. Total(offer.res, Types[n]) = 0
    BY <2>1, TotalOfNone
  <2>3. Want[j][n] <= offer.res[n] + Total(offer.res, Types[n])
    BY DEF jobFitsResources
  <2>4. w <= a + 0
    BY <1>1, <2>2, <2>3
  <2> QED
    BY <1>1, <2>4
<1> QED
  BY <1>2, <1>3

LEMMA AffordableStep ==
    ASSUME RequestsAreTyped, Sound, Tracked, Affordable, [Next]_vars
    PROVE  Affordable'
<1> DEFINE Late == {"resolve", "claim", "answer"}
<1>0. TypeOK /\ TypeOK'
  BY TypeStep DEF Sound
\* The reserved resources.
<1>1. cur' = cur => \A n \in Resource : Reserved(n)' = Reserved(n)
  BY DEF Reserved
<1>2. ASSUME NEW j \in Job, startJob(j), NEW n \in Resource PROVE Reserved(n)' <= Pool[n]
  <2>1. pc = "answer" /\ j \in inHand /\ cur' = cur \cup {j} /\ j \notin cur
    BY <1>2, HandIsNotRunning DEF startJob
  <2>2. PICK r \in Nat, w \in Nat : Reserved(n) = r /\ Want[j][n] = w /\ Reserved(n)' = r + w
    BY <1>0, <2>1, ReservedMore
  <2>3. PICK a \in Nat, p \in Nat : offer.res[n] = a /\ Pool[n] = p /\ a + r <= p /\ w <= a
    BY <1>0, <2>1, <2>2, ReservedTypes DEF Affordable
  <2>4. r + w <= p
    BY <2>3
  <2> QED
    BY <2>2, <2>3, <2>4
<1>3. ASSUME NEW j \in Job, Return(j), NEW n \in Resource PROVE Reserved(n)' <= Reserved(n)
  <2>1. j \in cur /\ cur' = cur \ {j}
    BY <1>3 DEF Return, Tracked
  <2> QED
    BY <1>0, <2>1, ReservedLess
<1>4. cur' = {} => \A n \in Resource : Reserved(n)' <= Pool[n]
  <2>1. \A f : Total(f, {}) = 0
    BY TotalOfNone
  <2>2. cur' = {} => \A n \in Resource : Reserved(n)' = 0
    BY <2>1 DEF Reserved
  <2> QED
    BY <1>0, <2>2, ReservedTypes
<1>5. \A n \in Resource : /\ Reserved(n) \in Nat /\ Reserved(n)' \in Nat /\ Pool[n] \in Nat
                          /\ Reserved(n) <= Pool[n]
  <2>1. \A n \in Resource : Reserved(n) \in Nat /\ Pool[n] \in Nat /\ Reserved(n) <= Pool[n]
    BY <1>0, ReservedTypes DEF Affordable
  <2>2. \A n \in Resource : Reserved(n)' \in Nat
    BY <1>0, ReservedIsNat DEF Reserved, TypeOK
  <2> QED
    BY <2>1, <2>2
<1>6. \A n \in Resource : Reserved(n)' <= Pool[n]
  <2>1. CASE cur' = cur
    BY <1>1, <1>5, <2>1
  <2>2. ASSUME NEW j \in Job, Return(j) PROVE \A n \in Resource : Reserved(n)' <= Pool[n]
    BY <1>3, <1>5, <2>2
  <2>3. CASE Start \/ Gone
    BY <1>1, <1>4, <1>5, <2>3 DEF Start, Gone
  <2>4. ASSUME NEW j \in Job, Goroutine(j) \/ ReportLost(j) PROVE cur' = cur \/ Return(j)
    BY <2>4 DEF Goroutine, Report, ReportLost, ResolveAfterEnd, wake
  <2> QED
    BY <1>2, <2>1, <2>2, <2>3, <2>4, SharedKinds DEF SharedKept
\* The offer.
<1>7. CASE pc' \notin Late
  BY <1>6, <1>7 DEF Affordable
<1>8. CASE OfferKept /\ pc' \in Late
  <2>1. UNCHANGED <<pc, offer, inHand>>
    BY <1>8 DEF OfferKept
  <2>2. \A n \in Resource : Reserved(n)' <= Reserved(n)
    BY <1>1, <1>3, <1>5, <1>8 DEF OfferKept
  <2>3. ASSUME NEW n \in Resource PROVE offer'.res[n] \in Nat /\ offer'.res[n] + Reserved(n)' <= Pool[n]
    <3>1. offer'.res[n] \in Nat /\ offer'.res[n] + Reserved(n) <= Pool[n]
      BY <1>8, <2>1 DEF Affordable
    <3>2. Reserved(n) \in Nat /\ Reserved(n)' \in Nat /\ Pool[n] \in Nat /\ Reserved(n)' <= Reserved(n)
      BY <1>5, <2>2
    <3> QED
      BY <3>1, <3>2
  <2> QED
    BY <1>6, <2>1, <2>3 DEF Affordable
<1>9. CASE availableResources
  <2>1. offer'.res = [n \in Resource |-> Left(n)] /\ pc' = "resolve" /\ cur' = cur
    BY <1>9 DEF availableResources
  <2>2. ASSUME NEW n \in Resource PROVE offer'.res[n] \in Nat /\ offer'.res[n] + Reserved(n)' <= Pool[n]
    BY <1>0, <1>1, <1>5, <2>1, LeftIsThere
  <2> QED
    BY <1>6, <2>1, <2>2 DEF Affordable
<1>10. CASE ResolveForClaim
  <2>1. pc = "resolve" /\ pc' = "claim" /\ UNCHANGED <<cur, offer>>
    BY <1>10 DEF ResolveForClaim
  <2> QED
    BY <1>1, <1>6, <2>1 DEF Affordable
<1>11. CASE ClaimNextJob
  <2>1. pc = "claim" /\ pc' = "answer" /\ UNCHANGED <<cur, offer>> /\ inHand = {}
    BY <1>11 DEF ClaimNextJob, Sound, InHandIsNew
  <2>2. \A j \in inHand' : j \in Claimable(offer)
    BY <1>11, <2>1 DEF ClaimNextJob
  <2>3. \A j \in inHand' : j \in Job /\ jobFitsResources(j, offer)
    BY <1>0, <2>2, SimpleAssumption DEF Claimable
  <2>4. \A n \in Resource : offer.res[n] \in Nat /\ offer.res[n] + Reserved(n) <= Pool[n]
    BY <2>1 DEF Affordable
  <2>5. \A j \in inHand', n \in Resource : Want[j][n] <= offer.res[n]
    BY <1>0, <2>3, <2>4, ClaimFits
  <2> QED
    BY <1>1, <1>6, <2>1, <2>4, <2>5 DEF Affordable
<1>12. CASE Decide
  BY <1>7, <1>12 DEF Decide
<1> QED
  BY <1>7, <1>8, <1>9, <1>10, <1>11, <1>12, OfferKinds DEF Offering

\* The running jobs never use more of a countable resource than the runner
\* advertises: the claim is made against what was left when the offer was put
\* together, and what ends meanwhile only adds to it (availableResources, the claim
\* and startJob).  Where a request names a family of typed resources the claim
\* counts the family's supply and the runner does not, hence the hypothesis.
THEOREM ResourcesTheorem == RequestsAreTyped /\ Spec => []ResourcesWithinPool
<1> DEFINE I == RequestsAreTyped /\ Sound /\ Tracked /\ Affordable
<1>1. RequestsAreTyped /\ Init => I
  <2> SUFFICES ASSUME RequestsAreTyped, Init PROVE I
    OBVIOUS
  <2>1. QueuedAfterParents /\ InHandIsNew /\ ReportsAreTrue
    BY DEF Init, QueuedAfterParents, InHandIsNew, ReportsAreTrue
  <2>2. Tracked
    BY DEF Init, Tracked
  <2>3. Affordable
    <3>1. \A f : Total(f, {}) = 0
      BY TotalOfNone
    <3>2. cur = {} /\ pc = "off"
      BY DEF Init
    <3>3. \A n \in Resource : Reserved(n) = 0
      BY <3>1, <3>2 DEF Reserved
    <3> QED
      BY <3>2, <3>3, SimpleAssumption DEF Affordable
  <2> QED
    BY <2>1, <2>2, <2>3, TypeInit DEF Sound
<1>2. I /\ [Next]_vars => I'
  BY SoundStep, TrackedStep, AffordableStep DEF RequestsAreTyped
<1>3. I => ResourcesWithinPool
  BY DEF Affordable, ResourcesWithinPool
<1> HIDE DEF I
<1> QED
  BY <1>1, <1>2, <1>3, PTL DEF Spec
=============================================================================
