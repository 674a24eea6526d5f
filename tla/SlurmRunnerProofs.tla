-------------------------- MODULE SlurmRunnerProofs --------------------------
(***************************************************************************)
(* Theorems about SlurmRunner, for every set of jobs, runners and faults.  *)
(***************************************************************************)
EXTENDS SlurmRunner, FiniteSetTheorems, WellFoundedInduction, TLAPS

\* What squeue counts is a number.
LEMMA LiveBudgetType == LiveBudget \in Int
<1>1. IsFiniteSet(SlurmId)
  BY FS_Interval, SlurmAssumption DEF SlurmId
<1>2. IsFiniteSet(SlurmId \X Job)
  BY <1>1, FS_Product, SlurmAssumption
<1>3. IsFiniteSet(LiveInSlurm)
  BY <1>2, FS_Subset DEF LiveInSlurm
<1>4. Cardinality(LiveInSlurm) \in Nat
  BY <1>3, FS_CardinalityType
<1> QED
  BY <1>4, SlurmAssumption DEF LiveBudget

\* The state before the first pass is of its type.
LEMMA TypeInit == Init => TypeOK
  BY SlurmAssumption DEF Init, TypeOK, LiveStatus, EndStatus, DeadStatus, SlurmState,
     InSlurm, SlurmFailed, Pc, NoCommand, SlurmId

USE DEF tables, cluster, hand, Goto

\* Statuses written by the queue's operators are statuses.
LEMMA QueueTypes ==
    ASSUME TypeOK
    PROVE  /\ \A S : Queue!CancelAll(S) \in [Job -> LiveStatus \cup EndStatus]
           /\ \A j \in Job, s \in EndStatus :
                Queue!EndAndCascade(j, s) \in [Job -> LiveStatus \cup EndStatus]
  BY DEF TypeOK, Queue!CancelAll, Queue!EndAndCascade, EndStatus, DeadStatus, LiveStatus

\* A reconciliation works on jobs with the SLURM id on their record, or none.
LEMMA ProxiedType ==
    ASSUME TypeOK
    PROVE  Proxied \subseteq Job \X (SlurmId \cup {0})
  BY DEF TypeOK, Proxied

\* The steps of a pass around its submissions.
LEMMA TypeReconcile ==
    ASSUME TypeOK, NEW p \in Pass,
           \/ Start(p) \/ Updated(p) \/ Exit(p) \/ recoverOrphanedClaims(p)
           \/ NextOrphan(p) \/ UnitDone(p) \/ ClaimAnswered(p)
    PROVE  TypeOK'
<1>1. CASE Start(p)
  BY <1>1, ProxiedType, SlurmAssumption DEF TypeOK, Start, Pc
<1>2. CASE Updated(p)
  BY <1>2 DEF TypeOK, Updated, Pc
<1>3. CASE Exit(p)
  BY <1>3 DEF TypeOK, Exit, Pc
<1>4. CASE recoverOrphanedClaims(p)
  <2>1. Regroup({j \in Job : isOrphanedClaim(p, j)}) \in SUBSET SUBSET Job
    BY DEF Regroup, TasksOf
  <2> QED
    BY <1>4, <2>1 DEF TypeOK, recoverOrphanedClaims, Pc
<1>5. CASE NextOrphan(p)
  BY <1>5 DEF TypeOK, NextOrphan, Pc
<1>6. CASE UnitDone(p)
  BY <1>6 DEF TypeOK, UnitDone, Pc
<1>7. CASE ClaimAnswered(p)
  BY <1>7 DEF TypeOK, ClaimAnswered, Pc
<1> QED
  BY <1>1, <1>2, <1>3, <1>4, <1>5, <1>6, <1>7

\* A hand-off keeps the types of what it writes.
LEMMA RecordHandoffType ==
    ASSUME TypeOK, NEW p \in Pass, NEW j \in Job, NEW n \in SlurmId \cup {0},
           RecordHandoff(p, j, n)
    PROVE  /\ status'  \in [Job -> LiveStatus \cup EndStatus]
           /\ slurmId' \in [Job -> SlurmId \cup {0}]
           /\ owed' \subseteq Pass
  BY DEF TypeOK, RecordHandoff, LiveStatus

\* The steps of the submit loop, and the reports.
LEMMA TypeSubmit ==
    ASSUME TypeOK, NEW p \in Pass,
           \/ GetBudget(p) \/ ClaimNextArrayBatch(p) \/ buildSBatchScript(p)
           \/ SlurmSbatch(p)
           \/ \E j \in Job : cancelJob(p, j)
           \/ \E j \in Job, n \in SlurmId \cup {0} :
                applySlurmState(p, j, n) \/ MarkJobProxied(p, j, n)
    PROVE  TypeOK'
<1>1. CASE GetBudget(p)
  <2>1. CASE Exhausted(p)
    <3>1. LeaveLoop(p) /\ UNCHANGED <<limit, owed>>
      BY <1>1, <2>1 DEF GetBudget
    <3>2. work' \in [Pass -> SUBSET (Job \X (SlurmId \cup {0}))]
      BY <3>1, ProxiedType DEF TypeOK, LeaveLoop
    <3>3. pc' \in [Pass -> Pc]
      BY <3>1 DEF TypeOK, LeaveLoop, Pc
    <3> QED
      BY <1>1, <3>1, <3>2, <3>3 DEF TypeOK, GetBudget
  <2>2. CASE ~Exhausted(p)
    <3>1. MaxTasks(p) \in Nat
      BY <2>2, LiveBudgetType, SlurmAssumption DEF Exhausted, MaxTasks, TypeOK
    <3>2. /\ pc' = [pc EXCEPT ![p] = "claim"]
          /\ limit' = [limit EXCEPT ![p] = MaxTasks(p)]
          /\ owed'  = owed \cup {p}
          /\ UNCHANGED work
      BY <1>1, <2>2 DEF GetBudget
    <3> QED
      BY <1>1, <3>1, <3>2 DEF TypeOK, GetBudget, Pc
  <2> QED
    BY <2>1, <2>2
<1>2. CASE ClaimNextArrayBatch(p)
  <2> DEFINE S == Queue!BatchClaimable(0, limit[p], clampMinArray, FullArray)
  <2>1. CASE LeaveLoop(p) /\ UNCHANGED <<status, owner, host, age, unit, wait>>
    BY <1>2, <2>1, ProxiedType DEF TypeOK, ClaimNextArrayBatch, LeaveLoop, Pc
  <2>2. ASSUME NEW j \in S,
               LET U == Queue!Unit(j, limit[p]) IN
               /\ Queue!claimJobs(RunnerOf[p], U)
               /\ \E h \in [U -> HostsRecorded(p)] :
                    host' = [k \in Job |-> IF k \in U THEN h[k] ELSE host[k]]
               /\ age'  = [k \in Job |-> IF k \in U THEN 0 ELSE age[k]]
               /\ unit' = [unit EXCEPT ![p] = U]
               /\ wait' = [wait EXCEPT ![p] = 0]
               /\ Goto(p, "response")
               /\ UNCHANGED work
        PROVE  TypeOK'
    <3>1. Queue!Unit(j, limit[p]) \in SUBSET Job
      BY <2>2 DEF Queue!Unit, Queue!Batch, Queue!QueuedTasks, Queue!TasksOf,
                  Queue!Queued, Queue!BatchClaimable
    <3>2. host' \in [Job -> Host \cup {NoHost}]
      <4>1. HostsRecorded(p) \subseteq Host \cup {NoHost}
        BY SlurmAssumption DEF HostsRecorded
      <4>2. PICK h \in [Queue!Unit(j, limit[p]) -> HostsRecorded(p)] :
              host' = [k \in Job |-> IF k \in Queue!Unit(j, limit[p]) THEN h[k]
                                      ELSE host[k]]
        BY <2>2
      <4> QED
        BY <4>1, <4>2 DEF TypeOK
    <3>3. /\ status' \in [Job -> LiveStatus \cup EndStatus]
          /\ owner'  \in [Job -> RunnerId \cup {NoRunner}]
      BY <2>2, SlurmAssumption DEF TypeOK, Queue!claimJobs, LiveStatus
    <3>4. 0 \in 0..MinAge
      BY SlurmAssumption
    <3> QED
      BY <1>2, <2>2, <3>1, <3>2, <3>3, <3>4 DEF TypeOK, ClaimNextArrayBatch, Pc
  <2> QED
    BY <1>2, <2>1, <2>2 DEF ClaimNextArrayBatch
<1>3. CASE buildSBatchScript(p)
  <2> DEFINE j == Template(unit[p])
  <2>1. CASE BadParent(j)
    <3>1. /\ pc' = [pc EXCEPT ![p] = "drop"]
          /\ work' = [work EXCEPT ![p] = unit[p] \X {0}]
          /\ UNCHANGED req
      BY <1>3, <2>1 DEF buildSBatchScript
    <3>2. work' \in [Pass -> SUBSET (Job \X (SlurmId \cup {0}))]
      BY <3>1 DEF TypeOK
    <3> QED
      BY <1>3, <3>1, <3>2 DEF TypeOK, buildSBatchScript, Pc
  <2>2. CASE ~BadParent(j)
    <3>1. \A d \in Pending(j) : d \in Job /\ slurmId[d] \in SlurmId
      BY <2>2 DEF BadParent, Pending, TypeOK
    <3>2. slurmAfterOkDirective(j) \in SUBSET (SlurmId \X Job)
      BY <3>1 DEF slurmAfterOkDirective
    <3>3. /\ pc' = [pc EXCEPT ![p] = "sbatch"]
          /\ req' = [req EXCEPT ![p] = slurmAfterOkDirective(j)]
          /\ UNCHANGED work
      BY <1>3, <2>2 DEF buildSBatchScript
    <3> QED
      BY <1>3, <3>2, <3>3 DEF TypeOK, buildSBatchScript, Pc
  <2> QED
    BY <2>1, <2>2
<1>4. CASE SlurmSbatch(p)
  <2>1. PICK n \in Free :
          /\ slurm' = [slurm EXCEPT ![n] = [j \in Job |-> IF j \in unit[p] THEN "PENDING"
                                                          ELSE "NONE"]]
          /\ after' = [after EXCEPT ![n] = req[p]]
          /\ work'  = [work EXCEPT ![p] = unit[p] \X {n}]
    BY <1>4 DEF SlurmSbatch
  <2>2. n \in SlurmId
    BY DEF Free
  <2>3. slurm' \in [SlurmId -> [Job -> SlurmState]]
    BY <2>1, <2>2 DEF TypeOK, SlurmState, InSlurm
  <2>4. work' \in [Pass -> SUBSET (Job \X (SlurmId \cup {0}))]
    BY <2>1, <2>2 DEF TypeOK
  <2>5. after' \in [SlurmId -> SUBSET (SlurmId \X Job)]
    BY <2>1, <2>2 DEF TypeOK
  <2>6. pc' \in [Pass -> Pc] /\ req' \in [Pass -> SUBSET (SlurmId \X Job)]
    BY <1>4 DEF TypeOK, SlurmSbatch, Pc
  <2> QED
    BY <1>4, <2>3, <2>4, <2>5, <2>6 DEF TypeOK, SlurmSbatch
<1>5. ASSUME NEW j \in Job, cancelJob(p, j) PROVE TypeOK'
  BY <1>5, QueueTypes DEF TypeOK, cancelJob
<1>6. ASSUME NEW j \in Job, NEW n \in SlurmId \cup {0}, applySlurmState(p, j, n)
      PROVE  TypeOK'
  <2>1. status' \in [Job -> LiveStatus \cup EndStatus] /\ owed' \subseteq Pass
    <3> DEFINE s == Outcome(slurm[n][j])
    <3>1. CASE n # 0 /\ s # ""
      <4>1. s \in EndStatus
        BY <3>1 DEF Outcome, EndStatus, DeadStatus
      <4>2. EndProxiedJob(p, j, s)
        BY <1>6, <3>1 DEF applySlurmState
      <4> QED
        BY <4>1, <4>2, QueueTypes DEF TypeOK, EndProxiedJob
    <3>2. CASE ~(n # 0 /\ s # "")
      BY <1>6, <3>2 DEF applySlurmState, TypeOK
    <3> QED
      BY <3>1, <3>2
  <2>2. work' \in [Pass -> SUBSET (Job \X (SlurmId \cup {0}))]
    BY <1>6 DEF TypeOK, applySlurmState
  <2> QED
    BY <1>6, <2>1, <2>2 DEF TypeOK, applySlurmState
<1>7. ASSUME NEW j \in Job, NEW n \in SlurmId \cup {0}, MarkJobProxied(p, j, n)
      PROVE  TypeOK'
  <2>1. /\ status'  \in [Job -> LiveStatus \cup EndStatus]
        /\ slurmId' \in [Job -> SlurmId \cup {0}]
        /\ owed' \subseteq Pass
    BY <1>7, RecordHandoffType DEF TypeOK, MarkJobProxied
  <2>2. avail' \in [Pass -> Int] /\ one' \in [Pass -> BOOLEAN] /\ sent' \in [Pass -> Nat]
    <3>1. CASE MarkAllowed(p, j)
      <4>1. /\ avail' = [avail EXCEPT ![p] = Spent(avail[p])]
            /\ one'   = [one EXCEPT ![p] = TRUE]
            /\ sent'  = [sent EXCEPT ![p] = sent[p] + 1]
        BY <1>7, <3>1 DEF MarkJobProxied
      <4>2. Spent(avail[p]) \in Int
        BY DEF Spent, TypeOK
      <4>3. one' \in [Pass -> BOOLEAN]
        BY <4>1 DEF TypeOK
      <4> QED
        BY <4>1, <4>2, <4>3 DEF TypeOK
    <3>2. CASE ~MarkAllowed(p, j)
      BY <1>7, <3>2 DEF TypeOK, MarkJobProxied
    <3> QED
      BY <3>1, <3>2
  <2>3. work' \in [Pass -> SUBSET (Job \X (SlurmId \cup {0}))] /\ wait' \in [Pass -> Nat]
    BY <1>7 DEF TypeOK, MarkJobProxied
  <2> QED
    BY <1>7, <2>1, <2>2, <2>3 DEF TypeOK, MarkJobProxied
<1> QED
  BY <1>1, <1>2, <1>3, <1>4, <1>5, <1>6, <1>7

\* Faults, the server's dependency pass, time, users and SLURM.
LEMMA TypeOther ==
    ASSUME TypeOK,
           \/ \E p \in Pass : PassFault(p) \/ ResolveDependencies(p)
           \/ \E n \in SlurmId, j \in Job : SlurmStep(n, j)
           \/ User \/ Tick
    PROVE  TypeOK'
<1>1. ASSUME NEW p \in Pass, ClaimLost(p) PROVE TypeOK'
  BY <1>1, ProxiedType DEF TypeOK, ClaimLost, LeaveLoop, Pc
<1>2. ASSUME NEW p \in Pass, SbatchFails(p) PROVE TypeOK'
  BY <1>2 DEF TypeOK, SbatchFails, Pc
<1>3. ASSUME NEW p \in Pass, Crash(p) PROVE TypeOK'
  BY <1>3, SlurmAssumption DEF TypeOK, Crash, Pc
<1>4. ASSUME NEW p \in Pass, NEW j \in Job, NEW n \in SlurmId \cup {0},
             ReconcileLost(p, j, n) \/ MarkLost(p, j, n)
      PROVE  TypeOK'
  <2>1. CASE ReconcileLost(p, j, n)
    BY <2>1 DEF TypeOK, ReconcileLost
  <2>2. CASE MarkLost(p, j, n)
    <3>1. /\ status'  \in [Job -> LiveStatus \cup EndStatus]
          /\ slurmId' \in [Job -> SlurmId \cup {0}]
          /\ owed' \subseteq Pass
      BY <2>2, RecordHandoffType DEF TypeOK, MarkLost
    <3> QED
      BY <2>2, <3>1 DEF TypeOK, MarkLost
  <2> QED
    BY <1>4, <2>1, <2>2
<1>5. ASSUME NEW p \in Pass, ResolveDependencies(p) PROVE TypeOK'
  BY <1>5 DEF TypeOK, ResolveDependencies, Queue!ResolveDependencies, LiveStatus,
     EndStatus, DeadStatus
<1>6. ASSUME NEW n \in SlurmId, NEW j \in Job, SlurmStep(n, j) PROVE TypeOK'
  <2>1. PICK s \in SlurmState : SetSlurm(n, j, s)
    BY <1>6 DEF SlurmStep, SlurmStart, SlurmKill, SlurmEnd, SlurmState, InSlurm,
       SlurmFailed
  <2> QED
    BY <2>1 DEF TypeOK, SetSlurm
<1>7. CASE User
  <2>1. ASSUME NEW S \in CancelTarget, CancelFetch(S) PROVE TypeOK'
    <3>1. S \subseteq Job
      BY SlurmAssumption
    <3>2. ScancelTargets(S) \in SUBSET (SlurmId \X Job)
      BY <3>1 DEF ScancelTargets, TypeOK
    <3> QED
      BY <2>1, <3>1, <3>2 DEF TypeOK, CancelFetch
  <2>2. CASE scancel
    BY <2>2 DEF TypeOK, scancel, SlurmState, SlurmFailed
  <2>3. CASE CancelInQueue
    BY <2>3, QueueTypes DEF TypeOK, CancelInQueue, NoCommand
  <2> QED
    BY <1>7, <2>1, <2>2, <2>3 DEF User
<1>8. CASE Tick
  BY <1>8, SlurmAssumption DEF TypeOK, Tick
<1>9. ASSUME NEW p \in Pass, ReadLost(p) PROVE TypeOK'
  <2>1. work' \in [Pass -> SUBSET (Job \X (SlurmId \cup {0}))]
    BY <1>9 DEF TypeOK, ReadLost
  <2>2. orphans' \in [Pass -> SUBSET SUBSET Job]
    BY <1>9, SMTT(30) DEF TypeOK, ReadLost
  <2> QED
    BY <1>9, <2>1, <2>2 DEF TypeOK, ReadLost, Pc
<1>10. ASSUME NEW p \in Pass, SqueueFails(p) PROVE TypeOK'
  BY <1>10 DEF TypeOK, SqueueFails, Pc
<1> QED
  BY <1>1, <1>2, <1>3, <1>4, <1>5, <1>6, <1>7, <1>8, <1>9, <1>10
  DEF PassFault

\* Every step keeps the types.
LEMMA TypeStep == TypeOK /\ [Next]_vars => TypeOK'
<1> SUFFICES ASSUME TypeOK, [Next]_vars PROVE TypeOK'
  OBVIOUS
<1>1. ASSUME NEW p \in Pass, PassStep(p) PROVE TypeOK'
  BY <1>1, TypeReconcile, TypeSubmit DEF PassStep
<1>2. CASE UNCHANGED vars
  BY <1>2 DEF vars, TypeOK
<1> QED
  BY <1>1, <1>2, TypeOther DEF Next

\* Every value the state can take is of its type: SLURM's own state names never
\* get into the jobs table, the afterok directives name submitted tasks only by
\* ids that were recorded, budgets passed to a claim are never negative.
THEOREM TypeTheorem == Spec => []TypeOK
  BY TypeInit, TypeStep, PTL DEF Spec

-----------------------------------------------------------------------------
\* What has ended in SLURM stays as it ended: new submissions take fresh ids,
\* and scancel leaves ended tasks alone.
LEMMA EndsAreKept ==
    ASSUME TypeOK, [Next]_vars, NEW n \in SlurmId, NEW j \in Job,
           slurm[n][j] \in {"COMPLETED", "FAILED", "TIMEOUT"}
    PROVE  slurm'[n][j] = slurm[n][j]
<1>1. ASSUME NEW p \in Pass, SlurmSbatch(p) PROVE slurm'[n][j] = slurm[n][j]
  <2>1. PICK m \in Free :
          slurm' = [slurm EXCEPT ![m] = [k \in Job |-> IF k \in unit[p] THEN "PENDING"
                                                       ELSE "NONE"]]
    BY <1>1 DEF SlurmSbatch
  <2>2. m # n
    BY DEF Free
  <2> QED
    BY <2>1, <2>2 DEF TypeOK, Free
<1>2. ASSUME NEW m \in SlurmId, NEW k \in Job, SlurmStep(m, k)
      PROVE  slurm'[n][j] = slurm[n][j]
  <2>1. slurm[m][k] \in InSlurm
    BY <1>2 DEF SlurmStep, SlurmStart, SlurmKill, SlurmEnd, InSlurm
  <2>2. PICK s : slurm' = [slurm EXCEPT ![m] = [slurm[m] EXCEPT ![k] = s]]
    BY <1>2 DEF SlurmStep, SlurmStart, SlurmKill, SlurmEnd, SetSlurm
  <2> QED
    BY <2>1, <2>2 DEF TypeOK, InSlurm
<1>3. CASE scancel
  BY <1>3 DEF scancel, InSlurm
<1>4. ASSUME NEW p \in Pass, PassStep(p), ~SlurmSbatch(p) PROVE UNCHANGED slurm
  BY <1>4 DEF PassStep, Start, Updated, Exit, recoverOrphanedClaims, NextOrphan,
     GetBudget, ClaimNextArrayBatch, ClaimAnswered, buildSBatchScript, UnitDone,
     cancelJob, applySlurmState, MarkJobProxied
<1>5. ASSUME NEW p \in Pass, PassFault(p) \/ ResolveDependencies(p)
      PROVE  UNCHANGED slurm
  BY <1>5 DEF PassFault, ClaimLost, ReadLost, SqueueFails, SbatchFails, Crash, ReconcileLost, MarkLost,
     ResolveDependencies
<1>6. ASSUME \/ \E S \in CancelTarget : CancelFetch(S)
             \/ CancelInQueue \/ Tick \/ UNCHANGED vars
      PROVE  UNCHANGED slurm
  BY <1>6 DEF CancelFetch, CancelInQueue, Tick, vars
<1> QED
  BY <1>1, <1>2, <1>3, <1>4, <1>5, <1>6 DEF Next, User

\* A job becomes SUCCESS or FAILED only by a report of what sacct says of it.
LEMMA EndsAreReported ==
    ASSUME TypeOK, [Next]_vars, NEW j \in Job,
           status'[j] \in {"SUCCESS", "FAILED"}, status'[j] # status[j]
    PROVE  \E n \in SlurmId : Outcome(slurm[n][j]) = status'[j]
<1>1. ASSUME NEW p \in Pass, NEW k \in Job, NEW n \in SlurmId \cup {0},
             applySlurmState(p, k, n)
      PROVE  \E m \in SlurmId : Outcome(slurm[m][j]) = status'[j]
  <2>1. n # 0 /\ EndProxiedJob(p, k, Outcome(slurm[n][k]))
    BY <1>1 DEF applySlurmState
  <2>2. j = k /\ status'[j] = Outcome(slurm[n][k])
    BY <2>1 DEF EndProxiedJob, TypeOK, Queue!EndAndCascade
  <2> QED
    BY <2>1, <2>2
<1>2. ASSUME NEW S PROVE status' # Queue!CancelAll(S)
  BY DEF Queue!CancelAll, TypeOK
<1>3. ASSUME NEW p \in Pass, NEW k \in Job, NEW n \in SlurmId \cup {0},
             RecordHandoff(p, k, n)
      PROVE  FALSE
  BY <1>3 DEF RecordHandoff, TypeOK
<1>4. ASSUME NEW p \in Pass, ResolveDependencies(p) PROVE FALSE
  BY <1>4 DEF ResolveDependencies, Queue!ResolveDependencies, TypeOK
<1>5. ASSUME NEW p \in Pass, ClaimNextArrayBatch(p) PROVE FALSE
  BY <1>5 DEF ClaimNextArrayBatch, Queue!claimJobs, TypeOK
<1>6. ASSUME NEW p \in Pass, NEW k \in Job, NEW n \in SlurmId \cup {0},
             MarkJobProxied(p, k, n) \/ MarkLost(p, k, n)
      PROVE  FALSE
  BY <1>3, <1>6 DEF MarkJobProxied, MarkLost
<1>7. ASSUME NEW p \in Pass, NEW k \in Job, cancelJob(p, k) PROVE FALSE
  BY <1>2, <1>7 DEF cancelJob
<1>8. CASE CancelInQueue
  BY <1>2, <1>8 DEF CancelInQueue
<1>9. ASSUME NEW p \in Pass,
             \/ Start(p) \/ Updated(p) \/ Exit(p) \/ recoverOrphanedClaims(p)
             \/ NextOrphan(p) \/ GetBudget(p) \/ ClaimAnswered(p)
             \/ buildSBatchScript(p) \/ SlurmSbatch(p) \/ UnitDone(p)
             \/ ClaimLost(p) \/ ReadLost(p) \/ SqueueFails(p) \/ SbatchFails(p)
             \/ Crash(p)
             \/ \E k \in Job, n \in SlurmId \cup {0} : ReconcileLost(p, k, n)
      PROVE  UNCHANGED status
  BY <1>9 DEF Start, Updated, Exit, recoverOrphanedClaims, NextOrphan, GetBudget,
     ClaimAnswered, buildSBatchScript, SlurmSbatch, UnitDone, ClaimLost, ReadLost,
     SqueueFails, SbatchFails,     Crash, ReconcileLost
<1>10. ASSUME \/ \E n \in SlurmId, k \in Job : SlurmStep(n, k)
              \/ \E S \in CancelTarget : CancelFetch(S)
              \/ scancel \/ Tick \/ UNCHANGED vars
       PROVE  UNCHANGED status
  BY <1>10 DEF SlurmStep, SlurmStart, SlurmKill, SlurmEnd, SetSlurm, CancelFetch,
     scancel, Tick, vars
<1> QED
  BY <1>1, <1>4, <1>5, <1>6, <1>7, <1>8, <1>9, <1>10 DEF Next, PassStep, PassFault, User

\* SUCCESS and FAILED in the queue are what SLURM said, whatever is lost, late
\* or submitted twice.
THEOREM StatusTheorem == Spec => []StatusMatchesSlurm
<1>1. Init => StatusMatchesSlurm
  BY DEF Init, StatusMatchesSlurm
<1>2. TypeOK /\ StatusMatchesSlurm /\ [Next]_vars => StatusMatchesSlurm'
  <2> SUFFICES ASSUME TypeOK, StatusMatchesSlurm, [Next]_vars, NEW j \in Job
               PROVE  /\ status'[j] = "SUCCESS" =>
                            \E n \in SlurmId : slurm'[n][j] = "COMPLETED"
                      /\ status'[j] = "FAILED" =>
                            \E n \in SlurmId : slurm'[n][j] \in {"FAILED", "TIMEOUT"}
    BY DEF StatusMatchesSlurm
  <2>1. CASE status'[j] = status[j]
    BY <2>1, EndsAreKept DEF StatusMatchesSlurm
  <2>2. CASE status'[j] # status[j]
    BY <2>2, EndsAreReported, EndsAreKept DEF Outcome
  <2> QED
    BY <2>1, <2>2
<1> QED
  BY <1>1, <1>2, TypeTheorem, PTL DEF Spec

-----------------------------------------------------------------------------
(***************************************************************************)
(* What the runner, the recovery and batchq cancel do to the tables, seen  *)
(* through JobLifecycle.                                                   *)
(***************************************************************************)

\* A cascade reaches live jobs only.
LEMMA CascadeLive ==
    ASSUME TypeOK, NEW P
    PROVE  \A j \in Queue!LiveDescendants(P) : j \in Job /\ status[j] \in LiveStatus
<1> DEFINE D == {j \in Job : status[j] \in LiveStatus}
<1>1. D \in SUBSET Job /\ Queue!IsClosed(P, D)
  BY DEF Queue!IsClosed, Queue!Live, TypeOK, LiveStatus, EndStatus, DeadStatus
<1> QED
  BY <1>1 DEF Queue!LiveDescendants

\* The walk of a cascade misses no live dependent of what it reached.
LEMMA CascadeClosed ==
    ASSUME NEW P
    PROVE  Queue!IsClosed(P, Queue!LiveDescendants(P))
<1> SUFFICES ASSUME NEW j \in Job, status[j] \in Queue!Live,
                    Parents[j] \cap (P \cup Queue!LiveDescendants(P)) # {},
                    NEW D \in SUBSET Job, Queue!IsClosed(P, D)
             PROVE  j \in D
  BY DEF Queue!IsClosed, Queue!LiveDescendants
<1>1. Queue!LiveDescendants(P) \subseteq D
  BY DEF Queue!LiveDescendants
<1> QED
  BY <1>1 DEF Queue!IsClosed

\* The statuses and owners after a step are of the types of JobLifecycle.
LEMMA LifecycleType ==
    ASSUME TypeOK'
    PROVE  Lifecycle!TypeOK'
  BY SlurmAssumption DEF TypeOK, LiveStatus, EndStatus, DeadStatus, Lifecycle!TypeOK,
     Lifecycle!Status, Lifecycle!Live, Lifecycle!Terminal, Lifecycle!Dead

\* A set of live jobs that dies with all its live dependents.
LEMMA DeathIsKill ==
    ASSUME TypeOK, NEW C, UNCHANGED owner,
           \A j \in C : j \in Job /\ status[j] \in LiveStatus /\ status'[j] \in DeadStatus,
           \A j \in Job : status[j] \in LiveStatus /\ Parents[j] \cap C # {} => j \in C,
           \A j \in Job : j \notin C => status'[j] = status[j]
    PROVE  Lifecycle!Kill
<1>1. \A j \in Job : j \in Lifecycle!Changed <=> j \in C
  BY DEF Lifecycle!Changed, LiveStatus, DeadStatus
<1>2. \A j \in Job : status[j] \in Lifecycle!Live => status[j] \in LiveStatus
  BY DEF TypeOK, Lifecycle!Live, LiveStatus, EndStatus, DeadStatus
<1>3. \A j \in Job : Parents[j] \subseteq Job
  BY SlurmAssumption
<1>4. \A j \in Job : Parents[j] \cap Lifecycle!Changed = Parents[j] \cap C
  BY <1>1, <1>3 DEF Lifecycle!Changed
<1>5. \A j \in Lifecycle!Changed : j \in Job
  BY DEF Lifecycle!Changed
<1> QED
  BY <1>1, <1>2, <1>4, <1>5 DEF Lifecycle!Kill, Lifecycle!Live, Lifecycle!Dead,
     LiveStatus, DeadStatus

\* A cancel, by a user or of a unit that could not be submitted.
LEMMA CancelIsKill ==
    ASSUME TypeOK, NEW P \in SUBSET Job, status' = Queue!CancelAll(P), UNCHANGED owner
    PROVE  Lifecycle!Kill
<1> DEFINE C == {j \in P : status[j] \in Queue!Live} \cup Queue!LiveDescendants(P)
<1>1. status' = [j \in Job |-> IF j \in C THEN "CANCELED" ELSE status[j]]
  BY DEF Queue!CancelAll
<1>2. \A j \in C : j \in Job /\ status[j] \in LiveStatus
  BY CascadeLive DEF Queue!Live, TypeOK, LiveStatus, EndStatus, DeadStatus
<1>3. \A j \in Job : status[j] \in LiveStatus /\ Parents[j] \cap C # {} => j \in C
  BY CascadeClosed DEF Queue!IsClosed, Queue!Live, LiveStatus
<1>4. "CANCELED" \in DeadStatus
  BY DEF DeadStatus
<1> HIDE DEF C
<1> QED
  BY <1>1, <1>2, <1>3, <1>4, DeathIsKill

\* A failure or a cancellation that SLURM reports.
LEMMA FailureIsKill ==
    ASSUME TypeOK, NEW k \in Job, status[k] \in LiveStatus, NEW s \in DeadStatus,
           status' = Queue!EndAndCascade(k, s), UNCHANGED owner
    PROVE  Lifecycle!Kill
<1> DEFINE C == {k} \cup Queue!LiveDescendants({k})
<1>1. \A j \in Job : status'[j] = IF j = k THEN s
                                  ELSE IF j \in C THEN "CANCELED" ELSE status[j]
  BY DEF Queue!EndAndCascade
<1>2. \A j \in C : j \in Job /\ status[j] \in LiveStatus
  BY CascadeLive
<1>3. \A j \in Job : status[j] \in LiveStatus /\ Parents[j] \cap C # {} => j \in C
  BY CascadeClosed DEF Queue!IsClosed, Queue!Live, LiveStatus
<1>4. k \in C /\ "CANCELED" \in DeadStatus
  BY DEF DeadStatus
<1> HIDE DEF C
<1> QED
  BY <1>1, <1>2, <1>3, <1>4, DeathIsKill

\* A dependency pass promotes or cancels waiting jobs, and nothing else.
LEMMA ResolveMoves ==
    ASSUME TypeOK, Queue!ResolveDependencies
    PROVE  \A j \in Job : status'[j] # status[j] =>
             /\ status[j] = "WAITING"
             /\ \/ status'[j] = "CANCELED"
                \/ /\ status'[j] = "QUEUED"
                   /\ \A d \in Parents[j] : status[d] \in {"SUCCESS", "PROXYQUEUED"}
<1>1. PICK C \in Queue!CanceledByPass :
        status' = [j \in Job |-> IF j \in C THEN "CANCELED"
                                 ELSE IF j \in Queue!Ready THEN "QUEUED"
                                 ELSE status[j]]
  BY DEF Queue!ResolveDependencies
<1>2. \A j \in C : status[j] = "WAITING"
  BY <1>1 DEF Queue!CanceledByPass, Queue!Waiting
<1>3. \A j \in Queue!Ready :
        /\ status[j] = "WAITING"
        /\ \A d \in Parents[j] : status[d] \in {"SUCCESS", "PROXYQUEUED"}
  BY DEF Queue!Ready, Queue!Waiting, Queue!Satisfied
<1> QED
  BY <1>1, <1>2, <1>3

\* A dependency pass, in JobLifecycle's terms.
LEMMA ResolveIsSettle ==
    ASSUME TypeOK, Queue!ResolveDependencies, UNCHANGED owner
    PROVE  Lifecycle!Settle
<1>1. PICK C \in Queue!CanceledByPass :
        status' = [j \in Job |-> IF j \in C THEN "CANCELED"
                                 ELSE IF j \in Queue!Ready THEN "QUEUED"
                                 ELSE status[j]]
  BY DEF Queue!ResolveDependencies
<1>2. \A j \in C : j \in Job /\ status[j] = "WAITING" /\ status'[j] = "CANCELED"
  BY <1>1 DEF Queue!CanceledByPass, Queue!Waiting
<1>3. ASSUME NEW j \in C PROVE \E d \in Parents[j] : status'[d] \in Lifecycle!Dead
  <2>1. CASE j \in Queue!Doomed
    <3>1. PICK d \in Parents[j] : status[d] \in Queue!Dead
      BY <2>1 DEF Queue!Doomed
    <3>2. d \in Job
      BY <1>2, SlurmAssumption
    <3>3. status'[d] = status[d]
      BY <3>1, <3>2, ResolveMoves DEF Queue!Dead
    <3> QED
      BY <3>1, <3>3 DEF Queue!Dead, Lifecycle!Dead
  <2>2. CASE j \notin Queue!Doomed
    BY <1>2, <2>2 DEF Queue!CanceledByPass, Lifecycle!Dead
  <2> QED
    BY <2>1, <2>2
<1>4. ASSUME NEW j \in Lifecycle!Changed
      PROVE  /\ status[j] = "WAITING"
             /\ \/ /\ status'[j] = "QUEUED"
                   /\ \A d \in Parents[j] : status[d] \in Lifecycle!Satisfied
                \/ /\ status'[j] = "CANCELED"
                   /\ \E d \in Parents[j] : status'[d] \in Lifecycle!Dead
  <2>1. j \in Job /\ status'[j] # status[j]
    BY DEF Lifecycle!Changed
  <2>2. /\ status[j] = "WAITING"
        /\ \/ status'[j] = "CANCELED"
           \/ /\ status'[j] = "QUEUED"
              /\ \A d \in Parents[j] : status[d] \in {"SUCCESS", "PROXYQUEUED"}
    BY <2>1, ResolveMoves
  <2>3. status'[j] = "CANCELED" => j \in C
    BY <1>1, <2>1, <2>2
  <2> QED
    BY <1>3, <2>2, <2>3 DEF Lifecycle!Satisfied
<1> QED
  BY <1>4 DEF Lifecycle!Settle

\* What a claim takes is queued and nobody's.
LEMMA UnitIsFree ==
    ASSUME NEW m, NEW t, NEW full, NEW j \in Queue!BatchClaimable(0, m, t, full),
           NEW k \in Queue!Unit(j, m)
    PROVE  k \in Job /\ status[k] = "QUEUED" /\ owner[k] = NoRunner
  BY DEF Queue!BatchClaimable, Queue!Unit, Queue!Batch, Queue!QueuedTasks,
     Queue!TasksOf, Queue!Queued

\* The claim of a unit.
LEMMA ClaimIsClaim ==
    ASSUME TypeOK, NEW p \in Pass, NEW U,
           \A k \in U : k \in Job /\ status[k] = "QUEUED" /\ owner[k] = NoRunner,
           Queue!claimJobs(RunnerOf[p], U)
    PROVE  Lifecycle!Claim
<1>1. /\ status' = [j \in Job |-> IF j \in U THEN "RUNNING" ELSE status[j]]
      /\ owner' = [j \in Job |-> IF j \in U THEN RunnerOf[p] ELSE owner[j]]
  BY DEF Queue!claimJobs
<1>2. \A j \in Lifecycle!Changed : j \in U
  BY <1>1 DEF Lifecycle!Changed
<1>3. \A j \in Job : j \notin Lifecycle!Changed => j \notin U
  BY <1>1 DEF Lifecycle!Changed
<1>4. RunnerOf[p] \in RunnerId
  BY SlurmAssumption
<1> QED
  BY <1>1, <1>2, <1>3, <1>4 DEF Lifecycle!Claim

\* A hand-off, the first or a repeated one.
LEMMA HandoffIsAdvance ==
    ASSUME TypeOK, NEW p \in Pass, NEW j \in Job, NEW n, MarkAllowed(p, j),
           RecordHandoff(p, j, n), UNCHANGED owner
    PROVE  Lifecycle!Advance
<1>1. \A k \in Lifecycle!Changed : k = j
  BY DEF Lifecycle!Changed, RecordHandoff, TypeOK
<1>2. status'[j] = "PROXYQUEUED"
  BY DEF RecordHandoff, TypeOK
<1> QED
  BY <1>1, <1>2 DEF Lifecycle!Advance, Lifecycle!Changed, MarkAllowed

\* The report of an end in SLURM.
LEMMA ReportIsAllowed ==
    ASSUME TypeOK, NEW p \in Pass, NEW j \in Job, NEW s \in EndStatus,
           EndProxiedJob(p, j, s), UNCHANGED owner
    PROVE  UNCHANGED status \/ Lifecycle!Advance \/ Lifecycle!Kill
<1>1. CASE status[j] = "PROXYQUEUED" /\ s = "SUCCESS"
  <2>1. status' = [status EXCEPT ![j] = "SUCCESS"]
    BY <1>1 DEF EndProxiedJob
  <2>2. \A k \in Lifecycle!Changed : k = j /\ status'[j] = "SUCCESS"
    BY <2>1 DEF Lifecycle!Changed, TypeOK
  <2> QED
    BY <1>1, <2>2 DEF Lifecycle!Advance
<1>2. CASE status[j] = "PROXYQUEUED" /\ s # "SUCCESS"
  <2>1. status' = Queue!EndAndCascade(j, s) /\ s \in DeadStatus
    BY <1>2 DEF EndProxiedJob, EndStatus
  <2>2. status[j] \in LiveStatus
    BY <1>2 DEF LiveStatus
  <2> QED
    BY <2>1, <2>2, FailureIsKill
<1>3. CASE status[j] # "PROXYQUEUED"
  BY <1>3 DEF EndProxiedJob
<1> QED
  BY <1>1, <1>2, <1>3

\* Each step does to the tables one of the things JobLifecycle allows.
LEMMA LifecycleStep ==
    ASSUME TypeOK, [Next]_vars
    PROVE  \/ UNCHANGED <<status, owner>>
           \/ Lifecycle!Kill \/ Lifecycle!Settle \/ Lifecycle!Claim \/ Lifecycle!Advance
<1>1. ASSUME NEW p \in Pass, ResolveDependencies(p) PROVE Lifecycle!Settle
  BY <1>1, ResolveIsSettle DEF ResolveDependencies
<1>2. ASSUME NEW p \in Pass, ClaimNextArrayBatch(p)
      PROVE  UNCHANGED <<status, owner>> \/ Lifecycle!Claim
  <2>1. CASE UNCHANGED <<status, owner>>
    BY <2>1
  <2>2. CASE ~UNCHANGED <<status, owner>>
    <3>1. PICK j \in Queue!BatchClaimable(0, limit[p], clampMinArray, FullArray) :
            Queue!claimJobs(RunnerOf[p], Queue!Unit(j, limit[p]))
      BY <1>2, <2>2 DEF ClaimNextArrayBatch
    <3>2. \A k \in Queue!Unit(j, limit[p]) :
            k \in Job /\ status[k] = "QUEUED" /\ owner[k] = NoRunner
      BY UnitIsFree
    <3> QED
      BY <3>1, <3>2, ClaimIsClaim
  <2> QED
    BY <2>1, <2>2
<1>3. ASSUME NEW p \in Pass, NEW j \in Job, cancelJob(p, j)
      PROVE  UNCHANGED <<status, owner>> \/ Lifecycle!Kill
  <2>1. UNCHANGED owner /\ (UNCHANGED status \/ status' = Queue!CancelAll({j}))
    BY <1>3 DEF cancelJob
  <2>2. {j} \in SUBSET Job
    OBVIOUS
  <2> QED
    BY <2>1, <2>2, CancelIsKill
<1>4. ASSUME NEW p \in Pass, NEW j \in Job, NEW n \in SlurmId \cup {0},
             applySlurmState(p, j, n)
      PROVE  UNCHANGED <<status, owner>> \/ Lifecycle!Advance \/ Lifecycle!Kill
  <2> DEFINE s == Outcome(slurm[n][j])
  <2>1. UNCHANGED owner /\ (UNCHANGED status \/ (s # "" /\ EndProxiedJob(p, j, s)))
    BY <1>4 DEF applySlurmState
  <2>2. s # "" => s \in EndStatus
    BY DEF Outcome, EndStatus, DeadStatus
  <2> HIDE DEF s
  <2> QED
    BY <2>1, <2>2, ReportIsAllowed
<1>5. ASSUME NEW p \in Pass, NEW j \in Job, NEW n \in SlurmId \cup {0},
             MarkJobProxied(p, j, n) \/ MarkLost(p, j, n)
      PROVE  UNCHANGED <<status, owner>> \/ Lifecycle!Advance
  <2>1. /\ UNCHANGED owner
        /\ \/ UNCHANGED status
           \/ MarkAllowed(p, j) /\ RecordHandoff(p, j, n)
    BY <1>5 DEF MarkJobProxied, MarkLost
  <2> QED
    BY <2>1, HandoffIsAdvance
<1>6. CASE CancelInQueue
  <2>1. user.tasks \in SUBSET Job
    BY DEF TypeOK
  <2> QED
    BY <1>6, <2>1, CancelIsKill DEF CancelInQueue
<1>7. ASSUME NEW p \in Pass,
             \/ Start(p) \/ Updated(p) \/ Exit(p) \/ recoverOrphanedClaims(p)
             \/ NextOrphan(p) \/ GetBudget(p) \/ ClaimAnswered(p)
             \/ buildSBatchScript(p) \/ SlurmSbatch(p) \/ UnitDone(p)
             \/ ClaimLost(p) \/ ReadLost(p) \/ SqueueFails(p) \/ SbatchFails(p)
             \/ Crash(p)
             \/ \E k \in Job, n \in SlurmId \cup {0} : ReconcileLost(p, k, n)
      PROVE  UNCHANGED <<status, owner>>
  BY <1>7 DEF Start, Updated, Exit, recoverOrphanedClaims, NextOrphan, GetBudget,
     ClaimAnswered, buildSBatchScript, SlurmSbatch, UnitDone, ClaimLost, ReadLost,
     SqueueFails, SbatchFails, Crash, ReconcileLost
<1>8. ASSUME \/ \E n \in SlurmId, k \in Job : SlurmStep(n, k)
             \/ \E S \in CancelTarget : CancelFetch(S)
             \/ scancel \/ Tick \/ UNCHANGED vars
      PROVE  UNCHANGED <<status, owner>>
  BY <1>8 DEF SlurmStep, SlurmStart, SlurmKill, SlurmEnd, SetSlurm, CancelFetch,
     scancel, Tick, vars
<1> QED
  BY <1>1, <1>2, <1>3, <1>4, <1>5, <1>6, <1>7, <1>8
  DEF Next, PassStep, PassFault, User

\* All that claims, hand-offs, reconciliations, recoveries, dropped units and
\* batchq cancel do to the tables is allowed by the storage's abstract
\* specification, also when they act on lists or answers that are out of date.
THEOREM LifecycleTheorem == Spec => LifecycleRespected
<1>1. TypeOK /\ [Next]_vars => [Lifecycle!Next]_<<status, owner>>
  BY LifecycleStep, TypeStep, LifecycleType DEF Lifecycle!Next
<1> QED
  BY <1>1, TypeTheorem, PTL DEF Spec, LifecycleRespected

-----------------------------------------------------------------------------
(***************************************************************************)
(* The two budgets: --max-jobs and --slurm-max-jobs.                       *)
(***************************************************************************)

\* A set of numbers has a least element.
LEMMA LeastOf ==
    ASSUME NEW S, S \subseteq Nat, S # {}
    PROVE  \E n \in S : \A m \in S : n <= m
<1>1. PICK n \in S : \A m \in S : ~(<<m, n>> \in OpToRel(<, Nat))
  BY NatLessThanWellFounded, WFMin
<1>2. \A m \in S : ~(m < n)
  BY <1>1 DEF OpToRel
<1> QED
  BY <1>2

\* The task with the most predecessors of those that have fewer than m has all
\* the others before it: there are at most m of them.
LEMMA FewBefore ==
    ASSUME NEW F, IsFiniteSet(F), NEW index, \A j \in F : index[j] \in Nat,
           \A j, k \in F : j # k => index[j] # index[k],
           NEW m \in Nat, NEW B,
           B = {j \in F : Cardinality({k \in F : index[k] < index[j]}) < m}
    PROVE  IsFiniteSet(B) /\ Cardinality(B) <= m
<1> DEFINE Before(j) == {k \in F : index[k] < index[j]}
<1>0. B = {j \in F : Cardinality(Before(j)) < m}
  OBVIOUS
<1>1. \A j \in F : IsFiniteSet(Before(j)) /\ Cardinality(Before(j)) \in Nat
  BY FS_Subset, FS_CardinalityType
<1>2. IsFiniteSet(B) /\ Cardinality(B) \in Nat
  BY FS_Subset, FS_CardinalityType
<1>5. \A j \in B : j \in F /\ Cardinality(Before(j)) < m
  BY <1>0
<1>3. CASE B = {}
  <2>1. Cardinality({}) = 0
    BY FS_EmptySet, Zenon
  <2>2. Cardinality(B) = 0
    BY <1>3, <2>1
  <2> QED
    BY <1>2, <2>2
<1>4. CASE B # {}
  <2> DEFINE Rest == {m - Cardinality(Before(j)) : j \in B}
  <2>1. Rest \subseteq Nat /\ Rest # {}
    <3>1. ASSUME NEW j \in B PROVE m - Cardinality(Before(j)) \in Nat
      <4>1. Cardinality(Before(j)) \in Nat /\ Cardinality(Before(j)) < m
        BY <1>1, <1>5
      <4> HIDE DEF Before
      <4> QED
        BY <4>1
    <3> HIDE DEF Before
    <3> QED
      BY <1>4, <3>1
  <2>2. PICK r \in Rest : \A s \in Rest : r <= s
    <3> HIDE DEF Rest
    <3> QED
      BY <2>1, LeastOf
  <2>3. PICK b \in B : r = m - Cardinality(Before(b))
    BY <2>2
  <2>4. ASSUME NEW k \in B, k # b PROVE k \in Before(b)
    <3>1. SUFFICES ASSUME index[b] < index[k] PROVE FALSE
      BY <1>5, <2>4
    <3>2. Before(b) \cup {b} \subseteq Before(k)
      BY <1>5, <3>1
    <3>3. b \notin Before(b)
      OBVIOUS
    <3>4. Cardinality(Before(b) \cup {b}) = Cardinality(Before(b)) + 1
      BY <1>1, <1>5, <3>3, FS_AddElement
    <3>5. Cardinality(Before(b) \cup {b}) <= Cardinality(Before(k))
      BY <1>1, <1>5, <3>2, FS_Subset
    <3>6. m - Cardinality(Before(k)) \in Rest
      OBVIOUS
    <3>7. m - Cardinality(Before(b)) <= m - Cardinality(Before(k))
      BY <2>2, <2>3, <3>6
    <3> HIDE DEF Before, Rest
    <3>8. Cardinality(Before(b)) \in Nat /\ Cardinality(Before(k)) \in Nat
      BY <1>1, <1>5
    <3> QED
      BY <3>4, <3>5, <3>7, <3>8
  <2>5. B \subseteq Before(b) \cup {b}
    BY <2>4
  <2>10. b \notin Before(b)
    BY <1>5
  <2>6. /\ IsFiniteSet(Before(b) \cup {b})
        /\ Cardinality(Before(b) \cup {b}) = Cardinality(Before(b)) + 1
    <3>1. IsFiniteSet(Before(b))
      BY <1>1, <1>5
    <3> HIDE DEF Before
    <3> QED
      BY <2>10, <3>1, FS_AddElement
  <2>7. Cardinality(B) <= Cardinality(Before(b) \cup {b})
    BY <2>5, <2>6, FS_Subset
  <2>8. Cardinality(Before(b)) < m /\ Cardinality(Before(b)) \in Nat
    BY <1>1, <1>5
  <2> HIDE DEF Before
  <2> QED
    BY <1>2, <2>6, <2>7, <2>8
<1> QED
  BY <1>3, <1>4

\* The queue counts as everybody does.
LEMMA QueueCardinality ==
    ASSUME NEW S PROVE Queue!Cardinality(S) = Cardinality(S)
  BY DEF Queue!Cardinality, Cardinality

\* A claim takes no more than its limit, where it has one.
LEMMA UnitSize ==
    ASSUME NEW m \in Nat, NEW t, NEW full,
           NEW j \in Queue!BatchClaimable(0, m, t, full)
    PROVE  /\ IsFiniteSet(Queue!Unit(j, m))
           /\ m > 0 => Cardinality(Queue!Unit(j, m)) <= m
<1> DEFINE U == Queue!Unit(j, m)
<1>1. U \in SUBSET Job
  BY UnitIsFree
<1>2. IsFiniteSet(U)
  BY <1>1, SlurmAssumption, FS_Subset
<1>3. CASE ArrayOf[j] = NoArray
  <2>1. U = {j}
    BY <1>3 DEF Queue!Unit
  <2>2. Cardinality({j}) = 1
    BY FS_Singleton
  <2> HIDE DEF U
  <2>3. m > 0 => Cardinality(U) <= m
    BY <2>1, <2>2
  <2> QED
    BY <1>2, <2>3 DEF U
<1>4. CASE ArrayOf[j] # NoArray /\ m > 0
  <2> DEFINE F == {k \in Queue!QueuedTasks(ArrayOf[j]) : owner[k] = NoRunner}
             B == {k \in F : Cardinality({i \in F : ArrayIndex[i] < ArrayIndex[k]}) < m}
  <2>1. F \in SUBSET Job /\ \A k \in F : ArrayOf[k] = ArrayOf[j]
    BY DEF Queue!QueuedTasks, Queue!TasksOf
  <2>2. IsFiniteSet(F)
    BY <2>1, SlurmAssumption, FS_Subset
  <2>3. /\ \A k \in F : ArrayIndex[k] \in Nat
        /\ \A k, i \in F : k # i => ArrayIndex[k] # ArrayIndex[i]
    BY <1>4, <2>1, SlurmAssumption
  <2>4. U \subseteq B
    <3>1. U = Queue!Batch(ArrayOf[j], m)
      BY <1>4 DEF Queue!Unit
    <3>2. m # 0
      BY <1>4
    <3> QED
      BY <3>1, <3>2, QueueCardinality DEF Queue!Batch
  <2> HIDE DEF F
  <2>5. IsFiniteSet(B) /\ Cardinality(B) <= m
    BY <1>4, <2>2, <2>3, FewBefore
  <2> HIDE DEF B, U
  <2>6. Cardinality(U) <= Cardinality(B) /\ Cardinality(U) \in Nat /\ Cardinality(B) \in Nat
    BY <1>2, <2>4, <2>5, FS_Subset, FS_CardinalityType
  <2>7. Cardinality(U) <= m
    BY <2>5, <2>6
  <2> QED
    BY <1>2, <2>7 DEF U
<1> QED
  BY <1>2, <1>3, <1>4

\* What a pass has in hand, and what it counts.
Mine(q) == <<pc[q], unit[q], req[q], work[q], orphans[q]>>
Counts(q) == <<limit[q], avail[q], sent[q], wait[q]>>

\* A pass touches nothing that belongs to another pass.
LEMMA OthersKeepTheirs ==
    ASSUME TypeOK, NEW p \in Pass, NEW q \in Pass, p # q, PassStep(p) \/ PassFault(p)
    PROVE  UNCHANGED Mine(q) /\ UNCHANGED Counts(q)
<1> USE DEF Mine, Counts, TypeOK
<1>1. CASE Start(p) \/ Updated(p) \/ Exit(p) \/ recoverOrphanedClaims(p)
  BY <1>1 DEF Start, Updated, Exit, recoverOrphanedClaims
<1>2. CASE NextOrphan(p) \/ ClaimAnswered(p) \/ UnitDone(p)
  BY <1>2 DEF NextOrphan, ClaimAnswered, UnitDone
<1>3. CASE GetBudget(p)
  BY <1>3 DEF GetBudget, LeaveLoop
<1>4. CASE ClaimNextArrayBatch(p)
  BY <1>4 DEF ClaimNextArrayBatch, LeaveLoop
<1>5. CASE buildSBatchScript(p)
  BY <1>5 DEF buildSBatchScript
<1>6. CASE SlurmSbatch(p) \/ SbatchFails(p)
  BY <1>6 DEF SlurmSbatch, SbatchFails
<1>7. ASSUME NEW j \in Job, NEW n \in SlurmId \cup {0},
             cancelJob(p, j) \/ applySlurmState(p, j, n) \/ ReconcileLost(p, j, n)
      PROVE  UNCHANGED Mine(q) /\ UNCHANGED Counts(q)
  BY <1>7 DEF cancelJob, applySlurmState, ReconcileLost
<1>8. ASSUME NEW j \in Job, NEW n \in SlurmId \cup {0},
             MarkJobProxied(p, j, n) \/ MarkLost(p, j, n)
      PROVE  UNCHANGED Mine(q) /\ UNCHANGED Counts(q)
  BY <1>8 DEF MarkJobProxied, MarkLost
<1>9. CASE ClaimLost(p)
  BY <1>9 DEF ClaimLost, LeaveLoop
<1>10. CASE ReadLost(p) \/ SqueueFails(p)
  BY <1>10 DEF ReadLost, SqueueFails
<1>11. CASE Crash(p)
  BY <1>11 DEF Crash
<1> QED
  BY <1>1, <1>2, <1>3, <1>4, <1>5, <1>6, <1>7, <1>8, <1>9, <1>10, <1>11
  DEF PassStep, PassFault

\* The server, SLURM and users touch nothing that belongs to a pass.
LEMMA WorldKeepsPasses ==
    ASSUME TypeOK, NEW q \in Pass,
           \/ \E p \in Pass : ResolveDependencies(p)
           \/ \E n \in SlurmId, j \in Job : SlurmStep(n, j)
           \/ User \/ Tick \/ UNCHANGED vars
    PROVE  /\ UNCHANGED Mine(q)
           /\ limit'[q] = limit[q] /\ avail'[q] = avail[q] /\ sent'[q] = sent[q]
  BY DEF Mine, ResolveDependencies, SlurmStep, SlurmStart, SlurmKill, SlurmEnd, SetSlurm,
     User, CancelFetch, scancel, CancelInQueue, Tick, vars

(***************************************************************************)
(* --max-jobs: what is left and what was handed over make up the cap, and  *)
(* nothing is left once more than the cap was handed over.                 *)
(***************************************************************************)
CapKept(q) ==
    /\ pc[q] = "off" => sent[q] = 0
    /\ pc[q] # "off" => /\ avail[q] >= 0
                        /\ avail[q] + sent[q] >= MaxJobs
                        /\ avail[q] > 0 => avail[q] + sent[q] = MaxJobs
    /\ pc[q] = "claim" => limit[q] > 0 /\ limit[q] <= avail[q]

\* A step that leaves the counts alone, and does not go to a claim.
LEMMA CapQuiet ==
    ASSUME NEW q, CapKept(q), pc[q] # "off", pc'[q] \notin {"off", "claim"},
           avail'[q] = avail[q], sent'[q] = sent[q]
    PROVE  CapKept(q)'
  BY DEF CapKept

\* A pass keeps its own books.
LEMMA CapOwnStep ==
    ASSUME MaxJobs >= 0, TypeOK, NEW p \in Pass, CapKept(p), PassStep(p) \/ PassFault(p)
    PROVE  CapKept(p)'
<1>0. MaxJobs \in Int /\ avail[p] \in Int /\ sent[p] \in Nat
  BY SlurmAssumption DEF TypeOK
<1>1. CASE Start(p)
  <2>1. pc'[p] = "update" /\ avail'[p] = MaxJobs /\ sent'[p] = sent[p] /\ sent[p] = 0
    BY <1>1 DEF Start, TypeOK, CapKept
  <2> QED
    BY <1>0, <2>1 DEF CapKept
<1>2. CASE Updated(p) \/ recoverOrphanedClaims(p) \/ NextOrphan(p) \/ ClaimAnswered(p)
  <2>1. /\ pc[p] # "off" /\ pc'[p] \notin {"off", "claim"}
        /\ avail'[p] = avail[p] /\ sent'[p] = sent[p]
    BY <1>2 DEF Updated, recoverOrphanedClaims, NextOrphan, ClaimAnswered, TypeOK
  <2> QED
    BY <2>1, CapQuiet
<1>3. CASE buildSBatchScript(p) \/ SlurmSbatch(p) \/ SbatchFails(p) \/ UnitDone(p)
  <2>1. /\ pc[p] # "off" /\ pc'[p] \notin {"off", "claim"}
        /\ avail'[p] = avail[p] /\ sent'[p] = sent[p]
    BY <1>3 DEF buildSBatchScript, SlurmSbatch, SbatchFails, UnitDone, TypeOK
  <2> QED
    BY <2>1, CapQuiet
<1>4. CASE ClaimNextArrayBatch(p) \/ ClaimLost(p) \/ ReadLost(p) \/ SqueueFails(p)
  <2>1. /\ pc[p] # "off" /\ pc'[p] \notin {"off", "claim"}
        /\ avail'[p] = avail[p] /\ sent'[p] = sent[p]
    BY <1>4 DEF ClaimNextArrayBatch, ClaimLost, ReadLost, SqueueFails, LeaveLoop, TypeOK
  <2> QED
    BY <2>1, CapQuiet
<1>5. ASSUME NEW j \in Job, NEW n \in SlurmId \cup {0},
             \/ cancelJob(p, j) \/ applySlurmState(p, j, n) \/ ReconcileLost(p, j, n)
             \/ MarkLost(p, j, n)
      PROVE  CapKept(p)'
  <2>1. /\ pc[p] # "off" /\ pc'[p] \notin {"off", "claim"}
        /\ avail'[p] = avail[p] /\ sent'[p] = sent[p]
    BY <1>5 DEF cancelJob, applySlurmState, ReconcileLost, MarkLost
  <2> QED
    BY <2>1, CapQuiet
<1>6. CASE Exit(p) \/ Crash(p)
  <2>1. pc'[p] = "off" /\ sent'[p] = 0
    BY <1>6 DEF Exit, Crash, TypeOK
  <2> QED
    BY <2>1 DEF CapKept
<1>7. CASE GetBudget(p)
  <2>1. pc[p] = "next" /\ avail'[p] = avail[p] /\ sent'[p] = sent[p]
    BY <1>7 DEF GetBudget
  <2>2. CASE Exhausted(p)
    <3>1. pc'[p] = "finish"
      BY <1>7, <2>2 DEF GetBudget, LeaveLoop, TypeOK
    <3> QED
      BY <2>1, <3>1, CapQuiet
  <2>3. CASE ~Exhausted(p)
    <3>1. pc'[p] = "claim" /\ limit'[p] = MaxTasks(p)
      BY <1>7, <2>3 DEF GetBudget, TypeOK
    <3>2. avail[p] > 0
      BY <1>0, <2>1, <2>3 DEF Exhausted, CapKept
    <3>3. MaxTasks(p) > 0 /\ MaxTasks(p) <= avail[p]
      BY <1>0, <2>3, <3>2, LiveBudgetType DEF MaxTasks, Exhausted
    <3> QED
      BY <1>0, <2>1, <3>1, <3>2, <3>3 DEF CapKept
  <2> QED
    BY <2>2, <2>3
<1>8. ASSUME NEW j \in Job, NEW n \in SlurmId \cup {0}, MarkJobProxied(p, j, n)
      PROVE  CapKept(p)'
  <2>1. pc[p] = "mark" /\ pc'[p] = "mark"
    BY <1>8 DEF MarkJobProxied
  <2>2. \/ avail'[p] = avail[p] /\ sent'[p] = sent[p]
        \/ avail'[p] = Spent(avail[p]) /\ sent'[p] = sent[p] + 1
    BY <1>8 DEF MarkJobProxied, TypeOK
  <2> QED
    BY <1>0, <2>1, <2>2 DEF CapKept, Spent
<1> QED
  BY <1>1, <1>2, <1>3, <1>4, <1>5, <1>6, <1>7, <1>8 DEF PassStep, PassFault

LEMMA CapStep ==
    ASSUME MaxJobs >= 0, TypeOK, \A q \in Pass : CapKept(q), [Next]_vars
    PROVE  \A q \in Pass : CapKept(q)'
<1> SUFFICES ASSUME NEW q \in Pass PROVE CapKept(q)'
  OBVIOUS
<1>1. ASSUME pc'[q] = pc[q], limit'[q] = limit[q], avail'[q] = avail[q],
             sent'[q] = sent[q]
      PROVE  CapKept(q)'
  BY <1>1 DEF CapKept
<1>2. ASSUME NEW p \in Pass, PassStep(p) \/ PassFault(p) PROVE CapKept(q)'
  <2>1. CASE p = q
    BY <1>2, <2>1, CapOwnStep
  <2>2. CASE p # q
    BY <1>1, <1>2, <2>2, OthersKeepTheirs DEF Mine, Counts
  <2> QED
    BY <2>1, <2>2
<1>3. ASSUME \/ \E p \in Pass : ResolveDependencies(p)
             \/ \E n \in SlurmId, j \in Job : SlurmStep(n, j)
             \/ User \/ Tick \/ UNCHANGED vars
      PROVE  CapKept(q)'
  BY <1>1, <1>3, WorldKeepsPasses DEF Mine
<1> QED
  BY <1>2, <1>3 DEF Next

\* --max-jobs holds for every invocation, also when its recovery hands over more
\* than the cap before the first claim: the count never gets to the -1 that
\* means unlimited, and no claim takes more than is left.
THEOREM CapTheorem == Spec => InvocationCap
<1> DEFINE I == MaxJobs >= 0 => \A q \in Pass : CapKept(q)
<1>1. Init => I
  BY DEF Init, CapKept
<1>2. TypeOK /\ I /\ [Next]_vars => I'
  BY CapStep
<1>3. ASSUME TypeOK, I, Next, MaxJobs >= 0, NEW p \in Pass, pc[p] = "claim",
             pc'[p] = "response"
      PROVE  sent[p] + Cardinality(unit'[p]) <= MaxJobs
  <2>1. ClaimNextArrayBatch(p)
    <3>1. ASSUME NEW q \in Pass, PassStep(q) \/ PassFault(q), q # p PROVE FALSE
      BY <1>3, <3>1, OthersKeepTheirs DEF Mine
    <3>2. ASSUME \/ \E q \in Pass : ResolveDependencies(q)
                 \/ \E n \in SlurmId, j \in Job : SlurmStep(n, j)
                 \/ User \/ Tick
          PROVE  FALSE
      BY <1>3, <3>2, WorldKeepsPasses DEF Mine
    <3>3. PassStep(p) \/ PassFault(p)
      BY <1>3, <3>1, <3>2 DEF Next
    <3> QED
      BY <1>3, <3>3 DEF PassStep, PassFault, Start, Updated, Exit, recoverOrphanedClaims,
         NextOrphan, GetBudget, ClaimAnswered, buildSBatchScript, SlurmSbatch, UnitDone,
         cancelJob, applySlurmState, MarkJobProxied, ClaimLost, ReadLost, SqueueFails,
         SbatchFails, Crash, ReconcileLost, MarkLost, TypeOK
  <2>2. PICK j \in Queue!BatchClaimable(0, limit[p], clampMinArray, FullArray) :
          unit'[p] = Queue!Unit(j, limit[p])
    BY <1>3, <2>1 DEF ClaimNextArrayBatch, LeaveLoop, TypeOK
  <2>3. limit[p] \in Nat /\ sent[p] \in Nat /\ avail[p] \in Int /\ MaxJobs \in Int
    BY <1>3, SlurmAssumption DEF TypeOK
  <2>4. limit[p] > 0 /\ limit[p] <= avail[p] /\ avail[p] + sent[p] = MaxJobs
    BY <1>3, <2>3 DEF CapKept
  <2>5. Cardinality(unit'[p]) <= limit[p] /\ Cardinality(unit'[p]) \in Nat
    BY <2>2, <2>3, <2>4, UnitSize, FS_CardinalityType
  <2> QED
    BY <2>3, <2>4, <2>5
<1>4. TypeOK /\ I /\ [Next]_vars =>
        [\A p \in Pass : MaxJobs >= 0 /\ pc[p] = "claim" /\ pc'[p] = "response" =>
           sent[p] + Cardinality(unit'[p]) <= MaxJobs]_vars
  BY <1>3
<1> HIDE DEF I
<1> QED
  BY <1>1, <1>2, <1>4, TypeTheorem, PTL DEF Spec, InvocationCap

(***************************************************************************)
(* --slurm-max-jobs: from squeue to sbatch, what is live in SLURM and what *)
(* the pass may still send there fit into the limit together.              *)
(***************************************************************************)
\* One runner at a time, which recovers nothing.
OneRunnerNoRecovery ==
    /\ \A p, q \in Pass : p = q
    /\ RecoverOrphans = {} /\ RecoverHostless = {}

LiveCount == Cardinality(LiveInSlurm)

RoomKept ==
    /\ LiveCount <= MaxUserJobs
    /\ \A q \in Pass :
         /\ orphans[q] = {} /\ pc[q] # "recover"
         /\ pc[q] = "claim" => limit[q] > 0 /\ LiveCount + limit[q] <= MaxUserJobs
         /\ pc[q] \in {"response", "build", "sbatch"} =>
              LiveCount + Cardinality(unit[q]) <= MaxUserJobs

LEMMA TasksCount ==
    ASSUME NEW S \in SUBSET (SlurmId \X Job)
    PROVE  IsFiniteSet(S) /\ Cardinality(S) \in Nat
<1>1. IsFiniteSet(SlurmId)
  BY FS_Interval, SlurmAssumption DEF SlurmId
<1>2. IsFiniteSet(SlurmId \X Job)
  BY <1>1, FS_Product, SlurmAssumption
<1> QED
  BY <1>2, FS_Subset, FS_CardinalityType

LEMMA JobsCount ==
    ASSUME NEW S \in SUBSET Job
    PROVE  IsFiniteSet(S) /\ Cardinality(S) \in Nat
  BY FS_Subset, FS_CardinalityType, SlurmAssumption

\* Only an sbatch brings tasks into SLURM.
LEMMA LiveShrinks ==
    ASSUME TypeOK, [Next]_vars, \A p \in Pass : ~SlurmSbatch(p)
    PROVE  LiveInSlurm' \subseteq LiveInSlurm
<1>1. ASSUME NEW m \in SlurmId, NEW k \in Job, SlurmStep(m, k)
      PROVE  LiveInSlurm' \subseteq LiveInSlurm
  <2>1. slurm[m][k] \in InSlurm
    BY <1>1 DEF SlurmStep, SlurmStart, SlurmKill, SlurmEnd, InSlurm
  <2>2. PICK s : slurm' = [slurm EXCEPT ![m] = [slurm[m] EXCEPT ![k] = s]]
    BY <1>1 DEF SlurmStep, SlurmStart, SlurmKill, SlurmEnd, SetSlurm
  <2>3. ASSUME NEW n \in SlurmId, NEW j \in Job, slurm'[n][j] \in InSlurm
        PROVE  slurm[n][j] \in InSlurm
    BY <2>1, <2>2, <2>3 DEF TypeOK
  <2> QED
    BY <2>3 DEF LiveInSlurm
<1>2. CASE scancel
  BY <1>2 DEF scancel, InSlurm, LiveInSlurm
<1>3. ASSUME NEW p \in Pass, PassStep(p) PROVE UNCHANGED slurm
  BY <1>3 DEF PassStep, Start, Updated, Exit, recoverOrphanedClaims, NextOrphan,
     GetBudget, ClaimNextArrayBatch, ClaimAnswered, buildSBatchScript, UnitDone,
     cancelJob, applySlurmState, MarkJobProxied
<1>4. ASSUME NEW p \in Pass, PassFault(p) \/ ResolveDependencies(p)
      PROVE  UNCHANGED slurm
  BY <1>4 DEF PassFault, ClaimLost, ReadLost, SqueueFails, SbatchFails, Crash,
     ReconcileLost, MarkLost, ResolveDependencies
<1>5. ASSUME \/ \E S \in CancelTarget : CancelFetch(S)
             \/ CancelInQueue \/ Tick \/ UNCHANGED vars
      PROVE  UNCHANGED slurm
  BY <1>5 DEF CancelFetch, CancelInQueue, Tick, vars
<1>6. UNCHANGED slurm => LiveInSlurm' \subseteq LiveInSlurm
  BY DEF LiveInSlurm
<1> QED
  BY <1>1, <1>2, <1>3, <1>4, <1>5, <1>6 DEF Next, User

LEMMA CountShrinks ==
    ASSUME LiveInSlurm' \subseteq LiveInSlurm
    PROVE  LiveCount \in Nat /\ LiveCount' \in Nat /\ LiveCount' <= LiveCount
<1>1. LiveInSlurm \in SUBSET (SlurmId \X Job) /\ LiveInSlurm' \in SUBSET (SlurmId \X Job)
  BY DEF LiveInSlurm
<1> HIDE DEF LiveInSlurm
<1> QED
  BY <1>1, TasksCount, FS_Subset DEF LiveCount

\* An sbatch brings in the tasks of its unit.
LEMMA SbatchAdds ==
    ASSUME TypeOK, NEW p \in Pass, SlurmSbatch(p)
    PROVE  /\ LiveCount \in Nat /\ LiveCount' \in Nat
           /\ LiveCount' <= LiveCount + Cardinality(unit[p])
<1>1. PICK n \in Free :
        slurm' = [slurm EXCEPT ![n] = [j \in Job |-> IF j \in unit[p] THEN "PENDING"
                                                     ELSE "NONE"]]
  BY DEF SlurmSbatch
<1>2. n \in SlurmId /\ unit[p] \in SUBSET Job
  BY DEF Free, TypeOK
<1>3. LiveInSlurm' \subseteq LiveInSlurm \cup ({n} \X unit[p])
  <2>1. ASSUME NEW t \in LiveInSlurm', t \notin LiveInSlurm
        PROVE  t \in {n} \X unit[p]
    <3>1. PICK m \in SlurmId, j \in Job : t = <<m, j>>
      BY <2>1 DEF LiveInSlurm
    <3>2. slurm'[m][j] \in InSlurm /\ slurm[m][j] \notin InSlurm
      BY <2>1, <3>1 DEF LiveInSlurm
    <3>3. m = n /\ j \in unit[p]
      BY <1>1, <1>2, <3>2 DEF TypeOK, InSlurm
    <3> QED
      BY <3>1, <3>3
  <2> QED
    BY <2>1
<1>4. LiveInSlurm \in SUBSET (SlurmId \X Job) /\ LiveInSlurm' \in SUBSET (SlurmId \X Job)
  BY DEF LiveInSlurm
<1> DEFINE N == {n} \X unit[p]
<1>5. IsFiniteSet(unit[p]) /\ Cardinality(unit[p]) \in Nat
  BY <1>2, JobsCount
<1>6. IsFiniteSet({n}) /\ Cardinality({n}) = 1
  BY FS_Singleton
<1>7. IsFiniteSet(N) /\ Cardinality(N) = 1 * Cardinality(unit[p])
  BY <1>5, <1>6, FS_Product
<1>8. Cardinality(N) = Cardinality(unit[p])
  BY <1>5, <1>7
<1> HIDE DEF N, LiveInSlurm
<1>9. /\ IsFiniteSet(LiveInSlurm) /\ Cardinality(LiveInSlurm) \in Nat
      /\ IsFiniteSet(LiveInSlurm') /\ Cardinality(LiveInSlurm') \in Nat
  BY <1>4, TasksCount
<1>10. /\ IsFiniteSet(LiveInSlurm \cup N) /\ IsFiniteSet(LiveInSlurm \cap N)
       /\ Cardinality(LiveInSlurm \cup N) =
            Cardinality(LiveInSlurm) + Cardinality(N) - Cardinality(LiveInSlurm \cap N)
       /\ Cardinality(LiveInSlurm \cap N) \in Nat
  BY <1>7, <1>9, FS_Union, FS_Intersection, FS_CardinalityType
<1>11. Cardinality(LiveInSlurm') <= Cardinality(LiveInSlurm \cup N)
  BY <1>3, <1>10, FS_Subset DEF N
<1>12. Cardinality(LiveInSlurm \cup N) \in Nat
  BY <1>10, FS_CardinalityType
<1> QED
  BY <1>5, <1>8, <1>9, <1>10, <1>11, <1>12 DEF LiveCount

\* A step after which the pass is on its way neither to a claim nor to an sbatch.
LEMMA RoomQuiet ==
    ASSUME TypeOK, RoomKept, MaxUserJobs \in Int, LiveInSlurm' \subseteq LiveInSlurm,
           \A q \in Pass :
             /\ orphans'[q] = {}
             /\ pc'[q] \notin {"recover", "claim", "response", "build", "sbatch"}
    PROVE  RoomKept'
<1>1. LiveCount \in Nat /\ LiveCount' \in Nat /\ LiveCount' <= LiveCount
  BY CountShrinks
<1>2. LiveCount' <= MaxUserJobs
  BY <1>1 DEF RoomKept
<1> QED
  BY <1>2 DEF RoomKept

\* A step of anyone else than the runner: SLURM's queue gets shorter, if anything.
LEMMA RoomOthers ==
    ASSUME TypeOK, RoomKept, MaxUserJobs \in Int, LiveInSlurm' \subseteq LiveInSlurm,
           \A q \in Pass : UNCHANGED Mine(q) /\ limit'[q] = limit[q]
    PROVE  RoomKept'
<1>1. LiveCount \in Nat /\ LiveCount' \in Nat /\ LiveCount' <= LiveCount
  BY CountShrinks
<1>2. LiveCount' <= MaxUserJobs
  BY <1>1 DEF RoomKept
<1>3. ASSUME NEW q \in Pass
      PROVE  /\ orphans'[q] = {} /\ pc'[q] # "recover"
             /\ pc'[q] = "claim" => limit'[q] > 0 /\ LiveCount' + limit'[q] <= MaxUserJobs
             /\ pc'[q] \in {"response", "build", "sbatch"} =>
                  LiveCount' + Cardinality(unit'[q]) <= MaxUserJobs
  <2>1. /\ pc'[q] = pc[q] /\ unit'[q] = unit[q] /\ orphans'[q] = orphans[q]
        /\ limit'[q] = limit[q]
    BY DEF Mine
  <2>2. limit[q] \in Nat /\ Cardinality(unit[q]) \in Nat
    BY JobsCount DEF TypeOK
  <2> QED
    BY <1>1, <2>1, <2>2 DEF RoomKept
<1> QED
  BY <1>2, <1>3 DEF RoomKept

LEMMA RoomOwnStep ==
    ASSUME OneRunnerNoRecovery, MaxUserJobs > 0, TypeOK, RoomKept, TypeOK',
           NEW p \in Pass, PassStep(p) \/ PassFault(p)
    PROVE  RoomKept'
<1>0. MaxUserJobs \in Int /\ \A q \in Pass : q = p
  BY SlurmAssumption DEF OneRunnerNoRecovery
<1>1. orphans[p] = {} /\ pc[p] # "recover" /\ ~Recovering(p)
  BY DEF RoomKept, OneRunnerNoRecovery, Recovering
<1>2. ~SlurmSbatch(p) => LiveInSlurm' \subseteq LiveInSlurm
  BY <1>0, LiveShrinks DEF Next
<1>3. LiveCount \in Nat /\ limit[p] \in Nat /\ Cardinality(unit[p]) \in Nat
      /\ Cardinality(unit'[p]) \in Nat
  <2>1. LiveInSlurm \in SUBSET (SlurmId \X Job)
    BY DEF LiveInSlurm
  <2> HIDE DEF LiveInSlurm
  <2> QED
    BY <2>1, TasksCount, JobsCount DEF LiveCount, TypeOK
\* What the new state must satisfy, on the way to an sbatch.
<1>4. ASSUME LiveCount' \in Nat, LiveCount' <= MaxUserJobs,
             orphans'[p] = {}, pc'[p] # "recover",
             pc'[p] = "claim" => limit'[p] > 0 /\ LiveCount' + limit'[p] <= MaxUserJobs,
             pc'[p] \in {"response", "build", "sbatch"} =>
                  LiveCount' + Cardinality(unit'[p]) <= MaxUserJobs
      PROVE  RoomKept'
  BY <1>0, <1>4 DEF RoomKept
<1>5. CASE \/ Start(p) \/ Updated(p) \/ Exit(p) \/ UnitDone(p) \/ SbatchFails(p)
           \/ SqueueFails(p) \/ Crash(p) \/ ReadLost(p) \/ ClaimLost(p)
  <2>1. /\ pc'[p] \notin {"recover", "claim", "response", "build", "sbatch"}
        /\ orphans'[p] = {}
    BY <1>1, <1>5 DEF Start, Updated, Exit, UnitDone, SbatchFails, SqueueFails, Crash,
       ReadLost, ClaimLost, LeaveLoop, TypeOK
  <2>2. ~SlurmSbatch(p)
    BY <1>5, <2>1 DEF Start, Updated, Exit, UnitDone, SbatchFails, SqueueFails, Crash,
       ReadLost, ClaimLost, LeaveLoop, SlurmSbatch, TypeOK
  <2> QED
    BY <1>0, <1>2, <2>1, <2>2, RoomQuiet
<1>6. ASSUME NEW j \in Job, NEW n \in SlurmId \cup {0},
             \/ cancelJob(p, j) \/ applySlurmState(p, j, n) \/ ReconcileLost(p, j, n)
             \/ MarkLost(p, j, n) \/ MarkJobProxied(p, j, n)
      PROVE  RoomKept'
  <2>1. /\ pc'[p] \notin {"recover", "claim", "response", "build", "sbatch"}
        /\ orphans'[p] = {} /\ ~SlurmSbatch(p)
    BY <1>1, <1>6 DEF cancelJob, applySlurmState, ReconcileLost, MarkLost,
       MarkJobProxied, SlurmSbatch
  <2> QED
    BY <1>0, <1>2, <2>1, RoomQuiet
<1>7. CASE recoverOrphanedClaims(p) \/ NextOrphan(p)
  BY <1>1, <1>7 DEF recoverOrphanedClaims, NextOrphan
<1>8. CASE GetBudget(p)
  <2>1. UNCHANGED slurm /\ orphans'[p] = {}
    BY <1>1, <1>8 DEF GetBudget
  <2>2. LiveInSlurm' = LiveInSlurm
    BY <2>1 DEF LiveInSlurm
  <2>3. LiveCount' = LiveCount
    BY <2>2 DEF LiveCount
  <2>4. CASE Exhausted(p)
    <3>1. pc'[p] = "finish"
      BY <1>8, <2>4 DEF GetBudget, LeaveLoop, TypeOK
    <3> QED
      BY <1>0, <2>1, <2>2, <3>1, RoomQuiet
  <2>5. CASE ~Exhausted(p)
    <3>1. pc'[p] = "claim" /\ limit'[p] = MaxTasks(p)
      BY <1>8, <2>5 DEF GetBudget, TypeOK
    <3>2. LiveBudget = MaxUserJobs - LiveCount /\ avail[p] \in Int
      BY DEF LiveBudget, LiveCount, TypeOK
    <3>3. MaxTasks(p) > 0 /\ MaxTasks(p) <= LiveBudget
      BY <1>0, <1>3, <2>5, <3>2 DEF MaxTasks, Exhausted
    <3>4. LiveCount + MaxTasks(p) <= MaxUserJobs /\ LiveCount <= MaxUserJobs
      <4>1. MaxTasks(p) \in Int
        BY <1>0, <1>3, <3>2 DEF MaxTasks
      <4> QED
        BY <1>0, <1>3, <3>2, <3>3, <4>1
    <3> QED
      BY <1>3, <1>4, <2>1, <2>3, <3>1, <3>3, <3>4
  <2> QED
    BY <2>4, <2>5
<1>9. CASE ClaimNextArrayBatch(p)
  <2>1. UNCHANGED slurm /\ orphans'[p] = {} /\ pc[p] = "claim"
    BY <1>1, <1>9 DEF ClaimNextArrayBatch
  <2>2. LiveInSlurm' = LiveInSlurm
    BY <2>1 DEF LiveInSlurm
  <2>3. LiveCount' = LiveCount
    BY <2>2 DEF LiveCount
  <2>4. CASE pc'[p] = "finish"
    BY <1>0, <2>1, <2>2, <2>4, RoomQuiet
  <2>5. CASE pc'[p] # "finish"
    <3>1. pc'[p] = "response" /\
          \E j \in Queue!BatchClaimable(0, limit[p], clampMinArray, FullArray) :
            unit'[p] = Queue!Unit(j, limit[p])
      BY <1>9, <2>5 DEF ClaimNextArrayBatch, LeaveLoop, TypeOK
    <3>2. limit[p] > 0 /\ LiveCount + limit[p] <= MaxUserJobs
      BY <2>1 DEF RoomKept
    <3>3. Cardinality(unit'[p]) <= limit[p]
      BY <1>3, <3>1, <3>2, UnitSize
    <3>4. LiveCount + Cardinality(unit'[p]) <= MaxUserJobs /\ LiveCount <= MaxUserJobs
      BY <1>0, <1>3, <3>2, <3>3
    <3> QED
      BY <1>3, <1>4, <2>1, <2>3, <3>1, <3>4
  <2> QED
    BY <2>4, <2>5
<1>10. CASE ClaimAnswered(p) \/ buildSBatchScript(p)
  <2>1. /\ UNCHANGED slurm /\ orphans'[p] = {} /\ unit'[p] = unit[p]
        /\ pc[p] \in {"response", "build"} /\ pc'[p] \in {"build", "sbatch", "drop"}
    BY <1>1, <1>10 DEF ClaimAnswered, buildSBatchScript, TypeOK
  <2>2. LiveInSlurm' = LiveInSlurm
    BY <2>1 DEF LiveInSlurm
  <2>3. LiveCount' = LiveCount
    BY <2>2 DEF LiveCount
  <2>4. LiveCount + Cardinality(unit[p]) <= MaxUserJobs /\ LiveCount <= MaxUserJobs
    BY <2>1 DEF RoomKept
  <2> QED
    BY <1>3, <1>4, <2>1, <2>3, <2>4
<1>11. CASE SlurmSbatch(p)
  <2>1. orphans'[p] = {} /\ pc[p] = "sbatch" /\ pc'[p] = "mark"
    BY <1>1, <1>11 DEF SlurmSbatch, TypeOK
  <2>2. LiveCount' \in Nat /\ LiveCount' <= LiveCount + Cardinality(unit[p])
    BY <1>11, SbatchAdds
  <2>3. LiveCount + Cardinality(unit[p]) <= MaxUserJobs
    BY <2>1 DEF RoomKept
  <2>4. LiveCount' <= MaxUserJobs
    BY <1>0, <1>3, <2>2, <2>3
  <2> QED
    BY <1>4, <2>1, <2>2, <2>4
<1> QED
  BY <1>5, <1>6, <1>7, <1>8, <1>9, <1>10, <1>11 DEF PassStep, PassFault

\* --slurm-max-jobs: with one runner at a time that recovers nothing, the user
\* never has more tasks in SLURM than the limit, though squeue is asked before
\* the claim and the tasks arrive after the sbatch, whatever fails in between.
THEOREM LiveQueueTheorem == OneRunnerNoRecovery /\ Spec => []LiveQueueBounded
<1> DEFINE I == OneRunnerNoRecovery /\ (MaxUserJobs > 0 => RoomKept)
<1>1. OneRunnerNoRecovery /\ Init => I
  <2> SUFFICES ASSUME Init, MaxUserJobs > 0 PROVE RoomKept
    OBVIOUS
  <2>1. LiveInSlurm = {}
    BY DEF Init, LiveInSlurm, InSlurm
  <2>2. Cardinality({}) = 0
    BY FS_EmptySet, Zenon
  <2>3. LiveCount = 0
    BY <2>1, <2>2 DEF LiveCount
  <2> QED
    BY <2>3, SlurmAssumption DEF Init, RoomKept
<1>2. TypeOK /\ I /\ [Next]_vars => I'
  <2> SUFFICES ASSUME TypeOK, OneRunnerNoRecovery, MaxUserJobs > 0, RoomKept, [Next]_vars
               PROVE  RoomKept'
    OBVIOUS
  <2>1. ASSUME NEW p \in Pass, PassStep(p) \/ PassFault(p) PROVE RoomKept'
    BY <2>1, TypeStep, RoomOwnStep
  <2>2. ASSUME \/ \E p \in Pass : ResolveDependencies(p)
               \/ \E n \in SlurmId, j \in Job : SlurmStep(n, j)
               \/ User \/ Tick \/ UNCHANGED vars
        PROVE  RoomKept'
    <3>1. \A q \in Pass : UNCHANGED Mine(q) /\ limit'[q] = limit[q]
      BY <2>2, WorldKeepsPasses
    <3>2. ASSUME NEW p \in Pass, SlurmSbatch(p) PROVE FALSE
      BY <3>1, <3>2 DEF Mine, SlurmSbatch, TypeOK
    <3> QED
      BY <3>1, <3>2, LiveShrinks, RoomOthers, SlurmAssumption
  <2> QED
    BY <2>1, <2>2 DEF Next
<1>3. I => LiveQueueBounded
  BY DEF RoomKept, LiveQueueBounded, LiveCount
<1> HIDE DEF I
<1> QED
  BY <1>1, <1>2, <1>3, TypeTheorem, PTL DEF Spec

-----------------------------------------------------------------------------
(***************************************************************************)
(* What a step does to a task in SLURM.                                    *)
(***************************************************************************)

\* Task <<n, j>> comes into SLURM with the sbatch of a unit that has j in it.
Arrives(n, j) ==
    \E p \in Pass :
        /\ SlurmSbatch(p) /\ after'[n] = req[p]
        /\ slurm[n][j] = "NONE"
        /\ slurm'[n][j] = IF j \in unit[p] THEN "PENDING" ELSE "NONE"

\* Task <<n, j>> moves on in SLURM: it is canceled, or it starts once the tasks
\* it is to come after have completed, or it ends.
MovesOn(n, j) ==
    /\ after'[n] = after[n]
    /\ slurm[n][j] \in InSlurm /\ slurm'[n][j] # "NONE"
    /\ \/ slurm'[n][j] = "CANCELLED"
       \/ slurm[n][j] = "RUNNING"
       \/ \A t \in after[n] : slurm[t[1]][t[2]] = "COMPLETED"

LEMMA SlurmMoves ==
    ASSUME TypeOK, [Next]_vars, NEW n \in SlurmId, NEW j \in Job
    PROVE  \/ slurm'[n][j] = slurm[n][j] /\ after'[n] = after[n]
           \/ Arrives(n, j) \/ MovesOn(n, j)
<1>1. ASSUME NEW p \in Pass, SlurmSbatch(p)
      PROVE  \/ slurm'[n][j] = slurm[n][j] /\ after'[n] = after[n]
             \/ Arrives(n, j)
  <2>1. PICK m \in Free :
          /\ slurm' = [slurm EXCEPT ![m] = [k \in Job |-> IF k \in unit[p] THEN "PENDING"
                                                          ELSE "NONE"]]
          /\ after' = [after EXCEPT ![m] = req[p]]
    BY <1>1 DEF SlurmSbatch
  <2>2. CASE m = n
    <3>1. /\ slurm'[n][j] = IF j \in unit[p] THEN "PENDING" ELSE "NONE"
          /\ after'[n] = req[p] /\ slurm[n][j] = "NONE"
      BY <2>1, <2>2 DEF TypeOK, Free
    <3> QED
      BY <1>1, <3>1 DEF Arrives
  <2>3. CASE m # n
    BY <2>1, <2>3 DEF TypeOK, Free
  <2> QED
    BY <2>2, <2>3
<1>2. ASSUME NEW m \in SlurmId, NEW k \in Job, SlurmStep(m, k)
      PROVE  \/ slurm'[n][j] = slurm[n][j] /\ after'[n] = after[n]
             \/ MovesOn(n, j)
  <2>1. PICK s \in SlurmState \ {"NONE"} :
          /\ slurm' = [slurm EXCEPT ![m] = [slurm[m] EXCEPT ![k] = s]]
          /\ slurm[m][k] \in InSlurm
          /\ \/ s = "CANCELLED" \/ slurm[m][k] = "RUNNING"
             \/ \A t \in after[m] : slurm[t[1]][t[2]] = "COMPLETED"
    BY <1>2 DEF SlurmStep, SlurmStart, SlurmKill, SlurmEnd, SetSlurm, SlurmState,
       InSlurm, SlurmFailed
  <2>2. UNCHANGED after
    BY <1>2 DEF SlurmStep, SlurmStart, SlurmKill, SlurmEnd, SetSlurm
  <2>3. CASE m = n /\ k = j
    <3>1. slurm'[n][j] = s
      BY <2>1, <2>3 DEF TypeOK
    <3> QED
      BY <2>1, <2>2, <2>3, <3>1 DEF MovesOn
  <2>4. CASE ~(m = n /\ k = j)
    BY <2>1, <2>2, <2>4 DEF TypeOK
  <2> QED
    BY <2>3, <2>4
<1>3. CASE scancel
  BY <1>3 DEF scancel, MovesOn
<1>4. ASSUME NEW p \in Pass, PassStep(p), ~SlurmSbatch(p) PROVE UNCHANGED cluster
  BY <1>4 DEF PassStep, Start, Updated, Exit, recoverOrphanedClaims, NextOrphan,
     GetBudget, ClaimNextArrayBatch, ClaimAnswered, buildSBatchScript, UnitDone,
     cancelJob, applySlurmState, MarkJobProxied
<1>5. ASSUME NEW p \in Pass, PassFault(p) \/ ResolveDependencies(p)
      PROVE  UNCHANGED cluster
  BY <1>5 DEF PassFault, ClaimLost, ReadLost, SqueueFails, SbatchFails, Crash,
     ReconcileLost, MarkLost, ResolveDependencies
<1>6. ASSUME \/ \E S \in CancelTarget : CancelFetch(S)
             \/ CancelInQueue \/ Tick \/ UNCHANGED vars
      PROVE  UNCHANGED cluster
  BY <1>6 DEF CancelFetch, CancelInQueue, Tick, vars
<1> QED
  BY <1>1, <1>2, <1>3, <1>4, <1>5, <1>6 DEF Next, User

-----------------------------------------------------------------------------
(***************************************************************************)
(* Parents first.  A job is claimed only once all its parents were claimed *)
(* before it; from then on each of them is dead, or done, or has a SLURM   *)
(* id that the afterok directive of the job's script names.                *)
(***************************************************************************)
\* The tasks of an array have the same parents: no aftercorr.
TasksShareParents ==
    \A j, k \in Job : ArrayOf[j] = ArrayOf[k] /\ ArrayOf[j] # NoArray =>
        Parents[j] = Parents[k]

\* Claimed at some time, or canceled before.
Past(j) == status[j] \notin {"WAITING", "QUEUED"}

Done(d) == \E m \in SlurmId : slurm[m][d] = "COMPLETED"

Covered(d, A) == Done(d) \/ \E m \in SlurmId : <<m, d>> \in A

\* A unit that may be sent to SLURM with the dependencies of any of its jobs.
Sendable(u) ==
    /\ u # {}
    /\ \A j, k \in u : Parents[j] = Parents[k]
    /\ \A j \in u : \A d \in Parents[j] : Past(d)

ClaimedInOrder ==
    \A j \in Job : status[j] \in {"QUEUED", "RUNNING", "PROXYQUEUED"} =>
        \A d \in Parents[j] : Past(d)

UnitsInOrder(q) ==
    /\ pc[q] \in {"response", "build", "sbatch"} => Sendable(unit[q])
    /\ \A u \in orphans[q] : Sendable(u)
    /\ pc[q] = "sbatch" => \A j \in unit[q] : \A d \in Parents[j] : Covered(d, req[q])

SlurmInOrder ==
    \A n \in SlurmId, j \in Job : slurm[n][j] # "NONE" =>
        \A d \in Parents[j] : Covered(d, after[n])

\* No job goes back to the queue.
LEMMA PastStays ==
    ASSUME TypeOK, [Next]_vars, NEW j \in Job, Past(j)
    PROVE  Past(j)'
<1>1. CASE status'[j] = status[j]
  BY <1>1 DEF Past
<1>2. CASE status'[j] # status[j]
  <2>1. j \in Lifecycle!Changed
    BY <1>2 DEF Lifecycle!Changed
  <2> QED
    BY <1>2, <2>1, LifecycleStep DEF Past, Lifecycle!Kill, Lifecycle!Settle,
       Lifecycle!Claim, Lifecycle!Advance, Lifecycle!Dead
<1> QED
  BY <1>1, <1>2

LEMMA ClaimedInOrderStep ==
    ASSUME TypeOK, [Next]_vars, ClaimedInOrder
    PROVE  ClaimedInOrder'
<1> SUFFICES ASSUME NEW j \in Job, status'[j] \in {"QUEUED", "RUNNING", "PROXYQUEUED"},
                    NEW d \in Parents[j]
             PROVE  Past(d)'
  BY DEF ClaimedInOrder
<1>1. d \in Job
  BY SlurmAssumption
<1>2. Past(d)
  <2>1. CASE status'[j] = status[j]
    BY <2>1 DEF ClaimedInOrder
  <2>2. CASE status'[j] # status[j]
    <3>1. j \in Lifecycle!Changed
      BY <2>2 DEF Lifecycle!Changed
    <3> QED
      BY <2>2, <3>1, LifecycleStep DEF Past, ClaimedInOrder, Lifecycle!Kill,
         Lifecycle!Settle, Lifecycle!Claim, Lifecycle!Advance, Lifecycle!Dead,
         Lifecycle!Satisfied
  <2> QED
    BY <2>1, <2>2
<1> QED
  BY <1>1, <1>2, PastStays

LEMMA DoneStays ==
    ASSUME TypeOK, [Next]_vars, NEW d \in Job, Done(d)
    PROVE  Done(d)'
  BY EndsAreKept DEF Done

LEMMA SendableStays ==
    ASSUME TypeOK, [Next]_vars, NEW u \in SUBSET Job, Sendable(u)
    PROVE  Sendable(u)'
<1>1. \A j \in Job : \A d \in Parents[j] : d \in Job
  BY SlurmAssumption
<1> QED
  BY <1>1, PastStays DEF Sendable

LEMMA CoveredStays ==
    ASSUME TypeOK, [Next]_vars, NEW d \in Job, NEW A, Covered(d, A)
    PROVE  Done(d)' \/ \E m \in SlurmId : <<m, d>> \in A
  BY DoneStays DEF Covered

\* What SLURM has keeps its directive, and a new task brings its own.
LEMMA SlurmInOrderStep ==
    ASSUME TypeOK, [Next]_vars, SlurmInOrder, \A q \in Pass : UnitsInOrder(q)
    PROVE  SlurmInOrder'
<1> SUFFICES ASSUME NEW n \in SlurmId, NEW j \in Job, slurm'[n][j] # "NONE",
                    NEW d \in Parents[j]
             PROVE  Done(d)' \/ \E m \in SlurmId : <<m, d>> \in after'[n]
  BY DEF SlurmInOrder, Covered
<1>1. d \in Job
  BY SlurmAssumption
<1>2. CASE slurm[n][j] # "NONE" /\ after'[n] = after[n]
  BY <1>1, <1>2, CoveredStays DEF SlurmInOrder
<1>3. CASE Arrives(n, j)
  <2>1. PICK p \in Pass : SlurmSbatch(p) /\ after'[n] = req[p] /\ j \in unit[p]
    BY <1>3 DEF Arrives
  <2>2. pc[p] = "sbatch"
    BY <2>1 DEF SlurmSbatch
  <2>3. Covered(d, req[p])
    BY <2>1, <2>2 DEF UnitsInOrder
  <2> QED
    BY <1>1, <2>1, <2>3, CoveredStays
<1>4. CASE MovesOn(n, j)
  BY <1>2, <1>4 DEF MovesOn, InSlurm
<1> QED
  BY <1>2, <1>3, <1>4, SlurmMoves

LEMMA ParentsRunFirstStep ==
    ASSUME TypeOK, [Next]_vars, SlurmInOrder, ParentsRunFirst
    PROVE  ParentsRunFirst'
<1> SUFFICES ASSUME NEW n \in SlurmId, NEW j \in Job,
                    slurm'[n][j] \in SlurmState \ {"NONE", "PENDING", "CANCELLED"},
                    NEW d \in Parents[j]
             PROVE  Done(d)'
  BY DEF ParentsRunFirst, Done
<1>1. d \in Job
  BY SlurmAssumption
<1>2. CASE slurm[n][j] \in SlurmState \ {"NONE", "PENDING", "CANCELLED"}
  BY <1>1, <1>2, DoneStays DEF ParentsRunFirst, Done
<1>3. CASE slurm[n][j] \in {"NONE", "PENDING", "CANCELLED"}
  <2>1. MovesOn(n, j)
    BY <1>3, SlurmMoves DEF Arrives
  <2>2. /\ slurm[n][j] # "NONE"
        /\ \A t \in after[n] : slurm[t[1]][t[2]] = "COMPLETED"
    BY <1>3, <2>1 DEF MovesOn, InSlurm
  <2>3. Covered(d, after[n])
    BY <2>2 DEF SlurmInOrder
  <2>4. Done(d)
    <3>1. ASSUME NEW m \in SlurmId, <<m, d>> \in after[n] PROVE slurm[m][d] = "COMPLETED"
      BY <2>2, <3>1
    <3> QED
      BY <2>3, <3>1 DEF Covered, Done
  <2> QED
    BY <1>1, <2>4, DoneStays
<1> QED
  BY <1>2, <1>3 DEF TypeOK

\* A batch has a first task.
LEMMA TemplateIsTask ==
    ASSUME NEW u \in SUBSET Job, u # {}
    PROVE  Template(u) \in u
<1> DEFINE X == {ArrayIndex[j] : j \in u}
<1>1. X \subseteq Nat /\ X # {}
  BY SlurmAssumption
<1>2. PICK x \in X : \A y \in X : x <= y
  <2> HIDE DEF X
  <2> QED
    BY <1>1, LeastOf
<1>3. \E j \in u : \A k \in u : ArrayIndex[j] <= ArrayIndex[k]
  BY <1>2
<1> QED
  BY <1>3 DEF Template

\* A script that can be built names every parent that is not done.
LEMMA DirectiveCovers ==
    ASSUME TypeOK, StatusMatchesSlurm, NEW j \in Job, ~BadParent(j), NEW d \in Parents[j],
           Past(d)
    PROVE  Covered(d, slurmAfterOkDirective(j))
<1>1. d \in Job
  BY SlurmAssumption
<1>2. status[d] \in {"RUNNING", "PROXYQUEUED", "SUCCESS"}
  BY <1>1 DEF BadParent, Past, TypeOK, LiveStatus, EndStatus, DeadStatus
<1>3. CASE status[d] = "SUCCESS"
  BY <1>1, <1>3 DEF StatusMatchesSlurm, Covered, Done
<1>4. CASE status[d] \in {"RUNNING", "PROXYQUEUED"}
  <2>1. d \in Pending(j)
    BY <1>1, <1>4 DEF Pending
  <2>2. slurmId[d] # 0 /\ slurmId[d] \in SlurmId
    BY <1>1, <2>1 DEF BadParent, TypeOK
  <2>3. <<slurmId[d], d>> \in slurmAfterOkDirective(j)
    BY <2>1 DEF slurmAfterOkDirective
  <2> QED
    BY <2>2, <2>3 DEF Covered
<1> QED
  BY <1>2, <1>3, <1>4

\* Claimed and orphaned jobs make sendable units.
LEMMA UnitIsSendable ==
    ASSUME TasksShareParents, TypeOK, ClaimedInOrder, NEW m, NEW t, NEW full,
           NEW j \in Queue!BatchClaimable(0, m, t, full)
    PROVE  Sendable(Queue!Unit(j, m))
<1> DEFINE U == Queue!Unit(j, m)
<1>1. \A k \in U : k \in Job /\ status[k] = "QUEUED"
  BY UnitIsFree
<1>2. \A k \in U : \A d \in Parents[k] : Past(d)
  BY <1>1 DEF ClaimedInOrder
<1>3. CASE ArrayOf[j] = NoArray
  <2>1. U = {j}
    BY <1>3 DEF Queue!Unit
  <2> QED
    BY <1>2, <2>1 DEF Sendable
<1>4. CASE ArrayOf[j] # NoArray
  <2>1. U = Queue!Batch(ArrayOf[j], m)
    BY <1>4 DEF Queue!Unit
  <2>2. U # {}
    BY <1>4, <2>1 DEF Queue!BatchClaimable
  <2>3. \A k \in U : k \in Job /\ ArrayOf[k] = ArrayOf[j]
    BY <2>1 DEF Queue!Batch, Queue!QueuedTasks, Queue!TasksOf
  <2>4. \A k, i \in U : Parents[k] = Parents[i]
    BY <1>4, <2>3 DEF TasksShareParents
  <2> QED
    BY <1>2, <2>2, <2>4 DEF Sendable
<1> QED
  BY <1>3, <1>4

LEMMA OrphansAreSendable ==
    ASSUME TasksShareParents, TypeOK, ClaimedInOrder, NEW p \in Pass,
           NEW u \in Regroup({j \in Job : isOrphanedClaim(p, j)})
    PROVE  Sendable(u)
<1> DEFINE S == {j \in Job : isOrphanedClaim(p, j)}
<1>1. \A j \in S : j \in Job /\ \A d \in Parents[j] : Past(d)
  BY DEF isOrphanedClaim, ClaimedInOrder
<1> HIDE DEF S
<1>2. \/ \E j \in S : u = {j}
      \/ \E a \in Array : u = S \cap TasksOf(a) /\ u # {}
  BY DEF Regroup, S
<1>3. u # {} /\ u \subseteq S
  BY <1>2
<1>4. \A j, k \in u : Parents[j] = Parents[k]
  <2>1. CASE \E j \in S : u = {j}
    BY <2>1
  <2>2. CASE \E a \in Array : u = S \cap TasksOf(a)
    BY <1>1, <2>2, SlurmAssumption DEF TasksOf, TasksShareParents
  <2> QED
    BY <1>2, <2>1, <2>2
<1> QED
  BY <1>1, <1>3, <1>4 DEF Sendable

LEMMA UnitsInOrderOwnStep ==
    ASSUME TasksShareParents, TypeOK, StatusMatchesSlurm, ClaimedInOrder, NEW p \in Pass,
           UnitsInOrder(p), PassStep(p) \/ PassFault(p)
    PROVE  UnitsInOrder(p)'
<1>0. [Next]_vars
  BY DEF Next
<1>1. ASSUME NEW u \in SUBSET Job, Sendable(u) PROVE Sendable(u)'
  BY <1>0, <1>1, SendableStays
<1>2. unit[p] \in SUBSET Job /\ orphans[p] \in SUBSET SUBSET Job
  BY DEF TypeOK
\* A step that leaves the pass with nothing to send but what is on its list.
<1>3. ASSUME pc'[p] \notin {"response", "build", "sbatch"},
             orphans'[p] \subseteq orphans[p]
      PROVE  UnitsInOrder(p)'
  BY <1>1, <1>2, <1>3 DEF UnitsInOrder
<1>4. CASE \/ Start(p) \/ Updated(p) \/ Exit(p) \/ UnitDone(p) \/ SbatchFails(p)
           \/ SqueueFails(p) \/ Crash(p) \/ ReadLost(p) \/ ClaimLost(p)
  <2>1. pc'[p] \notin {"response", "build", "sbatch"} /\ orphans'[p] \subseteq orphans[p]
    BY <1>4 DEF Start, Updated, Exit, UnitDone, SbatchFails, SqueueFails, Crash,
       ReadLost, ClaimLost, LeaveLoop, TypeOK
  <2> QED
    BY <1>3, <2>1
<1>5. ASSUME NEW j \in Job, NEW n \in SlurmId \cup {0},
             \/ cancelJob(p, j) \/ applySlurmState(p, j, n) \/ ReconcileLost(p, j, n)
             \/ MarkLost(p, j, n) \/ MarkJobProxied(p, j, n)
      PROVE  UnitsInOrder(p)'
  <2>1. pc'[p] \notin {"response", "build", "sbatch"} /\ orphans'[p] \subseteq orphans[p]
    BY <1>5 DEF cancelJob, applySlurmState, ReconcileLost, MarkLost, MarkJobProxied
  <2> QED
    BY <1>3, <2>1
<1>6. CASE GetBudget(p) \/ SlurmSbatch(p)
  <2>1. pc'[p] \notin {"response", "build", "sbatch"} /\ orphans'[p] \subseteq orphans[p]
    BY <1>6 DEF GetBudget, LeaveLoop, SlurmSbatch, TypeOK
  <2> QED
    BY <1>3, <2>1
<1>7. CASE recoverOrphanedClaims(p)
  <2> DEFINE R == Regroup({j \in Job : isOrphanedClaim(p, j)})
  <2>1. pc'[p] = "next" /\ orphans'[p] = R
    BY <1>7 DEF recoverOrphanedClaims, TypeOK
  <2>2. R \in SUBSET SUBSET Job
    BY DEF Regroup, TasksOf
  <2>3. \A u \in R : Sendable(u)
    BY OrphansAreSendable
  <2> HIDE DEF R
  <2>4. \A u \in R : Sendable(u)'
    BY <1>1, <2>2, <2>3
  <2> QED
    BY <2>1, <2>4 DEF UnitsInOrder
<1>8. CASE NextOrphan(p)
  <2>1. /\ pc'[p] = "build" /\ unit'[p] \in orphans[p]
        /\ orphans'[p] \subseteq orphans[p]
    BY <1>8 DEF NextOrphan, TypeOK
  <2> QED
    BY <1>1, <1>2, <2>1 DEF UnitsInOrder
<1>9. CASE ClaimAnswered(p)
  <2>1. /\ pc[p] = "response" /\ pc'[p] = "build" /\ unit'[p] = unit[p]
        /\ orphans'[p] = orphans[p]
    BY <1>9 DEF ClaimAnswered, TypeOK
  <2> QED
    BY <1>1, <1>2, <2>1 DEF UnitsInOrder
<1>10. CASE ClaimNextArrayBatch(p)
  <2>1. orphans'[p] = orphans[p]
    BY <1>10 DEF ClaimNextArrayBatch
  <2>2. CASE pc'[p] = "finish"
    BY <1>3, <2>1, <2>2
  <2>3. CASE pc'[p] # "finish"
    <3>1. PICK j \in Queue!BatchClaimable(0, limit[p], clampMinArray, FullArray) :
            unit'[p] = Queue!Unit(j, limit[p])
      BY <1>10, <2>3 DEF ClaimNextArrayBatch, LeaveLoop, TypeOK
    <3>2. pc'[p] = "response"
      BY <1>10, <2>3 DEF ClaimNextArrayBatch, LeaveLoop, TypeOK
    <3>3. unit'[p] \in SUBSET Job
      BY <3>1, UnitIsFree
    <3>4. Sendable(unit'[p])
      BY <3>1, UnitIsSendable
    <3>5. Sendable(unit[p])'
      <4>1. ASSUME NEW u \in SUBSET Job, Sendable(u), u = unit'[p] PROVE Sendable(unit[p])'
        BY <1>1, <4>1 DEF Sendable
      <4> QED
        BY <3>3, <3>4, <4>1
    <3> QED
      BY <1>1, <1>2, <2>1, <3>2, <3>5 DEF UnitsInOrder
  <2> QED
    BY <2>2, <2>3
<1>11. CASE buildSBatchScript(p)
  <2> DEFINE j == Template(unit[p])
  <2>1. pc[p] = "build" /\ orphans'[p] = orphans[p] /\ unit'[p] = unit[p]
    BY <1>11 DEF buildSBatchScript
  <2>2. CASE BadParent(j)
    <3>1. pc'[p] = "drop"
      BY <1>11, <2>2 DEF buildSBatchScript, TypeOK
    <3> QED
      BY <1>3, <2>1, <3>1
  <2>3. CASE ~BadParent(j)
    <3>1. pc'[p] = "sbatch" /\ req'[p] = slurmAfterOkDirective(j)
      BY <1>11, <2>3 DEF buildSBatchScript, TypeOK
    <3>2. Sendable(unit[p])
      BY <2>1 DEF UnitsInOrder
    <3>3. j \in unit[p] /\ j \in Job
      BY <1>2, <3>2, TemplateIsTask DEF Sendable
    <3> HIDE DEF j
    <3>4. ASSUME NEW k \in unit[p], NEW d \in Parents[k]
          PROVE  Covered(d, req[p])'
      <4>1. Parents[k] = Parents[j] /\ Past(d) /\ d \in Job
        BY <1>2, <3>2, <3>3, SlurmAssumption DEF Sendable
      <4>2. Covered(d, slurmAfterOkDirective(j))
        BY <2>3, <3>3, <4>1, DirectiveCovers
      <4>3. Done(d)' \/ \E m \in SlurmId : <<m, d>> \in slurmAfterOkDirective(j)
        BY <1>0, <4>1, <4>2, CoveredStays
      <4> QED
        BY <3>1, <4>3 DEF Covered
    <3>5. Sendable(unit[p])'
      BY <1>1, <1>2, <2>1, <3>2 DEF Sendable
    <3> QED
      BY <1>1, <1>2, <2>1, <3>4, <3>5 DEF UnitsInOrder
  <2> QED
    BY <2>2, <2>3
<1> QED
  BY <1>4, <1>5, <1>6, <1>7, <1>8, <1>9, <1>10, <1>11 DEF PassStep, PassFault

LEMMA UnitsInOrderStep ==
    ASSUME TasksShareParents, TypeOK, StatusMatchesSlurm, ClaimedInOrder,
           \A q \in Pass : UnitsInOrder(q), [Next]_vars
    PROVE  \A q \in Pass : UnitsInOrder(q)'
<1> SUFFICES ASSUME NEW q \in Pass PROVE UnitsInOrder(q)'
  OBVIOUS
<1>1. ASSUME UNCHANGED Mine(q) PROVE UnitsInOrder(q)'
  <2>1. /\ pc'[q] = pc[q] /\ unit'[q] = unit[q] /\ orphans'[q] = orphans[q]
        /\ req'[q] = req[q]
    BY <1>1 DEF Mine
  <2>2. unit[q] \in SUBSET Job /\ orphans[q] \in SUBSET SUBSET Job
    BY DEF TypeOK
  <2>3. ASSUME NEW u \in SUBSET Job, Sendable(u) PROVE Sendable(u)'
    BY <2>3, SendableStays
  <2>4. ASSUME pc[q] \in {"response", "build", "sbatch"} PROVE Sendable(unit[q])'
    <3>1. Sendable(unit[q])
      BY <2>4 DEF UnitsInOrder
    <3> QED
      BY <2>1, <2>2, <2>3, <3>1 DEF Sendable
  <2>5. \A u \in orphans[q] : Sendable(u)'
    BY <2>2, <2>3 DEF UnitsInOrder
  <2>6. ASSUME pc[q] = "sbatch", NEW j \in unit[q], NEW d \in Parents[j]
        PROVE  Done(d)' \/ \E m \in SlurmId : <<m, d>> \in req[q]
    <3>1. d \in Job /\ Covered(d, req[q])
      BY <2>2, <2>6, SlurmAssumption DEF UnitsInOrder
    <3> QED
      BY <3>1, CoveredStays
  <2> QED
    BY <2>1, <2>4, <2>5, <2>6 DEF UnitsInOrder, Covered
<1>2. ASSUME NEW p \in Pass, PassStep(p) \/ PassFault(p) PROVE UnitsInOrder(q)'
  <2>1. CASE p = q
    BY <1>2, <2>1, UnitsInOrderOwnStep
  <2>2. CASE p # q
    BY <1>1, <1>2, <2>2, OthersKeepTheirs
  <2> QED
    BY <2>1, <2>2
<1>3. ASSUME \/ \E p \in Pass : ResolveDependencies(p)
             \/ \E n \in SlurmId, j \in Job : SlurmStep(n, j)
             \/ User \/ Tick \/ UNCHANGED vars
      PROVE  UnitsInOrder(q)'
  BY <1>1, <1>3, WorldKeepsPasses
<1> QED
  BY <1>2, <1>3 DEF Next

\* SLURM starts a job only after all its parents have completed there, whatever
\* crashes, is lost, recovered or canceled, for any number of runners and any
\* dependency graph in which the tasks of an array share their parents.
THEOREM ParentsTheorem == TasksShareParents /\ Spec => []ParentsRunFirst
<1> DEFINE I == /\ TasksShareParents
                /\ ClaimedInOrder /\ SlurmInOrder /\ ParentsRunFirst
                /\ \A q \in Pass : UnitsInOrder(q)
<1>1. TasksShareParents /\ Init => I
  <2> SUFFICES ASSUME Init
               PROVE  /\ ClaimedInOrder /\ SlurmInOrder /\ ParentsRunFirst
                      /\ \A q \in Pass : UnitsInOrder(q)
    OBVIOUS
  <2>1. ClaimedInOrder
    BY DEF Init, ClaimedInOrder
  <2>2. SlurmInOrder /\ ParentsRunFirst
    BY DEF Init, SlurmInOrder, ParentsRunFirst
  <2>3. \A q \in Pass : UnitsInOrder(q)
    BY DEF Init, UnitsInOrder
  <2> QED
    BY <2>1, <2>2, <2>3
<1>2. TypeOK /\ StatusMatchesSlurm /\ I /\ [Next]_vars => I'
  BY ClaimedInOrderStep, SlurmInOrderStep, ParentsRunFirstStep, UnitsInOrderStep
<1>3. I => ParentsRunFirst
  OBVIOUS
<1> HIDE DEF I
<1> QED
  BY <1>1, <1>2, <1>3, TypeTheorem, StatusTheorem, PTL DEF Spec

-----------------------------------------------------------------------------
(***************************************************************************)
(* One submission per job.  A job that a pass is about to send to SLURM    *)
(* is not there yet and no other pass is about to send it: claims take     *)
(* queued jobs only.  All exceptions are a recovery's doing.               *)
(***************************************************************************)

\* The jobs that a pass has yet to submit: in hand, and on its list.
InHand(q) == IF pc[q] \in {"response", "build", "sbatch"} THEN unit[q] ELSE {}
ToSend(q) == InHand(q) \cup UNION orphans[q]

\* A list of orphans belongs to a pass that recovers.
ListInPlace(q) ==
    /\ orphans[q] # {} => /\ Recovering(q)
                          /\ pc[q] \in {"next", "build", "sbatch", "mark", "drop"}
    /\ pc[q] = "recover" => Recovering(q)

\* An sbatch adds a submission to each job of its unit; nothing else does.
LEMMA SubmissionsStep ==
    ASSUME TypeOK, [Next]_vars
    PROVE  \/ \A j \in Job : Submissions(j)' = Submissions(j)
           \/ \E p \in Pass, n \in SlurmId :
                /\ SlurmSbatch(p) /\ work' = [work EXCEPT ![p] = unit[p] \X {n}]
                /\ \A j \in Job : Submissions(j)' =
                     IF j \in unit[p] THEN Submissions(j) \cup {n} ELSE Submissions(j)
<1>1. CASE \E p \in Pass : SlurmSbatch(p)
  <2>1. PICK p \in Pass : SlurmSbatch(p)
    BY <1>1
  <2>2. PICK n \in Free :
          /\ slurm' = [slurm EXCEPT ![n] = [k \in Job |-> IF k \in unit[p] THEN "PENDING"
                                                          ELSE "NONE"]]
          /\ work'  = [work EXCEPT ![p] = unit[p] \X {n}]
    BY <2>1 DEF SlurmSbatch
  <2>3. n \in SlurmId /\ \A j \in Job : slurm[n][j] = "NONE"
    BY DEF Free
  <2>4. ASSUME NEW j \in Job
        PROVE  Submissions(j)' =
                 IF j \in unit[p] THEN Submissions(j) \cup {n} ELSE Submissions(j)
    <3>1. \A m \in SlurmId : slurm'[m][j] = IF m = n
              THEN (IF j \in unit[p] THEN "PENDING" ELSE "NONE") ELSE slurm[m][j]
      BY <2>2, <2>3 DEF TypeOK
    <3> QED
      BY <2>3, <3>1 DEF Submissions
  <2> QED
    BY <2>1, <2>2, <2>3, <2>4
<1>2. CASE ~\E p \in Pass : SlurmSbatch(p)
  <2>1. ASSUME NEW j \in Job, NEW n \in SlurmId
        PROVE  slurm'[n][j] = "NONE" <=> slurm[n][j] = "NONE"
    BY <1>2, SlurmMoves DEF Arrives, MovesOn, InSlurm
  <2> QED
    BY <2>1 DEF Submissions
<1> QED
  BY <1>1, <1>2

\* How the jobs come that a pass has yet to submit: by a claim, or by a look at
\* the tables.
LEMMA ToSendStep ==
    ASSUME TypeOK, [Next]_vars, NEW q \in Pass
    PROVE  \/ ToSend(q)' \subseteq ToSend(q)
           \/ /\ ClaimNextArrayBatch(q)
              /\ \A k \in ToSend(q)' : k \notin ToSend(q) =>
                   /\ k \in Job /\ status[k] = "QUEUED"
                   /\ status'[k] = "RUNNING" /\ owner'[k] = RunnerOf[q]
           \/ /\ recoverOrphanedClaims(q)
              /\ \A k \in ToSend(q)' : k \in Job /\ isOrphanedClaim(q, k)
<1>1. ASSUME UNCHANGED Mine(q) PROVE ToSend(q)' \subseteq ToSend(q)
  BY <1>1 DEF Mine, ToSend, InHand
<1>2. ASSUME NEW p \in Pass, p # q, PassStep(p) \/ PassFault(p)
      PROVE  ToSend(q)' \subseteq ToSend(q)
  BY <1>1, <1>2, OthersKeepTheirs
<1>3. ASSUME \/ \E p \in Pass : ResolveDependencies(p)
             \/ \E n \in SlurmId, j \in Job : SlurmStep(n, j)
             \/ User \/ Tick \/ UNCHANGED vars
      PROVE  ToSend(q)' \subseteq ToSend(q)
  BY <1>1, <1>3, WorldKeepsPasses
<1>4. ASSUME pc'[q] \notin {"response", "build", "sbatch"},
             orphans'[q] \subseteq orphans[q]
      PROVE  ToSend(q)' \subseteq ToSend(q)
  BY <1>4 DEF ToSend, InHand
<1>5. CASE \/ Start(q) \/ Updated(q) \/ Exit(q) \/ UnitDone(q) \/ SbatchFails(q)
           \/ SqueueFails(q) \/ Crash(q) \/ ReadLost(q) \/ ClaimLost(q)
  <2>1. pc'[q] \notin {"response", "build", "sbatch"} /\ orphans'[q] \subseteq orphans[q]
    BY <1>5 DEF Start, Updated, Exit, UnitDone, SbatchFails, SqueueFails, Crash,
       ReadLost, ClaimLost, LeaveLoop, TypeOK
  <2> QED
    BY <1>4, <2>1
<1>6. ASSUME NEW j \in Job, NEW n \in SlurmId \cup {0},
             \/ cancelJob(q, j) \/ applySlurmState(q, j, n) \/ ReconcileLost(q, j, n)
             \/ MarkLost(q, j, n) \/ MarkJobProxied(q, j, n)
      PROVE  ToSend(q)' \subseteq ToSend(q)
  <2>1. pc'[q] \notin {"response", "build", "sbatch"} /\ orphans'[q] \subseteq orphans[q]
    BY <1>6 DEF cancelJob, applySlurmState, ReconcileLost, MarkLost, MarkJobProxied
  <2> QED
    BY <1>4, <2>1
<1>7. CASE GetBudget(q) \/ SlurmSbatch(q)
  <2>1. pc'[q] \notin {"response", "build", "sbatch"} /\ orphans'[q] \subseteq orphans[q]
    BY <1>7 DEF GetBudget, LeaveLoop, SlurmSbatch, TypeOK
  <2> QED
    BY <1>4, <2>1
<1>8. CASE ClaimAnswered(q) \/ buildSBatchScript(q)
  <2>1. /\ pc[q] \in {"response", "build"} /\ unit'[q] = unit[q]
        /\ orphans'[q] = orphans[q]
    BY <1>8 DEF ClaimAnswered, buildSBatchScript
  <2> QED
    BY <2>1 DEF ToSend, InHand
<1>9. CASE NextOrphan(q)
  <2>1. unit'[q] \in orphans[q] /\ orphans'[q] \subseteq orphans[q]
    BY <1>9 DEF NextOrphan, TypeOK
  <2> QED
    BY <2>1 DEF ToSend, InHand
<1>10. CASE ClaimNextArrayBatch(q)
  <2>1. orphans'[q] = orphans[q]
    BY <1>10 DEF ClaimNextArrayBatch
  <2>2. CASE pc'[q] = "finish"
    BY <1>4, <2>1, <2>2
  <2>3. CASE pc'[q] # "finish"
    <3>1. PICK j \in Queue!BatchClaimable(0, limit[q], clampMinArray, FullArray) :
            /\ unit'[q] = Queue!Unit(j, limit[q])
            /\ Queue!claimJobs(RunnerOf[q], Queue!Unit(j, limit[q]))
      BY <1>10, <2>3 DEF ClaimNextArrayBatch, LeaveLoop, TypeOK
    <3>2. \A k \in unit'[q] : k \in Job /\ status[k] = "QUEUED"
      BY <3>1, UnitIsFree
    <3>3. \A k \in unit'[q] : status'[k] = "RUNNING" /\ owner'[k] = RunnerOf[q]
      BY <3>1, <3>2 DEF Queue!claimJobs
    <3>4. \A k \in ToSend(q)' : k \notin ToSend(q) => k \in unit'[q]
      BY <2>1 DEF ToSend, InHand
    <3> QED
      BY <1>10, <3>2, <3>3, <3>4
  <2> QED
    BY <2>2, <2>3
<1>11. CASE recoverOrphanedClaims(q)
  <2> DEFINE S == {j \in Job : isOrphanedClaim(q, j)}
  <2>1. pc'[q] = "next" /\ orphans'[q] = Regroup(S)
    BY <1>11 DEF recoverOrphanedClaims, TypeOK
  <2>2. \A u \in Regroup(S) : u \subseteq S
    <3> HIDE DEF S
    <3> QED
      BY DEF Regroup
  <2>3. \A k \in ToSend(q)' : k \in S
    BY <2>1, <2>2 DEF ToSend, InHand
  <2> QED
    BY <1>11, <2>3
<1> QED
  BY <1>2, <1>3, <1>5, <1>6, <1>7, <1>8, <1>9, <1>10, <1>11
  DEF Next, PassStep, PassFault

\* A claim and a look at the tables leave SLURM alone.
LEMMA NoSubmission ==
    ASSUME TypeOK, NEW q \in Pass, ClaimNextArrayBatch(q) \/ recoverOrphanedClaims(q)
    PROVE  \A j \in Job : Submissions(j)' = Submissions(j)
  BY DEF ClaimNextArrayBatch, recoverOrphanedClaims, Submissions

LEMMA ListInPlaceStep ==
    ASSUME TypeOK, [Next]_vars, NEW q \in Pass, ListInPlace(q)
    PROVE  ListInPlace(q)'
<1>1. ASSUME UNCHANGED Mine(q) PROVE ListInPlace(q)'
  BY <1>1 DEF Mine, ListInPlace, Recovering
<1>2. ASSUME NEW p \in Pass, p # q, PassStep(p) \/ PassFault(p) PROVE ListInPlace(q)'
  BY <1>1, <1>2, OthersKeepTheirs
<1>3. ASSUME \/ \E p \in Pass : ResolveDependencies(p)
             \/ \E n \in SlurmId, j \in Job : SlurmStep(n, j)
             \/ User \/ Tick \/ UNCHANGED vars
      PROVE  ListInPlace(q)'
  BY <1>1, <1>3, WorldKeepsPasses
<1>4. CASE Start(q) \/ Exit(q) \/ UnitDone(q) \/ SbatchFails(q)
  BY <1>4 DEF Start, Exit, UnitDone, SbatchFails, ListInPlace, TypeOK, Recovering
<1>5. CASE Updated(q)
  BY <1>5 DEF Updated, ListInPlace, TypeOK, Recovering
<1>6. CASE SqueueFails(q) \/ ReadLost(q)
  BY <1>6 DEF SqueueFails, ReadLost, ListInPlace, TypeOK, Recovering
<1>7. CASE Crash(q)
  BY <1>7 DEF Crash, ListInPlace, TypeOK
<1>8. CASE ClaimLost(q)
  BY <1>8 DEF ClaimLost, LeaveLoop, ListInPlace, TypeOK
<1>9. ASSUME NEW j \in Job, NEW n \in SlurmId \cup {0},
             \/ cancelJob(q, j) \/ applySlurmState(q, j, n) \/ ReconcileLost(q, j, n)
             \/ MarkLost(q, j, n) \/ MarkJobProxied(q, j, n)
      PROVE  ListInPlace(q)'
  <2>1. pc'[q] = pc[q] /\ orphans'[q] = orphans[q]
    BY <1>9 DEF cancelJob, applySlurmState, ReconcileLost, MarkLost, MarkJobProxied
  <2> QED
    BY <2>1 DEF ListInPlace, Recovering
<1>10. CASE GetBudget(q)
  BY <1>10 DEF GetBudget, LeaveLoop, ListInPlace, TypeOK
<1>11. CASE SlurmSbatch(q) \/ ClaimAnswered(q) \/ buildSBatchScript(q)
  <2>1. /\ orphans'[q] = orphans[q] /\ pc[q] \in {"sbatch", "response", "build"}
        /\ pc'[q] \in {"mark", "build", "sbatch", "drop"}
    BY <1>11 DEF SlurmSbatch, ClaimAnswered, buildSBatchScript, TypeOK
  <2> QED
    BY <2>1 DEF ListInPlace, Recovering
<1>12. CASE NextOrphan(q)
  BY <1>12 DEF NextOrphan, ListInPlace, TypeOK, Recovering
<1>13. CASE ClaimNextArrayBatch(q)
  <2>1. orphans'[q] = orphans[q] /\ pc[q] = "claim" /\ pc'[q] # "recover"
    BY <1>13 DEF ClaimNextArrayBatch, LeaveLoop, TypeOK
  <2> QED
    BY <2>1 DEF ListInPlace
<1>14. CASE recoverOrphanedClaims(q)
  <2>1. pc[q] = "recover" /\ pc'[q] = "next"
    BY <1>14 DEF recoverOrphanedClaims, TypeOK
  <2> QED
    BY <2>1 DEF ListInPlace, Recovering
<1> QED
  BY <1>2, <1>3, <1>4, <1>5, <1>6, <1>7, <1>8, <1>9, <1>10, <1>11, <1>12, <1>13, <1>14
  DEF Next, PassStep, PassFault

\* The list of orphans is made once a pass; from then on it only shrinks.
LEMMA OrphansStep ==
    ASSUME TypeOK, [Next]_vars, NEW q \in Pass
    PROVE  orphans'[q] \subseteq orphans[q] \/ recoverOrphanedClaims(q)
<1>1. ASSUME UNCHANGED Mine(q) PROVE orphans'[q] \subseteq orphans[q]
  BY <1>1 DEF Mine
<1>2. ASSUME NEW p \in Pass, p # q, PassStep(p) \/ PassFault(p)
      PROVE  orphans'[q] \subseteq orphans[q]
  BY <1>1, <1>2, OthersKeepTheirs
<1>3. ASSUME \/ \E p \in Pass : ResolveDependencies(p)
             \/ \E n \in SlurmId, j \in Job : SlurmStep(n, j)
             \/ User \/ Tick \/ UNCHANGED vars
      PROVE  orphans'[q] \subseteq orphans[q]
  BY <1>1, <1>3, WorldKeepsPasses
<1>4. CASE NextOrphan(q) \/ ReadLost(q) \/ Crash(q)
  BY <1>4 DEF NextOrphan, ReadLost, Crash, TypeOK
<1>5. CASE PassStep(q) /\ ~NextOrphan(q) /\ ~recoverOrphanedClaims(q)
  BY <1>5 DEF PassStep, Start, Updated, Exit, GetBudget, ClaimNextArrayBatch,
     ClaimAnswered, buildSBatchScript, SlurmSbatch, UnitDone, cancelJob,
     applySlurmState, MarkJobProxied, hand
<1>6. CASE PassFault(q) /\ ~ReadLost(q) /\ ~Crash(q)
  BY <1>6 DEF PassFault, ClaimLost, SqueueFails, SbatchFails, ReconcileLost, MarkLost,
     hand
<1> QED
  BY <1>2, <1>3, <1>4, <1>5, <1>6 DEF Next

\* A recovery may take job j: it is old enough, and some pass that recovers
\* takes claims of its host.
Entitled(j) ==
    age[j] >= MinAge /\ \E p \in Pass : Recovering(p) /\ Attributable(p, j)

\* Age and host of a job are set when it is claimed, which happens once.
LEMMA ClaimDetailsStay ==
    ASSUME TypeOK, [Next]_vars, NEW j \in Job, Past(j)
    PROVE  host'[j] = host[j] /\ age'[j] >= age[j]
<1>0. age[j] \in Nat
  BY DEF TypeOK
<1>1. ASSUME host' = host, age' = age PROVE host'[j] = host[j] /\ age'[j] >= age[j]
  BY <1>0, <1>1
<1>2. ASSUME NEW p \in Pass, PassStep(p), ~ClaimNextArrayBatch(p)
      PROVE  host' = host /\ age' = age
  BY <1>2 DEF PassStep, Start, Updated, Exit, recoverOrphanedClaims, NextOrphan,
     GetBudget, ClaimAnswered, buildSBatchScript, SlurmSbatch, UnitDone, cancelJob,
     applySlurmState, MarkJobProxied, tables
<1>3. ASSUME NEW p \in Pass, PassFault(p) PROVE host' = host /\ age' = age
  BY <1>3 DEF PassFault, ClaimLost, ReadLost, SqueueFails, SbatchFails, Crash,
     ReconcileLost, MarkLost, tables
<1>4. ASSUME NEW p \in Pass, ClaimNextArrayBatch(p)
      PROVE  host'[j] = host[j] /\ age'[j] >= age[j]
  <2>1. CASE host' = host /\ age' = age
    BY <1>1, <2>1
  <2>2. CASE ~(host' = host /\ age' = age)
    <3>1. PICK k \in Queue!BatchClaimable(0, limit[p], clampMinArray, FullArray) :
            LET U == Queue!Unit(k, limit[p]) IN
            /\ \E h \in [U -> HostsRecorded(p)] :
                 host' = [i \in Job |-> IF i \in U THEN h[i] ELSE host[i]]
            /\ age' = [i \in Job |-> IF i \in U THEN 0 ELSE age[i]]
      BY <1>4, <2>2 DEF ClaimNextArrayBatch
    <3> DEFINE U == Queue!Unit(k, limit[p])
    <3>2. j \notin U
      BY UnitIsFree DEF Past
    <3> HIDE DEF U
    <3>3. host'[j] = host[j] /\ age'[j] = age[j]
      BY <3>1, <3>2 DEF U
    <3> QED
      BY <1>0, <3>3
  <2> QED
    BY <2>1, <2>2
<1>5. CASE Tick
  <2>1. host'[j] = host[j] /\ (age'[j] = age[j] \/ age'[j] = age[j] + 1)
    BY <1>5 DEF Tick
  <2> QED
    BY <1>0, <2>1
<1>6. ASSUME \/ \E p \in Pass : ResolveDependencies(p)
             \/ \E n \in SlurmId, k \in Job : SlurmStep(n, k)
             \/ User \/ UNCHANGED vars
      PROVE  host' = host /\ age' = age
  BY <1>6 DEF ResolveDependencies, SlurmStep, SlurmStart, SlurmKill, SlurmEnd, SetSlurm,
     User, CancelFetch, scancel, CancelInQueue, tables, vars
<1> QED
  BY <1>1, <1>2, <1>3, <1>4, <1>5, <1>6 DEF Next

LEMMA EntitledStays ==
    ASSUME TypeOK, [Next]_vars, NEW j \in Job, Past(j), Entitled(j)
    PROVE  Entitled(j)'
<1>1. host'[j] = host[j] /\ age'[j] >= age[j]
  BY ClaimDetailsStay
<1>2. age[j] \in Nat /\ MinAge \in Nat
  BY SlurmAssumption DEF TypeOK
<1>3. age'[j] \in Nat
  BY TypeStep DEF TypeOK
<1>4. age'[j] >= MinAge
  BY <1>1, <1>2, <1>3 DEF Entitled
<1>5. PICK p \in Pass : Recovering(p) /\ Attributable(p, j)
  BY DEF Entitled
<1>6. Recovering(p)' /\ Attributable(p, j)'
  BY <1>1, <1>5 DEF Recovering, Attributable
<1> QED
  BY <1>4, <1>6 DEF Entitled

\* What a recovery puts on its list, it is entitled to.
LEMMA OrphansAreEntitled ==
    ASSUME NEW q \in Pass, ListInPlace(q), recoverOrphanedClaims(q), NEW j \in Job,
           isOrphanedClaim(q, j)
    PROVE  Past(j) /\ Entitled(j)
<1>1. Recovering(q)
  BY DEF recoverOrphanedClaims, ListInPlace
<1> QED
  BY <1>1 DEF isOrphanedClaim, Past, Entitled

\* A job that no recovery may take is sent by one pass, once.
SentOnceOrEntitled ==
    /\ \A j \in Job : ~Past(j) => Submissions(j) = {} /\ \A q \in Pass : j \notin ToSend(q)
    /\ \A q \in Pass : ListInPlace(q)
    /\ \A q \in Pass : \A u \in orphans[q] : \A j \in u : Entitled(j)
    /\ \A q \in Pass : \A j \in ToSend(q) : Entitled(j) \/ Submissions(j) = {}
    /\ \A p, q \in Pass : p # q => \A j \in ToSend(p) \cap ToSend(q) : Entitled(j)
    /\ \A j \in Job : Entitled(j) \/ \A m, n \in Submissions(j) : m = n

LEMMA SentOnceOrEntitledInit == Init => SentOnceOrEntitled
<1> SUFFICES ASSUME Init PROVE SentOnceOrEntitled
  OBVIOUS
<1>1. \A j \in Job : Submissions(j) = {}
  BY DEF Init, Submissions
<1>2. \A q \in Pass : pc[q] = "off" /\ orphans[q] = {} /\ ToSend(q) = {}
  BY DEF Init, ToSend, InHand
<1> QED
  BY <1>1, <1>2 DEF SentOnceOrEntitled, ListInPlace

\* Jobs are sent, and in SLURM, only once they were claimed.
LEMMA ClaimedBeforeSent ==
    ASSUME TypeOK, [Next]_vars, SentOnceOrEntitled, NEW j \in Job, ~Past(j)'
    PROVE  Submissions(j)' = {} /\ \A q \in Pass : j \notin ToSend(q)'
<1>1. ~Past(j)
  BY PastStays
<1>2. Submissions(j) = {} /\ \A q \in Pass : j \notin ToSend(q)
  BY <1>1 DEF SentOnceOrEntitled
<1>3. Submissions(j)' = {}
  <2>1. ASSUME NEW p \in Pass, SlurmSbatch(p) PROVE j \notin unit[p]
    BY <1>2, <2>1 DEF SlurmSbatch, ToSend, InHand
  <2> QED
    BY <1>2, <2>1, SubmissionsStep
<1>4. ASSUME NEW q \in Pass PROVE j \notin ToSend(q)'
  <2>1. status[j] # "RUNNING" /\ status'[j] # "RUNNING"
    BY <1>1 DEF Past
  <2>2. ~isOrphanedClaim(q, j)
    BY <2>1 DEF isOrphanedClaim
  <2> QED
    BY <1>2, <2>1, <2>2, ToSendStep
<1> QED
  BY <1>3, <1>4

LEMMA SentOnceOrEntitledStep ==
    ASSUME TypeOK, [Next]_vars, SentOnceOrEntitled
    PROVE  SentOnceOrEntitled'
<1>1. ASSUME NEW j \in Job, ~Past(j)'
      PROVE  Submissions(j)' = {} /\ \A q \in Pass : j \notin ToSend(q)'
  BY <1>1, ClaimedBeforeSent
<1>2. ASSUME NEW q \in Pass PROVE ListInPlace(q) /\ ListInPlace(q)'
  BY ListInPlaceStep DEF SentOnceOrEntitled
<1>3. ASSUME NEW q \in Pass PROVE \A j \in ToSend(q) : j \in Job /\ Past(j)
  <2>1. \A j \in ToSend(q) : j \in Job
    BY DEF ToSend, InHand, TypeOK
  <2> QED
    BY <2>1 DEF SentOnceOrEntitled
<1>4. ASSUME NEW j \in Job, Entitled(j), Past(j) PROVE Entitled(j)'
  BY <1>4, EntitledStays
<1>5. ASSUME NEW q \in Pass, NEW j \in Job, recoverOrphanedClaims(q), isOrphanedClaim(q, j)
      PROVE  Entitled(j)'
  BY <1>2, <1>4, <1>5, OrphansAreEntitled
<1>6. ASSUME NEW q \in Pass, NEW u \in orphans'[q], NEW j \in u PROVE Entitled(j)'
  <2>1. CASE u \in orphans[q]
    <3>1. j \in ToSend(q)
      BY <1>6, <2>1 DEF ToSend
    <3> QED
      BY <1>3, <1>4, <1>6, <2>1, <3>1 DEF SentOnceOrEntitled
  <2>2. CASE recoverOrphanedClaims(q)
    <3>1. j \in ToSend(q)'
      BY <1>6 DEF ToSend
    <3>2. ~ClaimNextArrayBatch(q)
      BY <2>2 DEF ClaimNextArrayBatch, recoverOrphanedClaims
    <3>3. CASE j \in ToSend(q)
      <4>1. ~(j \in InHand(q))
        BY <2>2 DEF recoverOrphanedClaims, InHand
      <4>2. Entitled(j)
        BY <3>3, <4>1 DEF ToSend, SentOnceOrEntitled
      <4> QED
        BY <1>3, <1>4, <3>3, <4>2
    <3>4. CASE j \notin ToSend(q)
      BY <1>5, <2>2, <3>1, <3>2, <3>4, ToSendStep
    <3> QED
      BY <3>3, <3>4
  <2> QED
    BY <1>6, <2>1, <2>2, OrphansStep
<1>7. ASSUME NEW q \in Pass, NEW j \in ToSend(q)'
      PROVE  Entitled(j)' \/ Submissions(j)' = {}
  <2>1. CASE j \in ToSend(q)
    <3>1. j \in Job /\ Past(j)
      BY <1>3, <2>1
    <3>2. CASE Entitled(j)
      BY <1>4, <3>1, <3>2
    <3>3. CASE Submissions(j) = {} /\ ~Entitled(j)
      <4>1. ASSUME NEW p \in Pass, SlurmSbatch(p), j \in unit[p] PROVE Entitled(j)'
        <5>1. j \in ToSend(p)
          BY <4>1 DEF SlurmSbatch, ToSend, InHand
        <5>2. p = q
          BY <2>1, <3>3, <5>1 DEF SentOnceOrEntitled
        <5>3. pc'[q] = "mark"
          BY <4>1, <5>2 DEF SlurmSbatch, TypeOK
        <5>4. PICK u \in orphans'[q] : j \in u
          BY <1>7, <5>3 DEF ToSend, InHand
        <5> QED
          BY <1>6, <5>4
      <4> QED
        BY <3>1, <3>3, <4>1, SubmissionsStep
    <3> QED
      BY <2>1, <3>2, <3>3 DEF SentOnceOrEntitled
  <2>2. CASE j \notin ToSend(q) /\ ClaimNextArrayBatch(q)
    <3>1. ~recoverOrphanedClaims(q)
      BY <2>2 DEF ClaimNextArrayBatch, recoverOrphanedClaims
    <3>2. j \in Job /\ status[j] = "QUEUED"
      BY <1>7, <2>2, <3>1, ToSendStep
    <3>3. Submissions(j) = {}
      BY <3>2 DEF SentOnceOrEntitled, Past
    <3> QED
      BY <2>2, <3>2, <3>3, NoSubmission
  <2>3. CASE recoverOrphanedClaims(q) /\ j \in Job /\ isOrphanedClaim(q, j)
    BY <1>5, <2>3
  <2> QED
    BY <1>7, <2>1, <2>2, <2>3, ToSendStep
<1>8. ASSUME NEW p \in Pass, NEW q \in Pass, p # q, NEW j, j \in ToSend(p)', j \in ToSend(q)',
             j \notin ToSend(p)
      PROVE  Entitled(j)'
  <2>1. ClaimNextArrayBatch(p) \/ recoverOrphanedClaims(p)
    BY <1>8, ToSendStep
  <2>2. UNCHANGED Mine(q)
    <3>1. PassStep(p)
      BY <2>1 DEF PassStep
    <3> QED
      BY <1>8, <3>1, OthersKeepTheirs
  <2>3. j \in ToSend(q)
    BY <1>8, <2>2 DEF Mine, ToSend, InHand
  <2>4. CASE recoverOrphanedClaims(p) /\ j \in Job /\ isOrphanedClaim(p, j)
    BY <1>5, <2>4
  <2>5. CASE j \in Job /\ status[j] = "QUEUED"
    BY <1>3, <2>3, <2>5 DEF Past
  <2> QED
    BY <1>8, <2>4, <2>5, ToSendStep
<1>9. ASSUME NEW p \in Pass, NEW q \in Pass, p # q, NEW j, j \in ToSend(p)', j \in ToSend(q)'
      PROVE  Entitled(j)'
  <2>1. CASE j \in ToSend(p) /\ j \in ToSend(q)
    BY <1>3, <1>4, <1>9, <2>1 DEF SentOnceOrEntitled
  <2>2. CASE j \notin ToSend(p)
    BY <1>8, <1>9, <2>2
  <2>3. CASE j \notin ToSend(q)
    BY <1>8, <1>9, <2>3
  <2> QED
    BY <2>1, <2>2, <2>3
<1>10. ASSUME NEW j \in Job
       PROVE  Entitled(j)' \/ \A m, n \in Submissions(j)' : m = n
  <2>1. CASE Entitled(j)
    <3>1. CASE Past(j)
      BY <1>4, <2>1, <3>1
    <3>2. CASE ~Past(j)
      <4>1. Submissions(j) = {} /\ \A q \in Pass : j \notin ToSend(q)
        BY <3>2 DEF SentOnceOrEntitled
      <4>2. ASSUME NEW p \in Pass, SlurmSbatch(p) PROVE j \notin unit[p]
        BY <4>1, <4>2 DEF SlurmSbatch, ToSend, InHand
      <4> QED
        BY <4>1, <4>2, SubmissionsStep
    <3> QED
      BY <3>1, <3>2
  <2>2. CASE Submissions(j)' = Submissions(j) /\ ~Entitled(j)
    BY <2>2 DEF SentOnceOrEntitled
  <2>3. ASSUME NEW p \in Pass, NEW k \in SlurmId, SlurmSbatch(p), j \in unit[p],
               Submissions(j)' = Submissions(j) \cup {k}, ~Entitled(j)
        PROVE  \A m, n \in Submissions(j)' : m = n
    <3>1. j \in ToSend(p)
      BY <2>3 DEF SlurmSbatch, ToSend, InHand
    <3>2. Submissions(j) = {}
      BY <2>3, <3>1 DEF SentOnceOrEntitled
    <3> QED
      BY <2>3, <3>2
  <2> QED
    BY <2>1, <2>2, <2>3, SubmissionsStep
<1> QED
  BY <1>1, <1>2, <1>6, <1>7, <1>9, <1>10 DEF SentOnceOrEntitled

LEMMA AtMostOne ==
    ASSUME NEW S, \A m, n \in S : m = n
    PROVE  Cardinality(S) \in Nat /\ Cardinality(S) <= 1
<1>1. CASE S = {}
  <2>1. Cardinality({}) = 0
    BY FS_EmptySet, Zenon
  <2> QED
    BY <1>1, <2>1
<1>2. CASE S # {}
  <2>1. PICK n \in S : TRUE
    BY <1>2
  <2>2. S = {n}
    BY <2>1
  <2>3. Cardinality({n}) = 1
    BY FS_Singleton
  <2> QED
    BY <2>2, <2>3
<1> QED
  BY <1>1, <1>2

\* Only a recovery submits a job again (OnlyRecoveryResubmits): whatever is
\* lost, late or crashes, a job is in SLURM twice only if its claim has reached
\* the age of the gate and a pass that recovers takes claims of its host.
THEOREM OnlyRecoveryTheorem == Spec => []OnlyRecoveryResubmits
<1>1. Init => SentOnceOrEntitled
  BY SentOnceOrEntitledInit
<1>2. TypeOK /\ SentOnceOrEntitled /\ [Next]_vars => SentOnceOrEntitled'
  BY SentOnceOrEntitledStep
<1>3. SentOnceOrEntitled => OnlyRecoveryResubmits
  <2> SUFFICES ASSUME SentOnceOrEntitled, NEW j \in Job, Cardinality(Submissions(j)) > 1
               PROVE  Entitled(j)
    BY DEF OnlyRecoveryResubmits, Entitled
  <2>1. ASSUME \A m, n \in Submissions(j) : m = n PROVE FALSE
    BY <2>1, AtMostOne
  <2> QED
    BY <2>1 DEF SentOnceOrEntitled
<1> QED
  BY <1>1, <1>2, <1>3, TypeTheorem, PTL DEF Spec

\* Where nobody recovers orphans, no job is submitted to SLURM twice
\* (NoDoubleSubmit): not by passes at once, not after lost answers or hand-offs,
\* not by a crash and a restart.
THEOREM NoDoubleSubmitTheorem ==
    (\A p \in Pass : ~Recovering(p)) /\ Spec => []NoDoubleSubmit
<1> DEFINE I == SentOnceOrEntitled /\ \A p \in Pass : ~Recovering(p)
<1>1. (\A p \in Pass : ~Recovering(p)) /\ Init => I
  BY SentOnceOrEntitledInit
<1>2. TypeOK /\ I /\ [Next]_vars => I'
  BY SentOnceOrEntitledStep DEF Recovering
<1>3. I => NoDoubleSubmit
  <2> SUFFICES ASSUME I, NEW j \in Job PROVE Cardinality(Submissions(j)) <= 1
    BY DEF NoDoubleSubmit
  <2>1. \A m, n \in Submissions(j) : m = n
    BY DEF SentOnceOrEntitled, Entitled
  <2> QED
    BY <2>1, AtMostOne
<1> HIDE DEF I
<1> QED
  BY <1>1, <1>2, <1>3, TypeTheorem, PTL DEF Spec

-----------------------------------------------------------------------------
(***************************************************************************)
(* What a recovery would need in order not to submit a job again: that a   *)
(* hand-off still in flight is too young for it, and that none is cut off. *)
(***************************************************************************)
\* What a claim or a recovery takes is part of one of these.
UnitSet == {{j} : j \in Job} \cup {TasksOf(a) : a \in Array}

\* The claim's answer, the sbatch and the hand-offs of a whole unit, each as late
\* as it can be, together take less than the age gate of the recovery.
HandoffsAreInTime ==
    \A U \in UnitSet : ClaimTime + SbatchTime + Cardinality(U) * MarkTime < MinAge

\* What a recovery relies on: it is the only one, the server takes hand-offs of
\* any orphan from it, hand-offs are in time, and none is cut off after its
\* sbatch.
RecoveryIsSafe ==
    \A p \in Pass : Recovering(p) =>
        /\ \A q \in Pass : Recovering(q) => q = p
        /\ \A q \in Pass : RunnerOf[q] = RunnerOf[p]
        /\ HandoffsAreInTime
        /\ Fault \cap {"crash", "markLost"} = {}

\* The jobs that a pass has submitted and not yet handed over.
ToMark(q) == {j \in Job : pc[q] = "mark" /\ \E n \in SlurmId : <<j, n>> \in work[q]}

Apart(q) == \A u \in orphans[q] :
    u \cap InHand(q) = {} /\ \A v \in orphans[q] : u # v => u \cap v = {}

SentOnce ==
    /\ \A j \in Job : ~Past(j) => Submissions(j) = {} /\ \A q \in Pass : j \notin ToSend(q)
    /\ \A q \in Pass : \A j \in ToSend(q) : Submissions(j) = {}
    /\ \A p, q \in Pass : p # q => ToSend(p) \cap ToSend(q) = {}
    /\ \A q \in Pass : Apart(q) /\ ListInPlace(q)
    /\ \A j \in Job : \A m, n \in Submissions(j) : m = n

\* A unit in flight is no older than the requests made for it took.
InTime(q) ==
    /\ pc[q] = "response" => wait[q] <= ClaimTime /\ \A j \in unit[q] : age[j] <= wait[q]
    /\ pc[q] \in {"build", "sbatch"} =>
         wait[q] <= SbatchTime /\ \A j \in unit[q] : age[j] <= ClaimTime + wait[q]
    /\ pc[q] = "mark" =>
         /\ wait[q] <= MarkTime
         /\ \E x \in Nat :
              /\ x + Cardinality(work[q]) <= Cardinality(unit[q])
              /\ \A j \in ToMark(q) :
                   age[j] <= ClaimTime + SbatchTime + x * MarkTime + wait[q]
    /\ pc[q] \in {"response", "build", "sbatch", "mark"} =>
         \E U \in UnitSet : unit[q] \subseteq U

\* What a recovery can tell from the tables.
Recoverable ==
    /\ \A j \in Job : status[j] = "RUNNING" =>
         /\ \E q \in Pass : owner[j] = RunnerOf[q]
         /\ slurmId[j] = 0 /\ Submissions(j) # {} => \E q \in Pass : j \in ToMark(q)
    /\ \A q \in Pass :
         /\ pc[q] = "mark" => \E n \in SlurmId : work[q] \subseteq unit[q] \X {n}
         /\ \A j \in ToSend(q) \cup ToMark(q) : Past(j) /\ owner[j] = RunnerOf[q]
         /\ ~Recovering(q) => InTime(q)

\* The units of a recovery have no job in common.
LEMMA RegroupApart ==
    ASSUME NEW S \in SUBSET Job, NEW u \in Regroup(S), NEW v \in Regroup(S), u # v
    PROVE  u \cap v = {}
<1> SUFFICES ASSUME NEW k \in u, k \in v PROVE FALSE
  OBVIOUS
<1>1. \/ ArrayOf[k] = NoArray /\ u = {k}
      \/ ArrayOf[k] \in Array /\ u = S \cap TasksOf(ArrayOf[k])
  BY DEF Regroup, TasksOf
<1>2. \/ ArrayOf[k] = NoArray /\ v = {k}
      \/ ArrayOf[k] \in Array /\ v = S \cap TasksOf(ArrayOf[k])
  BY DEF Regroup, TasksOf
<1> QED
  BY <1>1, <1>2, SlurmAssumption

\* A job too old to be in flight is in no pass's hands, and not in SLURM.
OrphansAreFree ==
    \A p \in Pass : recoverOrphanedClaims(p) =>
        \A j \in Job : isOrphanedClaim(p, j) =>
            /\ Submissions(j) = {}
            /\ \A q \in Pass : q # p => j \notin ToSend(q)

LEMMA ApartStep ==
    ASSUME TypeOK, [Next]_vars, NEW q \in Pass, ListInPlace(q), Apart(q)
    PROVE  Apart(q)'
<1>1. ASSUME orphans'[q] \subseteq orphans[q],
             InHand(q)' \subseteq InHand(q)
      PROVE  Apart(q)'
  BY <1>1 DEF Apart
<1>2. ASSUME UNCHANGED Mine(q) PROVE Apart(q)'
  BY <1>1, <1>2 DEF Mine, InHand
<1>3. ASSUME NEW p \in Pass, p # q, PassStep(p) \/ PassFault(p) PROVE Apart(q)'
  BY <1>2, <1>3, OthersKeepTheirs
<1>4. ASSUME \/ \E p \in Pass : ResolveDependencies(p)
             \/ \E n \in SlurmId, j \in Job : SlurmStep(n, j)
             \/ User \/ Tick \/ UNCHANGED vars
      PROVE  Apart(q)'
  BY <1>2, <1>4, WorldKeepsPasses
<1>5. CASE \/ Start(q) \/ Updated(q) \/ Exit(q) \/ UnitDone(q) \/ SbatchFails(q)
           \/ SqueueFails(q) \/ Crash(q) \/ ReadLost(q) \/ ClaimLost(q)
  <2>1. pc'[q] \notin {"response", "build", "sbatch"} /\ orphans'[q] \subseteq orphans[q]
    BY <1>5 DEF Start, Updated, Exit, UnitDone, SbatchFails, SqueueFails, Crash,
       ReadLost, ClaimLost, LeaveLoop, TypeOK
  <2> QED
    BY <1>1, <2>1 DEF InHand
<1>6. ASSUME NEW j \in Job, NEW n \in SlurmId \cup {0},
             \/ cancelJob(q, j) \/ applySlurmState(q, j, n) \/ ReconcileLost(q, j, n)
             \/ MarkLost(q, j, n) \/ MarkJobProxied(q, j, n)
      PROVE  Apart(q)'
  <2>1. pc'[q] \notin {"response", "build", "sbatch"} /\ orphans'[q] \subseteq orphans[q]
    BY <1>6 DEF cancelJob, applySlurmState, ReconcileLost, MarkLost, MarkJobProxied
  <2> QED
    BY <1>1, <2>1 DEF InHand
<1>7. CASE GetBudget(q) \/ SlurmSbatch(q)
  <2>1. pc'[q] \notin {"response", "build", "sbatch"} /\ orphans'[q] \subseteq orphans[q]
    BY <1>7 DEF GetBudget, LeaveLoop, SlurmSbatch, TypeOK
  <2> QED
    BY <1>1, <2>1 DEF InHand
<1>8. CASE ClaimAnswered(q) \/ buildSBatchScript(q)
  <2>1. /\ pc[q] \in {"response", "build"} /\ unit'[q] = unit[q]
        /\ orphans'[q] = orphans[q]
    BY <1>8 DEF ClaimAnswered, buildSBatchScript
  <2> QED
    BY <1>1, <2>1 DEF InHand
<1>9. CASE NextOrphan(q)
  <2>1. PICK u \in orphans[q] : unit'[q] = u /\ orphans'[q] = orphans[q] \ {u}
    BY <1>9 DEF NextOrphan, TypeOK
  <2>2. InHand(q)' = u
    BY <1>9, <2>1 DEF NextOrphan, TypeOK, InHand
  <2> QED
    BY <2>1, <2>2 DEF Apart
<1>10. CASE ClaimNextArrayBatch(q)
  <2>1. orphans'[q] = {}
    BY <1>10 DEF ClaimNextArrayBatch, ListInPlace
  <2> QED
    BY <2>1 DEF Apart
<1>11. CASE recoverOrphanedClaims(q)
  <2> DEFINE S == {j \in Job : isOrphanedClaim(q, j)}
  <2>1. pc'[q] = "next" /\ orphans'[q] = Regroup(S)
    BY <1>11 DEF recoverOrphanedClaims, TypeOK
  <2>2. InHand(q)' = {}
    BY <2>1 DEF InHand
  <2>3. S \in SUBSET Job
    OBVIOUS
  <2> HIDE DEF S
  <2>4. \A u, v \in Regroup(S) : u # v => u \cap v = {}
    BY <2>3, RegroupApart
  <2> QED
    BY <2>1, <2>2, <2>4 DEF Apart
<1> QED
  BY <1>3, <1>4, <1>5, <1>6, <1>7, <1>8, <1>9, <1>10, <1>11 DEF Next, PassStep, PassFault

LEMMA SentOnceStep ==
    ASSUME TypeOK, [Next]_vars, SentOnce, OrphansAreFree
    PROVE  SentOnce'
<1>1. ASSUME NEW j \in Job, ~Past(j)'
      PROVE  Submissions(j)' = {} /\ \A q \in Pass : j \notin ToSend(q)'
  <2>1. ~Past(j)
    BY <1>1, PastStays
  <2>2. Submissions(j) = {} /\ \A q \in Pass : j \notin ToSend(q)
    BY <2>1 DEF SentOnce
  <2>3. Submissions(j)' = {}
    <3>1. ASSUME NEW p \in Pass, SlurmSbatch(p) PROVE j \notin unit[p]
      BY <2>2, <3>1 DEF SlurmSbatch, ToSend, InHand
    <3> QED
      BY <2>2, <3>1, SubmissionsStep
  <2>4. ASSUME NEW q \in Pass PROVE j \notin ToSend(q)'
    <3>1. status[j] # "RUNNING" /\ status'[j] # "RUNNING"
      BY <1>1, <2>1 DEF Past
    <3>2. ~isOrphanedClaim(q, j)
      BY <3>1 DEF isOrphanedClaim
    <3> QED
      BY <2>2, <3>1, <3>2, ToSendStep
  <2> QED
    BY <2>3, <2>4
<1>2. ASSUME NEW q \in Pass, NEW j \in ToSend(q)' PROVE Submissions(j)' = {}
  <2>0. j \in Job
    <3>1. \A k \in ToSend(q) : k \in Job
      BY DEF ToSend, InHand, TypeOK
    <3> QED
      BY <1>2, <3>1, ToSendStep
  <2>1. CASE j \in ToSend(q)
    <3>1. Submissions(j) = {}
      BY <2>1 DEF SentOnce
    <3>2. ASSUME NEW p \in Pass, SlurmSbatch(p), j \in unit[p] PROVE FALSE
      <4>1. j \in InHand(p) /\ j \in ToSend(p)
        BY <3>2 DEF SlurmSbatch, ToSend, InHand
      <4>2. p = q
        BY <2>1, <4>1 DEF SentOnce
      <4>3. pc'[q] = "mark" /\ orphans'[q] = orphans[q]
        BY <3>2, <4>2 DEF SlurmSbatch, TypeOK
      <4>4. PICK u \in orphans[q] : j \in u
        BY <1>2, <4>3 DEF ToSend, InHand
      <4>5. u \cap InHand(q) = {}
        BY <4>4 DEF SentOnce, Apart
      <4> QED
        BY <4>1, <4>2, <4>4, <4>5
    <3> QED
      BY <2>0, <3>1, <3>2, SubmissionsStep
  <2>2. CASE j \notin ToSend(q) /\ ClaimNextArrayBatch(q)
    <3>1. CASE status[j] = "QUEUED"
      <4>1. Submissions(j) = {}
        BY <2>0, <3>1 DEF SentOnce, Past
      <4> QED
        BY <2>0, <2>2, <4>1, NoSubmission
    <3>2. CASE status[j] # "QUEUED"
      <4>1. ~recoverOrphanedClaims(q)
        BY <2>2 DEF ClaimNextArrayBatch, recoverOrphanedClaims
      <4> QED
        BY <1>2, <2>2, <3>2, <4>1, ToSendStep
    <3> QED
      BY <3>1, <3>2
  <2>3. CASE recoverOrphanedClaims(q) /\ isOrphanedClaim(q, j)
    <3>1. Submissions(j) = {}
      BY <2>0, <2>3 DEF OrphansAreFree
    <3> QED
      BY <2>0, <2>3, <3>1, NoSubmission
  <2> QED
    BY <1>2, <2>1, <2>2, <2>3, ToSendStep
<1>3. ASSUME NEW p \in Pass, NEW q \in Pass, p # q, NEW j, j \in ToSend(p)', j \in ToSend(q)',
             j \notin ToSend(p)
      PROVE  FALSE
  <2>1. ClaimNextArrayBatch(p) \/ recoverOrphanedClaims(p)
    BY <1>3, ToSendStep
  <2>2. UNCHANGED Mine(q)
    <3>1. PassStep(p)
      BY <2>1 DEF PassStep
    <3> QED
      BY <1>3, <3>1, OthersKeepTheirs
  <2>3. j \in ToSend(q)
    BY <1>3, <2>2 DEF Mine, ToSend, InHand
  <2>4. CASE recoverOrphanedClaims(p) /\ j \in Job /\ isOrphanedClaim(p, j)
    BY <1>3, <2>3, <2>4 DEF OrphansAreFree
  <2>5. CASE j \in Job /\ status[j] = "QUEUED"
    BY <2>3, <2>5 DEF SentOnce, Past
  <2> QED
    BY <1>3, <2>4, <2>5, ToSendStep
<1>4. ASSUME NEW p \in Pass, NEW q \in Pass, p # q
      PROVE  ToSend(p)' \cap ToSend(q)' = {}
  <2> SUFFICES ASSUME NEW j \in ToSend(p)', j \in ToSend(q)' PROVE FALSE
    OBVIOUS
  <2>1. CASE j \in ToSend(p) /\ j \in ToSend(q)
    BY <1>4, <2>1 DEF SentOnce
  <2>2. CASE j \notin ToSend(p)
    BY <1>3, <1>4, <2>2
  <2>3. CASE j \notin ToSend(q)
    BY <1>3, <1>4, <2>3
  <2> QED
    BY <2>1, <2>2, <2>3
<1>5. ASSUME NEW q \in Pass PROVE Apart(q)' /\ ListInPlace(q)'
  BY ApartStep, ListInPlaceStep DEF SentOnce
<1>6. ASSUME NEW j \in Job, NEW m \in Submissions(j)', NEW n \in Submissions(j)'
      PROVE  m = n
  <2>1. CASE Submissions(j)' = Submissions(j)
    BY <1>6, <2>1 DEF SentOnce
  <2>2. ASSUME NEW p \in Pass, NEW k \in SlurmId, SlurmSbatch(p), j \in unit[p],
               Submissions(j)' = Submissions(j) \cup {k}
        PROVE  m = n
    <3>1. j \in ToSend(p)
      BY <2>2 DEF SlurmSbatch, ToSend, InHand
    <3>2. Submissions(j) = {}
      BY <3>1 DEF SentOnce
    <3> QED
      BY <1>6, <2>2, <3>2
  <2> QED
    BY <2>1, <2>2, SubmissionsStep
<1> QED
  BY <1>1, <1>2, <1>4, <1>5, <1>6 DEF SentOnce

\* The numbers of a late hand-off: x of the N hand-offs are done, the next one
\* has waited for w, and each takes M at most.
LEMMA LateButInTime ==
    ASSUME NEW a \in Nat, NEW B \in Nat, NEW M \in Nat, NEW w \in Nat, NEW x \in Nat,
           NEW N \in Nat, NEW A \in Nat,
           a <= B + x * M + w, w <= M, x + 1 <= N, B + N * M < A
    PROVE  a < A
<1>1. PICK y \in Nat : N = x + 1 + y
  <2>1. N - (x + 1) \in Nat /\ N = x + 1 + (N - (x + 1))
    OBVIOUS
  <2> QED
    BY <2>1
<1>2. N * M = x * M + M + y * M
  BY <1>1
<1>3. x * M \in Nat /\ y * M \in Nat
  OBVIOUS
<1>4. PICK s \in Nat, t \in Nat : s = x * M /\ t = y * M
  BY <1>3
<1>5. N * M = s + M + t /\ a <= B + s + w
  BY <1>2, <1>4
<1>6. B + (s + M + t) < A
  BY <1>5
<1> QED
  BY <1>5, <1>6

\* The next hand-off: one more is done, and the wait starts again.
LEMMA OneMoreDone ==
    ASSUME NEW a \in Nat, NEW B \in Nat, NEW M \in Nat, NEW w \in Nat, NEW x \in Nat,
           a <= B + x * M + w, w <= M
    PROVE  a <= B + (x + 1) * M + 0
<1>1. (x + 1) * M = x * M + M
  OBVIOUS
<1>2. x * M \in Nat
  OBVIOUS
<1>3. PICK s \in Nat : s = x * M
  BY <1>2
<1>4. a <= B + s + w /\ (x + 1) * M = s + M
  BY <1>1, <1>3
<1> QED
  BY <1>4

LEMMA UnitSetSize ==
    ASSUME NEW U \in UnitSet, NEW u, u \subseteq U
    PROVE  /\ Cardinality(u) \in Nat /\ Cardinality(U) \in Nat
           /\ Cardinality(u) <= Cardinality(U)
<1>1. U \in SUBSET Job
  BY DEF UnitSet, TasksOf
<1>2. IsFiniteSet(U) /\ u \in SUBSET Job
  BY <1>1, JobsCount
<1> QED
  BY <1>1, <1>2, JobsCount, FS_Subset

\* The lists of a pass are finite.
LEMMA WorkCount ==
    ASSUME TypeOK, NEW q \in Pass
    PROVE  IsFiniteSet(work[q]) /\ Cardinality(work[q]) \in Nat
<1>1. IsFiniteSet(SlurmId)
  BY FS_Interval, SlurmAssumption DEF SlurmId
<1>2. IsFiniteSet(SlurmId \cup {0})
  BY <1>1, FS_AddElement
<1>3. IsFiniteSet(Job \X (SlurmId \cup {0}))
  BY <1>2, FS_Product, SlurmAssumption
<1>4. work[q] \subseteq Job \X (SlurmId \cup {0})
  BY DEF TypeOK
<1> QED
  BY <1>3, <1>4, FS_Subset, FS_CardinalityType

\* What is in flight is younger than the gate.
LEMMA TooYoung ==
    ASSUME HandoffsAreInTime, TypeOK, NEW q \in Pass, InTime(q),
           NEW j, j \in InHand(q) \cup ToMark(q)
    PROVE  age[j] < MinAge
<1>0. /\ ClaimTime \in Nat /\ SbatchTime \in Nat /\ MarkTime \in Nat /\ MinAge \in Nat
      /\ wait[q] \in Nat
  BY SlurmAssumption DEF TypeOK
<1>1. pc[q] \in {"response", "build", "sbatch", "mark"}
  BY DEF InHand, ToMark
<1>2. j \in Job
  BY DEF InHand, ToMark, TypeOK
<1>3. age[j] \in Nat
  BY <1>0, <1>2 DEF TypeOK
<1>4. PICK U \in UnitSet : unit[q] \subseteq U
  BY <1>1 DEF InTime
<1>5. /\ Cardinality(unit[q]) \in Nat /\ Cardinality(U) \in Nat
      /\ Cardinality(unit[q]) <= Cardinality(U)
  BY <1>4, UnitSetSize
<1>6. ClaimTime + SbatchTime + Cardinality(U) * MarkTime < MinAge
  BY DEF HandoffsAreInTime
<1>7. PICK c \in Nat : c = Cardinality(U) * MarkTime
  BY <1>0, <1>5
<1>8. ClaimTime + SbatchTime + c < MinAge
  BY <1>6, <1>7
<1>9. CASE pc[q] = "response"
  <2>1. wait[q] <= ClaimTime /\ age[j] <= wait[q]
    BY <1>9 DEF InTime, InHand, ToMark
  <2> QED
    BY <1>0, <1>3, <1>8, <2>1
<1>10. CASE pc[q] \in {"build", "sbatch"}
  <2>1. wait[q] <= SbatchTime /\ age[j] <= ClaimTime + wait[q]
    BY <1>10 DEF InTime, InHand, ToMark
  <2> QED
    BY <1>0, <1>3, <1>8, <2>1
<1>11. CASE pc[q] = "mark"
  <2>1. j \in ToMark(q)
    BY <1>11 DEF InHand
  <2>2. PICK x \in Nat :
          /\ x + Cardinality(work[q]) <= Cardinality(unit[q])
          /\ age[j] <= ClaimTime + SbatchTime + x * MarkTime + wait[q]
    BY <1>11, <2>1 DEF InTime
  <2>3. wait[q] <= MarkTime
    BY <1>11 DEF InTime
  <2>4. Cardinality(work[q]) \in Nat /\ Cardinality(work[q]) # 0
    <3>1. work[q] # {}
      BY <2>1 DEF ToMark
    <3> QED
      BY <3>1, WorkCount, FS_EmptySet, Zenon
  <2>5. x + 1 <= Cardinality(U)
    BY <1>5, <2>2, <2>4
  <2>6. ClaimTime + SbatchTime \in Nat
    BY <1>0
  <2> QED
    BY <1>0, <1>3, <1>5, <1>6, <2>2, <2>3, <2>5, <2>6, LateButInTime
<1> QED
  BY <1>1, <1>9, <1>10, <1>11

\* So a recovery takes jobs only that nobody has sent, or is going to send.
LEMMA OldIsFree ==
    ASSUME RecoveryIsSafe, TypeOK, SentOnce,
           (\E p \in Pass : Recovering(p)) => Recoverable
    PROVE  OrphansAreFree
<1> SUFFICES ASSUME NEW p \in Pass, recoverOrphanedClaims(p), NEW j \in Job,
                    isOrphanedClaim(p, j)
             PROVE  /\ Submissions(j) = {}
                    /\ \A q \in Pass : q # p => j \notin ToSend(q)
  BY DEF OrphansAreFree
<1>1. pc[p] = "recover" /\ Recovering(p)
  BY DEF recoverOrphanedClaims, SentOnce, ListInPlace
<1>2. Recoverable /\ HandoffsAreInTime /\ \A q \in Pass : Recovering(q) => q = p
  BY <1>1 DEF RecoveryIsSafe
<1>3. status[j] = "RUNNING" /\ slurmId[j] = 0 /\ ~(age[j] < MinAge)
  <2>1. age[j] \in Nat /\ MinAge \in Nat /\ age[j] >= MinAge
    BY SlurmAssumption DEF isOrphanedClaim, TypeOK
  <2> QED
    BY <2>1 DEF isOrphanedClaim
<1>4. ASSUME NEW q \in Pass, q # p PROVE j \notin InHand(q) \cup ToMark(q)
  <2>1. InTime(q)
    BY <1>2, <1>4 DEF Recoverable
  <2> QED
    BY <1>2, <1>3, <2>1, TooYoung
<1>5. Submissions(j) = {}
  <2> SUFFICES ASSUME Submissions(j) # {} PROVE FALSE
    OBVIOUS
  <2>1. PICK q \in Pass : j \in ToMark(q)
    BY <1>2, <1>3 DEF Recoverable
  <2>2. q # p
    BY <1>1, <2>1 DEF ToMark
  <2> QED
    BY <1>4, <2>1, <2>2
<1>6. ASSUME NEW q \in Pass, q # p PROVE j \notin ToSend(q)
  <2>1. orphans[q] = {}
    BY <1>2, <1>6 DEF SentOnce, ListInPlace
  <2> QED
    BY <1>4, <1>6, <2>1 DEF ToSend
<1> QED
  BY <1>5, <1>6

\* Only the clock makes a claim older.
LEMMA AgeStep ==
    ASSUME TypeOK, [Next]_vars, ~Tick, NEW j \in Job
    PROVE  age'[j] <= age[j]
<1>0. age[j] \in Nat /\ age[j] <= age[j] /\ 0 <= age[j]
  BY SlurmAssumption DEF TypeOK
<1>1. ASSUME age' = age PROVE age'[j] <= age[j]
  BY <1>0, <1>1
<1>2. ASSUME NEW p \in Pass, PassStep(p) \/ PassFault(p), ~ClaimNextArrayBatch(p)
      PROVE  age' = age
  BY <1>2 DEF PassStep, PassFault, Start, Updated, Exit, recoverOrphanedClaims, NextOrphan,
     GetBudget, ClaimAnswered, buildSBatchScript, SlurmSbatch, UnitDone, cancelJob,
     applySlurmState, MarkJobProxied, ClaimLost, ReadLost, SqueueFails, SbatchFails, Crash,
     ReconcileLost, MarkLost, tables
<1>3. ASSUME NEW p \in Pass, ClaimNextArrayBatch(p) PROVE age'[j] <= age[j]
  <2>1. CASE age' = age
    BY <1>1, <2>1
  <2>2. CASE age' # age
    <3>1. PICK U : age' = [k \in Job |-> IF k \in U THEN 0 ELSE age[k]]
      BY <1>3, <2>2 DEF ClaimNextArrayBatch
    <3> QED
      BY <1>0, <3>1
  <2> QED
    BY <2>1, <2>2
<1>4. ASSUME \/ \E p \in Pass : ResolveDependencies(p)
             \/ \E n \in SlurmId, k \in Job : SlurmStep(n, k)
             \/ User \/ UNCHANGED vars
      PROVE  age' = age
  BY <1>4 DEF ResolveDependencies, SlurmStep, SlurmStart, SlurmKill, SlurmEnd, SetSlurm,
     User, CancelFetch, scancel, CancelInQueue, tables, vars
<1> QED
  BY <1>1, <1>2, <1>3, <1>4 DEF Next

\* A pass whose requests are as they were, on jobs that are no older.
LEMMA InTimeQuiet ==
    ASSUME TypeOK, TypeOK', NEW q \in Pass, InTime(q), UNCHANGED Mine(q), wait'[q] = wait[q],
           \A j \in Job : age'[j] <= age[j]
    PROVE  InTime(q)'
<1>1. /\ pc'[q] = pc[q] /\ unit'[q] = unit[q] /\ work'[q] = work[q]
      /\ ToMark(q)' = ToMark(q)
  BY DEF Mine, ToMark
<1>2. /\ wait[q] \in Nat /\ ClaimTime \in Nat /\ SbatchTime \in Nat /\ MarkTime \in Nat
      /\ unit[q] \subseteq Job /\ ToMark(q) \subseteq Job
  BY SlurmAssumption DEF TypeOK, ToMark
<1>3. ASSUME NEW j \in Job, NEW b \in Nat, age[j] <= b PROVE age'[j] <= b
  <2>1. age[j] \in Nat /\ age'[j] \in Nat /\ age'[j] <= age[j]
    BY SlurmAssumption DEF TypeOK
  <2> QED
    BY <1>3, <2>1
<1>4. ASSUME pc[q] = "response"
      PROVE  wait'[q] <= ClaimTime /\ \A j \in unit'[q] : age'[j] <= wait'[q]
  BY <1>1, <1>2, <1>3, <1>4 DEF InTime
<1>5. ASSUME pc[q] \in {"build", "sbatch"}
      PROVE  wait'[q] <= SbatchTime /\ \A j \in unit'[q] : age'[j] <= ClaimTime + wait'[q]
  <2>1. ClaimTime + wait[q] \in Nat
    BY <1>2
  <2> QED
    BY <1>1, <1>2, <1>3, <1>5, <2>1 DEF InTime
<1>6. ASSUME pc[q] = "mark"
      PROVE  /\ wait'[q] <= MarkTime
             /\ \E x \in Nat :
                  /\ x + Cardinality(work'[q]) <= Cardinality(unit'[q])
                  /\ \A j \in ToMark(q)' :
                       age'[j] <= ClaimTime + SbatchTime + x * MarkTime + wait'[q]
  <2>1. PICK x \in Nat :
          /\ x + Cardinality(work[q]) <= Cardinality(unit[q])
          /\ \A j \in ToMark(q) :
               age[j] <= ClaimTime + SbatchTime + x * MarkTime + wait[q]
    BY <1>6 DEF InTime
  <2>2. x * MarkTime \in Nat
    BY <1>2
  <2>3. ClaimTime + SbatchTime + x * MarkTime + wait[q] \in Nat
    BY <1>2, <2>2
  <2>4. \A j \in ToMark(q)' :
               age'[j] <= ClaimTime + SbatchTime + x * MarkTime + wait'[q]
    BY <1>1, <1>2, <1>3, <2>1, <2>3
  <2>5. wait'[q] <= MarkTime
    BY <1>6 DEF InTime
  <2> QED
    BY <1>1, <2>1, <2>4, <2>5
<1>7. pc[q] \in {"response", "build", "sbatch", "mark"} =>
         \E U \in UnitSet : unit'[q] \subseteq U
  BY <1>1 DEF InTime
<1>8. UnitSet' = UnitSet
  BY DEF UnitSet, TasksOf
<1> QED
  BY <1>1, <1>4, <1>5, <1>6, <1>7, <1>8 DEF InTime

\* The clock goes on only if every request in flight has time left.
LEMMA InTimeTick ==
    ASSUME TypeOK, NEW q \in Pass, InTime(q), Tick
    PROVE  InTime(q)'
<1>1. /\ pc' = pc /\ unit' = unit /\ work' = work /\ ToMark(q)' = ToMark(q)
      /\ UnitSet' = UnitSet
  BY DEF Tick, hand, ToMark, UnitSet, TasksOf
<1>2. /\ wait[q] \in Nat /\ ClaimTime \in Nat /\ SbatchTime \in Nat /\ MarkTime \in Nat
      /\ unit[q] \subseteq Job /\ ToMark(q) \subseteq Job
  BY SlurmAssumption DEF TypeOK, ToMark
<1>3. ASSUME NEW j \in Job, NEW b \in Nat, age[j] <= b PROVE age'[j] <= b + 1
  <2>1. age[j] \in Nat /\ (age'[j] = age[j] \/ age'[j] = age[j] + 1)
    BY SlurmAssumption DEF TypeOK, Tick
  <2> QED
    BY <1>3, <2>1
<1>4. ASSUME q \in Timed PROVE wait'[q] = wait[q] + 1 /\ wait[q] < Patience(pc[q])
  BY <1>4 DEF Tick, Timed
<1>5. ASSUME pc[q] = "response"
      PROVE  wait'[q] <= ClaimTime /\ \A j \in unit[q] : age'[j] <= wait'[q]
  <2>1. wait'[q] = wait[q] + 1 /\ wait[q] < ClaimTime
    BY <1>4, <1>5 DEF Timed, Patience
  <2>2. \A j \in unit[q] : age[j] <= wait[q]
    BY <1>5 DEF InTime
  <2> QED
    BY <1>2, <1>3, <2>1, <2>2
<1>6. ASSUME pc[q] \in {"build", "sbatch"}
      PROVE  wait'[q] <= SbatchTime /\ \A j \in unit[q] : age'[j] <= ClaimTime + wait'[q]
  <2>1. wait'[q] = wait[q] + 1 /\ wait[q] < Patience(pc[q])
    BY <1>4, <1>6 DEF Timed
  <2>2. Patience(pc[q]) = SbatchTime
    BY <1>6 DEF Patience
  <2>3. \A j \in unit[q] : age[j] <= ClaimTime + wait[q]
    BY <1>6 DEF InTime
  <2>4. PICK b \in Nat : b = ClaimTime + wait[q]
    BY <1>2
  <2>5. \A j \in unit[q] : age'[j] <= b + 1
    BY <1>2, <1>3, <2>3, <2>4
  <2>6. b + 1 = ClaimTime + wait'[q]
    BY <1>2, <2>1, <2>4
  <2> QED
    BY <1>2, <2>1, <2>2, <2>5, <2>6
<1>7. ASSUME pc[q] = "mark"
      PROVE  /\ wait'[q] <= MarkTime
             /\ \E x \in Nat :
                  /\ x + Cardinality(work[q]) <= Cardinality(unit[q])
                  /\ \A j \in ToMark(q) :
                       age'[j] <= ClaimTime + SbatchTime + x * MarkTime + wait'[q]
  <2>1. PICK x \in Nat :
          /\ x + Cardinality(work[q]) <= Cardinality(unit[q])
          /\ \A j \in ToMark(q) :
               age[j] <= ClaimTime + SbatchTime + x * MarkTime + wait[q]
    BY <1>7 DEF InTime
  <2>2. CASE work[q] = {}
    <3>1. ToMark(q) = {}
      BY <2>2 DEF ToMark
    <3>2. q \notin Timed
      BY <1>7, <2>2 DEF Timed
    <3>3. wait'[q] = wait[q] /\ wait[q] <= MarkTime
      BY <1>7, <3>2 DEF Tick, InTime
    <3> QED
      BY <2>1, <3>1, <3>3
  <2>3. CASE work[q] # {}
    <3>1. wait'[q] = wait[q] + 1 /\ wait[q] < MarkTime
      BY <1>4, <1>7, <2>3 DEF Timed, Patience
    <3>2. PICK s \in Nat : s = x * MarkTime
      BY <1>2
    <3>3. PICK b \in Nat : b = ClaimTime + SbatchTime + s + wait[q]
      BY <1>2
    <3>4. b + 1 = ClaimTime + SbatchTime + s + wait'[q]
      BY <1>2, <3>1, <3>3
    <3>5. \A j \in ToMark(q) : age[j] <= b
      BY <2>1, <3>2, <3>3
    <3>6. \A j \in ToMark(q) : age'[j] <= b + 1
      BY <1>2, <1>3, <3>5
    <3>7. b + 1 = ClaimTime + SbatchTime + x * MarkTime + wait'[q]
      BY <3>2, <3>4
    <3> QED
      BY <1>2, <2>1, <3>1, <3>6, <3>7
  <2> QED
    BY <2>2, <2>3
<1>8. pc[q] \in {"response", "build", "sbatch", "mark"} =>
         \E U \in UnitSet : unit[q] \subseteq U
  BY DEF InTime
<1> QED
  BY <1>1, <1>5, <1>6, <1>7, <1>8 DEF InTime

\* What a claim takes is part of a unit.
LEMMA UnitIsInSet ==
    ASSUME NEW m, NEW t, NEW full, NEW j \in Queue!BatchClaimable(0, m, t, full)
    PROVE  \E U \in UnitSet : Queue!Unit(j, m) \subseteq U
<1>1. j \in Job
  BY DEF Queue!BatchClaimable, Queue!Queued
<1>2. CASE ArrayOf[j] = NoArray
  BY <1>1, <1>2 DEF Queue!Unit, UnitSet
<1>3. CASE ArrayOf[j] # NoArray
  <2>1. ArrayOf[j] \in Array
    BY <1>1, <1>3, SlurmAssumption
  <2>2. Queue!Unit(j, m) \subseteq TasksOf(ArrayOf[j])
    BY <1>3 DEF Queue!Unit, Queue!Batch, Queue!QueuedTasks, Queue!TasksOf, TasksOf
  <2> QED
    BY <2>1, <2>2 DEF UnitSet
<1> QED
  BY <1>2, <1>3

\* The steps of a pass that has no list of orphans.
LEMMA InTimeOwnStep ==
    ASSUME TypeOK, TypeOK', NEW q \in Pass, InTime(q), orphans[q] = {},
           "markLost" \notin Fault, PassStep(q) \/ PassFault(q)
    PROVE  InTime(q)'
<1>0. /\ wait[q] \in Nat /\ ClaimTime \in Nat /\ SbatchTime \in Nat /\ MarkTime \in Nat
      /\ unit[q] \subseteq Job /\ \A j \in Job : age[j] \in Nat
      /\ UnitSet' = UnitSet
  BY SlurmAssumption DEF TypeOK, UnitSet, TasksOf
<1>1. ASSUME pc'[q] \notin {"response", "build", "sbatch", "mark"} PROVE InTime(q)'
  BY <1>1 DEF InTime
<1>2. CASE Start(q) \/ Exit(q) \/ UnitDone(q) \/ SbatchFails(q) \/ Updated(q)
           \/ recoverOrphanedClaims(q)
  BY <1>1, <1>2 DEF Start, Exit, UnitDone, SbatchFails, Updated, recoverOrphanedClaims, TypeOK
<1>3. CASE SqueueFails(q) \/ ReadLost(q) \/ Crash(q)
  BY <1>1, <1>3 DEF SqueueFails, ReadLost, Crash, TypeOK
<1>4. CASE ClaimLost(q) \/ GetBudget(q)
  BY <1>1, <1>4 DEF ClaimLost, GetBudget, LeaveLoop, TypeOK
<1>5. ASSUME NEW j \in Job, NEW n \in SlurmId \cup {0},
             cancelJob(q, j) \/ applySlurmState(q, j, n) \/ ReconcileLost(q, j, n)
      PROVE  InTime(q)'
  BY <1>1, <1>5 DEF cancelJob, applySlurmState, ReconcileLost, TypeOK
<1>6. CASE NextOrphan(q)
  BY <1>6 DEF NextOrphan
<1>7. CASE ClaimNextArrayBatch(q)
  <2>1. CASE pc'[q] = "finish"
    BY <1>1, <2>1
  <2>2. CASE pc'[q] # "finish"
    <3>1. PICK j \in Queue!BatchClaimable(0, limit[q], clampMinArray, FullArray) :
            /\ age' = [k \in Job |-> IF k \in Queue!Unit(j, limit[q]) THEN 0 ELSE age[k]]
            /\ unit'[q] = Queue!Unit(j, limit[q])
            /\ wait'[q] = 0 /\ pc'[q] = "response"
      BY <1>7, <2>2 DEF ClaimNextArrayBatch, LeaveLoop, TypeOK
    <3>2. \E U \in UnitSet : unit'[q] \subseteq U
      BY <3>1, UnitIsInSet
    <3>3. \A k \in unit'[q] : age'[k] <= wait'[q]
      BY <3>1, UnitIsFree
    <3>4. wait'[q] <= ClaimTime
      BY <1>0, <3>1
    <3> QED
      BY <1>0, <3>1, <3>2, <3>3, <3>4 DEF InTime
  <2> QED
    BY <2>1, <2>2
<1>8. CASE ClaimAnswered(q)
  <2>1. /\ pc[q] = "response" /\ pc'[q] = "build" /\ wait'[q] = 0
        /\ unit' = unit /\ age' = age
    BY <1>8 DEF ClaimAnswered, TypeOK, hand, tables
  <2>2. wait[q] <= ClaimTime /\ \A j \in unit[q] : age[j] <= wait[q]
    BY <2>1 DEF InTime
  <2>3. \A j \in unit[q] : age[j] <= ClaimTime + 0
    BY <1>0, <2>2
  <2>4. \E U \in UnitSet : unit[q] \subseteq U
    BY <2>1 DEF InTime
  <2> QED
    BY <1>0, <2>1, <2>3, <2>4 DEF InTime
<1>9. CASE buildSBatchScript(q)
  <2>1. /\ pc[q] = "build" /\ pc'[q] \in {"drop", "sbatch"} /\ wait' = wait
        /\ unit' = unit /\ age' = age
    BY <1>9 DEF buildSBatchScript, TypeOK, tables
  <2>2. CASE pc'[q] = "drop"
    BY <1>1, <2>2
  <2>3. CASE pc'[q] = "sbatch"
    BY <1>0, <2>1, <2>3 DEF InTime
  <2> QED
    BY <2>1, <2>2, <2>3
<1>10. CASE SlurmSbatch(q)
  <2>1. PICK n \in Free : work'[q] = unit[q] \X {n}
    BY <1>10 DEF SlurmSbatch, TypeOK
  <2>2. /\ pc[q] = "sbatch" /\ pc'[q] = "mark" /\ wait'[q] = 0
        /\ unit' = unit /\ age' = age
    BY <1>10 DEF SlurmSbatch, TypeOK, tables
  <2>3. /\ wait[q] <= SbatchTime /\ \A j \in unit[q] : age[j] <= ClaimTime + wait[q]
        /\ \E U \in UnitSet : unit[q] \subseteq U
    BY <2>2 DEF InTime
  <2>4. 0 + Cardinality(work'[q]) <= Cardinality(unit'[q])
    <3>1. IsFiniteSet(unit[q]) /\ Cardinality(unit[q]) \in Nat
      BY <1>0, JobsCount
    <3>2. IsFiniteSet({n}) /\ Cardinality({n}) = 1
      BY FS_Singleton
    <3>3. Cardinality(unit[q] \X {n}) = Cardinality(unit[q]) * 1
      BY <3>1, <3>2, FS_Product
    <3> QED
      BY <2>1, <2>2, <3>1, <3>3
  <2>5. \A j \in unit[q] : age[j] <= ClaimTime + SbatchTime
    BY <1>0, <2>3
  <2>6. ClaimTime + SbatchTime + 0 * MarkTime + 0 = ClaimTime + SbatchTime
    BY <1>0
  <2>7. ToMark(q)' \subseteq unit[q]
    BY <2>1 DEF ToMark
  <2>8. \A j \in ToMark(q)' : age'[j] <= ClaimTime + SbatchTime + 0 * MarkTime + wait'[q]
    BY <2>2, <2>5, <2>6, <2>7
  <2>9. \E x \in Nat :
          /\ x + Cardinality(work'[q]) <= Cardinality(unit'[q])
          /\ \A j \in ToMark(q)' :
               age'[j] <= ClaimTime + SbatchTime + x * MarkTime + wait'[q]
    BY <2>4, <2>8
  <2>10. wait'[q] <= MarkTime
    BY <1>0, <2>2
  <2> QED
    BY <1>0, <2>2, <2>3, <2>9, <2>10 DEF InTime
<1>11. ASSUME NEW j \in Job, NEW n \in SlurmId \cup {0}, MarkJobProxied(q, j, n)
       PROVE  InTime(q)'
  <2>1. /\ pc[q] = "mark" /\ pc'[q] = "mark" /\ wait'[q] = 0
        /\ unit' = unit /\ age' = age
        /\ <<j, n>> \in work[q] /\ work'[q] = work[q] \ {<<j, n>>}
    BY <1>11 DEF MarkJobProxied, TypeOK, hand
  <2>2. PICK x \in Nat :
          /\ x + Cardinality(work[q]) <= Cardinality(unit[q])
          /\ \A k \in ToMark(q) :
               age[k] <= ClaimTime + SbatchTime + x * MarkTime + wait[q]
    BY <2>1 DEF InTime
  <2>3. wait[q] <= MarkTime /\ \E U \in UnitSet : unit[q] \subseteq U
    BY <2>1 DEF InTime
  <2>4. /\ Cardinality(work[q]) \in Nat
        /\ Cardinality(work'[q]) = Cardinality(work[q]) - 1
    <3>1. IsFiniteSet(work[q]) /\ Cardinality(work[q]) \in Nat
      BY WorkCount
    <3>2. <<j, n>> \in work[q]
      BY <2>1
    <3>3. Cardinality(work[q] \ {<<j, n>>}) = Cardinality(work[q]) - 1
      BY <3>1, <3>2, FS_RemoveElement
    <3> QED
      BY <2>1, <3>1, <3>3
  <2>5. Cardinality(unit[q]) \in Nat
    BY <1>0, JobsCount
  <2>6. (x + 1) + Cardinality(work'[q]) <= Cardinality(unit'[q])
    BY <2>1, <2>2, <2>4, <2>5
  <2>7. ToMark(q)' \subseteq ToMark(q) /\ ToMark(q) \subseteq Job
    BY <2>1 DEF ToMark
  <2>8. ClaimTime + SbatchTime \in Nat
    BY <1>0
  <2>9. \A k \in ToMark(q) : age[k] <= ClaimTime + SbatchTime + (x + 1) * MarkTime + 0
    BY <1>0, <2>2, <2>3, <2>7, <2>8, OneMoreDone
  <2>10. \A k \in ToMark(q)' :
           age'[k] <= ClaimTime + SbatchTime + (x + 1) * MarkTime + wait'[q]
    BY <2>1, <2>7, <2>9
  <2>11. \E y \in Nat :
          /\ y + Cardinality(work'[q]) <= Cardinality(unit'[q])
          /\ \A k \in ToMark(q)' :
               age'[k] <= ClaimTime + SbatchTime + y * MarkTime + wait'[q]
    <3>1. x + 1 \in Nat
      OBVIOUS
    <3> QED
      BY <2>6, <2>10, <3>1
  <2>12. wait'[q] <= MarkTime
    BY <1>0, <2>1
  <2> QED
    BY <1>0, <2>1, <2>3, <2>11, <2>12 DEF InTime
<1>12. ASSUME NEW j \in Job, NEW n \in SlurmId \cup {0}, MarkLost(q, j, n)
       PROVE  InTime(q)'
  BY <1>12 DEF MarkLost
<1> QED
  BY <1>2, <1>3, <1>4, <1>5, <1>6, <1>7, <1>8, <1>9, <1>10, <1>11, <1>12
  DEF PassStep, PassFault

LEMMA InTimeStep ==
    ASSUME TypeOK, [Next]_vars, NEW q \in Pass, InTime(q), orphans[q] = {},
           "markLost" \notin Fault
    PROVE  InTime(q)'
<1>0. TypeOK'
  BY TypeStep
<1>1. CASE Tick
  BY <1>1, InTimeTick
<1>2. ASSUME NEW p \in Pass, p # q, PassStep(p) \/ PassFault(p), ~Tick PROVE InTime(q)'
  <2>1. UNCHANGED Mine(q) /\ wait'[q] = wait[q]
    BY <1>2, OthersKeepTheirs DEF Counts
  <2> QED
    BY <1>0, <1>2, <2>1, InTimeQuiet, AgeStep
<1>3. ASSUME \/ \E p \in Pass : ResolveDependencies(p)
             \/ \E n \in SlurmId, j \in Job : SlurmStep(n, j)
             \/ User \/ UNCHANGED vars,
             ~Tick
      PROVE  InTime(q)'
  <2>1. UNCHANGED Mine(q)
    BY <1>3, WorldKeepsPasses
  <2>2. wait' = wait
    BY <1>3 DEF ResolveDependencies, SlurmStep, SlurmStart, SlurmKill, SlurmEnd, SetSlurm,
       User, CancelFetch, scancel, CancelInQueue, vars
  <2> QED
    BY <1>0, <1>3, <2>1, <2>2, InTimeQuiet, AgeStep
<1>4. CASE PassStep(q) \/ PassFault(q)
  BY <1>0, <1>4, InTimeOwnStep
<1> QED
  BY <1>1, <1>2, <1>3, <1>4 DEF Next

\* A claim gives a queued job to the runner that asks; no other step does, and
\* none takes it back.
LEMMA OwnerStep ==
    ASSUME TypeOK, [Next]_vars, NEW j \in Job
    PROVE  /\ Past(j) => owner'[j] = owner[j]
           /\ status[j] # "RUNNING" /\ status'[j] = "RUNNING" =>
                /\ status[j] = "QUEUED"
                /\ \E p \in Pass : ClaimNextArrayBatch(p) /\ owner'[j] = RunnerOf[p]
<1>1. ASSUME NEW p \in Pass, ClaimNextArrayBatch(p), owner'[j] # owner[j]
      PROVE  owner'[j] = RunnerOf[p] /\ ~Past(j)
  <2>1. PICK k \in Queue!BatchClaimable(0, limit[p], clampMinArray, FullArray) :
          Queue!claimJobs(RunnerOf[p], Queue!Unit(k, limit[p]))
    BY <1>1 DEF ClaimNextArrayBatch
  <2>2. owner' = [i \in Job |-> IF i \in Queue!Unit(k, limit[p]) THEN RunnerOf[p] ELSE owner[i]]
    BY <2>1 DEF Queue!claimJobs
  <2>3. j \in Queue!Unit(k, limit[p])
    BY <1>1, <2>2
  <2>4. status[j] = "QUEUED"
    BY <2>3, UnitIsFree
  <2> QED
    BY <2>2, <2>3, <2>4 DEF Past
<1>2. ASSUME ~\E p \in Pass : ClaimNextArrayBatch(p) PROVE owner' = owner
  <2>1. ASSUME NEW p \in Pass, PassStep(p) \/ PassFault(p), ~ClaimNextArrayBatch(p)
        PROVE  owner' = owner
    BY <2>1 DEF PassStep, PassFault, Start, Updated, Exit, recoverOrphanedClaims, NextOrphan,
       GetBudget, ClaimAnswered, buildSBatchScript, SlurmSbatch, UnitDone, cancelJob,
       applySlurmState, MarkJobProxied, ClaimLost, ReadLost, SqueueFails, SbatchFails, Crash,
       ReconcileLost, MarkLost, tables
  <2>2. ASSUME \/ \E p \in Pass : ResolveDependencies(p)
               \/ \E n \in SlurmId, k \in Job : SlurmStep(n, k)
               \/ User \/ Tick \/ UNCHANGED vars
        PROVE  owner' = owner
    BY <2>2 DEF ResolveDependencies, SlurmStep, SlurmStart, SlurmKill, SlurmEnd, SetSlurm,
       User, CancelFetch, scancel, CancelInQueue, Tick, tables, vars
  <2> QED
    BY <1>2, <2>1, <2>2 DEF Next
<1>3. Past(j) => owner'[j] = owner[j]
  BY <1>1, <1>2
<1>4. ASSUME status[j] # "RUNNING", status'[j] = "RUNNING"
      PROVE  /\ status[j] = "QUEUED"
             /\ \E p \in Pass : ClaimNextArrayBatch(p) /\ owner'[j] = RunnerOf[p]
  <2>1. j \in Lifecycle!Changed
    BY <1>4 DEF Lifecycle!Changed
  <2>2. Lifecycle!Claim
    BY <1>4, <2>1, LifecycleStep
    DEF Lifecycle!Kill, Lifecycle!Settle, Lifecycle!Advance, Lifecycle!Dead
  <2>3. PICK r \in RunnerId : \A k \in Lifecycle!Changed :
          /\ status[k] = "QUEUED" /\ owner[k] = NoRunner
          /\ status'[k] = "RUNNING" /\ owner'[k] = r
    BY <2>2 DEF Lifecycle!Claim
  <2>4. owner'[j] # owner[j]
    BY <2>1, <2>3, SlurmAssumption
  <2> QED
    BY <1>1, <1>2, <2>1, <2>3, <2>4
<1> QED
  BY <1>3, <1>4

\* An id is recorded together with the hand-off.
LEMMA SlurmIdStep ==
    ASSUME TypeOK, [Next]_vars, NEW j \in Job
    PROVE  slurmId'[j] = slurmId[j] \/ status'[j] = "PROXYQUEUED"
<1>1. ASSUME NEW p \in Pass, NEW k \in Job, NEW n \in SlurmId \cup {0},
             MarkJobProxied(p, k, n) \/ MarkLost(p, k, n)
      PROVE  slurmId'[j] = slurmId[j] \/ status'[j] = "PROXYQUEUED"
  BY <1>1 DEF MarkJobProxied, MarkLost, RecordHandoff, TypeOK
<1>2. ASSUME NEW p \in Pass, PassStep(p) \/ PassFault(p),
             ~\E k \in Job, n \in SlurmId \cup {0} :
                 MarkJobProxied(p, k, n) \/ MarkLost(p, k, n)
      PROVE  slurmId' = slurmId
  BY <1>2 DEF PassStep, PassFault, Start, Updated, Exit, recoverOrphanedClaims, NextOrphan,
     GetBudget, ClaimNextArrayBatch, ClaimAnswered, buildSBatchScript, SlurmSbatch, UnitDone,
     cancelJob, applySlurmState, ClaimLost, ReadLost, SqueueFails, SbatchFails, Crash,
     ReconcileLost, tables
<1>3. ASSUME \/ \E p \in Pass : ResolveDependencies(p)
             \/ \E n \in SlurmId, k \in Job : SlurmStep(n, k)
             \/ User \/ Tick \/ UNCHANGED vars
      PROVE  slurmId' = slurmId
  BY <1>3 DEF ResolveDependencies, SlurmStep, SlurmStart, SlurmKill, SlurmEnd, SetSlurm,
     User, CancelFetch, scancel, CancelInQueue, Tick, tables, vars
<1> QED
  BY <1>1, <1>2, <1>3 DEF Next

\* The hand-offs of a unit go on until none is left.
LEMMA ToMarkStep ==
    ASSUME TypeOK, [Next]_vars, NEW q \in Pass, Fault \cap {"crash", "markLost"} = {}
    PROVE  \/ UNCHANGED Mine(q)
           \/ pc'[q] # "mark" /\ ToMark(q) = {}
           \/ SlurmSbatch(q)
           \/ \E j \in Job, n \in SlurmId \cup {0} : MarkJobProxied(q, j, n)
<1>1. ASSUME pc'[q] # "mark", pc[q] # "mark" PROVE pc'[q] # "mark" /\ ToMark(q) = {}
  BY <1>1 DEF ToMark
<1>2. CASE Start(q) \/ Exit(q) \/ SbatchFails(q) \/ Updated(q) \/ recoverOrphanedClaims(q)
           \/ NextOrphan(q) \/ ClaimAnswered(q)
  BY <1>1, <1>2 DEF Start, Exit, SbatchFails, Updated, recoverOrphanedClaims, NextOrphan,
     ClaimAnswered, TypeOK
<1>3. CASE SqueueFails(q) \/ ReadLost(q) \/ Crash(q) \/ buildSBatchScript(q)
  BY <1>1, <1>3 DEF SqueueFails, ReadLost, Crash, buildSBatchScript, TypeOK
<1>4. CASE ClaimLost(q) \/ GetBudget(q) \/ ClaimNextArrayBatch(q)
  BY <1>1, <1>4 DEF ClaimLost, GetBudget, ClaimNextArrayBatch, LeaveLoop, TypeOK
<1>5. ASSUME NEW j \in Job, NEW n \in SlurmId \cup {0},
             cancelJob(q, j) \/ applySlurmState(q, j, n) \/ ReconcileLost(q, j, n)
      PROVE  pc'[q] # "mark" /\ ToMark(q) = {}
  BY <1>1, <1>5 DEF cancelJob, applySlurmState, ReconcileLost, TypeOK
<1>6. CASE UnitDone(q)
  BY <1>6 DEF UnitDone, ToMark, TypeOK
<1>7. ASSUME NEW j \in Job, NEW n \in SlurmId \cup {0}, MarkLost(q, j, n) PROVE FALSE
  BY <1>7 DEF MarkLost
<1>8. ASSUME NEW p \in Pass, p # q, PassStep(p) \/ PassFault(p) PROVE UNCHANGED Mine(q)
  BY <1>8, OthersKeepTheirs
<1>9. ASSUME \/ \E p \in Pass : ResolveDependencies(p)
             \/ \E n \in SlurmId, j \in Job : SlurmStep(n, j)
             \/ User \/ Tick \/ UNCHANGED vars
      PROVE  UNCHANGED Mine(q)
  BY <1>9, WorldKeepsPasses
<1> QED
  BY <1>2, <1>3, <1>4, <1>5, <1>6, <1>7, <1>8, <1>9 DEF Next, PassStep, PassFault

\* A running job that is in SLURM without an id on record is about to get one.
LEMMA MarkIsToCome ==
    ASSUME TypeOK, [Next]_vars, SentOnce, Recoverable,
           Fault \cap {"crash", "markLost"} = {}, NEW j \in Job,
           status'[j] = "RUNNING", slurmId'[j] = 0, Submissions(j)' # {}
    PROVE  \E q \in Pass : j \in ToMark(q)'
<1>1. slurmId[j] = 0
  BY SlurmIdStep
<1>2. status[j] = "RUNNING"
  <2> SUFFICES ASSUME status[j] # "RUNNING" PROVE FALSE
    OBVIOUS
  <2>1. status[j] = "QUEUED" /\ \E p \in Pass : ClaimNextArrayBatch(p)
    BY OwnerStep
  <2>2. Submissions(j) = {}
    BY <2>1 DEF SentOnce, Past
  <2> QED
    BY <2>1, <2>2, NoSubmission
<1>3. CASE Submissions(j) = {}
  <2>1. PICK p \in Pass, n \in SlurmId :
          /\ SlurmSbatch(p) /\ work' = [work EXCEPT ![p] = unit[p] \X {n}]
          /\ j \in unit[p]
    BY <1>3, SubmissionsStep
  <2>2. pc'[p] = "mark" /\ <<j, n>> \in work'[p]
    BY <2>1 DEF SlurmSbatch, TypeOK
  <2> QED
    BY <2>2 DEF ToMark
<1>4. CASE Submissions(j) # {}
  <2>1. PICK q \in Pass : j \in ToMark(q)
    BY <1>1, <1>2, <1>4 DEF Recoverable
  <2>2. pc[q] = "mark"
    BY <2>1 DEF ToMark
  <2>3. CASE UNCHANGED Mine(q)
    BY <2>1, <2>3 DEF Mine, ToMark
  <2>4. CASE SlurmSbatch(q)
    BY <2>2, <2>4 DEF SlurmSbatch
  <2>5. ASSUME NEW k \in Job, NEW n \in SlurmId \cup {0}, MarkJobProxied(q, k, n)
        PROVE  j \in ToMark(q)'
    <3>1. j # k
      <4> SUFFICES ASSUME j = k PROVE FALSE
        OBVIOUS
      <4>1. owner[j] = RunnerOf[q]
        BY <2>1 DEF Recoverable
      <4>2. MarkAllowed(q, j)
        BY <1>2, <4>1 DEF MarkAllowed
      <4>3. status'[j] = "PROXYQUEUED"
        BY <2>5, <4>2 DEF MarkJobProxied, RecordHandoff, TypeOK
      <4> QED
        BY <4>3
    <3>2. pc'[q] = "mark" /\ work'[q] = work[q] \ {<<k, n>>}
      BY <2>5 DEF MarkJobProxied, TypeOK
    <3>3. PICK m \in SlurmId : <<j, m>> \in work[q]
      BY <2>1 DEF ToMark
    <3>4. <<j, m>> \in work'[q]
      BY <3>1, <3>2, <3>3
    <3> QED
      BY <3>2, <3>4 DEF ToMark
  <2> QED
    BY <2>1, <2>3, <2>4, <2>5, ToMarkStep
<1> QED
  BY <1>3, <1>4

LEMMA RecoverableStep ==
    ASSUME TypeOK, [Next]_vars, SentOnce, Recoverable, RecoveryIsSafe,
           \E p \in Pass : Recovering(p)
    PROVE  Recoverable'
<1>0. Fault \cap {"crash", "markLost"} = {}
  BY DEF RecoveryIsSafe
<1>1. ASSUME NEW j \in Job, status'[j] = "RUNNING"
      PROVE  /\ \E q \in Pass : owner'[j] = RunnerOf[q]
             /\ slurmId'[j] = 0 /\ Submissions(j)' # {} => \E q \in Pass : j \in ToMark(q)'
  <2>1. CASE status[j] = "RUNNING"
    <3>1. owner'[j] = owner[j]
      BY <2>1, OwnerStep DEF Past
    <3> QED
      BY <1>0, <1>1, <2>1, <3>1, MarkIsToCome DEF Recoverable
  <2>2. CASE status[j] # "RUNNING"
    BY <1>0, <1>1, <2>2, OwnerStep, MarkIsToCome
  <2> QED
    BY <2>1, <2>2
<1>2. ASSUME NEW q \in Pass, pc'[q] = "mark"
      PROVE  \E n \in SlurmId : work'[q] \subseteq unit'[q] \X {n}
  <2>1. CASE UNCHANGED Mine(q)
    BY <1>2, <2>1 DEF Recoverable, Mine
  <2>2. CASE SlurmSbatch(q)
    BY <2>2 DEF SlurmSbatch, Free, TypeOK
  <2>3. ASSUME NEW k \in Job, NEW n \in SlurmId \cup {0}, MarkJobProxied(q, k, n)
        PROVE  \E m \in SlurmId : work'[q] \subseteq unit'[q] \X {m}
    <3>1. pc[q] = "mark" /\ unit' = unit /\ work'[q] \subseteq work[q]
      BY <2>3 DEF MarkJobProxied, TypeOK, hand
    <3> QED
      BY <3>1 DEF Recoverable
  <2> QED
    BY <1>0, <1>2, <2>1, <2>2, <2>3, ToMarkStep
<1>3. ASSUME NEW q \in Pass, NEW j \in ToSend(q)' \cup ToMark(q)'
      PROVE  Past(j)' /\ owner'[j] = RunnerOf[q]
  <2>1. ASSUME j \in ToSend(q) \cup ToMark(q) PROVE Past(j)' /\ owner'[j] = RunnerOf[q]
    <3>1. j \in Job
      BY <2>1 DEF ToSend, InHand, ToMark, TypeOK
    <3>2. Past(j) /\ owner[j] = RunnerOf[q]
      BY <2>1 DEF Recoverable
    <3> QED
      BY <3>1, <3>2, PastStays, OwnerStep
  <2>2. CASE j \in ToSend(q)' /\ j \notin ToSend(q)
    <3>1. CASE status'[j] = "RUNNING" /\ owner'[j] = RunnerOf[q]
      BY <3>1 DEF Past
    <3>2. CASE recoverOrphanedClaims(q) /\ j \in Job /\ isOrphanedClaim(q, j)
      <4>1. Recovering(q)
        BY <3>2 DEF recoverOrphanedClaims, SentOnce, ListInPlace
      <4>2. status[j] = "RUNNING"
        BY <3>2 DEF isOrphanedClaim
      <4>3. PICK p \in Pass : owner[j] = RunnerOf[p]
        BY <3>2, <4>2 DEF Recoverable
      <4>4. RunnerOf[p] = RunnerOf[q]
        BY <4>1 DEF RecoveryIsSafe
      <4>5. Past(j)
        BY <4>2 DEF Past
      <4> QED
        BY <3>2, <4>3, <4>4, <4>5, PastStays, OwnerStep
    <3> QED
      BY <2>2, <3>1, <3>2, ToSendStep
  <2>3. CASE j \in ToMark(q)' /\ j \notin ToMark(q)
    <3>1. pc'[q] = "mark"
      BY <2>3 DEF ToMark
    <3>2. CASE UNCHANGED Mine(q)
      BY <2>3, <3>2 DEF Mine, ToMark
    <3>3. CASE SlurmSbatch(q)
      <4>1. PICK n \in SlurmId : work'[q] = unit[q] \X {n}
        BY <3>3 DEF SlurmSbatch, Free, TypeOK
      <4>2. ToMark(q)' \subseteq unit[q]
        BY <4>1 DEF ToMark
      <4>3. j \in ToSend(q)
        BY <2>3, <3>3, <4>2 DEF SlurmSbatch, ToSend, InHand
      <4> QED
        BY <2>1, <4>3
    <3>4. ASSUME NEW k \in Job, NEW n \in SlurmId \cup {0}, MarkJobProxied(q, k, n)
          PROVE  FALSE
      <4>1. pc[q] = "mark" /\ work'[q] \subseteq work[q]
        BY <3>4 DEF MarkJobProxied, TypeOK
      <4> QED
        BY <2>3, <4>1 DEF ToMark
    <3> QED
      BY <1>0, <3>1, <3>2, <3>3, <3>4, ToMarkStep
  <2> QED
    BY <1>3, <2>1, <2>2, <2>3
<1>4. ASSUME NEW q \in Pass, ~Recovering(q) PROVE InTime(q)'
  <2>1. orphans[q] = {}
    BY <1>4 DEF SentOnce, ListInPlace
  <2>2. InTime(q)
    BY <1>4 DEF Recoverable
  <2> QED
    BY <1>0, <2>1, <2>2, InTimeStep
<1> QED
  BY <1>1, <1>2, <1>3, <1>4 DEF Recoverable, Recovering

\* One submission per job (NoDoubleSubmit) with a recovery too, if it is safe in
\* the sense of RecoveryIsSafe.  This is what a longer age gate would give: the
\* code's own times, 3 + 3 minutes against 5, are not in time, and a crash or a
\* lost hand-off after an sbatch is left out.
THEOREM NoDoubleSubmitIfRecoveryIsSafe == RecoveryIsSafe /\ Spec => []NoDoubleSubmit
<1> DEFINE I == /\ RecoveryIsSafe /\ SentOnce
                /\ (\E p \in Pass : Recovering(p)) => Recoverable
<1>1. RecoveryIsSafe /\ Init => I
  <2> SUFFICES ASSUME RecoveryIsSafe, Init PROVE SentOnce /\ Recoverable
    OBVIOUS
  <2>1. \A j \in Job : Submissions(j) = {} /\ status[j] # "RUNNING"
    BY SlurmAssumption DEF Init, Submissions
  <2>2. \A q \in Pass : /\ pc[q] = "off" /\ orphans[q] = {}
                        /\ ToSend(q) = {} /\ ToMark(q) = {}
    BY DEF Init, ToSend, InHand, ToMark
  <2>3. SentOnce
    BY <2>1, <2>2 DEF SentOnce, Apart, ListInPlace
  <2>4. Recoverable
    BY <2>1, <2>2 DEF Recoverable, InTime
  <2> QED
    BY <2>3, <2>4
<1>2. TypeOK /\ I /\ [Next]_vars => I'
  <2> SUFFICES ASSUME TypeOK, I, [Next]_vars PROVE I'
    OBVIOUS
  <2>1. SentOnce'
    BY OldIsFree, SentOnceStep
  <2>2. (\E p \in Pass : Recovering(p)) => Recoverable'
    BY RecoverableStep
  <2>3. RecoveryIsSafe' /\ ((\E p \in Pass : Recovering(p))' => \E p \in Pass : Recovering(p))
    BY DEF RecoveryIsSafe, HandoffsAreInTime, UnitSet, TasksOf, Recovering
  <2> QED
    BY <2>1, <2>2, <2>3
<1>3. I => NoDoubleSubmit
  <2> SUFFICES ASSUME SentOnce, NEW j \in Job PROVE Cardinality(Submissions(j)) <= 1
    BY DEF NoDoubleSubmit
  <2> QED
    BY AtMostOne DEF SentOnce
<1> HIDE DEF I
<1> QED
  BY <1>1, <1>2, <1>3, TypeTheorem, PTL DEF Spec
=============================================================================
