------------------------------- MODULE Cleanup -------------------------------
(***************************************************************************)
(* Removing ended jobs: batchq cleanup (Service.CleanupBulk), which plans  *)
(* on the server and then deletes or archives chunk by chunk, POST         *)
(* /jobs/archive (Service.ArchiveJobs), which archives a list planned      *)
(* earlier, and the cleanup of one job.  Requests overlap each other and   *)
(* the submits and ends of jobs; every query and every transaction is a    *)
(* step, and the server may die between any two.                           *)
(*                                                                         *)
(* A job's record is its jobs row and its child rows (details, files,      *)
(* dependencies): a row without child rows is hollow.  Which jobs a        *)
(* request selects by status and age is any set of jobs.                   *)
(***************************************************************************)
EXTENDS Integers, FiniteSets, Sequences, SequencesExt

CONSTANTS
    Job,
    Op,         \* the requests
    Name,       \* archive file names
    Chunk,      \* jobs per transaction, 500 in the code
    Fault,      \* what may go wrong
    MaxFaults   \* bound on how often

FaultKind == {"crash", "abort", "readFails", "copyFails", "deleteFails",
              "moveFails", "newDependent", "sameName"}

ASSUME CleanupAssumption ==
    /\ IsFiniteSet(Job)
    /\ Chunk \in Nat \ {0}
    /\ Fault \subseteq FaultKind
    /\ MaxFaults \in Nat

VARIABLES
    \* the live database
    row,        \* the jobs row: "none" (not submitted), "active", "ended", "gone"
    deps,       \* job_deps: the parents of a job
    whole,      \* the jobs with their child rows
    \* the archive directory
    file,       \* "none", "open" (writable), "sealed" (0440)
    rowsIn,     \* the jobs with a row in the archive
    wholeIn,    \* the ones with their child rows too
    \* the server
    running,    \* cleanupRunning
    pc,
    mode,       \* "delete" or "archive" (batchq cleanup), "post" (POST /jobs/archive)
    filter,     \* the jobs it selects
    plan,
    at,         \* how far the plan has been worked off
    name,       \* the archive of the request
    batch,      \* the jobs loaded, and the ones loaded whole
    count,      \* jobs archived
    faults,
    purged      \* jobs somebody asked to delete (history)

database == <<row, deps, whole>>
archives == <<file, rowsIn, wholeIn>>
request  == <<mode, filter, plan, at, name, batch, count>>
vars     == <<row, deps, whole, file, rowsIn, wholeIn, running, pc, mode, filter,
              plan, at, name, batch, count, faults, purged>>

Pc == {"idle", "edges", "stat", "open", "load", "copy", "children", "rows",
       "close", "done"}

TypeOK ==
    /\ row   \in [Job -> {"none", "active", "ended", "gone"}]
    /\ deps  \in [Job -> SUBSET Job]
    /\ whole \subseteq Job
    /\ file  \in [Name -> {"none", "open", "sealed"}]
    /\ rowsIn \in [Name -> SUBSET Job] /\ wholeIn \in [Name -> SUBSET Job]
    /\ running \in BOOLEAN
    /\ pc    \in [Op -> Pc]
    /\ mode  \in [Op -> {"none", "archive", "delete", "post"}]
    /\ filter \in [Op -> SUBSET Job]
    /\ plan  \in [Op -> Seq(Job)]
    /\ at    \in [Op -> Nat]
    /\ name  \in [Op -> Name]
    /\ batch \in [Op -> (SUBSET Job) \X (SUBSET Job)]
    /\ count \in [Op -> Nat]
    /\ faults \in 0..MaxFaults
    /\ purged \subseteq Job

Live      == {j \in Job : row[j] \in {"active", "ended"}}
EndedJobs == {j \in Job : row[j] = "ended"}

Init ==
    /\ row   = [j \in Job |-> "none"]
    /\ deps  = [j \in Job |-> {}]
    /\ whole = {}
    /\ file  = [n \in Name |-> "none"]
    /\ rowsIn = [n \in Name |-> {}] /\ wholeIn = [n \in Name |-> {}]
    /\ running = FALSE
    /\ pc    = [o \in Op |-> "idle"]
    /\ mode  = [o \in Op |-> "none"]
    /\ filter = [o \in Op |-> {}]
    /\ plan  = [o \in Op |-> <<>>]
    /\ at    = [o \in Op |-> 0]
    /\ name  \in [Op -> Name]
    /\ batch = [o \in Op |-> <<{}, {}>>]
    /\ count = [o \in Op |-> 0]
    /\ faults = 0
    /\ purged = {}

MayHappen(f) == f \in Fault /\ faults < MaxFaults /\ faults' = faults + 1

Archives(o) == mode[o] \in {"archive", "post"}

Archiving(o) == Archives(o) /\ pc[o] \notin {"idle", "edges", "done"}

\* The foreign key of job_deps: no row may point at a job that is deleted.
Unreferenced(S) == \A j \in Job : deps[j] \cap S = {}

-----------------------------------------------------------------------------
(***************************************************************************)
(* Jobs come and end.                                                      *)
(***************************************************************************)

\* Only with the fault "newDependent" is a job submitted after one that is
\* being archived.
Submit(j, D) ==
    /\ row[j] = "none"
    /\ D \subseteq Live
    /\ "newDependent" \in Fault
         \/ \A o \in Op : Archiving(o) => ToSet(plan[o]) \cap D = {}
    /\ row'   = [row EXCEPT ![j] = "active"]
    /\ deps'  = [deps EXCEPT ![j] = D]
    /\ whole' = whole \cup {j}
    /\ UNCHANGED <<archives, running, pc, request, faults, purged>>

End(j) ==
    /\ row[j] = "active"
    /\ row' = [row EXCEPT ![j] = "ended"]
    /\ UNCHANGED <<deps, whole, archives, running, pc, request, faults, purged>>

\* batchq cleanup of one job, in one transaction.
CleanupJob(j) ==
    /\ row[j] = "ended"
    /\ Unreferenced({j})
    /\ row'    = [row EXCEPT ![j] = "gone"]
    /\ deps'   = [deps EXCEPT ![j] = {}]
    /\ whole'  = whole \ {j}
    /\ purged' = purged \cup {j}
    /\ UNCHANGED <<archives, running, pc, request, faults>>

-----------------------------------------------------------------------------
(***************************************************************************)
(* The plan.                                                               *)
(***************************************************************************)
CandidatesOfAnyStatus(F) == F \cap Live

Candidates(F) == F \cap EndedJobs

\* The edges whose parent is a candidate by the time of this second query.
Edges(F) == {e \in Job \X Job : e[2] \in Candidates(F) /\ e[2] \in deps[e[1]]}

\* planRemoval without the order: parents may come before their dependents.
planUnordered(cand, edges, rank) ==
    LET Dependents(id) == {j \in Job : <<j, id>> \in edges}
        canRemove[id \in Job, visiting \in SUBSET Job] ==
            /\ id \in ToSet(cand) /\ id \notin visiting
            /\ \A j \in Dependents(id) : canRemove[j, visiting \cup {id}]
    IN SelectSeq(cand, LAMBDA id : canRemove[id, {}])

planAllCandidates(cand, edges, rank) == cand

\* A candidate goes if all that depend on it go, and goes after them.  cand is
\* in the order of the first query, rank the order of the second.
planRemoval(cand, edges, rank) ==
    LET dependents[id \in Job] == SelectSeq(rank, LAMBDA j : <<j, id>> \in edges)
        canRemove[id \in Job, visiting \in SUBSET Job] ==
            /\ id \in ToSet(cand) /\ id \notin visiting
            /\ \A j \in ToSet(dependents[id]) : canRemove[j, visiting \cup {id}]
        add[order \in Seq(Job), id \in Job] ==
            IF Contains(order, id) \/ ~canRemove[id, {}] THEN order
            ELSE Append(FoldLeft(LAMBDA s, j : add[s, j], order, dependents[id]), id)
    IN FoldLeft(LAMBDA s, id : add[s, id], <<>>, cand)

\* A cleanup that finds another one running is refused.
Refuse(o) ==
    /\ pc[o] = "idle" /\ running
    /\ pc' = [pc EXCEPT ![o] = "done"]
    /\ UNCHANGED <<database, archives, running, request, faults, purged>>

\* The guard, and the first query of CleanupCandidates.
Begin(o) ==
    /\ pc[o] = "idle"
    /\ \E m \in {"archive", "delete", "post"}, F \in SUBSET Job :
         /\ m # "post" => ~running
         /\ running' = (running \/ m # "post")
         /\ mode'   = [mode EXCEPT ![o] = m]
         /\ filter' = [filter EXCEPT ![o] = F]
         /\ \E s \in SetToSeqs(Candidates(F)) : plan' = [plan EXCEPT ![o] = s]
    /\ pc' = [pc EXCEPT ![o] = "edges"]
    /\ UNCHANGED <<database, archives, at, name, batch, count, faults, purged>>

\* The requests in S are over, and what they knew is forgotten.
Over(S) ==
    /\ pc'    = [o \in Op |-> IF o \in S THEN "done" ELSE pc[o]]
    /\ mode'  = [o \in Op |-> IF o \in S THEN "none" ELSE mode[o]]
    /\ plan'  = [o \in Op |-> IF o \in S THEN <<>> ELSE plan[o]]
    /\ filter' = [o \in Op |-> IF o \in S THEN {} ELSE filter[o]]
    /\ at'    = [o \in Op |-> IF o \in S THEN 0 ELSE at[o]]
    /\ batch' = [o \in Op |-> IF o \in S THEN <<{}, {}>> ELSE batch[o]]
    /\ count' = [o \in Op |-> IF o \in S THEN 0 ELSE count[o]]
    /\ UNCHANGED name

FinishLocked(o) == Over({o}) /\ UNCHANGED running

\* A request ends, and with it its claim on cleanupRunning.
Finish(o) == Over({o}) /\ running' = (running /\ mode[o] = "post")

\* The second query, and the plan.
Plan(o) ==
    /\ pc[o] = "edges"
    /\ \E rank \in SetToSeqs({e[1] : e \in Edges(filter[o])}) :
         LET order == planRemoval(plan[o], Edges(filter[o]), rank) IN
           IF order = <<>> THEN Finish(o)
           ELSE /\ plan' = [plan EXCEPT ![o] = order]
                /\ pc' = [pc EXCEPT ![o] = IF Archives(o) THEN "stat"
                                           ELSE "children"]
                /\ filter' = [filter EXCEPT ![o] = {}]
                /\ UNCHANGED <<running, mode, at, name, batch, count>>
    /\ UNCHANGED <<database, archives, faults, purged>>

-----------------------------------------------------------------------------
(***************************************************************************)
(* archiveOrdered.                                                         *)
(***************************************************************************)

\* Only with the fault "sameName" do two requests write to the same file.
NameIsFree(o) ==
    \/ "sameName" \in Fault
    \/ \A q \in Op \ {o} : Archiving(q) /\ pc[q] # "stat" => name[q] # name[o]

NoFile(o) == TRUE

\* An archive is written once: its name must be new.
FileIsNew(o) == file[name[o]] = "none"

StatArchive(o) ==
    /\ pc[o] = "stat" /\ NameIsFree(o)
    /\ IF FileIsNew(o)
         THEN pc' = [pc EXCEPT ![o] = "open"] /\ UNCHANGED <<running, request>>
         ELSE Finish(o)
    /\ UNCHANGED <<database, archives, faults, purged>>

OpenArchiveWriter(o) ==
    /\ pc[o] = "open"
    /\ file' = [file EXCEPT ![name[o]] = "open"]
    /\ pc' = [pc EXCEPT ![o] = "load"]
    /\ UNCHANGED <<database, rowsIn, wholeIn, running, request, faults, purged>>

\* The ids of this round.
Slice(o) == {plan[o][i] : i \in {i \in DOMAIN plan[o] : at[o] < i /\ i <= at[o] + Chunk}}

\* The next chunk is loaded, unless there is none; ids that are gone are skipped.
LoadJobs(o) ==
    /\ pc[o] = "load"
    /\ \/ /\ at[o] < Len(plan[o])
          /\ LET found == Slice(o) \cap Live IN
               /\ batch' = [batch EXCEPT ![o] = <<found, found \cap whole>>]
               /\ pc' = [pc EXCEPT ![o] = IF found \subseteq EndedJobs THEN "copy"
                                          ELSE "close"]
          /\ UNCHANGED faults
       \/ /\ at[o] >= Len(plan[o])
          /\ pc' = [pc EXCEPT ![o] = "close"]
          /\ UNCHANGED <<batch, faults>>
       \/ /\ MayHappen("abort") \/ MayHappen("readFails")
          /\ pc' = [pc EXCEPT ![o] = "close"]
          /\ UNCHANGED batch
    /\ UNCHANGED <<database, archives, running, mode, filter, plan, at, name, count,
                   purged>>

\* The outcome of the copy is not looked at.
RestoreJobsUnchecked(o) ==
    /\ pc[o] = "copy"
    /\ \/ /\ rowsIn'  = [rowsIn EXCEPT ![name[o]] = @ \cup batch[o][1]]
          /\ wholeIn' = [wholeIn EXCEPT ![name[o]] = @ \cup batch[o][2]]
          /\ UNCHANGED faults
       \/ MayHappen("copyFails") /\ UNCHANGED <<rowsIn, wholeIn>>
    /\ pc' = [pc EXCEPT ![o] = "children"]
    /\ UNCHANGED <<database, file, running, request, purged>>

\* One transaction of INSERT OR IGNOREs in the archive.
RestoreJobs(o) ==
    /\ pc[o] = "copy"
    /\ \/ /\ rowsIn'  = [rowsIn EXCEPT ![name[o]] = @ \cup batch[o][1]]
          /\ wholeIn' = [wholeIn EXCEPT ![name[o]] = @ \cup batch[o][2]]
          /\ pc' = [pc EXCEPT ![o] = "children"]
          /\ UNCHANGED faults
       \/ /\ MayHappen("copyFails")
          /\ pc' = [pc EXCEPT ![o] = "close"]
          /\ UNCHANGED <<rowsIn, wholeIn>>
    /\ UNCHANGED <<database, file, running, request, purged>>

NothingArchived(o) == count[o] = 0

\* An archive into which nothing was moved is removed, any other is sealed.
CloseArchive(o) ==
    /\ pc[o] = "close"
    /\ IF NothingArchived(o)
         THEN /\ file'    = [file EXCEPT ![name[o]] = "none"]
              /\ rowsIn'  = [rowsIn EXCEPT ![name[o]] = {}]
              /\ wholeIn' = [wholeIn EXCEPT ![name[o]] = {}]
         ELSE /\ file' = [file EXCEPT ![name[o]] = IF @ = "open" THEN "sealed" ELSE @]
              /\ UNCHANGED <<rowsIn, wholeIn>>
    /\ Finish(o)
    /\ UNCHANGED <<database, faults, purged>>

-----------------------------------------------------------------------------
(***************************************************************************)
(* CleanupJobs: the child rows of all the jobs, then the rows.  Archiving  *)
(* calls it for each chunk, deleting once for the whole plan.              *)
(***************************************************************************)
Failed(o) ==
    IF Archives(o)
      THEN pc' = [pc EXCEPT ![o] = "close"] /\ UNCHANGED <<running, request>>
      ELSE Finish(o)

DeleteChildren(o) ==
    /\ pc[o] = "children"
    /\ deps'  = [j \in Job |-> IF j \in Slice(o) THEN {} ELSE deps[j]]
    /\ whole' = whole \ Slice(o)
    /\ purged' = IF mode[o] = "delete" THEN purged \cup Slice(o) ELSE purged
    /\ IF mode[o] = "delete" /\ at[o] + Chunk < Len(plan[o])
         THEN at' = [at EXCEPT ![o] = @ + Chunk] /\ UNCHANGED pc
         ELSE /\ at' = [at EXCEPT ![o] = IF mode[o] = "delete" THEN 0 ELSE @]
              /\ pc' = [pc EXCEPT ![o] = "rows"]
    /\ UNCHANGED <<row, archives, running, mode, filter, plan, name, batch, count,
                   faults>>

DeleteRows(o) ==
    /\ pc[o] = "rows"
    /\ IF Unreferenced(Slice(o))
         THEN /\ row' = [j \in Job |-> IF j \in Slice(o) THEN "gone" ELSE row[j]]
              /\ IF mode[o] = "delete" /\ at[o] + Chunk >= Len(plan[o]) THEN Finish(o)
                 ELSE /\ at' = [at EXCEPT ![o] = @ + Chunk]
                      /\ pc' = [pc EXCEPT ![o] = IF Archives(o) THEN "load" ELSE @]
                      /\ count' = [count EXCEPT ![o] = @ + Cardinality(batch[o][1])]
                      /\ batch' = [batch EXCEPT ![o] = <<{}, {}>>]
                      /\ UNCHANGED <<running, mode, filter, plan, name>>
         ELSE Failed(o) /\ UNCHANGED row
    /\ UNCHANGED <<deps, whole, archives, faults, purged>>

DeleteFails(o) ==
    /\ MayHappen(IF Archives(o) THEN "moveFails" ELSE "deleteFails")
    /\ pc[o] \in {"children", "rows"}
    /\ Failed(o)
    /\ UNCHANGED <<database, archives, purged>>

\* The server dies; its requests end and cleanupRunning with them.
Crash ==
    /\ MayHappen("crash")
    /\ Over({o \in Op : pc[o] # "idle"})
    /\ running' = FALSE
    /\ UNCHANGED <<database, archives, purged>>

-----------------------------------------------------------------------------
Step(o) ==
    \/ Refuse(o) \/ Begin(o) \/ Plan(o)
    \/ StatArchive(o) \/ OpenArchiveWriter(o) \/ LoadJobs(o) \/ RestoreJobs(o)
    \/ DeleteChildren(o) \/ DeleteRows(o) \/ DeleteFails(o) \/ CloseArchive(o)

Next ==
    \/ \E j \in Job, D \in SUBSET Job : Submit(j, D)
    \/ \E j \in Job : End(j) \/ CleanupJob(j)
    \/ \E o \in Op : Step(o)
    \/ Crash

Spec == Init /\ [][Next]_vars

-----------------------------------------------------------------------------
(***************************************************************************)
(* Correctness.                                                            *)
(***************************************************************************)

\* GetJob: the live row, else the archives.
Kept(j) == j \in whole \/ \E n \in Name : file[n] # "none" /\ j \in wholeIn[n]

\* Archiving loses nothing: the whole record of a job nobody asked to delete is
\* in the live database or in an archive, whenever the server dies, reads or
\* copies fail, the client goes away, and however two requests overlap.
NothingLost == \A j \in Job : row[j] # "none" /\ j \notin purged => Kept(j)

\* A chunk that has been copied can be deleted: all that depend on its jobs are
\* in it or went before it, though the plan is older than the deletion.
ChunkIsDeletable ==
    \A o \in Op : pc[o] = "rows" /\ Archives(o) => Unreferenced(Slice(o))

\* The sets of candidates that leave no dependent without its parent.
Removable(cand, edges) ==
    {S \in SUBSET cand : \A e \in edges : e[2] \in S => e[1] \in S}

\* The plan is the largest set of candidates that leaves no dependent behind,
\* each job once, and dependents come before their parents.
PlanIsExact ==
    [][\A o \in Op : pc[o] = "edges" /\ pc'[o] # "edges" /\ faults' = faults =>
         LET edges == Edges(filter[o])
             order == plan'[o]
         IN /\ ToSet(order) = UNION Removable(ToSet(plan[o]), edges)
            /\ order \in SetToSeqs(ToSet(order))
            /\ \A i, k \in DOMAIN order : <<order[i], order[k]>> \in edges => i < k]_vars

\* A job that has not ended is left alone, row and child rows, and a job that
\* stays keeps its parents, also if it was submitted while they were deleted.
KeptJobsIntact ==
    /\ \A j \in Job : row[j] = "active" => j \in whole
    /\ \A j \in Live : deps[j] \subseteq Live

\* A sealed archive never changes.
SealedIsFinal ==
    [][\A n \in Name : file[n] = "sealed" =>
         file'[n] = "sealed" /\ rowsIn'[n] = rowsIn[n] /\ wholeIn'[n] = wholeIn[n]]_vars

\* No failure of a cleanup blocks the next one, and no two run at a time.
CleanupGuarded ==
    Cardinality({o \in Op : mode[o] \in {"archive", "delete"}}) = IF running THEN 1 ELSE 0
=============================================================================
