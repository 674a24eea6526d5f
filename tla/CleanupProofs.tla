--------------------------- MODULE CleanupProofs ---------------------------
(***************************************************************************)
(* Theorems about Cleanup, for any number of jobs, requests and archives,  *)
(* any size of a chunk and any number of faults.                           *)
(***************************************************************************)
EXTENDS Cleanup, FiniteSetTheorems, TLAPS

USE DEF database, archives, request

\* The variables with one value per request.
Local ==
    /\ pc    \in [Op -> Pc]
    /\ mode  \in [Op -> {"none", "archive", "delete", "post"}]
    /\ name  \in [Op -> Name]
    /\ filter \in [Op -> SUBSET Job]
    /\ plan  = [o \in Op |-> plan[o]]
    /\ at    \in [Op -> Nat]
    /\ batch = [o \in Op |-> batch[o]]
    /\ count = [o \in Op |-> count[o]]

\* What one request does and knows stands still in the steps of the others.
Still(q) ==
    /\ pc'[q] = pc[q] /\ mode'[q] = mode[q] /\ name'[q] = name[q]
    /\ filter'[q] = filter[q] /\ plan'[q] = plan[q] /\ at'[q] = at[q]
    /\ batch'[q] = batch[q] /\ count'[q] = count[q]

LEMMA OverLocal ==
    ASSUME Local, NEW S, Over(S)
    PROVE  Local' /\ \A q \in Op : q \notin S => Still(q)
  BY DEF Local, Over, Still, Pc

LEMMA FinishLocal ==
    ASSUME Local, NEW o \in Op, Finish(o)
    PROVE  /\ Local' /\ \A q \in Op \ {o} : Still(q)
           /\ pc'[o] = "done" /\ mode'[o] = "none" /\ at'[o] = 0 /\ count'[o] = 0
  BY OverLocal DEF Finish, Over

\* The plan, and the steps up to the first chunk.
LEMMA PlanLocal ==
    ASSUME Local, NEW o \in Op,
           Refuse(o) \/ Begin(o) \/ Plan(o) \/ StatArchive(o) \/ OpenArchiveWriter(o)
    PROVE  Local' /\ \A q \in Op \ {o} : Still(q)
<1>1. CASE Refuse(o) \/ OpenArchiveWriter(o)
  BY <1>1 DEF Local, Refuse, OpenArchiveWriter, Still, Pc
<1>2. CASE Begin(o)
  <2>1. PICK m \in {"archive", "delete", "post"}, F \in SUBSET Job :
          /\ mode'   = [mode EXCEPT ![o] = m]
          /\ filter' = [filter EXCEPT ![o] = F]
          /\ \E s \in SetToSeqs(Candidates(F)) : plan' = [plan EXCEPT ![o] = s]
    BY <1>2 DEF Begin
  <2>2. PICK s : plan' = [plan EXCEPT ![o] = s]
    BY <2>1
  <2>3. pc' = [pc EXCEPT ![o] = "edges"] /\ UNCHANGED <<at, name, batch, count>>
    BY <1>2 DEF Begin
  <2> QED
    BY <2>1, <2>2, <2>3 DEF Local, Still, Pc
<1>3. CASE Plan(o)
  <2>1. CASE Finish(o)
    BY <2>1, FinishLocal
  <2>2. ASSUME NEW s, plan' = [plan EXCEPT ![o] = s],
               pc' = [pc EXCEPT ![o] = IF Archives(o) THEN "stat" ELSE "children"],
               filter' = [filter EXCEPT ![o] = {}],
               UNCHANGED <<running, mode, at, name, batch, count>>
        PROVE  Local' /\ \A q \in Op \ {o} : Still(q)
    BY <2>2 DEF Local, Still, Pc
  <2> QED
    BY <1>3, <2>1, <2>2 DEF Plan
<1>4. CASE StatArchive(o)
  BY <1>4, FinishLocal DEF Local, StatArchive, Still, Pc
<1> QED
  BY <1>1, <1>2, <1>3, <1>4

\* The chunks.
LEMMA ChunkLocal ==
    ASSUME Local, NEW o \in Op,
           \/ LoadJobs(o) \/ RestoreJobs(o) \/ DeleteChildren(o) \/ DeleteRows(o)
           \/ DeleteFails(o) \/ CloseArchive(o)
    PROVE  Local' /\ \A q \in Op \ {o} : Still(q)
<1>1. CASE LoadJobs(o)
  BY <1>1 DEF Local, LoadJobs, Still, Pc
<1>2. CASE RestoreJobs(o)
  BY <1>2 DEF Local, RestoreJobs, Still, Pc
<1>3. CASE DeleteChildren(o)
  <2>1. PICK n \in Nat, p \in Pc : /\ at' = [at EXCEPT ![o] = n]
                                   /\ pc' = [pc EXCEPT ![o] = p]
    <3>1. CASE mode[o] = "delete" /\ at[o] + Chunk < Len(plan[o])
      <4>1. at' = [at EXCEPT ![o] = at[o] + Chunk] /\ UNCHANGED pc
        BY <1>3, <3>1 DEF DeleteChildren
      <4>2. pc' = [pc EXCEPT ![o] = pc[o]] /\ pc[o] \in Pc /\ at[o] + Chunk \in Nat
        BY <4>1, CleanupAssumption DEF Local
      <4> QED
        BY <4>1, <4>2
    <3>2. CASE ~(mode[o] = "delete" /\ at[o] + Chunk < Len(plan[o]))
      <4>1. /\ at' = [at EXCEPT ![o] = IF mode[o] = "delete" THEN 0 ELSE at[o]]
            /\ pc' = [pc EXCEPT ![o] = "rows"]
        BY <1>3, <3>2 DEF DeleteChildren
      <4> QED
        BY <4>1 DEF Local, Pc
    <3> QED
      BY <3>1, <3>2
  <2>2. UNCHANGED <<mode, filter, plan, name, batch, count>>
    BY <1>3 DEF DeleteChildren
  <2> QED
    BY <2>1, <2>2 DEF Local, Still
<1>4. ASSUME Failed(o) PROVE Local' /\ \A q \in Op \ {o} : Still(q)
  BY <1>4, FinishLocal DEF Local, Failed, Still, Pc
<1>5. CASE DeleteRows(o)
  <2>1. CASE Finish(o)
    BY <2>1, FinishLocal
  <2>2. CASE /\ at' = [at EXCEPT ![o] = @ + Chunk]
             /\ pc' = [pc EXCEPT ![o] = IF Archives(o) THEN "load" ELSE @]
             /\ count' = [count EXCEPT ![o] = @ + Cardinality(batch[o][1])]
             /\ batch' = [batch EXCEPT ![o] = <<{}, {}>>]
             /\ UNCHANGED <<running, mode, filter, plan, name>>
    <3>1. at[o] + Chunk \in Nat /\ (IF Archives(o) THEN "load" ELSE pc[o]) \in Pc
      BY CleanupAssumption DEF Local, Pc
    <3>2. PICK n \in Nat, p \in Pc : at' = [at EXCEPT ![o] = n] /\ pc' = [pc EXCEPT ![o] = p]
      BY <2>2, <3>1
    <3>4. PICK c, b : count' = [count EXCEPT ![o] = c] /\ batch' = [batch EXCEPT ![o] = b]
      BY <2>2
    <3>3. UNCHANGED <<mode, filter, plan, name>>
      BY <2>2
    <3> QED
      BY <3>2, <3>3, <3>4 DEF Local, Still
  <2> QED
    BY <1>4, <1>5, <2>1, <2>2 DEF DeleteRows
<1>6. CASE DeleteFails(o)
  BY <1>4, <1>6 DEF DeleteFails
<1>7. CASE CloseArchive(o)
  BY <1>7, FinishLocal DEF CloseArchive
<1> QED
  BY <1>1, <1>2, <1>3, <1>5, <1>6, <1>7

LEMMA StepLocal ==
    ASSUME Local, NEW o \in Op, Step(o)
    PROVE  Local' /\ \A q \in Op \ {o} : Still(q)
  BY PlanLocal, ChunkLocal DEF Step

\* Jobs come and go beside the requests.
LEMMA JobsLocal ==
    ASSUME Local,
           \/ \E j \in Job, D \in SUBSET Job : Submit(j, D)
           \/ \E j \in Job : End(j) \/ CleanupJob(j)
    PROVE  Local' /\ \A q \in Op : Still(q)
  BY DEF Local, Submit, End, CleanupJob, Still

LEMMA LocalStep ==
    ASSUME Local, [Next]_vars
    PROVE  Local'
<1>1. CASE Crash
  BY <1>1, OverLocal DEF Crash
<1>2. CASE UNCHANGED vars
  BY <1>2 DEF Local, vars
<1> QED
  BY <1>1, <1>2, StepLocal, JobsLocal DEF Next

LEMMA LocalInit == Init => Local
  BY DEF Init, Local, Pc

-----------------------------------------------------------------------------
(***************************************************************************)
(* One cleanup at a time.                                                  *)
(***************************************************************************)
Resting == {"idle", "done"}

\* A request that has begun has a mode until it is over.
Modes == \A o \in Op : pc[o] \in Resting <=> mode[o] = "none"

Cleaning == {o \in Op : mode[o] \in {"archive", "delete"}}

\* cleanupRunning is set exactly while one cleanup is under way.
Guarded == /\ running => \E o \in Op : Cleaning = {o}
           /\ ~running => Cleaning = {}

\* The ways a step may treat the guard.
GuardKept(o)  == UNCHANGED <<running, mode>> /\ pc[o] \notin Resting /\ pc'[o] \notin Resting
GuardTaken(o) == ~running /\ running' /\ mode[o] = "none" /\ mode'[o] \in {"archive", "delete"}
GuardPassed(o) == (running' <=> running) /\ mode[o] = "none" /\ mode'[o] = "post"

LEMMA GuardMoves ==
    ASSUME Local, Modes, NEW o \in Op, Step(o)
    PROVE  \/ GuardKept(o)
           \/ (GuardTaken(o) \/ GuardPassed(o)) /\ pc'[o] = "edges"
           \/ Finish(o) /\ pc[o] \notin Resting
           \/ UNCHANGED <<running, mode>> /\ pc[o] = "idle" /\ pc'[o] = "done"
<1> USE DEF Resting
<1>1. CASE Refuse(o)
  BY <1>1 DEF Refuse, Local
<1>2. CASE Begin(o)
  <2>1. pc'[o] = "edges" /\ mode[o] = "none"
    BY <1>2 DEF Begin, Local, Modes
  <2>2. PICK m \in {"archive", "delete", "post"} :
          /\ m # "post" => ~running
          /\ running' = (running \/ m # "post")
          /\ mode'   = [mode EXCEPT ![o] = m]
    BY <1>2 DEF Begin
  <2>3. mode'[o] = m
    BY <2>2 DEF Local
  <2>4. CASE m = "post"
    <3>1. running' <=> running
      BY <2>2, <2>4
    <3> QED
      BY <2>1, <2>3, <2>4, <3>1 DEF GuardPassed
  <2>5. CASE m # "post"
    <3>1. ~running /\ running'
      BY <2>2, <2>5
    <3>2. mode'[o] \in {"archive", "delete"}
      BY <2>3, <2>5
    <3> QED
      BY <2>1, <3>1, <3>2 DEF GuardTaken
  <2> QED
    BY <2>4, <2>5
<1>3. CASE Plan(o)
  <2>1. pc[o] = "edges"
    BY <1>3 DEF Plan
  <2>2. CASE Finish(o)
    BY <2>1, <2>2
  <2>3. CASE /\ pc' = [pc EXCEPT ![o] = IF Archives(o) THEN "stat" ELSE "children"]
             /\ UNCHANGED <<running, mode, at, name, batch, count>>
    BY <2>1, <2>3 DEF Local, GuardKept
  <2> QED
    BY <1>3, <2>2, <2>3 DEF Plan
<1>4. CASE StatArchive(o) \/ OpenArchiveWriter(o)
  BY <1>4 DEF StatArchive, OpenArchiveWriter, Local, GuardKept
<1>5. CASE LoadJobs(o)
  BY <1>5 DEF LoadJobs, Local, GuardKept
<1>6. CASE RestoreJobs(o) \/ DeleteChildren(o)
  BY <1>6 DEF RestoreJobs, DeleteChildren, Local, GuardKept
<1>7. ASSUME Failed(o) PROVE GuardKept(o) \/ Finish(o) \/ pc[o] \in Resting
  BY <1>7 DEF Failed, Local, GuardKept
<1>8. CASE DeleteRows(o)
  <2>1. pc[o] = "rows"
    BY <1>8 DEF DeleteRows
  <2>2. CASE /\ pc' = [pc EXCEPT ![o] = IF Archives(o) THEN "load" ELSE @]
             /\ UNCHANGED <<running, mode, filter, plan, name>>
    BY <2>1, <2>2 DEF Local, GuardKept
  <2> QED
    BY <1>7, <1>8, <2>1, <2>2 DEF DeleteRows
<1>9. CASE DeleteFails(o)
  <2>1. pc[o] \notin Resting
    BY <1>9 DEF DeleteFails
  <2> QED
    BY <1>7, <1>9, <2>1 DEF DeleteFails
<1>10. CASE CloseArchive(o)
  BY <1>10 DEF CloseArchive
<1> QED
  BY <1>1, <1>2, <1>3, <1>4, <1>5, <1>6, <1>8, <1>9, <1>10 DEF Step

LEMMA GuardStep ==
    ASSUME Local, Modes, Guarded, NEW o \in Op, Step(o)
    PROVE  Modes' /\ Guarded'
<1>0. Local' /\ \A q \in Op \ {o} : Still(q)
  BY StepLocal
<1>1. \A q \in Op \ {o} : (q \in Cleaning' <=> q \in Cleaning)
  BY <1>0 DEF Still, Cleaning
<1>2. CASE GuardKept(o)
  <2>1. Modes'
    BY <1>0, <1>2 DEF Modes, GuardKept, Still
  <2>2. Cleaning' = Cleaning /\ (running' <=> running)
    BY <1>2 DEF GuardKept, Cleaning
  <2> QED
    BY <2>1, <2>2 DEF Guarded
<1>3. CASE GuardTaken(o) /\ pc'[o] = "edges"
  <2>1. Modes'
    BY <1>0, <1>3 DEF Modes, GuardTaken, Still, Resting
  <2>2. Cleaning = {} /\ running' /\ o \in Cleaning'
    BY <1>3 DEF GuardTaken, Guarded, Cleaning
  <2>3. \A q \in Cleaning' : q \in Op
    BY DEF Cleaning
  <2>4. Cleaning' = {o}
    BY <1>1, <2>2, <2>3
  <2> QED
    BY <2>1, <2>2, <2>4 DEF Guarded
<1>4. CASE GuardPassed(o) /\ pc'[o] = "edges"
  <2>1. Modes'
    BY <1>0, <1>4 DEF Modes, GuardPassed, Still, Resting
  <2>2. o \notin Cleaning /\ o \notin Cleaning' /\ (running' <=> running)
    BY <1>4 DEF GuardPassed, Cleaning
  <2>3. Cleaning' = Cleaning
    <3>1. Cleaning \subseteq Op /\ Cleaning' \subseteq Op
      BY DEF Cleaning
    <3> QED
      BY <1>1, <2>2, <3>1
  <2> QED
    BY <2>1, <2>2, <2>3 DEF Guarded
<1>5. CASE Finish(o) /\ pc[o] \notin Resting
  <2>1. pc'[o] = "done" /\ mode'[o] = "none" /\ mode[o] # "none"
    BY <1>5, FinishLocal DEF Modes
  <2>2. Modes'
    BY <1>0, <2>1 DEF Modes, Still, Resting
  <2>3. Cleaning \subseteq Op /\ Cleaning' \subseteq Op /\ o \notin Cleaning'
    BY <2>1 DEF Cleaning
  <2>4. CASE mode[o] = "post"
    <3>1. running' <=> running
      BY <1>5, <2>4 DEF Finish
    <3>2. o \notin Cleaning
      BY <2>4 DEF Cleaning
    <3>3. Cleaning' = Cleaning
      BY <1>1, <2>3, <3>2
    <3> QED
      BY <2>2, <3>1, <3>3 DEF Guarded
  <2>5. CASE mode[o] # "post"
    <3>1. ~running'
      BY <1>5, <2>5 DEF Finish
    <3>2. o \in Cleaning
      BY <2>1, <2>5 DEF Cleaning, Local
    <3>3. Cleaning = {o}
      BY <3>2 DEF Guarded
    <3>4. Cleaning' = {}
      BY <1>1, <2>3, <3>3
    <3> QED
      BY <2>2, <3>1, <3>4 DEF Guarded
  <2> QED
    BY <2>4, <2>5
<1>6. CASE UNCHANGED <<running, mode>> /\ pc[o] = "idle" /\ pc'[o] = "done"
  <2>1. Modes'
    BY <1>0, <1>6 DEF Modes, Still, Resting
  <2>2. Cleaning' = Cleaning /\ (running' <=> running)
    BY <1>6 DEF Cleaning
  <2> QED
    BY <2>1, <2>2 DEF Guarded
<1> QED
  BY <1>2, <1>3, <1>4, <1>5, <1>6, GuardMoves

LEMMA GuardCrash ==
    ASSUME Local, Modes, Crash
    PROVE  Modes' /\ Guarded'
<1>1. \A o \in Op : pc'[o] \in Resting /\ mode'[o] = "none"
  BY DEF Crash, Over, Local, Modes, Resting
<1>2. ~running' /\ Cleaning' = {}
  BY <1>1 DEF Crash, Cleaning
<1> QED
  BY <1>1, <1>2 DEF Modes, Guarded

\* The guard's part of a step.
LEMMA ModesStep ==
    ASSUME Local, Modes, Guarded, [Next]_vars
    PROVE  Modes' /\ Guarded'
<1>1. CASE \/ \E j \in Job, D \in SUBSET Job : Submit(j, D)
           \/ \E j \in Job : End(j) \/ CleanupJob(j)
           \/ UNCHANGED vars
  <2>1. UNCHANGED <<running, pc, mode>>
    BY <1>1 DEF Submit, End, CleanupJob, vars
  <2>2. Cleaning' = Cleaning /\ (running' <=> running) /\ Modes'
    BY <2>1 DEF Cleaning, Modes
  <2> QED
    BY <2>2 DEF Guarded
<1> QED
  BY <1>1, GuardStep, GuardCrash DEF Next

LEMMA ModesInit == Init => Modes /\ Guarded
<1>1. Init => Cleaning = {} /\ ~running
  BY DEF Init, Cleaning
<1> QED
  BY <1>1 DEF Init, Modes, Resting, Guarded

\* No two cleanups run at a time, and none that ended, failed or died with the
\* server keeps the next one from running (cleanupRunning in CleanupBulk).
THEOREM GuardTheorem == Spec => []CleanupGuarded
<1> DEFINE I == Local /\ Modes /\ Guarded
<1>1. Init => I
  BY LocalInit, ModesInit
<1>2. I /\ [Next]_vars => I'
  BY LocalStep, ModesStep
<1>3. I => CleanupGuarded
  BY FS_Singleton, FS_EmptySet DEF Guarded, CleanupGuarded, Cleaning
<1> HIDE DEF I
<1> QED
  BY <1>1, <1>2, <1>3, PTL DEF Spec

-----------------------------------------------------------------------------
(***************************************************************************)
(* Archive files.                                                          *)
(***************************************************************************)

\* A request that has found its name free, and has not let go of it.
Writing(o) ==
    Archives(o) /\ pc[o] \in {"open", "load", "copy", "children", "rows", "close"}

\* A request is alone with its file, which it finds where it left it.
Files ==
    /\ file \in [Name -> {"none", "open", "sealed"}]
    /\ rowsIn = [n \in Name |-> rowsIn[n]]
    /\ wholeIn = [n \in Name |-> wholeIn[n]]
    /\ \A o \in Op : pc[o] \in {"stat", "open", "load", "copy", "close"} => Archives(o)
    /\ \A o, q \in Op : Writing(o) /\ Writing(q) /\ name[o] = name[q] => o = q
    /\ \A o \in Op : Writing(o) =>
         file[name[o]] = IF pc[o] = "open" THEN "none" ELSE "open"

\* Files and their contents change at the name of the request, if at all.
FilesAt(o) ==
    \A n \in Name : n # name[o] =>
        file'[n] = file[n] /\ rowsIn'[n] = rowsIn[n] /\ wholeIn'[n] = wholeIn[n]

FileTypes ==
    /\ file \in [Name -> {"none", "open", "sealed"}]
    /\ rowsIn = [n \in Name |-> rowsIn[n]]
    /\ wholeIn = [n \in Name |-> wholeIn[n]]

\* The steps that leave all files as they are.
LEMMA FilesKept ==
    ASSUME Local, Files, NEW o \in Op, \A q \in Op \ {o} : Still(q), name'[o] = name[o],
           UNCHANGED archives,
           Writing(o)' => Writing(o) /\ (pc'[o] = "open" <=> pc[o] = "open"),
           pc'[o] \in {"stat", "open", "load", "copy", "close"} => Archives(o)'
    PROVE  Files'
<1>1. \A q \in Op \ {o} : /\ Writing(q)' <=> Writing(q)
                          /\ Archives(q)' <=> Archives(q)
  BY DEF Still, Writing, Archives
<1>2. \A q \in Op : name'[q] = name[q]
  BY DEF Still
<1>3. \A p, q \in Op : Writing(p)' /\ Writing(q)' /\ name'[p] = name'[q] => p = q
  BY <1>1, <1>2 DEF Files
<1>4. \A q \in Op : Writing(q)' =>
        file'[name'[q]] = IF pc'[q] = "open" THEN "none" ELSE "open"
  BY <1>1, <1>2 DEF Files, Still
<1>5. \A q \in Op : pc'[q] \in {"stat", "open", "load", "copy", "close"} => Archives(q)'
  BY <1>1 DEF Files, Still
<1> QED
  BY <1>3, <1>4, <1>5 DEF Files

\* The steps that change a request's own file.
LEMMA FilesChange ==
    ASSUME Local, Files, NEW o \in Op, \A q \in Op \ {o} : Still(q), name'[o] = name[o],
           FilesAt(o), FileTypes', Writing(o),
           Writing(o)' => file'[name[o]] = IF pc'[o] = "open" THEN "none" ELSE "open",
           pc'[o] \in {"stat", "open", "load", "copy", "close"} => Archives(o)'
    PROVE  Files'
<1>1. \A q \in Op \ {o} : /\ Writing(q)' <=> Writing(q)
                          /\ Archives(q)' <=> Archives(q)
  BY DEF Still, Writing, Archives
<1>2. \A q \in Op : name'[q] = name[q] /\ name[q] \in Name
  BY DEF Still, Local
<1>3. \A p, q \in Op : Writing(p)' /\ Writing(q)' /\ name'[p] = name'[q] => p = q
  BY <1>1, <1>2 DEF Files
<1>4. ASSUME NEW q \in Op, Writing(q)'
      PROVE  file'[name'[q]] = IF pc'[q] = "open" THEN "none" ELSE "open"
  <2>1. CASE q = o
    BY <1>2, <1>4, <2>1
  <2>2. CASE q # o
    <3>1. Writing(q) /\ name[q] # name[o] /\ pc'[q] = pc[q]
      BY <1>1, <1>4, <2>2 DEF Files, Still
    <3>2. file'[name[q]] = file[name[q]]
      BY <1>2, <3>1 DEF FilesAt
    <3> QED
      BY <1>2, <3>1, <3>2 DEF Files
  <2> QED
    BY <2>1, <2>2
<1>5. \A q \in Op : pc'[q] \in {"stat", "open", "load", "copy", "close"} => Archives(q)'
  BY <1>1 DEF Files, Still
<1> QED
  BY <1>3, <1>4, <1>5 DEF Files, FileTypes

\* A request that ends without a look at its file leaves it.
LEMMA FinishFiles ==
    ASSUME Local, Files, NEW o \in Op, Finish(o), UNCHANGED archives
    PROVE  Files'
<1>1. /\ \A q \in Op \ {o} : Still(q)
      /\ pc'[o] = "done" /\ mode'[o] = "none"
  BY FinishLocal
<1>2. name'[o] = name[o]
  BY DEF Finish, Over
<1>3. ~Writing(o)'
  BY <1>1 DEF Writing, Archives
<1> QED
  BY <1>1, <1>2, <1>3, FilesKept

\* What the steps do to files.
LEMMA FilesStep ==
    ASSUME "sameName" \notin Fault, Local, Files, NEW o \in Op, Step(o)
    PROVE  /\ Files'
           /\ \A n \in Name : file[n] = "sealed" =>
                file'[n] = "sealed" /\ rowsIn'[n] = rowsIn[n] /\ wholeIn'[n] = wholeIn[n]
<1>0. Local' /\ \A q \in Op \ {o} : Still(q)
  BY StepLocal
<1>f. ASSUME Files', UNCHANGED archives
      PROVE  /\ Files'
             /\ \A n \in Name : file[n] = "sealed" =>
                  file'[n] = "sealed" /\ rowsIn'[n] = rowsIn[n] /\ wholeIn'[n] = wholeIn[n]
  BY <1>f
<1>1. CASE Refuse(o) \/ Begin(o)
  <2>1. pc'[o] \in {"done", "edges"} /\ UNCHANGED <<archives, name>>
    BY <1>1 DEF Refuse, Begin, Local
  <2> QED
    BY <1>0, <1>f, <2>1, FilesKept DEF Writing
<1>2. CASE Plan(o)
  <2>1. CASE Finish(o)
    <3>1. UNCHANGED archives
      BY <1>2 DEF Plan
    <3> QED
      BY <1>f, <2>1, <3>1, FinishFiles
  <2>2. CASE /\ pc' = [pc EXCEPT ![o] = IF Archives(o) THEN "stat" ELSE "children"]
             /\ UNCHANGED <<running, mode, at, name, batch, count>>
    <3>1. UNCHANGED archives
      BY <1>2 DEF Plan
    <3>2. pc'[o] = (IF Archives(o) THEN "stat" ELSE "children") /\ UNCHANGED <<mode, name>>
      BY <2>2 DEF Local
    <3> QED
      BY <1>0, <1>f, <3>1, <3>2, FilesKept DEF Writing, Archives
  <2> QED
    BY <1>2, <2>1, <2>2 DEF Plan
<1>3. CASE StatArchive(o)
  <2>0. pc[o] = "stat" /\ NameIsFree(o) /\ UNCHANGED archives
    BY <1>3 DEF StatArchive
  <2>1. CASE ~FileIsNew(o)
    BY <1>3, <1>f, <2>0, <2>1, FinishFiles DEF StatArchive
  <2>2. CASE FileIsNew(o)
    <3>1. pc' = [pc EXCEPT ![o] = "open"] /\ UNCHANGED <<mode, name>>
      BY <1>3, <2>2 DEF StatArchive
    <3>2. \A q \in Op \ {o} : (Writing(q)' <=> Writing(q)) /\ pc'[q] = pc[q]
      BY <1>0 DEF Still, Writing, Archives
    <3>3. \A q \in Op \ {o} : Writing(q) => name[q] # name[o]
      BY <2>0 DEF NameIsFree, Archiving, Writing
    <3>4. file[name[o]] = "none" /\ pc'[o] = "open"
      BY <2>2, <3>1 DEF FileIsNew, Local
    <3>5. \A p, q \in Op : Writing(p)' /\ Writing(q)' /\ name'[p] = name'[q] => p = q
      BY <3>1, <3>2, <3>3 DEF Files
    <3>6. \A q \in Op : Writing(q)' =>
            file'[name'[q]] = IF pc'[q] = "open" THEN "none" ELSE "open"
      BY <2>0, <3>1, <3>2, <3>4 DEF Files
    <3>7. \A q \in Op : pc'[q] \in {"stat", "open", "load", "copy", "close"} => Archives(q)'
      BY <2>0, <3>1, <3>2 DEF Files, Archives
    <3> QED
      BY <1>f, <2>0, <3>5, <3>6, <3>7 DEF Files
  <2> QED
    BY <2>1, <2>2
<1>4. CASE OpenArchiveWriter(o)
  <2>1. /\ pc[o] = "open" /\ file' = [file EXCEPT ![name[o]] = "open"]
        /\ pc'[o] = "load" /\ UNCHANGED <<mode, name, rowsIn, wholeIn>>
    BY <1>4 DEF OpenArchiveWriter, Local
  <2>2. Writing(o) /\ name[o] \in Name
    BY <2>1 DEF Files, Writing, Local
  <2>3. file[name[o]] = "none"
    BY <2>1, <2>2 DEF Files
  <2>4. FileTypes' /\ FilesAt(o) /\ file'[name[o]] = "open"
    BY <2>1, <2>2 DEF Files, FileTypes, FilesAt
  <2>5. Archives(o)'
    BY <2>1, <2>2 DEF Writing, Archives
  <2>6. Files'
    BY <1>0, <2>1, <2>2, <2>4, <2>5, FilesChange
  <2> QED
    BY <2>3, <2>4, <2>6 DEF FilesAt
<1>5. CASE LoadJobs(o)
  <2>1. pc[o] = "load" /\ pc'[o] \in {"copy", "close"} /\ UNCHANGED <<mode, name, archives>>
    BY <1>5 DEF LoadJobs, Local
  <2> QED
    BY <1>0, <1>f, <2>1, FilesKept DEF Writing, Archives, Files
<1>6. CASE RestoreJobs(o)
  <2>1. pc[o] = "copy" /\ pc'[o] \in {"children", "close"} /\ UNCHANGED <<mode, name, file>>
    BY <1>6 DEF RestoreJobs, Local
  <2>2. Writing(o) /\ name[o] \in Name /\ file[name[o]] = "open"
    BY <2>1 DEF Files, Writing, Local
  <2>3. FileTypes' /\ FilesAt(o)
    <3>1. CASE UNCHANGED <<rowsIn, wholeIn>>
      BY <2>1, <3>1 DEF Files, FileTypes, FilesAt
    <3>2. ASSUME NEW r, NEW w, rowsIn' = [rowsIn EXCEPT ![name[o]] = r],
                 wholeIn' = [wholeIn EXCEPT ![name[o]] = w]
          PROVE  FileTypes' /\ FilesAt(o)
      BY <2>1, <2>2, <3>2 DEF Files, FileTypes, FilesAt
    <3> QED
      BY <1>6, <3>1, <3>2 DEF RestoreJobs
  <2>4. Archives(o)'
    BY <2>1, <2>2 DEF Writing, Archives
  <2>5. Files'
    BY <1>0, <2>1, <2>2, <2>3, <2>4, FilesChange
  <2> QED
    BY <2>1, <2>2, <2>3, <2>5 DEF FilesAt
<1>7. CASE DeleteChildren(o)
  <2>1. /\ pc[o] = "children" /\ pc'[o] \in {"children", "rows"}
        /\ UNCHANGED <<mode, name, archives>>
    BY <1>7 DEF DeleteChildren, Local
  <2> QED
    BY <1>0, <1>f, <2>1, FilesKept DEF Writing, Archives
<1>8. ASSUME Failed(o), pc[o] \in {"children", "rows"}, UNCHANGED archives PROVE Files'
  <2>1. CASE Archives(o)
    <3>1. pc'[o] = "close" /\ UNCHANGED <<mode, name>>
      BY <1>8, <2>1 DEF Failed, Local
    <3> QED
      BY <1>0, <1>8, <2>1, <3>1, FilesKept DEF Writing, Archives
  <2>2. CASE ~Archives(o)
    BY <1>8, <2>2, FinishFiles DEF Failed
  <2> QED
    BY <2>1, <2>2
<1>9. CASE DeleteRows(o)
  <2>0. pc[o] = "rows" /\ UNCHANGED archives
    BY <1>9 DEF DeleteRows
  <2>1. CASE Finish(o)
    BY <1>f, <2>0, <2>1, FinishFiles
  <2>2. CASE /\ pc' = [pc EXCEPT ![o] = IF Archives(o) THEN "load" ELSE @]
             /\ UNCHANGED <<running, mode, filter, plan, name>>
    <3>1. pc'[o] = (IF Archives(o) THEN "load" ELSE pc[o]) /\ UNCHANGED <<mode, name>>
      BY <2>2 DEF Local
    <3> QED
      BY <1>0, <1>f, <2>0, <3>1, FilesKept DEF Writing, Archives
  <2> QED
    BY <1>8, <1>9, <1>f, <2>0, <2>1, <2>2 DEF DeleteRows
<1>10. CASE DeleteFails(o)
  <2>1. Failed(o) /\ pc[o] \in {"children", "rows"} /\ UNCHANGED archives
    BY <1>10 DEF DeleteFails
  <2> QED
    BY <1>8, <1>f, <2>1
<1>11. CASE CloseArchive(o)
  <2>1. pc[o] = "close" /\ pc'[o] = "done" /\ mode'[o] = "none" /\ name'[o] = name[o]
    BY <1>11, FinishLocal DEF CloseArchive, Finish, Over
  <2>2. Writing(o) /\ name[o] \in Name /\ file[name[o]] = "open"
    BY <2>1 DEF Files, Writing, Local
  <2>3. FileTypes' /\ FilesAt(o)
    <3>1. CASE NothingArchived(o)
      BY <1>11, <2>2, <3>1 DEF CloseArchive, Files, FileTypes, FilesAt
    <3>2. CASE ~NothingArchived(o)
      BY <1>11, <2>2, <3>2 DEF CloseArchive, Files, FileTypes, FilesAt
    <3> QED
      BY <3>1, <3>2
  <2>4. ~Writing(o)'
    BY <2>1 DEF Writing, Archives
  <2>5. Files'
    BY <1>0, <2>1, <2>2, <2>3, <2>4, FilesChange
  <2> QED
    BY <2>2, <2>3, <2>5 DEF FilesAt
<1> QED
  BY <1>1, <1>2, <1>3, <1>4, <1>5, <1>6, <1>7, <1>9, <1>10, <1>11 DEF Step

\* A crash leaves the files where they are, to nobody.
LEMMA FilesCrash ==
    ASSUME Local, Files, Crash
    PROVE  Files'
<1>1. \A o \in Op : pc'[o] \in {"idle", "done"}
  BY DEF Crash, Over, Local
<1>2. \A o \in Op : ~Writing(o)'
  BY <1>1 DEF Writing
<1>3. UNCHANGED archives
  BY DEF Crash
<1> QED
  BY <1>1, <1>2, <1>3 DEF Files

LEMMA FilesOther ==
    ASSUME Local, Files,
           \/ \E j \in Job, D \in SUBSET Job : Submit(j, D)
           \/ \E j \in Job : End(j) \/ CleanupJob(j)
           \/ UNCHANGED vars
    PROVE  Files' /\ UNCHANGED archives
<1>1. UNCHANGED <<archives, pc, mode, name>>
  BY DEF Submit, End, CleanupJob, vars
<1> QED
  BY <1>1 DEF Files, Writing, Archives

LEMMA FilesInit == Init => Files
  BY DEF Init, Files, Writing, Archives

\* A sealed archive never changes: no request opens, fills, seals or removes the
\* file of another, through crashes and failed copies, if no two requests are
\* given the same name at a time (archiveOrdered, OpenArchiveWriter).
THEOREM SealedTheorem == "sameName" \notin Fault /\ Spec => SealedIsFinal
<1> DEFINE I == "sameName" \notin Fault /\ Local /\ Files
           Sealed == \A n \in Name : file[n] = "sealed" =>
             file'[n] = "sealed" /\ rowsIn'[n] = rowsIn[n] /\ wholeIn'[n] = wholeIn[n]
<1>1. "sameName" \notin Fault /\ Init => I
  BY LocalInit, FilesInit
<1>2. I /\ [Next]_vars => I' /\ Sealed
  <2> SUFFICES ASSUME I, [Next]_vars PROVE Files' /\ Sealed
    BY LocalStep
  <2>1. CASE \E o \in Op : Step(o)
    BY <2>1, FilesStep
  <2>2. CASE Crash
    <3>1. UNCHANGED archives
      BY <2>2 DEF Crash
    <3> QED
      BY <2>2, <3>1, FilesCrash
  <2>3. CASE \/ \E j \in Job, D \in SUBSET Job : Submit(j, D)
             \/ \E j \in Job : End(j) \/ CleanupJob(j)
             \/ UNCHANGED vars
    BY <2>3, FilesOther
  <2> QED
    BY <2>1, <2>2, <2>3 DEF Next
<1>3. I /\ [Next]_vars => [Sealed]_vars
  BY <1>2
<1> HIDE DEF I
<1> QED
  BY <1>1, <1>2, <1>3, PTL DEF Spec, SealedIsFinal
-----------------------------------------------------------------------------
(***************************************************************************)
(* The records of the jobs and the plans.  What planRemoval computes is an *)
(* induction over the jobs that TLC does (PlanIsExact); what follows from  *)
(* it for the deletions is proved here.                                    *)
(***************************************************************************)
Records ==
    /\ row   \in [Job -> {"none", "active", "ended", "gone"}]
    /\ deps  \in [Job -> SUBSET Job]
    /\ whole \subseteq Job
    /\ purged \subseteq Job

\* The jobs that will not change again, but for being deleted.
Past == {j \in Job : row[j] \in {"ended", "gone"}}

Planned(o) == plan[o] \in Seq(Job) /\ \A k \in DOMAIN plan[o] : plan[o][k] \in Past

\* What PlanIsExact says of the steps.
ExactPlan ==
    \A o \in Op : pc[o] = "edges" /\ pc'[o] # "edges" /\ faults' = faults =>
         LET edges == Edges(filter[o])
             order == plan'[o]
         IN /\ ToSet(order) = UNION Removable(ToSet(plan[o]), edges)
            /\ order \in SetToSeqs(ToSet(order))
            /\ \A i, k \in DOMAIN order : <<order[i], order[k]>> \in edges => i < k

\* Records of jobs of the past only ever lose something, and nothing comes to
\* depend on a job that is being archived.
Aging ==
    /\ \A j \in Past : j \in Past' /\ deps'[j] \subseteq deps[j] /\ (j \in whole' => j \in whole)
    /\ \A j \in Job, q \in Op :
         "newDependent" \notin Fault /\ Archiving(q) =>
           \A k \in DOMAIN plan[q] : plan[q][k] \in deps'[j] => plan[q][k] \in deps[j]

LEMMA SliceIsPast ==
    ASSUME NEW o \in Op, Planned(o)
    PROVE  Slice(o) \subseteq Past
  BY DEF Planned, Slice

\* The steps that work on the live database.
LEMMA StepsOnRecords ==
    ASSUME NEW o \in Op, Step(o), ~DeleteChildren(o), ~DeleteRows(o)
    PROVE  UNCHANGED <<row, deps, whole, purged>>
<1>1. CASE Refuse(o) \/ Begin(o)
  BY <1>1 DEF Refuse, Begin
<1>2. CASE Plan(o) \/ StatArchive(o) \/ OpenArchiveWriter(o)
  BY <1>2 DEF Plan, StatArchive, OpenArchiveWriter
<1>3. CASE LoadJobs(o) \/ RestoreJobs(o)
  BY <1>3 DEF LoadJobs, RestoreJobs
<1>4. CASE DeleteFails(o) \/ CloseArchive(o)
  BY <1>4 DEF DeleteFails, CloseArchive
<1> QED
  BY <1>1, <1>2, <1>3, <1>4 DEF Step

LEMMA RecordsMove ==
    ASSUME Local, Records, \A o \in Op : Planned(o), [Next]_vars
    PROVE  Records' /\ Aging
<1>1. CASE UNCHANGED <<row, deps, whole, purged>>
  <2>1. Past' = Past
    BY <1>1 DEF Past
  <2> QED
    BY <1>1, <2>1 DEF Records, Aging
<1>2. ASSUME NEW j \in Job, NEW D \in SUBSET Job, Submit(j, D) PROVE Records' /\ Aging
  <2>1. /\ row[j] = "none" /\ row' = [row EXCEPT ![j] = "active"]
        /\ deps' = [deps EXCEPT ![j] = D] /\ whole' = whole \cup {j} /\ purged' = purged
    BY <1>2 DEF Submit
  <2>2. Records' /\ j \notin Past
    BY <2>1 DEF Records, Past
  <2>3. \A i \in Job : i # j => row'[i] = row[i] /\ deps'[i] = deps[i]
    BY <2>1 DEF Records
  <2>4. \A i \in Past : i \in Past' /\ deps'[i] \subseteq deps[i] /\ (i \in whole' => i \in whole)
    BY <2>1, <2>2, <2>3 DEF Past
  <2>5. ASSUME NEW i \in Job, NEW q \in Op, "newDependent" \notin Fault, Archiving(q),
               NEW k \in DOMAIN plan[q], plan[q][k] \in deps'[i]
        PROVE  plan[q][k] \in deps[i]
    <3>1. CASE i # j
      BY <2>3, <2>5, <3>1
    <3>2. CASE i = j
      <4>1. ToSet(plan[q]) \cap D = {}
        BY <1>2, <2>5 DEF Submit
      <4>2. plan[q][k] \in ToSet(plan[q])
        BY DEF ToSet
      <4>3. deps'[j] = D
        BY <2>1 DEF Records
      <4> QED
        BY <2>5, <3>2, <4>1, <4>2, <4>3
    <3> QED
      BY <3>1, <3>2
  <2> QED
    BY <2>2, <2>4, <2>5 DEF Aging
<1>3. ASSUME NEW j \in Job, End(j) PROVE Records' /\ Aging
  <2>1. row[j] = "active" /\ row' = [row EXCEPT ![j] = "ended"] /\ UNCHANGED <<deps, whole, purged>>
    BY <1>3 DEF End
  <2>2. Records' /\ Past \subseteq Past'
    BY <2>1 DEF Records, Past
  <2> QED
    BY <2>1, <2>2 DEF Aging
<1>4. ASSUME NEW j \in Job, CleanupJob(j) PROVE Records' /\ Aging
  <2>1. /\ row' = [row EXCEPT ![j] = "gone"] /\ deps' = [deps EXCEPT ![j] = {}]
        /\ whole' = whole \ {j} /\ purged' = purged \cup {j}
    BY <1>4 DEF CleanupJob
  <2>2. Records' /\ Past \subseteq Past'
    BY <2>1 DEF Records, Past
  <2>3. \A i \in Job : deps'[i] \subseteq deps[i]
    BY <2>1 DEF Records
  <2>4. Past \subseteq Job
    BY DEF Past
  <2> QED
    BY <2>1, <2>2, <2>3, <2>4 DEF Aging
<1>5. ASSUME NEW o \in Op, DeleteChildren(o) PROVE Records' /\ Aging
  <2>1. /\ deps' = [j \in Job |-> IF j \in Slice(o) THEN {} ELSE deps[j]]
        /\ whole' = whole \ Slice(o) /\ row' = row
        /\ purged' = IF mode[o] = "delete" THEN purged \cup Slice(o) ELSE purged
    BY <1>5 DEF DeleteChildren
  <2>2. Slice(o) \subseteq Job
    BY SliceIsPast DEF Past
  <2>3. Records' /\ Past' = Past
    BY <2>1, <2>2 DEF Records, Past
  <2>4. \A i \in Job : deps'[i] \subseteq deps[i]
    BY <2>1
  <2>5. Past \subseteq Job
    BY DEF Past
  <2> QED
    BY <2>1, <2>3, <2>4, <2>5 DEF Aging
<1>6. ASSUME NEW o \in Op, DeleteRows(o) PROVE Records' /\ Aging
  <2>1. /\ UNCHANGED <<deps, whole, purged>>
        /\ \/ row' = [j \in Job |-> IF j \in Slice(o) THEN "gone" ELSE row[j]]
           \/ row' = row
    BY <1>6 DEF DeleteRows
  <2>2. Records' /\ Past \subseteq Past'
    BY <2>1, SliceIsPast DEF Records, Past
  <2> QED
    BY <2>1, <2>2 DEF Aging
<1>7. CASE Crash \/ UNCHANGED vars
  BY <1>1, <1>7 DEF Crash, vars
<1> QED
  BY <1>1, <1>2, <1>3, <1>4, <1>5, <1>6, <1>7, StepsOnRecords DEF Next

\* A sequence of some jobs, each of them once.
LEMMA Enumerated ==
    ASSUME NEW S \in SUBSET Job, NEW s \in SetToSeqs(S)
    PROVE  s \in Seq(S) /\ \A k \in DOMAIN s : s[k] \in S
<1>1. Cardinality(S) \in Nat
  BY FS_Subset, FS_CardinalityType, CleanupAssumption
<1>2. s \in [1..Cardinality(S) -> S]
  BY DEF SetToSeqs
<1> QED
  BY <1>1, <1>2

\* The steps that work off a plan, or drop it.
LEMMA PlanMoves ==
    ASSUME Local, NEW o \in Op, Step(o), ~Begin(o), ~Plan(o)
    PROVE  plan'[o] = plan[o] \/ plan'[o] = <<>>
<1>1. ASSUME Finish(o) PROVE plan'[o] = <<>>
  BY <1>1 DEF Finish, Over
<1>2. CASE Refuse(o) \/ StatArchive(o) \/ OpenArchiveWriter(o)
  BY <1>1, <1>2 DEF Refuse, StatArchive, OpenArchiveWriter
<1>3. CASE LoadJobs(o) \/ RestoreJobs(o) \/ DeleteChildren(o)
  BY <1>3 DEF LoadJobs, RestoreJobs, DeleteChildren
<1>4. ASSUME Failed(o) PROVE plan'[o] = plan[o] \/ plan'[o] = <<>>
  BY <1>1, <1>4 DEF Failed
<1>5. CASE DeleteRows(o)
  BY <1>1, <1>4, <1>5 DEF DeleteRows
<1>6. CASE DeleteFails(o) \/ CloseArchive(o)
  BY <1>1, <1>4, <1>6 DEF DeleteFails, CloseArchive
<1> QED
  BY <1>2, <1>3, <1>5, <1>6 DEF Step

\* The plan that planRemoval makes: jobs of the first query, each once, with all
\* that depend on them, and dependents first.
LEMMA PlanMade ==
    ASSUME Local, NEW o \in Op, Planned(o), Plan(o), ExactPlan
    PROVE  \/ Finish(o)
           \/ /\ plan'[o] \in Seq(Job)
              /\ ToSet(plan'[o]) \in Removable(ToSet(plan[o]), Edges(filter[o]))
              /\ \A i, k \in DOMAIN plan'[o] :
                   <<plan'[o][i], plan'[o][k]>> \in Edges(filter[o]) => i < k
              /\ pc'[o] = IF Archives(o) THEN "stat" ELSE "children"
              /\ UNCHANGED <<mode, at, name, batch, count>>
<1> SUFFICES ASSUME ~Finish(o) PROVE
              /\ plan'[o] \in Seq(Job)
              /\ ToSet(plan'[o]) \in Removable(ToSet(plan[o]), Edges(filter[o]))
              /\ \A i, k \in DOMAIN plan'[o] :
                   <<plan'[o][i], plan'[o][k]>> \in Edges(filter[o]) => i < k
              /\ pc'[o] = IF Archives(o) THEN "stat" ELSE "children"
              /\ UNCHANGED <<mode, at, name, batch, count>>
  OBVIOUS
<1>1. /\ pc' = [pc EXCEPT ![o] = IF Archives(o) THEN "stat" ELSE "children"]
      /\ UNCHANGED <<mode, at, name, batch, count>>
      /\ pc[o] = "edges" /\ faults' = faults
  BY DEF Plan
<1>2. pc'[o] = IF Archives(o) THEN "stat" ELSE "children"
  BY <1>1 DEF Local
<1> DEFINE order == plan'[o]
           edges == Edges(filter[o])
<1>3. /\ ToSet(order) = UNION Removable(ToSet(plan[o]), edges)
      /\ order \in SetToSeqs(ToSet(order))
      /\ \A i, k \in DOMAIN order : <<order[i], order[k]>> \in edges => i < k
  BY <1>1, <1>2 DEF ExactPlan
<1>4. ToSet(plan[o]) \subseteq Job
  BY DEF Planned, Past, ToSet
<1>5. UNION Removable(ToSet(plan[o]), edges) \in Removable(ToSet(plan[o]), edges)
  BY DEF Removable
<1>6. ToSet(order) \subseteq Job
  BY <1>3, <1>4, <1>5 DEF Removable
<1>7. order \in Seq(ToSet(order))
  BY <1>3, <1>6, Enumerated
<1>8. order \in Seq(Job)
  BY <1>6, <1>7
<1> QED
  BY <1>1, <1>2, <1>3, <1>5, <1>8

LEMMA PlannedStep ==
    ASSUME Local, Records, \A o \in Op : Planned(o), [Next]_vars, [ExactPlan]_vars
    PROVE  \A o \in Op : Planned(o)'
<1>1. Aging
  BY RecordsMove
<1>2. ASSUME NEW q \in Op, plan'[q] = plan[q] \/ plan'[q] = <<>> PROVE Planned(q)'
  <2>1. Planned(q)
    OBVIOUS
  <2>2. CASE plan'[q] = <<>>
    BY <2>2 DEF Planned
  <2> QED
    BY <1>1, <1>2, <2>1, <2>2 DEF Planned, Aging
<1>3. ASSUME NEW o \in Op, Step(o), ExactPlan PROVE \A q \in Op : Planned(q)'
  <2>1. \A q \in Op \ {o} : Planned(q)'
    BY <1>2, <1>3, StepLocal DEF Still
  <2>2. CASE Begin(o)
    <3>1. PICK F \in SUBSET Job : \E s \in SetToSeqs(Candidates(F)) : plan' = [plan EXCEPT ![o] = s]
      BY <2>2 DEF Begin
    <3>2. PICK s \in SetToSeqs(Candidates(F)) : plan' = [plan EXCEPT ![o] = s]
      BY <3>1
    <3>3. plan'[o] = s
      BY <3>2 DEF Local
    <3>4. Candidates(F) \subseteq Past /\ Candidates(F) \subseteq Job
      BY DEF Candidates, EndedJobs, Past
    <3>5. s \in Seq(Candidates(F)) /\ \A k \in DOMAIN s : s[k] \in Candidates(F)
      BY <3>4, Enumerated
    <3>6. s \in Seq(Job)
      BY <3>4, <3>5
    <3>7. \A j \in Past : j \in Past'
      BY <1>1 DEF Aging
    <3>8. \A k \in DOMAIN s : s[k] \in Past'
      BY <3>4, <3>5, <3>7
    <3>9. Planned(o)'
      BY <3>3, <3>6, <3>8 DEF Planned
    <3> QED
      BY <2>1, <3>9
  <2>3. CASE Plan(o)
    <3>1. CASE Finish(o)
      BY <1>2, <2>1, <3>1 DEF Finish, Over
    <3>2. CASE ~Finish(o)
      <4>1. plan'[o] \in Seq(Job) /\ ToSet(plan'[o]) \subseteq ToSet(plan[o])
        BY <1>3, <2>3, <3>2, PlanMade DEF Removable
      <4>2. ToSet(plan[o]) \subseteq Past
        BY DEF Planned, ToSet
      <4>3. \A k \in DOMAIN plan'[o] : plan'[o][k] \in ToSet(plan'[o])
        BY DEF ToSet
      <4>4. \A k \in DOMAIN plan'[o] : plan'[o][k] \in Past'
        BY <1>1, <4>1, <4>2, <4>3 DEF Aging
      <4>5. Planned(o)'
        BY <4>1, <4>4 DEF Planned
      <4> QED
        BY <2>1, <4>5
    <3> QED
      BY <3>1, <3>2
  <2>4. CASE ~Begin(o) /\ ~Plan(o)
    BY <1>2, <1>3, <2>1, <2>4, PlanMoves
  <2> QED
    BY <2>2, <2>3, <2>4
<1>4. CASE UNCHANGED vars
  BY <1>2, <1>4 DEF vars
<1>5. CASE Crash
  BY <1>2, <1>5 DEF Crash, Over
<1>6. CASE \/ \E j \in Job, D \in SUBSET Job : Submit(j, D)
           \/ \E j \in Job : End(j) \/ CleanupJob(j)
  BY <1>2, <1>6, JobsLocal DEF Still
<1>7. CASE Next /\ ExactPlan
  BY <1>3, <1>5, <1>6, <1>7 DEF Next
<1> QED
  BY <1>4, <1>7

LEMMA RecordsInit == Init => Records /\ \A o \in Op : Planned(o)
  BY DEF Init, Records, Planned

\* Jobs that have not ended are whole, and parents stay while a row points at them.
Untouched == \A j \in Job : row[j] = "active" => j \in whole
Anchored  == \A j \in Job : deps[j] \subseteq Live

LEMMA KeptStep ==
    ASSUME Local, Records, \A o \in Op : Planned(o), Untouched, Anchored, [Next]_vars
    PROVE  Untouched' /\ Anchored'
<1>1. CASE UNCHANGED <<row, deps, whole, purged>>
  <2>1. Live' = Live
    BY <1>1 DEF Live
  <2> QED
    BY <1>1, <2>1 DEF Untouched, Anchored
<1>2. ASSUME NEW j \in Job, NEW D \in SUBSET Job, Submit(j, D) PROVE Untouched' /\ Anchored'
  <2>1. /\ row[j] = "none" /\ row' = [row EXCEPT ![j] = "active"] /\ D \subseteq Live
        /\ deps' = [deps EXCEPT ![j] = D] /\ whole' = whole \cup {j}
    BY <1>2 DEF Submit
  <2>2. Live \subseteq Live'
    BY <2>1 DEF Live, Records
  <2>3. Untouched'
    BY <2>1 DEF Untouched, Records
  <2>4. \A i \in Job : deps'[i] = IF i = j THEN D ELSE deps[i]
    BY <2>1 DEF Records
  <2>5. \A i \in Job : deps'[i] \subseteq Live
    BY <2>1, <2>4 DEF Anchored
  <2> QED
    BY <2>2, <2>3, <2>5 DEF Anchored
<1>3. ASSUME NEW j \in Job, End(j) PROVE Untouched' /\ Anchored'
  <2>1. row[j] = "active" /\ row' = [row EXCEPT ![j] = "ended"] /\ UNCHANGED <<deps, whole>>
    BY <1>3 DEF End
  <2>2. Live' = Live
    BY <2>1 DEF Live, Records
  <2> QED
    BY <2>1, <2>2 DEF Untouched, Anchored, Records
<1>4. ASSUME NEW j \in Job, CleanupJob(j) PROVE Untouched' /\ Anchored'
  <2>1. /\ row[j] = "ended" /\ row' = [row EXCEPT ![j] = "gone"]
        /\ deps' = [deps EXCEPT ![j] = {}] /\ whole' = whole \ {j} /\ Unreferenced({j})
    BY <1>4 DEF CleanupJob
  <2>2. Live' = Live \ {j}
    BY <2>1 DEF Live, Records
  <2>3. Untouched'
    BY <2>1 DEF Untouched, Records
  <2>4. \A i \in Job : deps'[i] \subseteq deps[i]
    BY <2>1 DEF Records
  <2>5. \A i \in Job : j \notin deps[i]
    BY <2>1 DEF Unreferenced
  <2>6. \A i \in Job : deps'[i] \subseteq Live \ {j}
    BY <2>4, <2>5 DEF Anchored
  <2> QED
    BY <2>2, <2>3, <2>6 DEF Anchored
<1>5. ASSUME NEW o \in Op, DeleteChildren(o) PROVE Untouched' /\ Anchored'
  <2>1. /\ deps' = [j \in Job |-> IF j \in Slice(o) THEN {} ELSE deps[j]]
        /\ whole' = whole \ Slice(o) /\ row' = row
    BY <1>5 DEF DeleteChildren
  <2>2. \A j \in Slice(o) : row[j] # "active"
    BY SliceIsPast DEF Past
  <2>3. Live' = Live /\ \A j \in Job : deps'[j] \subseteq deps[j]
    BY <2>1 DEF Live
  <2> QED
    BY <2>1, <2>2, <2>3 DEF Untouched, Anchored
<1>6. ASSUME NEW o \in Op, DeleteRows(o) PROVE Untouched' /\ Anchored'
  <2>1. UNCHANGED <<deps, whole, purged>>
    BY <1>6 DEF DeleteRows
  <2>2. CASE row' = row
    BY <1>1, <2>1, <2>2
  <2>3. CASE /\ Unreferenced(Slice(o))
             /\ row' = [j \in Job |-> IF j \in Slice(o) THEN "gone" ELSE row[j]]
    <3>1. Live' = Live \ Slice(o) /\ Untouched'
      BY <2>1, <2>3 DEF Live, Untouched
    <3>2. \A i \in Job : deps[i] \cap Slice(o) = {}
      BY <2>3 DEF Unreferenced
    <3>3. \A i \in Job : deps[i] \subseteq Live \ Slice(o)
      BY <3>2 DEF Anchored
    <3> QED
      BY <2>1, <3>1, <3>3 DEF Anchored
  <2> QED
    BY <1>6, <2>2, <2>3 DEF DeleteRows
<1>7. CASE Crash \/ UNCHANGED vars
  BY <1>1, <1>7 DEF Crash, vars
<1> QED
  BY <1>1, <1>2, <1>3, <1>4, <1>5, <1>6, <1>7, StepsOnRecords DEF Next

\* A job that has not ended keeps its row and its child rows, and a job that stays
\* keeps its parents, whatever is submitted and whatever fails between the plan
\* and the deletion, if plans are what PlanIsExact says (CleanupJobs).
THEOREM KeptJobsTheorem == PlanIsExact /\ Spec => []KeptJobsIntact
<1> DEFINE I == /\ Local /\ Records /\ \A o \in Op : Planned(o)
                /\ Untouched /\ Anchored
<1>1. Init => I
  <2>1. Init => Untouched /\ Anchored
    BY DEF Init, Untouched, Anchored
  <2> QED
    BY <2>1, LocalInit, RecordsInit
<1>2. I /\ [Next]_vars /\ [ExactPlan]_vars => I'
  BY LocalStep, RecordsMove, PlannedStep, KeptStep
<1>3. I => KeptJobsIntact
  BY DEF Untouched, Anchored, KeptJobsIntact, Live
<1> HIDE DEF I
<1> QED
  BY <1>1, <1>2, <1>3, PTL DEF Spec, PlanIsExact, ExactPlan

-----------------------------------------------------------------------------
(***************************************************************************)
(* Working off a plan.                                                     *)
(***************************************************************************)

\* The jobs of the plan whose child rows are deleted: chunk by chunk before their
\* rows in an archive run, all before any row otherwise.
Finished(o, k) ==
    \/ k <= at[o]
    \/ pc[o] = "rows" /\ (mode[o] = "delete" \/ k <= at[o] + Chunk)

Begun(o) ==
    /\ pc[o] \in {"idle", "edges", "stat", "open"} => at[o] = 0
    /\ pc[o] = "edges" => \A k \in DOMAIN plan[o] : plan[o][k] \in filter[o]

Stripped(o) ==
    \A k \in DOMAIN plan[o] :
        Finished(o, k) => deps[plan[o][k]] = {} /\ plan[o][k] \notin whole

\* While a request archives, all that depend on a job of its plan come before it.
DependentsFirst(o) ==
    Archiving(o) =>
      \A i \in DOMAIN plan[o], j \in Job : plan[o][i] \in deps[j] =>
        \E k \in DOMAIN plan[o] : k < i /\ plan[o][k] = j

Worked(o) == Begun(o) /\ Stripped(o) /\ DependentsFirst(o)

LEMMA WorkedStill ==
    ASSUME "newDependent" \notin Fault, Local, Records, Aging,
           NEW q \in Op, Still(q), Planned(q), Worked(q)
    PROVE  Worked(q)'
<1>1. Begun(q)'
  BY DEF Worked, Begun, Still
<1>2. Stripped(q)'
  <2>1. \A k : Finished(q, k)' <=> Finished(q, k)
    BY DEF Still, Finished
  <2> QED
    BY <2>1 DEF Worked, Stripped, Still, Aging, Planned
<1>3. DependentsFirst(q)'
  <2>1. Archiving(q)' <=> Archiving(q)
    BY DEF Still, Archiving, Archives
  <2> QED
    BY <2>1 DEF Worked, DependentsFirst, Still, Aging
<1> QED
  BY <1>1, <1>2, <1>3 DEF Worked

LEMMA WorkedOver ==
    ASSUME NEW q \in Op, pc'[q] = "done", plan'[q] = <<>>
    PROVE  Worked(q)'
  BY DEF Worked, Begun, Stripped, DependentsFirst, Archiving

\* The steps of a request that neither plan nor delete.
LEMMA WorkedOn ==
    ASSUME Local, NEW o \in Op, Worked(o), pc[o] \notin {"idle", "edges", "done"},
           pc'[o] \notin {"idle", "edges", "stat", "rows"}, pc'[o] = "open" => pc[o] = "stat",
           mode'[o] = mode[o], plan'[o] = plan[o], at'[o] = at[o], UNCHANGED <<deps, whole>>
    PROVE  Worked(o)'
<1>1. Begun(o)'
  BY DEF Worked, Begun
<1>2. Stripped(o)'
  <2>1. \A k : Finished(o, k)' => Finished(o, k)
    BY DEF Finished
  <2> QED
    BY <2>1 DEF Worked, Stripped
<1>3. DependentsFirst(o)'
  BY DEF Worked, DependentsFirst, Archiving, Archives
<1> QED
  BY <1>1, <1>2, <1>3 DEF Worked

LEMMA WorkedPlan ==
    ASSUME Local, Records, Anchored, NEW o \in Op, Planned(o), Worked(o), Plan(o), ExactPlan
    PROVE  Worked(o)'
<1>1. CASE Finish(o)
  BY <1>1, WorkedOver DEF Finish, Over
<1>2. CASE ~Finish(o)
  <2>1. /\ plan'[o] \in Seq(Job)
        /\ ToSet(plan'[o]) \in Removable(ToSet(plan[o]), Edges(filter[o]))
        /\ \A i, k \in DOMAIN plan'[o] :
             <<plan'[o][i], plan'[o][k]>> \in Edges(filter[o]) => i < k
        /\ pc'[o] = IF Archives(o) THEN "stat" ELSE "children"
        /\ UNCHANGED <<mode, at, name, batch, count>>
    BY <1>2, PlanMade
  <2>2. pc[o] = "edges" /\ UNCHANGED <<row, deps, whole>>
    BY DEF Plan
  <2>3. at'[o] = 0
    BY <2>1, <2>2 DEF Worked, Begun
  <2>4. Begun(o)'
    BY <2>1, <2>3 DEF Begun
  <2>5. Stripped(o)'
    <3>1. \A k \in DOMAIN plan'[o] : ~Finished(o, k)'
      BY <2>1, <2>3 DEF Finished
    <3> QED
      BY <3>1 DEF Stripped
  <2>6. DependentsFirst(o)'
    <3> SUFFICES ASSUME NEW i \in DOMAIN plan'[o], NEW j \in Job, plan'[o][i] \in deps[j]
                 PROVE  \E k \in DOMAIN plan'[o] : k < i /\ plan'[o][k] = j
      BY <2>2 DEF DependentsFirst
    <3> DEFINE id == plan'[o][i]
    <3>1. id \in ToSet(plan'[o])
      BY DEF ToSet
    <3>2. id \in ToSet(plan[o])
      BY <2>1, <3>1 DEF Removable
    <3>3. id \in filter[o] /\ id \in Past
      BY <2>2, <3>2 DEF Worked, Begun, Planned, ToSet
    <3>4. id \in Live
      BY DEF Anchored
    <3>5. id \in Candidates(filter[o])
      BY <3>3, <3>4 DEF Candidates, EndedJobs, Past, Live
    <3>6. id \in Job
      BY <3>3 DEF Past
    <3>7. <<j, id>> \in Edges(filter[o])
      BY <3>5, <3>6 DEF Edges
    <3>8. j \in ToSet(plan'[o])
      BY <2>1, <3>1, <3>7 DEF Removable
    <3>9. PICK k \in DOMAIN plan'[o] : plan'[o][k] = j
      BY <3>8 DEF ToSet
    <3>10. k < i
      BY <2>1, <3>7, <3>9
    <3> QED
      BY <3>9, <3>10
  <2> QED
    BY <2>4, <2>5, <2>6 DEF Worked
<1> QED
  BY <1>1, <1>2

LEMMA WorkedChildren ==
    ASSUME Local, Records, NEW o \in Op, Planned(o), Worked(o), DeleteChildren(o)
    PROVE  Worked(o)'
<1>1. /\ pc[o] = "children" /\ pc'[o] \in {"children", "rows"}
      /\ mode'[o] = mode[o] /\ plan'[o] = plan[o]
      /\ deps' = [j \in Job |-> IF j \in Slice(o) THEN {} ELSE deps[j]]
      /\ whole' = whole \ Slice(o)
  BY DEF DeleteChildren, Local
<1>2. Begun(o)'
  BY <1>1 DEF Begun
<1>3. plan[o] \in Seq(Job) /\ at[o] \in Nat /\ Chunk \in Nat
  BY CleanupAssumption DEF Planned, Local
<1>4. \A k \in DOMAIN plan[o] : Finished(o, k)' => k <= at[o] + Chunk
  <2>1. CASE mode[o] = "delete" /\ at[o] + Chunk < Len(plan[o])
    <3>1. at'[o] = at[o] + Chunk /\ pc'[o] = "children"
      BY <1>1, <2>1 DEF DeleteChildren, Local
    <3> QED
      BY <1>3, <3>1 DEF Finished
  <2>2. CASE mode[o] = "delete" /\ ~(at[o] + Chunk < Len(plan[o]))
    BY <1>3, <2>2
  <2>3. CASE mode[o] # "delete"
    <3>1. at'[o] = at[o]
      BY <1>1, <2>3 DEF DeleteChildren, Local
    <3> QED
      BY <1>1, <1>3, <2>3, <3>1 DEF Finished
  <2> QED
    BY <2>1, <2>2, <2>3
<1>5. Stripped(o)'
  <2> SUFFICES ASSUME NEW k \in DOMAIN plan[o], k <= at[o] + Chunk
               PROVE  deps'[plan[o][k]] = {} /\ plan[o][k] \notin whole'
    BY <1>1, <1>4 DEF Stripped
  <2>1. plan[o][k] \in Job
    BY <1>3
  <2>2. CASE k <= at[o]
    BY <1>1, <2>1, <2>2 DEF Worked, Stripped, Finished
  <2>3. CASE ~(k <= at[o])
    <3>1. plan[o][k] \in Slice(o)
      BY <1>3, <2>3 DEF Slice
    <3> QED
      BY <1>1, <2>1, <3>1
  <2> QED
    BY <2>2, <2>3
<1>6. DependentsFirst(o)'
  <2>1. \A j \in Job : deps'[j] \subseteq deps[j]
    BY <1>1
  <2>2. Archiving(o)' => Archiving(o)
    BY <1>1 DEF Archiving, Archives
  <2> QED
    BY <1>1, <2>1, <2>2 DEF Worked, DependentsFirst
<1> QED
  BY <1>2, <1>5, <1>6 DEF Worked

LEMMA WorkedRows ==
    ASSUME Local, Modes, Records, NEW o \in Op, Planned(o), Worked(o), DeleteRows(o)
    PROVE  Worked(o)'
<1>1. pc[o] = "rows" /\ UNCHANGED <<deps, whole>>
  BY DEF DeleteRows
<1>2. CASE Finish(o)
  BY <1>2, WorkedOver DEF Finish, Over
<1>3. CASE Failed(o) /\ ~Finish(o)
  <2>1. pc'[o] = "close" /\ UNCHANGED <<mode, plan, at>>
    BY <1>3 DEF Failed, Local
  <2> QED
    BY <1>1, <2>1, WorkedOn
<1>4. CASE /\ at' = [at EXCEPT ![o] = @ + Chunk]
           /\ pc' = [pc EXCEPT ![o] = IF Archives(o) THEN "load" ELSE @]
           /\ UNCHANGED <<running, mode, filter, plan, name>>
  <2>1. /\ at'[o] = at[o] + Chunk /\ pc'[o] = (IF Archives(o) THEN "load" ELSE "rows")
        /\ mode'[o] = mode[o] /\ plan'[o] = plan[o]
    BY <1>1, <1>4 DEF Local
  <2>2. Begun(o)'
    BY <2>1 DEF Begun
  <2>3. \A k \in DOMAIN plan[o] : Finished(o, k)' => Finished(o, k)
    <3>1. mode[o] = "delete" \/ Archives(o)
      BY <1>1 DEF Local, Modes, Resting, Archives
    <3>2. CASE mode[o] = "delete"
      BY <1>1, <3>2 DEF Finished
    <3>3. CASE Archives(o)
      BY <1>1, <2>1, <3>3 DEF Finished
    <3> QED
      BY <3>1, <3>2, <3>3
  <2>4. Stripped(o)'
    BY <1>1, <2>1, <2>3 DEF Worked, Stripped
  <2>5. DependentsFirst(o)'
    <3>1. Archiving(o)' => Archiving(o)
      BY <1>1, <2>1 DEF Archiving, Archives
    <3> QED
      BY <1>1, <2>1, <3>1 DEF Worked, DependentsFirst
  <2> QED
    BY <2>2, <2>4, <2>5 DEF Worked
<1> QED
  BY <1>2, <1>3, <1>4 DEF DeleteRows

LEMMA WorkedStep ==
    ASSUME "newDependent" \notin Fault, Local, Modes, Records, Anchored,
           \A o \in Op : Planned(o) /\ Worked(o), [Next]_vars, [ExactPlan]_vars
    PROVE  \A o \in Op : Worked(o)'
<1>1. Aging
  BY RecordsMove
<1>2. \A q \in Op : Still(q) => Worked(q)'
  BY <1>1, WorkedStill
<1>3. ASSUME NEW o \in Op, Step(o), ExactPlan PROVE Worked(o)'
  <2>1. ASSUME Finish(o) PROVE Worked(o)'
    BY <2>1, WorkedOver DEF Finish, Over
  <2>2. CASE Refuse(o)
    <3>1. /\ pc[o] = "idle" /\ pc'[o] = "done"
          /\ UNCHANGED <<deps, whole, mode, plan, at>>
      BY <2>2 DEF Refuse, Local
    <3>2. Begun(o)' /\ DependentsFirst(o)' /\ \A k : Finished(o, k)' => Finished(o, k)
      BY <3>1 DEF Begun, DependentsFirst, Archiving, Finished
    <3> QED
      BY <3>1, <3>2 DEF Worked, Stripped
  <2>3. CASE Begin(o)
    <3>0. /\ pc[o] = "idle" /\ pc'[o] = "edges" /\ UNCHANGED at
      BY <2>3 DEF Begin, Local
    <3>1. PICK F \in SUBSET Job :
            /\ filter' = [filter EXCEPT ![o] = F]
            /\ \E s \in SetToSeqs(Candidates(F)) : plan' = [plan EXCEPT ![o] = s]
      BY <2>3 DEF Begin
    <3>2. PICK s \in SetToSeqs(Candidates(F)) : plan' = [plan EXCEPT ![o] = s]
      BY <3>1
    <3>3. plan'[o] = s /\ filter'[o] = F
      BY <3>1, <3>2 DEF Local
    <3>4. Candidates(F) \subseteq F /\ Candidates(F) \subseteq Job
      BY DEF Candidates
    <3>5. s \in Seq(Candidates(F)) /\ \A k \in DOMAIN s : s[k] \in Candidates(F)
      BY <3>4, Enumerated
    <3>6. at'[o] = 0
      BY <3>0 DEF Worked, Begun
    <3>7. Begun(o)'
      BY <3>3, <3>4, <3>5, <3>6 DEF Begun
    <3>8. \A k \in DOMAIN plan'[o] : ~Finished(o, k)'
      BY <3>0, <3>3, <3>5, <3>6 DEF Finished
    <3> QED
      BY <3>0, <3>7, <3>8 DEF Worked, Stripped, DependentsFirst, Archiving
  <2>4. CASE Plan(o)
    BY <1>3, <2>4, WorkedPlan
  <2>5. CASE StatArchive(o)
    <3>1. CASE Finish(o)
      BY <2>1, <3>1
    <3>2. CASE ~Finish(o)
      <4>1. /\ pc[o] = "stat" /\ pc'[o] = "open"
            /\ UNCHANGED <<deps, whole, mode, plan, at>>
        BY <2>5, <3>2 DEF StatArchive, Local
      <4> QED
        BY <4>1, WorkedOn
    <3> QED
      BY <3>1, <3>2
  <2>6. CASE OpenArchiveWriter(o)
    <3>1. /\ pc[o] = "open" /\ pc'[o] = "load"
          /\ UNCHANGED <<deps, whole, mode, plan, at>>
      BY <2>6 DEF OpenArchiveWriter, Local
    <3> QED
      BY <3>1, WorkedOn
  <2>7. CASE LoadJobs(o)
    <3>1. /\ pc[o] = "load" /\ pc'[o] \in {"copy", "close"}
          /\ UNCHANGED <<deps, whole, mode, plan, at>>
      BY <2>7 DEF LoadJobs, Local
    <3> QED
      BY <3>1, WorkedOn
  <2>8. CASE RestoreJobs(o)
    <3>1. /\ pc[o] = "copy" /\ pc'[o] \in {"children", "close"}
          /\ UNCHANGED <<deps, whole, mode, plan, at>>
      BY <2>8 DEF RestoreJobs, Local
    <3> QED
      BY <3>1, WorkedOn
  <2>9. CASE DeleteChildren(o) \/ DeleteRows(o)
    BY <2>9, WorkedChildren, WorkedRows
  <2>10. CASE DeleteFails(o)
    <3>1. CASE Finish(o)
      BY <2>1, <3>1
    <3>2. CASE ~Finish(o)
      <4>1. /\ pc[o] \in {"children", "rows"} /\ pc'[o] = "close"
            /\ UNCHANGED <<deps, whole, mode, plan, at>>
        BY <2>10, <3>2 DEF DeleteFails, Failed, Local
      <4> QED
        BY <4>1, WorkedOn
    <3> QED
      BY <3>1, <3>2
  <2>11. CASE CloseArchive(o)
    BY <2>1, <2>11 DEF CloseArchive
  <2> QED
    BY <1>3, <2>2, <2>3, <2>4, <2>5, <2>6, <2>7, <2>8, <2>9, <2>10, <2>11 DEF Step
<1>4. ASSUME NEW o \in Op, Step(o), ExactPlan PROVE \A q \in Op : Worked(q)'
  BY <1>2, <1>3, <1>4, StepLocal
<1>5. CASE UNCHANGED vars
  BY <1>2, <1>5 DEF vars, Still
<1>6. CASE Crash
  <2>1. \A q \in Op : pc[q] = "idle" => Still(q)
    BY <1>6, OverLocal DEF Crash
  <2>2. \A q \in Op : pc[q] # "idle" => pc'[q] = "done" /\ plan'[q] = <<>>
    BY <1>6 DEF Crash, Over
  <2> QED
    BY <1>2, <2>1, <2>2, WorkedOver
<1>7. CASE \/ \E j \in Job, D \in SUBSET Job : Submit(j, D)
           \/ \E j \in Job : End(j) \/ CleanupJob(j)
  BY <1>2, <1>7, JobsLocal
<1>8. CASE Next /\ ExactPlan
  BY <1>4, <1>6, <1>7, <1>8 DEF Next
<1> QED
  BY <1>5, <1>8

LEMMA WorkedInit == Init => \A o \in Op : Worked(o)
  BY DEF Init, Worked, Begun, Stripped, DependentsFirst, Archiving

LEMMA Deletable ==
    ASSUME Local, NEW o \in Op, Planned(o), Worked(o), pc[o] = "rows", Archives(o)
    PROVE  Unreferenced(Slice(o))
<1> SUFFICES ASSUME NEW j \in Job, NEW i \in DOMAIN plan[o], at[o] < i, i <= at[o] + Chunk,
                    plan[o][i] \in deps[j]
             PROVE  FALSE
  BY DEF Unreferenced, Slice
<1>1. Archiving(o)
  BY DEF Archiving
<1>2. PICK k \in DOMAIN plan[o] : k < i /\ plan[o][k] = j
  BY <1>1 DEF Worked, DependentsFirst
<1>3. k <= at[o] + Chunk
  <2>1. k \in Nat /\ i \in Nat /\ at[o] \in Nat /\ Chunk \in Nat
    BY CleanupAssumption DEF Planned, Local
  <2> QED
    BY <1>2, <2>1
<1>4. deps[plan[o][k]] = {}
  BY <1>3 DEF Worked, Stripped, Finished
<1> QED
  BY <1>2, <1>4

\* What the theorems about archiving assume of each other's plans and records.
Archival ==
    /\ Local /\ Modes /\ Guarded /\ Records /\ Anchored /\ Untouched
    /\ \A o \in Op : Planned(o) /\ Worked(o)

LEMMA ArchivalInit == Init => Archival
<1>1. Init => Untouched /\ Anchored
  BY DEF Init, Untouched, Anchored
<1> QED
  BY <1>1, LocalInit, ModesInit, RecordsInit, WorkedInit DEF Archival

LEMMA ArchivalStep ==
    ASSUME "newDependent" \notin Fault, Archival, [Next]_vars, [ExactPlan]_vars
    PROVE  Archival'
  BY LocalStep, ModesStep, RecordsMove, PlannedStep, KeptStep, WorkedStep DEF Archival

\* When an archive run comes to delete the rows of a chunk, nothing refers to them
\* any more: all that depend on them were in this chunk or an earlier one, though
\* jobs were submitted, ended and deleted since the plan was made (archiveOrdered).
THEOREM ChunkTheorem ==
    "newDependent" \notin Fault /\ PlanIsExact /\ Spec => []ChunkIsDeletable
<1> DEFINE I == "newDependent" \notin Fault /\ Archival
<1>1. "newDependent" \notin Fault /\ Init => I
  BY ArchivalInit
<1>2. I /\ [Next]_vars /\ [ExactPlan]_vars => I'
  BY ArchivalStep
<1>3. I => ChunkIsDeletable
  BY Deletable DEF Archival, ChunkIsDeletable
<1> HIDE DEF I
<1> QED
  BY <1>1, <1>2, <1>3, PTL DEF Spec, PlanIsExact, ExactPlan

-----------------------------------------------------------------------------
(***************************************************************************)
(* Nothing is lost.                                                        *)
(***************************************************************************)

\* What a request has read, and what of it is in its archive: the jobs it is about
\* to strip are copied, and an archive it has moved nothing to is empty.
Copying(o) ==
    /\ batch[o][1] \in SUBSET Job /\ batch[o][2] \subseteq batch[o][1] /\ count[o] \in Nat
    /\ pc[o] = "copy" => Slice(o) \cap whole \subseteq batch[o][2]
    /\ pc[o] = "children" /\ Archives(o) => Slice(o) \cap whole \subseteq wholeIn[name[o]]
    /\ Writing(o) /\ count[o] = 0 =>
         wholeIn[name[o]] \subseteq IF pc[o] \in {"children", "rows"} THEN batch[o][2] ELSE {}

\* Child rows belong to rows, and a file that does not exist holds nothing.
Stored ==
    /\ whole \subseteq Live
    /\ \A n \in Name : file[n] = "none" => wholeIn[n] = {}

LEMMA CopyingStill ==
    ASSUME Local, Aging, NEW q \in Op, Still(q), Planned(q), Copying(q),
           Writing(q) => wholeIn'[name[q]] = wholeIn[name[q]]
    PROVE  Copying(q)'
<1>1. Slice(q)' = Slice(q)
  BY DEF Still, Slice
<1>2. Slice(q) \cap whole' \subseteq Slice(q) \cap whole
  BY SliceIsPast DEF Aging
<1>3. /\ Writing(q)' <=> Writing(q)
      /\ Archives(q)' <=> Archives(q)
  BY DEF Still, Writing, Archives
<1>4. pc[q] = "children" /\ Archives(q) => Writing(q)
  BY DEF Writing
<1>5. /\ batch'[q] = batch[q] /\ count'[q] = count[q] /\ pc'[q] = pc[q] /\ name'[q] = name[q]
  BY DEF Still
<1>6. /\ batch'[q][1] \in SUBSET Job /\ batch'[q][2] \subseteq batch'[q][1] /\ count'[q] \in Nat
  BY <1>5 DEF Copying
<1>7. pc'[q] = "copy" => Slice(q)' \cap whole' \subseteq batch'[q][2]
  BY <1>1, <1>2, <1>5 DEF Copying
<1>8. pc'[q] = "children" /\ Archives(q)' => Slice(q)' \cap whole' \subseteq wholeIn'[name'[q]]
  BY <1>1, <1>2, <1>3, <1>4, <1>5 DEF Copying
<1>9. Writing(q)' /\ count'[q] = 0 =>
        wholeIn'[name'[q]] \subseteq IF pc'[q] \in {"children", "rows"} THEN batch'[q][2] ELSE {}
  BY <1>3, <1>5 DEF Copying
<1> QED
  BY <1>6, <1>7, <1>8, <1>9 DEF Copying

LEMMA CopyingOver ==
    ASSUME NEW q \in Op, pc'[q] = "done", batch'[q] = <<{}, {}>>, count'[q] = 0
    PROVE  Copying(q)'
<1>1. batch'[q][1] = {} /\ batch'[q][2] = {}
  OBVIOUS
<1> QED
  BY <1>1 DEF Copying, Writing

LEMMA CopyingFinish ==
    ASSUME Local, NEW o \in Op, Finish(o)
    PROVE  Copying(o)'
  BY CopyingOver DEF Finish, Over

\* Before the file is open.
LEMMA CopyingBefore ==
    ASSUME Local, Files, Stored, NEW o \in Op, Copying(o),
           Refuse(o) \/ Begin(o) \/ Plan(o) \/ StatArchive(o) \/ OpenArchiveWriter(o)
    PROVE  Copying(o)'
<1>1. CASE Finish(o)
  BY <1>1, CopyingFinish
<1>2. ASSUME UNCHANGED <<batch, count>>, pc'[o] \notin {"copy", "children"}, ~Writing(o)'
      PROVE  Copying(o)'
  BY <1>2 DEF Copying
<1>3. CASE Refuse(o) \/ Begin(o)
  <2>1. pc'[o] \in {"done", "edges"} /\ UNCHANGED <<batch, count>>
    BY <1>3 DEF Refuse, Begin, Local
  <2> QED
    BY <1>2, <2>1 DEF Writing
<1>4. CASE Plan(o) /\ ~Finish(o)
  <2>1. /\ pc'[o] = (IF Archives(o) THEN "stat" ELSE "children")
        /\ UNCHANGED <<mode, batch, count>>
    BY <1>4 DEF Plan, Local
  <2>2. ~Writing(o)' /\ ~(pc'[o] = "children" /\ Archives(o)') /\ pc'[o] # "copy"
    BY <2>1 DEF Writing, Archives
  <2> QED
    BY <2>1, <2>2 DEF Copying
<1>5. CASE StatArchive(o) /\ ~Finish(o)
  <2>1. /\ pc'[o] = "open" /\ file[name[o]] = "none"
        /\ UNCHANGED <<wholeIn, name, batch, count>>
    BY <1>5 DEF StatArchive, FileIsNew, Local
  <2>2. wholeIn'[name'[o]] = {}
    BY <2>1 DEF Stored, Local
  <2> QED
    BY <2>1, <2>2 DEF Copying
<1>6. CASE OpenArchiveWriter(o)
  <2>1. /\ pc[o] = "open" /\ pc'[o] = "load" /\ UNCHANGED <<wholeIn, name, batch, count>>
    BY <1>6 DEF OpenArchiveWriter, Local
  <2>2. Writing(o)
    BY <2>1 DEF Files, Writing
  <2>3. file[name[o]] = "none"
    BY <2>1, <2>2 DEF Files
  <2>4. wholeIn'[name'[o]] = {}
    BY <2>1, <2>3 DEF Stored, Local
  <2> QED
    BY <2>1, <2>4 DEF Copying
<1> QED
  BY <1>1, <1>3, <1>4, <1>5, <1>6

LEMMA CopyingChunk ==
    ASSUME Local, Files, Stored, Records, NEW o \in Op, Planned(o), Copying(o),
           LoadJobs(o) \/ RestoreJobs(o)
    PROVE  Copying(o)'
<1>0. Slice(o) \subseteq Job
  BY SliceIsPast DEF Past
<1>1. CASE LoadJobs(o)
  <2>1. /\ pc[o] = "load" /\ pc'[o] \in {"copy", "close"}
        /\ UNCHANGED <<whole, wholeIn, mode, plan, at, name, count>>
    BY <1>1 DEF LoadJobs, Local
  <2>2. Slice(o)' = Slice(o) /\ name'[o] = name[o] /\ count'[o] = count[o]
    BY <2>1 DEF Slice
  <2>3. Writing(o)' => Writing(o)
    BY <2>1 DEF Writing, Archives
  <2>4. Writing(o)' /\ count'[o] = 0 => wholeIn'[name'[o]] \subseteq {}
    BY <2>1, <2>2, <2>3 DEF Copying
  <2>5. CASE batch' = batch /\ pc'[o] = "close"
    BY <2>1, <2>4, <2>5 DEF Copying
  <2>6. CASE LET found == Slice(o) \cap Live IN
               batch' = [batch EXCEPT ![o] = <<found, found \cap whole>>]
    <3> DEFINE found == Slice(o) \cap Live
    <3>1. batch'[o] = <<found, found \cap whole>>
      BY <2>6 DEF Local
    <3>2. batch'[o][1] = found /\ batch'[o][2] = found \cap whole
      BY <3>1
    <3>3. Slice(o)' \cap whole' \subseteq batch'[o][2]
      BY <2>1, <2>2, <3>2 DEF Stored
    <3>4. batch'[o][1] \in SUBSET Job /\ batch'[o][2] \subseteq batch'[o][1] /\ count'[o] \in Nat
      BY <1>0, <2>2, <3>2 DEF Copying
    <3> QED
      BY <2>1, <2>4, <3>3, <3>4 DEF Copying
  <2>7. pc' = [pc EXCEPT ![o] = "close"] => pc'[o] = "close"
    BY DEF Local
  <2> QED
    BY <1>1, <2>5, <2>6, <2>7 DEF LoadJobs
<1>2. CASE RestoreJobs(o)
  <2>1. /\ pc[o] = "copy" /\ UNCHANGED <<whole, mode, plan, at, name, batch, count>>
    BY <1>2 DEF RestoreJobs
  <2>2. /\ Slice(o)' = Slice(o) /\ name'[o] = name[o] /\ count'[o] = count[o]
        /\ batch'[o] = batch[o]
    BY <2>1 DEF Slice
  <2>3. Writing(o) /\ name[o] \in Name
    BY <2>1 DEF Writing, Files, Local
  <2>4. count[o] = 0 => wholeIn[name[o]] = {}
    BY <2>1, <2>3 DEF Copying
  <2>5. CASE /\ wholeIn' = [wholeIn EXCEPT ![name[o]] = @ \cup batch[o][2]]
             /\ pc' = [pc EXCEPT ![o] = "children"]
    <3>1. wholeIn'[name[o]] = wholeIn[name[o]] \cup batch[o][2] /\ pc'[o] = "children"
      BY <2>3, <2>5 DEF Files, Local
    <3>2. Slice(o)' \cap whole' \subseteq wholeIn'[name'[o]]
      BY <2>1, <2>2, <3>1 DEF Copying
    <3>3. count'[o] = 0 => wholeIn'[name'[o]] \subseteq batch'[o][2]
      BY <2>2, <2>4, <3>1
    <3> QED
      BY <2>2, <3>1, <3>2, <3>3 DEF Copying
  <2>6. CASE UNCHANGED wholeIn /\ pc' = [pc EXCEPT ![o] = "close"]
    <3>1. pc'[o] = "close"
      BY <2>6 DEF Local
    <3> QED
      BY <2>2, <2>4, <2>6, <3>1 DEF Copying
  <2> QED
    BY <1>2, <2>5, <2>6 DEF RestoreJobs
<1> QED
  BY <1>1, <1>2

LEMMA CopyingDelete ==
    ASSUME "moveFails" \notin Fault, Local, Modes, NEW o \in Op, Planned(o), Worked(o), Copying(o),
           DeleteChildren(o) \/ DeleteRows(o) \/ DeleteFails(o) \/ CloseArchive(o)
    PROVE  Copying(o)'
<1>0. CASE Finish(o)
  BY <1>0, CopyingFinish
<1>1. CASE DeleteChildren(o)
  <2>1. /\ pc[o] = "children" /\ pc'[o] \in {"children", "rows"}
        /\ (pc'[o] = "children" => mode[o] = "delete")
        /\ UNCHANGED <<wholeIn, mode, name, batch, count>>
    BY <1>1 DEF DeleteChildren, Local
  <2>2. Writing(o)' => Writing(o)
    BY <2>1 DEF Writing, Archives
  <2>3. ~(pc'[o] = "children" /\ Archives(o)')
    BY <2>1 DEF Archives
  <2> QED
    BY <2>1, <2>2, <2>3 DEF Copying
<1>2. CASE DeleteRows(o) /\ ~Finish(o)
  <2>1. pc[o] = "rows" /\ UNCHANGED wholeIn
    BY <1>2 DEF DeleteRows
  <2>2. Unreferenced(Slice(o))
    <3>1. CASE Archives(o)
      BY <2>1, <3>1, Deletable
    <3>2. CASE ~Archives(o)
      BY <1>2, <3>2 DEF DeleteRows, Failed
    <3> QED
      BY <3>1, <3>2
  <2>3. /\ pc' = [pc EXCEPT ![o] = IF Archives(o) THEN "load" ELSE @]
        /\ count' = [count EXCEPT ![o] = @ + Cardinality(batch[o][1])]
        /\ batch' = [batch EXCEPT ![o] = <<{}, {}>>]
        /\ UNCHANGED <<mode, name>>
    BY <1>2, <2>2 DEF DeleteRows
  <2>4. /\ pc'[o] = (IF Archives(o) THEN "load" ELSE "rows")
        /\ batch'[o] = <<{}, {}>> /\ name'[o] = name[o] /\ mode'[o] = mode[o]
        /\ count'[o] = count[o] + Cardinality(batch[o][1])
    BY <2>1, <2>3 DEF Local
  <2>5. batch'[o][1] = {} /\ batch'[o][2] = {}
    BY <2>4
  <2>6. /\ Cardinality(batch[o][1]) \in Nat
        /\ Cardinality(batch[o][1]) = 0 => batch[o][1] = {}
    BY CleanupAssumption, FS_Subset, FS_CardinalityType, FS_EmptySet DEF Copying
  <2>7. count'[o] \in Nat /\ (count'[o] = 0 => count[o] = 0 /\ batch[o][1] = {})
    BY <2>4, <2>6 DEF Copying
  <2>8. Writing(o)' => Writing(o)
    BY <2>1, <2>4 DEF Writing, Archives
  <2>9. Writing(o)' /\ count'[o] = 0 => wholeIn'[name'[o]] \subseteq {}
    BY <2>1, <2>4, <2>7, <2>8 DEF Copying
  <2> QED
    BY <2>4, <2>5, <2>7, <2>9 DEF Copying
<1>3. CASE DeleteFails(o)
  BY <1>0, <1>3 DEF DeleteFails, MayHappen, Failed
<1>4. CASE CloseArchive(o)
  BY <1>0, <1>4 DEF CloseArchive
<1> QED
  BY <1>0, <1>1, <1>2, <1>3, <1>4

\* Requests write to their own files only.
LEMMA ArchiveMoves ==
    ASSUME Local, Files, NEW o \in Op, Step(o)
    PROVE  \/ UNCHANGED archives
           \/ /\ OpenArchiveWriter(o) \/ RestoreJobs(o) \/ CloseArchive(o)
              /\ Writing(o) /\ FilesAt(o) /\ name[o] \in Name
<1>0. name[o] \in Name
  BY DEF Local
<1>1. CASE Refuse(o) \/ Begin(o) \/ Plan(o)
  BY <1>1 DEF Refuse, Begin, Plan
<1>2. CASE StatArchive(o) \/ LoadJobs(o)
  BY <1>2 DEF StatArchive, LoadJobs
<1>3. CASE DeleteChildren(o) \/ DeleteRows(o) \/ DeleteFails(o)
  BY <1>3 DEF DeleteChildren, DeleteRows, DeleteFails
<1>4. CASE OpenArchiveWriter(o)
  BY <1>0, <1>4 DEF OpenArchiveWriter, Files, Writing, FilesAt
<1>5. CASE RestoreJobs(o)
  BY <1>0, <1>5 DEF RestoreJobs, Files, Writing, FilesAt
<1>6. CASE CloseArchive(o)
  <2>1. pc[o] = "close" /\ Writing(o)
    BY <1>6 DEF CloseArchive, Files, Writing
  <2>2. FilesAt(o)
    <3>1. CASE NothingArchived(o)
      BY <1>0, <1>6, <3>1 DEF CloseArchive, Files, FilesAt
    <3>2. CASE ~NothingArchived(o)
      BY <1>0, <1>6, <3>2 DEF CloseArchive, Files, FilesAt
    <3> QED
      BY <3>1, <3>2
  <2> QED
    BY <1>0, <1>6, <2>1, <2>2
<1> QED
  BY <1>1, <1>2, <1>3, <1>4, <1>5, <1>6 DEF Step

LEMMA CopyingStep ==
    ASSUME "moveFails" \notin Fault, Archival, Files, Stored, \A o \in Op : Copying(o),
           [Next]_vars
    PROVE  \A o \in Op : Copying(o)'
<1>0. Local /\ Modes /\ Records /\ \A o \in Op : Planned(o) /\ Worked(o)
  BY DEF Archival
<1>1. Aging
  BY <1>0, RecordsMove
<1>2. \A q \in Op : Still(q) /\ UNCHANGED archives => Copying(q)'
  BY <1>0, <1>1, CopyingStill
<1>3. ASSUME NEW o \in Op, Step(o) PROVE \A q \in Op : Copying(q)'
  <2>1. Copying(o)'
    BY <1>0, <1>3, CopyingBefore, CopyingChunk, CopyingDelete DEF Step
  <2>2. ASSUME NEW q \in Op \ {o} PROVE Copying(q)'
    <3>1. Still(q)
      BY <1>0, <1>3, StepLocal
    <3>2. Writing(q) => wholeIn'[name[q]] = wholeIn[name[q]]
      <4>1. name[q] \in Name
        BY <1>0 DEF Local
      <4>2. CASE UNCHANGED archives
        BY <4>2
      <4>3. CASE Writing(o) /\ FilesAt(o)
        BY <4>1, <4>3 DEF FilesAt, Files
      <4> QED
        BY <1>0, <1>3, <4>2, <4>3, ArchiveMoves
    <3> QED
      BY <1>0, <1>1, <3>1, <3>2, CopyingStill
  <2> QED
    BY <2>1, <2>2
<1>4. CASE UNCHANGED vars
  BY <1>2, <1>4 DEF vars, Still
<1>5. CASE Crash
  <2>1. UNCHANGED archives /\ \A q \in Op : pc[q] = "idle" => Still(q)
    BY <1>0, <1>5, OverLocal DEF Crash
  <2>2. \A q \in Op : pc[q] # "idle" => pc'[q] = "done" /\ batch'[q] = <<{}, {}>> /\ count'[q] = 0
    BY <1>5 DEF Crash, Over
  <2> QED
    BY <1>2, <2>1, <2>2, CopyingOver
<1>6. CASE \/ \E j \in Job, D \in SUBSET Job : Submit(j, D)
           \/ \E j \in Job : End(j) \/ CleanupJob(j)
  BY <1>0, <1>2, <1>6, JobsLocal, FilesOther
<1> QED
  BY <1>3, <1>4, <1>5, <1>6 DEF Next

LEMMA StoredStep ==
    ASSUME Archival, Files, Stored, [Next]_vars
    PROVE  Stored'
<1>0. Local /\ Records /\ \A o \in Op : Planned(o) /\ Worked(o)
  BY DEF Archival
<1> DEFINE Rowed == whole \subseteq Live
           Empty == \A n \in Name : file[n] = "none" => wholeIn[n] = {}
<1>1. UNCHANGED <<row, whole>> => Rowed'
  BY DEF Stored, Live
<1>2. UNCHANGED archives => Empty'
  BY DEF Stored
<1>3. CASE Crash \/ UNCHANGED vars
  <2>1. UNCHANGED <<row, whole, archives>>
    BY <1>3 DEF Crash, vars
  <2> QED
    BY <1>1, <1>2, <2>1 DEF Stored
<1>4. ASSUME NEW j \in Job, NEW D \in SUBSET Job, Submit(j, D) PROVE Stored'
  <2>1. /\ row' = [row EXCEPT ![j] = "active"] /\ whole' = whole \cup {j}
        /\ UNCHANGED archives
    BY <1>4 DEF Submit
  <2>2. Rowed'
    BY <1>0, <2>1 DEF Stored, Live, Records
  <2> QED
    BY <1>2, <2>1, <2>2 DEF Stored
<1>5. ASSUME NEW j \in Job, End(j) PROVE Stored'
  <2>1. /\ row' = [row EXCEPT ![j] = "ended"] /\ UNCHANGED whole /\ UNCHANGED archives
    BY <1>5 DEF End
  <2>2. Rowed'
    BY <1>0, <2>1 DEF Stored, Live, Records
  <2> QED
    BY <1>2, <2>1, <2>2 DEF Stored
<1>6. ASSUME NEW j \in Job, CleanupJob(j) PROVE Stored'
  <2>1. /\ row' = [row EXCEPT ![j] = "gone"] /\ whole' = whole \ {j} /\ UNCHANGED archives
    BY <1>6 DEF CleanupJob
  <2>2. Rowed'
    BY <1>0, <2>1 DEF Stored, Live, Records
  <2> QED
    BY <1>2, <2>1, <2>2 DEF Stored
<1>7. ASSUME NEW o \in Op, Step(o) PROVE Rowed'
  <2>1. CASE DeleteChildren(o)
    <3>1. whole' \subseteq whole /\ row' = row
      BY <2>1 DEF DeleteChildren
    <3> QED
      BY <3>1 DEF Stored, Live
  <2>2. CASE DeleteRows(o)
    <3>1. pc[o] = "rows" /\ UNCHANGED whole
      BY <2>2 DEF DeleteRows
    <3>2. CASE row' = row
      BY <1>1, <3>1, <3>2
    <3>3. CASE row' = [j \in Job |-> IF j \in Slice(o) THEN "gone" ELSE row[j]]
      <4>1. \A j \in Slice(o) : j \notin whole
        BY <1>0, <3>1 DEF Worked, Stripped, Finished, Slice
      <4> QED
        BY <3>1, <3>3, <4>1 DEF Stored, Live
    <3> QED
      BY <2>2, <3>2, <3>3 DEF DeleteRows
  <2> QED
    BY <1>1, <1>7, <2>1, <2>2, StepsOnRecords
<1>8. ASSUME NEW o \in Op, Step(o) PROVE Empty'
  <2>1. CASE OpenArchiveWriter(o)
    BY <1>0, <2>1 DEF OpenArchiveWriter, Stored, Files, Local
  <2>2. CASE RestoreJobs(o) /\ Writing(o) /\ FilesAt(o) /\ name[o] \in Name
    <3>1. file[name[o]] = "open" /\ file' = file
      BY <2>2 DEF RestoreJobs, Files
    <3> QED
      BY <2>2, <3>1 DEF FilesAt, Stored
  <2>3. CASE CloseArchive(o) /\ Writing(o) /\ FilesAt(o) /\ name[o] \in Name
    <3>1. file[name[o]] = "open"
      BY <2>3 DEF CloseArchive, Files
    <3>2. file'[name[o]] = "none" => wholeIn'[name[o]] = {}
      BY <2>3, <3>1 DEF CloseArchive, Files
    <3> QED
      BY <2>3, <3>2 DEF FilesAt, Stored
  <2> QED
    BY <1>0, <1>2, <1>8, <2>1, <2>2, <2>3, ArchiveMoves
<1>9. CASE \E o \in Op : Step(o)
  BY <1>7, <1>8, <1>9 DEF Stored
<1> QED
  BY <1>3, <1>4, <1>5, <1>6, <1>9 DEF Next

\* A record that is kept stays so, or somebody asked to delete it.
LEMMA LossStep ==
    ASSUME Archival, Files, \A o \in Op : Copying(o), NothingLost, [Next]_vars
    PROVE  NothingLost'
<1>0. Local /\ Records /\ \A o \in Op : Planned(o) /\ Worked(o)
  BY DEF Archival
<1> DEFINE Stays == \A j \in Job : Kept(j) => Kept(j)' \/ j \in purged'
           Known == \A j \in Job : row'[j] # "none" /\ j \notin purged' =>
                      j \in whole' \/ (row[j] # "none" /\ j \notin purged)
<1>a. UNCHANGED archives /\ (\A j \in whole : j \in whole' \/ j \in purged') => Stays
  BY DEF Kept
<1>b. Stays /\ Known => NothingLost'
  <2> SUFFICES ASSUME Stays, Known, NEW j \in Job, row'[j] # "none", j \notin purged'
               PROVE  Kept(j)'
    BY DEF NothingLost
  <2>1. CASE j \in whole'
    BY <2>1 DEF Kept
  <2>2. CASE row[j] # "none" /\ j \notin purged
    BY <2>2 DEF NothingLost
  <2> QED
    BY <2>1, <2>2
<1>1. CASE Crash \/ UNCHANGED vars
  <2>1. UNCHANGED <<row, whole, purged, archives>>
    BY <1>1 DEF Crash, vars
  <2> QED
    BY <1>a, <1>b, <2>1
<1>2. ASSUME NEW j \in Job, NEW D \in SUBSET Job, Submit(j, D) PROVE NothingLost'
  <2>1. /\ row' = [row EXCEPT ![j] = "active"] /\ whole' = whole \cup {j} /\ purged' = purged
        /\ UNCHANGED archives
    BY <1>2 DEF Submit
  <2>2. Known
    BY <1>0, <2>1 DEF Records
  <2> QED
    BY <1>a, <1>b, <2>1, <2>2
<1>3. ASSUME NEW j \in Job, End(j) PROVE NothingLost'
  <2>1. /\ row[j] = "active" /\ row' = [row EXCEPT ![j] = "ended"]
        /\ whole' = whole /\ purged' = purged /\ UNCHANGED archives
    BY <1>3 DEF End
  <2>2. Known
    BY <1>0, <2>1 DEF Records
  <2> QED
    BY <1>a, <1>b, <2>1, <2>2
<1>4. ASSUME NEW j \in Job, CleanupJob(j) PROVE NothingLost'
  <2>1. /\ row[j] = "ended" /\ row' = [row EXCEPT ![j] = "gone"]
        /\ whole' = whole \ {j} /\ purged' = purged \cup {j} /\ UNCHANGED archives
    BY <1>4 DEF CleanupJob
  <2>2. Known
    BY <1>0, <2>1 DEF Records
  <2> QED
    BY <1>a, <1>b, <2>1, <2>2
<1>5. ASSUME NEW o \in Op, DeleteChildren(o) PROVE NothingLost'
  <2>1. /\ pc[o] = "children" /\ row' = row /\ UNCHANGED archives /\ whole' = whole \ Slice(o)
        /\ purged' = IF mode[o] = "delete" THEN purged \cup Slice(o) ELSE purged
    BY <1>5 DEF DeleteChildren
  <2>2. Known
    BY <2>1
  <2>3. CASE mode[o] = "delete"
    BY <1>a, <1>b, <2>1, <2>2, <2>3
  <2>4. CASE mode[o] # "delete"
    <3>1. Archives(o)
      BY <2>1, <2>4 DEF Archival, Local, Modes, Resting, Archives
    <3>2. Slice(o) \cap whole \subseteq wholeIn[name[o]]
      BY <2>1, <3>1 DEF Copying
    <3>3. name[o] \in Name /\ file[name[o]] # "none"
      BY <1>0, <2>1, <3>1 DEF Files, Writing, Local
    <3>4. \A j \in Slice(o) \cap whole : Kept(j)'
      BY <2>1, <3>2, <3>3 DEF Kept
    <3>5. Stays
      BY <2>1, <3>4 DEF Kept
    <3> QED
      BY <1>b, <2>2, <3>5
  <2> QED
    BY <2>3, <2>4
<1>6. ASSUME NEW o \in Op, DeleteRows(o) PROVE NothingLost'
  <2>1. /\ UNCHANGED <<whole, purged>> /\ UNCHANGED archives
        /\ \/ row' = [j \in Job |-> IF j \in Slice(o) THEN "gone" ELSE row[j]]
           \/ row' = row
    BY <1>6 DEF DeleteRows
  <2>2. \A j \in Slice(o) : row[j] # "none"
    BY <1>0, SliceIsPast DEF Past
  <2>3. Known
    BY <2>1, <2>2
  <2> QED
    BY <1>a, <1>b, <2>1, <2>3
<1>7. ASSUME NEW o \in Op, Step(o), UNCHANGED <<row, deps, whole, purged>> PROVE NothingLost'
  <2>1. Known
    BY <1>7
  <2>2. CASE UNCHANGED archives
    BY <1>7, <1>a, <1>b, <2>1, <2>2
  <2>3. CASE OpenArchiveWriter(o) /\ name[o] \in Name
    <3>1. \A n \in Name : (file[n] # "none" => file'[n] # "none") /\ wholeIn'[n] = wholeIn[n]
      BY <2>3 DEF OpenArchiveWriter, Files
    <3>2. Stays
      BY <1>7, <3>1 DEF Kept
    <3> QED
      BY <1>b, <2>1, <3>2
  <2>4. CASE RestoreJobs(o) /\ name[o] \in Name
    <3>1. \A n \in Name : file'[n] = file[n] /\ wholeIn[n] \subseteq wholeIn'[n]
      BY <2>4 DEF RestoreJobs, Files
    <3>2. Stays
      BY <1>7, <3>1 DEF Kept
    <3> QED
      BY <1>b, <2>1, <3>2
  <2>5. CASE CloseArchive(o) /\ name[o] \in Name /\ Writing(o)
    <3>1. CASE ~NothingArchived(o)
      <4>1. \A n \in Name : (file[n] # "none" => file'[n] # "none") /\ wholeIn'[n] = wholeIn[n]
        BY <2>5, <3>1 DEF CloseArchive, Files
      <4>2. Stays
        BY <1>7, <4>1 DEF Kept
      <4> QED
        BY <1>b, <2>1, <4>2
    <3>2. CASE NothingArchived(o)
      <4>1. pc[o] = "close" /\ wholeIn[name[o]] = {}
        BY <2>5, <3>2 DEF CloseArchive, NothingArchived, Copying
      <4>2. \A n \in Name : n # name[o] => file'[n] = file[n] /\ wholeIn'[n] = wholeIn[n]
        BY <2>5, <3>2 DEF CloseArchive, Files
      <4>3. Stays
        BY <1>7, <4>1, <4>2 DEF Kept
      <4> QED
        BY <1>b, <2>1, <4>3
    <3> QED
      BY <3>1, <3>2
  <2> QED
    BY <1>0, <1>7, <2>2, <2>3, <2>4, <2>5, ArchiveMoves
<1>8. CASE \E o \in Op : Step(o)
  BY <1>5, <1>6, <1>7, <1>8, StepsOnRecords
<1> QED
  BY <1>1, <1>2, <1>3, <1>4, <1>8 DEF Next

\* The whole record of a job nobody asked to delete is in the live database or in
\* an archive, whenever the server dies, reads or copies fail or the client goes
\* away, and however requests overlap: if plans are exact, no two requests are
\* given one name, nothing comes to depend on a job being archived and no move
\* fails halfway (archiveOrdered; CleanupLoss shows what happens if one does).
THEOREM NothingLostTheorem ==
    Fault \cap {"newDependent", "sameName", "moveFails"} = {} /\ PlanIsExact /\ Spec
        => []NothingLost
<1> DEFINE Orderly == Fault \cap {"newDependent", "sameName", "moveFails"} = {}
           I == /\ Orderly /\ Archival /\ Files /\ Stored /\ NothingLost
                /\ \A o \in Op : Copying(o)
<1>1. Orderly /\ Init => I
  <2> SUFFICES ASSUME Init PROVE Stored /\ NothingLost /\ \A o \in Op : Copying(o)
    BY ArchivalInit, FilesInit
  <2>1. Stored /\ NothingLost
    BY DEF Init, Stored, NothingLost
  <2>2. \A o \in Op : pc[o] = "idle" /\ batch[o] = <<{}, {}>> /\ count[o] = 0
    BY DEF Init
  <2>3. \A o \in Op : batch[o][1] = {} /\ batch[o][2] = {}
    BY <2>2
  <2>4. \A o \in Op : Copying(o)
    BY <2>2, <2>3 DEF Copying, Writing
  <2> QED
    BY <2>1, <2>4
<1>2. I /\ [Next]_vars /\ [ExactPlan]_vars => I'
  <2> SUFFICES ASSUME I, [Next]_vars, [ExactPlan]_vars PROVE I'
    OBVIOUS
  <2>1. Archival' /\ Stored' /\ NothingLost' /\ \A o \in Op : Copying(o)'
    BY ArchivalStep, StoredStep, LossStep, CopyingStep
  <2>2. Local
    BY DEF Archival
  <2>3. Files'
    BY <2>2, FilesStep, FilesCrash, FilesOther DEF Next
  <2> QED
    BY <2>1, <2>3
<1>3. I => NothingLost
  OBVIOUS
<1> HIDE DEF I
<1> QED
  BY <1>1, <1>2, <1>3, PTL DEF Spec, PlanIsExact, ExactPlan
=============================================================================
