------------------------- MODULE JobLifecycleProofs -------------------------
(***************************************************************************)
(* Proofs about JobLifecycle: its invariants support one another, so they  *)
(* are proved together as one inductive invariant.  ReferentialIntegrity   *)
(* carries the others: a job that does not exist has no row and is         *)
(* nobody's parent, so a new job starts clean and closes no cycle.         *)
(***************************************************************************)
EXTENDS JobLifecycle, TLAPS

Inv == TypeOK /\ ClaimLock /\ DependencySafety /\ ReferentialIntegrity /\ AcyclicDeps

\* Every initial state is empty, so satisfies the invariant.
LEMMA InitInv == ASSUME Init PROVE Inv
<1>1. TypeOK
  BY DEF Init, TypeOK, Status, Live, Terminal, Dead
<1>2. ClaimLock /\ DependencySafety /\ ReferentialIntegrity
  BY DEF Init, ClaimLock, DependencySafety, ReferentialIntegrity, Exists,
         Unclaimed, Started
<1>3. AcyclicDeps
  BY DEF Init, AcyclicDeps
<1> QED
  BY <1>1, <1>2, <1>3 DEF Inv

-----------------------------------------------------------------------------
\* Inserted rows name existing parents only; deleted rows are no parents.
LEMMA NextReferential ==
    ASSUME Inv, Next
    PROVE  ReferentialIntegrity'
<1> USE DEF Inv, Next, TypeOK, ReferentialIntegrity, Exists, Changed
<1>1. CASE Create
  BY <1>1 DEF Create, Unclaimed
<1>2. CASE Settle
  BY <1>2 DEF Settle, Satisfied
<1>3. CASE Claim
  BY <1>3 DEF Claim
<1>4. CASE Advance
  BY <1>4 DEF Advance
<1>5. CASE Kill
  BY <1>5 DEF Kill, Live, Dead
<1>6. CASE ParkOrResume
  BY <1>6 DEF ParkOrResume, Unclaimed
<1>7. CASE Remove
  BY <1>7 DEF Remove, Terminal, Dead
<1> QED
  BY <1>1, <1>2, <1>3, <1>4, <1>5, <1>6, <1>7

\* Claim rows appear with the claim and stay with the claimed job.
LEMMA NextClaimLock ==
    ASSUME Inv, Next
    PROVE  ClaimLock'
<1> USE DEF Inv, Next, TypeOK, ClaimLock, Unclaimed, Changed
<1>1. CASE Create
  BY <1>1 DEF Create, ReferentialIntegrity, Exists
<1>2. CASE Settle
  BY <1>2 DEF Settle
<1>3. CASE Claim
  BY <1>3 DEF Claim
<1>4. CASE Advance
  BY <1>4 DEF Advance
<1>5. CASE Kill
  BY <1>5 DEF Kill, Live, Dead
<1>6. CASE ParkOrResume
  BY <1>6 DEF ParkOrResume
<1>7. CASE Remove
  BY <1>7 DEF Remove
<1> QED
  BY <1>1, <1>2, <1>3, <1>4, <1>5, <1>6, <1>7

\* A runnable job keeps satisfied parents: those that leave Satisfied die, and
\* Kill takes the job with them.
LEMMA NextDependencySafety ==
    ASSUME Inv, Next
    PROVE  DependencySafety'
<1> USE DEF Inv, Next, TypeOK, DependencySafety, Started, Satisfied, Changed
<1>1. CASE Create
  BY <1>1 DEF Create, Unclaimed, ReferentialIntegrity, Exists
<1>2. CASE Settle
  BY <1>2 DEF Settle
<1>3. CASE Claim
  BY <1>3 DEF Claim
<1>4. CASE Advance
  BY <1>4 DEF Advance
<1>5. CASE Kill
  BY <1>5 DEF Kill, Live, Dead
<1>6. CASE ParkOrResume
  BY <1>6 DEF ParkOrResume, Unclaimed
<1>7. CASE Remove
  BY <1>7 DEF Remove, Terminal, Dead
<1> QED
  BY <1>1, <1>2, <1>3, <1>4, <1>5, <1>6, <1>7

\* New jobs depend on old ones only, and old ones never on new ones.
LEMMA NextAcyclic ==
    ASSUME Inv, Next
    PROVE  AcyclicDeps'
<1> SUFFICES ASSUME NEW S \in SUBSET Job, S # {}
             PROVE  \E j \in S : deps'[j] \cap S = {}
  BY DEF AcyclicDeps
<1> USE DEF Inv, AcyclicDeps
<1>1. CASE Create
  <2> DEFINE Old == S \ Changed
  <2>1. \A j \in Changed : \A d \in deps'[j] : d \notin Changed
    BY <1>1 DEF Create, Exists
  <2>2. CASE Old = {}
    BY <2>1, <2>2
  <2>3. CASE Old # {}
    <3>1. PICK j \in Old : deps[j] \cap Old = {}
      BY <2>3
    <3>2. j \in Job /\ j \notin Changed
      OBVIOUS
    <3>3. deps'[j] = deps[j]
      BY <1>1, <3>2 DEF Create
    <3>4. \A d \in deps[j] : d \notin Changed
      BY <1>1, <3>2 DEF Create, ReferentialIntegrity, Exists, TypeOK
    <3> QED
      BY <3>1, <3>3, <3>4
  <2> QED
    BY <2>2, <2>3
<1>2. CASE Remove
  <2>1. PICK j \in S : deps[j] \cap S = {}
    OBVIOUS
  <2>2. deps'[j] = {} \/ deps'[j] = deps[j]
    BY <1>2 DEF Remove
  <2> QED
    BY <2>1, <2>2
<1>3. CASE UNCHANGED deps
  BY <1>3
<1> QED
  BY <1>1, <1>2, <1>3 DEF Next, Settle, Claim, Advance, Kill, ParkOrResume

-----------------------------------------------------------------------------
\* The inductive invariant: types, claim rows, satisfied parents, row
\* references and acyclicity, at once, for every set of jobs and runners.
THEOREM Invariance == Spec => []Inv
<1>1. ASSUME Inv, [Next]_vars PROVE Inv'
  <2>1. CASE Next
    BY <1>1, <2>1, NextReferential, NextClaimLock, NextDependencySafety,
       NextAcyclic DEF Inv, Next
  <2>2. CASE UNCHANGED vars
    BY <1>1, <2>2 DEF vars, Inv, TypeOK, ClaimLock, DependencySafety,
       ReferentialIntegrity, AcyclicDeps, Exists
  <2> QED
    BY <1>1, <2>1, <2>2
<1> QED
  BY <1>1, InitInv, PTL DEF Spec

\* Terminal statuses are final: no step but a removal changes them.
THEOREM TerminalTheorem == Spec => TerminalIsFinal
<1>1. ASSUME [Next]_vars
      PROVE  [\A j \in Job : status[j] \in Terminal =>
                 status'[j] \in {status[j], "NONE"}]_vars
  BY <1>1 DEF Next, Create, Settle, Claim, Advance, Kill, ParkOrResume, Remove,
     Changed, Terminal, Dead, Live, Unclaimed, vars
<1> QED
  BY <1>1, PTL DEF Spec, TerminalIsFinal

\* A claim row never changes hands, and goes only when its job has ended.
THEOREM ClaimTheorem == Spec => ClaimIsForLife
<1>1. ASSUME Inv, [Next]_vars
      PROVE  [\A j \in Job : runner[j] # NoRunner =>
                 runner'[j] = runner[j] \/ status[j] \in Terminal]_vars
  BY <1>1 DEF Next, Create, Settle, Claim, Advance, Kill, ParkOrResume, Remove,
     Changed, vars
<1> QED
  BY <1>1, Invariance, PTL DEF Spec, ClaimIsForLife

\* A live job other than a WAITING one that dies takes its live dependents
\* along in the same step.
THEOREM CascadeTheorem == Spec => CascadeIsAtomic
<1>1. ASSUME Inv, [Next]_vars
      PROVE  [\A p, j \in Job :
                 /\ status[p] \in Live \ {"WAITING"} /\ status'[p] \in Dead
                 /\ p \in deps[j]
                 => status'[j] \in Terminal]_vars
  <2> SUFFICES ASSUME Next, NEW p \in Job, NEW j \in Job,
                      status[p] \in Live \ {"WAITING"}, status'[p] \in Dead,
                      p \in deps[j]
               PROVE  status'[j] \in Terminal
    BY <1>1
  <2>1. p \in Changed
    BY DEF Changed, Live, Dead
  <2>2. Kill
    BY <2>1 DEF Next, Create, Settle, Claim, Advance, ParkOrResume, Remove,
       Changed, Live, Dead, Unclaimed
  <2>3. status[j] \in Live => status'[j] \in Dead
    BY <2>1, <2>2 DEF Kill
  <2>4. status[j] \in Terminal => status'[j] = status[j]
    BY <2>2 DEF Kill, Changed, Live, Terminal, Dead
  <2>5. status[j] # "NONE"
    BY <1>1 DEF Inv, ReferentialIntegrity, Exists
  <2> QED
    BY <1>1, <2>3, <2>4, <2>5 DEF Inv, TypeOK, Status, Terminal
<1> QED
  BY <1>1, Invariance, PTL DEF Spec, CascadeIsAtomic
=============================================================================
