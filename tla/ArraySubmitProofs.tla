-------------------------- MODULE ArraySubmitProofs --------------------------
(***************************************************************************)
(* Theorems about ArraySubmit, for every spec, every dependencies, any     *)
(* number of attempts and any faults.                                      *)
(***************************************************************************)
EXTENDS ArraySubmit, FiniteSetTheorems, SequenceTheorems, WellFoundedInduction, TLAPS

USE DEF command, server

AtWork == {"find", "expand", "validate", "insert", "recheck"}

\* Who may be where: the attempts that are still to come have no handler.
Attempts ==
    /\ attempt \in 0..MaxAttempts
    /\ client \in {"start", "send"} => attempt < MaxAttempts
    /\ client = "wait" => attempt \in Attempt
    /\ pc \in [Attempt -> Pc]
    /\ answer = [k \in Attempt |-> answer[k]]
    /\ \A k \in Attempt : k > attempt => pc[k] = "none"

\* The handler of attempt k has not inserted anything and will not.
Harmless(k) == pc[k] = "none" \/ (pc[k] = "answer" /\ answer[k].code # 201)

\* An attempt that inserts says so, and as long as the command has lost track of
\* none the attempts it is done with have inserted nothing.
Told ==
    /\ tasks # {} => \E k \in Attempt : pc[k] = "answer" /\ answer[k].code = 201
    /\ ~unsure => \A k \in Attempt :
         k <= attempt /\ (k < attempt \/ client \notin {"wait", "ok"}) => Harmless(k)

LEMMA AttemptsInit == Init => Attempts /\ Told
  BY SubmitAssumption DEF Init, Attempts, Told, Harmless, Attempt, Pc, NoReply

\* The steps of the command keep track of the attempts.
LEMMA AttemptsCommand ==
    ASSUME Attempts, Command \/ NoServer \/ Timeout
    PROVE  Attempts'
<1>1. CASE Start
  BY <1>1, SubmitAssumption DEF Attempts, Start, Attempt
<1>2. CASE Send
  BY <1>2, SubmitAssumption DEF Attempts, Send, Attempt, Pc
<1>3. CASE Broken \/ Receive \/ Timeout
  BY <1>3, SubmitAssumption DEF Attempts, Broken, Receive, Timeout, MayHappen, Attempt
<1>4. CASE Retry
  BY <1>4, SubmitAssumption DEF Attempts, Retry, MayHappen, Attempt
<1>5. CASE NoServer
  BY <1>5, SubmitAssumption DEF Attempts, NoServer, MayHappen, Attempt
<1> QED
  BY <1>1, <1>2, <1>3, <1>4, <1>5 DEF Command

\* A handler moves itself only.
LEMMA HandlerSteps ==
    ASSUME Attempts, NEW k \in Attempt, Handle(k)
    PROVE  /\ UNCHANGED command
           /\ pc[k] \in AtWork
           /\ \E s \in Pc \ {"none"} : pc' = [pc EXCEPT ![k] = s]
           /\ answer' = answer \/ \E r : answer' = [answer EXCEPT ![k] = r]
           /\ tasks' # tasks => pc'[k] = "answer" /\ answer'[k].code = 201
<1> USE DEF AtWork, Pc, Attempts
<1>1. CASE Expand(k)
  BY <1>1 DEF Expand, Answer
<1>2. CASE Find(k)
  BY <1>2 DEF Find, Answer
<1>3. CASE validateDeps(k)
  BY <1>3 DEF validateDeps, InsertFails
<1>4. CASE Insert(k)
  <2>1. CASE tasks' = tasks
    BY <1>4, <2>1 DEF Insert, InsertFails, Answer
  <2>2. CASE tasks' # tasks
    BY <1>4, <2>2 DEF Insert, Answer
  <2> QED
    BY <2>1, <2>2
<1>5. CASE Recheck(k)
  BY <1>5 DEF Recheck, Answer
<1> QED
  BY <1>1, <1>2, <1>3, <1>4, <1>5 DEF Handle

LEMMA AttemptsHandler ==
    ASSUME Attempts, NEW k \in Attempt, Handle(k)
    PROVE  Attempts'
  BY HandlerSteps DEF Attempts, AtWork, Pc

\* A crash leaves the handlers that have answered.
LEMMA AttemptsCrash ==
    ASSUME Attempts, Crash
    PROVE  Attempts'
  BY DEF Attempts, Crash, MayHappen, Pc

LEMMA AttemptsStep ==
    ASSUME Attempts, [Next]_vars
    PROVE  Attempts'
<1>1. CASE Crash
  BY <1>1, AttemptsCrash
<1>2. CASE \E k \in Attempt : Handle(k)
  BY <1>2, AttemptsHandler
<1>3. CASE Command \/ NoServer \/ Timeout
  BY <1>3, AttemptsCommand
<1>4. CASE \E o \in OldId : Dies(o) \/ CleanedUp(o)
  BY <1>4 DEF Attempts, Dies, CleanedUp
<1>5. CASE UNCHANGED vars
  BY <1>5 DEF Attempts, vars
<1> QED
  BY <1>1, <1>2, <1>3, <1>4, <1>5 DEF Next

\* What the command knows of its attempts stays true.
LEMMA ToldStep ==
    ASSUME Attempts, Told, [Next]_vars
    PROVE  Told'
<1>1. CASE Start
  BY <1>1, SubmitAssumption DEF Told, Harmless, Start, Attempts
<1>2. CASE Send
  <2>1. attempt + 1 \in Attempt
    BY <1>2, SubmitAssumption DEF Attempts, Send, Attempt
  <2>2. \A k \in Attempt : k # attempt + 1 => pc'[k] = pc[k]
    BY <1>2 DEF Send, Attempts
  <2>3. pc[attempt + 1] = "none"
    BY <2>1, SubmitAssumption DEF Attempts
  <2>4. \A k \in Attempt : pc[k] = "answer" => k # attempt + 1 /\ pc'[k] = "answer"
    BY <2>2, <2>3
  <2> QED
    BY <1>2, <2>1, <2>2, <2>4, SubmitAssumption
    DEF Told, Harmless, Send, Attempts, Attempt
<1>3. CASE Broken \/ Timeout
  BY <1>3 DEF Told, Broken, Timeout, MayHappen
<1>4. CASE Receive
  BY <1>4, SubmitAssumption DEF Told, Harmless, Receive, Attempts, Attempt,
     retryableIdempotent
<1>5. CASE Retry
  BY <1>5, SubmitAssumption DEF Told, Harmless, Retry, MayHappen, Attempts, Attempt
<1>6. CASE NoServer
  BY <1>6, SubmitAssumption DEF Told, Harmless, NoServer, MayHappen, Attempts, Attempt
<1>7. CASE \E k \in Attempt : Handle(k)
  <2>1. PICK k \in Attempt : Handle(k)
    BY <1>7
  <2>2. /\ UNCHANGED command /\ pc[k] \in AtWork
        /\ tasks' # tasks => pc'[k] = "answer" /\ answer'[k].code = 201
    BY <2>1, HandlerSteps
  <2>3. \A n \in Attempt : n # k => pc'[n] = pc[n] /\ answer'[n] = answer[n]
    BY <2>1, HandlerSteps DEF Attempts
  <2>4. ~Harmless(k)
    BY <2>2 DEF Harmless, AtWork
  <2>5. pc[k] # "answer"
    BY <2>2 DEF AtWork
  <2>6. tasks' # {} => \E n \in Attempt : pc'[n] = "answer" /\ answer'[n].code = 201
    BY <2>2, <2>3, <2>5 DEF Told
  <2> QED
    BY <2>2, <2>3, <2>4, <2>6 DEF Told, Harmless
<1>8. CASE Crash
  BY <1>8 DEF Told, Harmless, Crash, MayHappen, Attempts
<1>9. CASE \E o \in OldId : Dies(o) \/ CleanedUp(o)
  BY <1>9 DEF Told, Harmless, Dies, CleanedUp
<1>10. CASE UNCHANGED vars
  BY <1>10 DEF Told, Harmless, vars
<1> QED
  BY <1>1, <1>2, <1>3, <1>4, <1>5, <1>6, <1>7, <1>8, <1>9, <1>10 DEF Next, Command

\* A command that reports a failure and has lost track of no attempt has
\* submitted nothing: SubmitJob, SubmitArray and doRetry, whatever is retried.
THEOREM FailureTheorem == Spec => []FailureIsTrue
<1>1. Init => Attempts /\ Told
  BY AttemptsInit
<1>2. Attempts /\ Told /\ [Next]_vars => (Attempts /\ Told)'
  BY AttemptsStep, ToldStep
<1>3. Attempts /\ Told => FailureIsTrue
  BY SubmitAssumption DEF Attempts, Told, Harmless, FailureIsTrue, Attempt
<1> QED
  BY <1>1, <1>2, <1>3, PTL DEF Spec

-----------------------------------------------------------------------------
\* Nothing is inserted before the command has expanded the array spec.
NotYet ==
    client = "start" => tasks = {} /\ \A k \in Attempt : pc[k] = "none"

LEMMA NotYetStep ==
    ASSUME Attempts, NotYet, [Next]_vars
    PROVE  NotYet'
<1>1. CASE \E k \in Attempt : Handle(k)
  BY <1>1, HandlerSteps DEF NotYet, AtWork
<1>2. CASE ~ \E k \in Attempt : Handle(k)
  BY <1>2 DEF NotYet, Next, Command, Start, Send, Broken, Receive, Retry, NoServer,
     Timeout, Crash, Dies, CleanedUp, MayHappen, vars, Attempts
<1> QED
  BY <1>1, <1>2

\* What an insert adds is made of attempts and indices.
LEMMA RowsType ==
    ASSUME NEW k \in Attempt, NEW t \in Rows(k)
    PROVE  t.id \in (Attempt \cup {0}) \X Indices /\ t.index \in Indices
<1>1. CASE Single
  BY <1>1 DEF Rows, Indices
<1>2. CASE ~Single
  BY <1>2 DEF Rows
<1> QED
  BY <1>1, <1>2

LEMMA MayHappenType ==
    ASSUME TypeOK, NEW f, MayHappen(f)
    PROVE  faults' \in 0..MaxFaults
  BY SubmitAssumption DEF TypeOK, MayHappen

\* A handler answers with one of the status codes of httpStatus.
LEMMA TypeHandler ==
    ASSUME TypeOK, Attempts, NEW k \in Attempt, Handle(k)
    PROVE  TypeOK'
<1>1. /\ UNCHANGED command
      /\ pc' \in [Attempt -> Pc]
      /\ \A n \in Attempt : n # k => answer'[n] = answer[n]
  BY HandlerSteps DEF Attempts
<1>2. UNCHANGED old /\ faults' \in 0..MaxFaults
  <2>1. UNCHANGED old /\ (faults' = faults \/ MayHappen("busy"))
    BY DEF Handle, Expand, Find, validateDeps, Insert, Recheck
  <2> QED
    BY <2>1, MayHappenType DEF TypeOK
<1>3. answer'[k].code \in Code
  <2> USE DEF Code, httpStatus, Attempts, TypeOK
  <2>1. CASE Expand(k)
    BY <2>1 DEF Expand, Answer
  <2>2. CASE Find(k)
    BY <2>2 DEF Find, Answer
  <2>3. CASE validateDeps(k)
    BY <2>3 DEF validateDeps, InsertFails
  <2>4. CASE Insert(k)
    BY <2>4 DEF Insert, InsertFails, Answer
  <2>5. CASE Recheck(k)
    BY <2>5 DEF Recheck, Answer
  <2> QED
    BY <2>1, <2>2, <2>3, <2>4, <2>5 DEF Handle
<1>4. Indices' = Indices
  BY <1>1 DEF Indices, Single
<1>5. tasks' = tasks \/ tasks' = tasks \cup Rows(k)
  BY DEF Handle, Expand, Find, validateDeps, Insert, Recheck
<1>6. \A t \in tasks' : t.id \in (Attempt \cup {0}) \X Indices /\ t.index \in Indices
  BY <1>5, RowsType DEF TypeOK
<1> QED
  BY <1>1, <1>2, <1>3, <1>4, <1>6 DEF TypeOK

LEMMA TypeStep ==
    ASSUME TypeOK, Attempts, NotYet, [Next]_vars
    PROVE  TypeOK'
<1>1. CASE \E k \in Attempt : Handle(k)
  BY <1>1, TypeHandler
<1>2. CASE Start
  <2>1. tasks' = {}
    BY <1>2 DEF Start, NotYet
  <2> QED
    BY <1>2, <2>1 DEF TypeOK, Start, Client
<1>3. CASE Send \/ Broken \/ Receive \/ Retry \/ NoServer \/ Timeout
  <2>1. Indices' = Indices
    BY <1>3 DEF Send, Broken, Receive, Retry, NoServer, Timeout, Indices, Single
  <2>2. attempt' \in 0..MaxAttempts /\ pc' \in [Attempt -> Pc]
    BY <1>3, AttemptsCommand DEF Command, Attempts
  <2>3. reply'.code \in Code
    BY <1>3, SubmitAssumption DEF TypeOK, Send, Broken, Receive, Retry, NoServer, Timeout, Attempts
  <2>4. client' \in Client /\ unsure' \in BOOLEAN
    BY <1>3 DEF TypeOK, Send, Broken, Receive, Retry, NoServer, Timeout, Client
  <2>6. faults' \in 0..MaxFaults
    <3>1. faults' = faults \/ \E f \in FaultKind : MayHappen(f)
      BY <1>3 DEF Send, Broken, Receive, Retry, NoServer, Timeout, FaultKind
    <3> QED
      BY <3>1, MayHappenType DEF TypeOK
  <2>5. UNCHANGED <<terms, deps, answer, old, tasks>>
    BY <1>3 DEF Send, Broken, Receive, Retry, NoServer, Timeout
  <2> QED
    BY <2>1, <2>2, <2>3, <2>4, <2>5, <2>6 DEF TypeOK
<1>4. CASE Crash \/ (\E o \in OldId : Dies(o) \/ CleanedUp(o)) \/ UNCHANGED vars
  <2>1. Indices' = Indices
    BY <1>4 DEF Crash, Dies, CleanedUp, vars, Indices, Single
  <2>2. pc' \in [Attempt -> Pc] /\ faults' \in 0..MaxFaults
    BY <1>4, SubmitAssumption DEF TypeOK, Crash, Dies, CleanedUp, vars, MayHappen, Pc
  <2>3. old' \in [OldId -> {"alive", "dead", "gone"}]
    BY <1>4 DEF TypeOK, Crash, Dies, CleanedUp, vars
  <2>4. UNCHANGED <<terms, deps, client, attempt, unsure, reply, answer, tasks>>
    BY <1>4 DEF Crash, Dies, CleanedUp, vars
  <2> QED
    BY <2>1, <2>2, <2>3, <2>4 DEF TypeOK
<1> QED
  BY <1>1, <1>2, <1>3, <1>4 DEF Next, Command

\* Type correctness of a submit, for any specs, dependencies, attempts and faults:
\* whatever fails, a client gets one of five status codes, of which 500 alone
\* makes doIdempotent send the request again.
THEOREM TypeTheorem == Spec => []TypeOK
<1>1. Init => TypeOK /\ Attempts /\ NotYet
  <2>1. Init => reply.code \in Code /\ \A k \in Attempt : answer[k].code \in Code
    BY DEF Init, Code, NoReply
  <2>2. Init => pc \in [Attempt -> Pc] /\ NotYet
    BY DEF Init, Pc, NotYet
  <2>3. Init => old \in [OldId -> {"alive", "dead", "gone"}]
    BY DEF Init
  <2>4. Init => /\ terms \in Terms /\ deps \in Deps /\ client \in Client
                /\ unsure \in BOOLEAN /\ tasks = {}
    BY DEF Init, Client
  <2>5. Init => attempt \in 0..MaxAttempts /\ faults \in 0..MaxFaults
    BY SubmitAssumption DEF Init
  <2> QED
    BY <2>1, <2>2, <2>3, <2>4, <2>5, AttemptsInit DEF TypeOK
<1>2. TypeOK /\ Attempts /\ NotYet /\ [Next]_vars => (TypeOK /\ Attempts /\ NotYet)'
  BY TypeStep, AttemptsStep, NotYetStep
<1> QED
  BY <1>1, <1>2, PTL DEF Spec

-----------------------------------------------------------------------------
\* Where the attempts of an array do not overlap, the handler at work is that of
\* the attempt waited for, and from its look at the table on there are no rows.
OneAtATime ==
    ~Single => \A k \in Attempt :
        /\ pc[k] \in AtWork => k = attempt /\ client = "wait"
        /\ pc[k] \in {"validate", "insert"} => tasks = {}

\* An insert finds the table empty.
LEMMA InsertsIntoNothing ==
    ASSUME Attempts, OneAtATime, NEW k \in Attempt, Handle(k)
    PROVE  tasks' = tasks \/ (tasks = {} /\ tasks' = Rows(k))
<1>1. CASE Insert(k)
  BY <1>1 DEF Insert, OneAtATime, AtWork, Refused, Exists
<1>2. CASE ~Insert(k)
  BY <1>2 DEF Handle, Expand, Find, validateDeps, Recheck
<1> QED
  BY <1>1, <1>2

\* The rows of one insert: one per index.
LEMMA OneRowPerIndex ==
    ASSUME NEW k, NEW i \in Indices
    PROVE  Cardinality({t \in Rows(k) : t.index = i}) = 1
<1> DEFINE r == [id |-> IF Single THEN <<0, 0>> ELSE <<k, i>>, index |-> i,
                 deps |-> ToSet(taskDeps[k][i])]
<1>1. {t \in Rows(k) : t.index = i} = {r}
  BY DEF Rows
<1> QED
  BY <1>1, FS_Singleton

LEMMA OneAtATimeStep ==
    ASSUME "overlap" \notin Fault, Attempts, OneAtATime, NotYet, [Next]_vars
    PROVE  (OneAtATime /\ NotYet)'
<1> USE DEF Single, AtWork
<1>1. CASE Start
  BY <1>1 DEF OneAtATime, NotYet, Start
<1>2. CASE Send
  BY <1>2, SubmitAssumption DEF OneAtATime, NotYet, Send, Attempts, Attempt, Pc
<1>3. CASE Broken \/ Timeout \/ Receive
  BY <1>3 DEF OneAtATime, NotYet, Broken, Timeout, Receive, MayHappen, Settled
<1>4. CASE Retry \/ NoServer
  BY <1>4 DEF OneAtATime, NotYet, Retry, NoServer, MayHappen
<1>5. CASE \E k \in Attempt : Handle(k)
  <2>1. PICK k \in Attempt : Handle(k)
    BY <1>5
  <2>2. /\ UNCHANGED command /\ pc[k] \in AtWork
        /\ tasks' # tasks => pc'[k] = "answer"
        /\ \A n \in Attempt : n # k => pc'[n] = pc[n]
    BY <2>1, HandlerSteps DEF Attempts
  <2>3. client # "start"
    BY <2>2 DEF NotYet
  <2>4. pc'[k] \in {"validate", "insert"} /\ ~Single => tasks = {}
    BY <2>1, <2>2 DEF Handle, Expand, Find, validateDeps, Insert, InsertFails, Recheck,
       Answer, Exists, OneAtATime, Attempts, Pc
  <2> QED
    BY <2>2, <2>3, <2>4 DEF OneAtATime, NotYet
<1>6. CASE Crash
  BY <1>6 DEF OneAtATime, NotYet, Crash, MayHappen, Attempts
<1>7. CASE \E o \in OldId : Dies(o) \/ CleanedUp(o)
  BY <1>7 DEF OneAtATime, NotYet, Dies, CleanedUp
<1>8. CASE UNCHANGED vars
  BY <1>8 DEF OneAtATime, NotYet, vars
<1> QED
  BY <1>1, <1>2, <1>3, <1>4, <1>5, <1>6, <1>7, <1>8 DEF Next, Command

LEMMA SubmittedOnceStep ==
    ASSUME Attempts, OneAtATime, NotYet, SubmittedOnce, [Next]_vars
    PROVE  SubmittedOnce'
<1>1. CASE tasks' = tasks /\ UNCHANGED <<terms, indices>>
  BY <1>1 DEF SubmittedOnce, Indices, Single
<1>2. CASE Start
  BY <1>2 DEF NotYet, Start, SubmittedOnce
<1>3. CASE \E k \in Attempt : Handle(k)
  <2>1. PICK k \in Attempt : Handle(k)
    BY <1>3
  <2>2. UNCHANGED <<terms, indices>>
    BY <2>1, HandlerSteps
  <2>3. CASE tasks' = Rows(k)
    <3>1. Indices' = Indices
      BY <2>2 DEF Indices, Single
    <3> QED
      BY <2>3, <3>1, OneRowPerIndex DEF SubmittedOnce
  <2> QED
    BY <1>1, <2>1, <2>2, <2>3, InsertsIntoNothing
<1>4. CASE \/ Send \/ Broken \/ Receive \/ Retry \/ NoServer \/ Timeout \/ Crash
           \/ \E o \in OldId : Dies(o) \/ CleanedUp(o)
           \/ UNCHANGED vars
  BY <1>1, <1>4 DEF Send, Broken, Receive, Retry, NoServer, Timeout, Crash, Dies,
     CleanedUp, vars
<1> QED
  BY <1>2, <1>3, <1>4 DEF Next, Command

\* However often a submit is sent, its rows are inserted once, all or none, as
\* long as the attempts of an array do not overlap in the server; a single job
\* needs no such condition, its id being the primary key.
THEOREM SubmittedOnceTheorem == "overlap" \notin Fault /\ Spec => []SubmittedOnce
<1> DEFINE I == "overlap" \notin Fault /\ Attempts /\ OneAtATime /\ NotYet
                 /\ SubmittedOnce
<1>1. "overlap" \notin Fault /\ Init => I
  BY AttemptsInit DEF Init, OneAtATime, NotYet, SubmittedOnce, AtWork
<1>2. I /\ [Next]_vars => I'
  BY AttemptsStep, OneAtATimeStep, SubmittedOnceStep
<1>3. I => SubmittedOnce
  OBVIOUS
<1> HIDE DEF I
<1> QED
  BY <1>1, <1>2, <1>3, PTL DEF Spec

-----------------------------------------------------------------------------
(***************************************************************************)
(* The array spec.                                                         *)
(***************************************************************************)

LEMMA LeastOf ==
    ASSUME NEW T, T \subseteq Nat, T # {}
    PROVE  \E m \in T : \A k \in T : m <= k
<1>1. PICK m \in T : \A k \in T : ~(<<k, m>> \in OpToRel(<, Nat))
  BY NatLessThanWellFounded, WFMin
<1>2. \A k \in T : ~(k < m)
  BY <1>1 DEF OpToRel
<1> QED
  BY <1>2

\* The numbers that a term lo-hi:step denotes from n on.
From(t, n) == {m \in Nat : m <= t.hi /\ \E i \in Nat : m = n + i * t.step}

\* One turn of the loop.
LEMMA FromUnrolled ==
    ASSUME NEW t \in [lo : Nat, hi : Nat, step : Nat], t.step # 0, NEW n \in Nat
    PROVE  From(t, n) = IF n > t.hi THEN {} ELSE {n} \cup From(t, n + t.step)
<1> DEFINE d == t.step
<1>0. d \in Nat /\ t.hi \in Nat
  OBVIOUS
<1> HIDE DEF d
<1>1. \A i \in Nat : i * d \in Nat
  BY <1>0
<1>2. 0 * d = 0
  BY <1>0
<1>3. \A i \in Nat : (i + 1) * d = i * d + d
  BY <1>0
<1>4. CASE n > t.hi
  BY <1>0, <1>1, <1>4 DEF From, d
<1>5. CASE ~(n > t.hi)
  <2>1. ASSUME NEW m \in From(t, n) PROVE m = n \/ m \in From(t, n + d)
    <3>1. PICK i \in Nat : m = n + i * d
      BY <2>1 DEF From, d
    <3>2. CASE i = 0
      BY <1>2, <3>1, <3>2
    <3>3. CASE i # 0
      <4>1. i - 1 \in Nat /\ i = (i - 1) + 1
        BY <3>3
      <4>2. i * d = (i - 1) * d + d
        BY <1>3, <4>1
      <4>3. m = (n + d) + (i - 1) * d
        BY <1>0, <1>1, <3>1, <4>1, <4>2
      <4> QED
        BY <2>1, <4>1, <4>3 DEF From, d
    <3> QED
      BY <3>2, <3>3
  <2>2. n \in From(t, n)
    BY <1>0, <1>2, <1>5 DEF From, d
  <2>3. ASSUME NEW m \in From(t, n + d) PROVE m \in From(t, n)
    <3>1. PICK i \in Nat : m = (n + d) + i * d
      BY <2>3 DEF From, d
    <3>2. m = n + (i + 1) * d
      BY <1>0, <1>1, <1>3, <3>1
    <3> QED
      BY <2>3, <3>2 DEF From, d
  <2>4. From(t, n) = {n} \cup From(t, n + d)
    BY <2>1, <2>2, <2>3
  <2> QED
    BY <1>5, <2>4 DEF d
<1> QED
  BY <1>4, <1>5

\* The loop collects them: it cannot differ for the first time as it counts down
\* to the end.
LEMMA TermIsFrom ==
    ASSUME NEW t \in [lo : Nat, hi : Nat, step : Nat], t.step # 0
    PROVE  Term(t) = From(t, t.lo)
<1> DEFINE Body(h) == [n \in Nat |-> IF n > t.hi THEN {} ELSE {n} \cup h[n + t.step]]
           from == [n \in Nat |-> From(t, n)]
           loop == CHOOSE h : h = Body(h)
<1>0. t.hi \in Nat /\ t.lo \in Nat /\ t.step \in Nat
  OBVIOUS
<1>1. from = Body(from)
  <2>1. \A n \in Nat : n + t.step \in Nat
    BY <1>0
  <2> QED
    BY <2>1, FromUnrolled
<1>2. loop = Body(loop)
  <2> HIDE DEF Body, from
  <2> QED
    BY <1>1
<1>3. Term(t) = loop[t.lo]
  BY DEF Term
<1>4. \A n \in Nat : /\ loop[n] = IF n > t.hi THEN {} ELSE {n} \cup loop[n + t.step]
                     /\ from[n] = IF n > t.hi THEN {} ELSE {n} \cup from[n + t.step]
  <2> HIDE DEF loop, from
  <2> QED
    BY <1>1, <1>2
<1> HIDE DEF loop, from
<1> DEFINE Bad == {d \in Nat : \E n \in Nat : n + d > t.hi /\ loop[n] # from[n]}
<1>5. Bad = {}
  <2> SUFFICES ASSUME Bad # {} PROVE FALSE
    OBVIOUS
  <2>1. PICK d \in Bad : \A e \in Bad : d <= e
    <3>1. Bad \subseteq Nat
      OBVIOUS
    <3> HIDE DEF Bad
    <3> QED
      BY <3>1, LeastOf
  <2>2. PICK n \in Nat : n + d > t.hi /\ loop[n] # from[n]
    OBVIOUS
  <2>3. n <= t.hi /\ loop[n + t.step] # from[n + t.step] /\ n + t.step \in Nat
    <3>1. n <= t.hi \/ n > t.hi
      BY <1>0
    <3>2. ~(n > t.hi)
      BY <1>4, <2>2
    <3>3. loop[n] = {n} \cup loop[n + t.step] /\ from[n] = {n} \cup from[n + t.step]
      BY <1>4, <3>2
    <3>4. loop[n + t.step] # from[n + t.step]
      BY <2>2, <3>3
    <3>5. n + t.step \in Nat
      BY <1>0
    <3> QED
      BY <3>1, <3>2, <3>4, <3>5
  <2>4. d # 0 /\ d \in Nat
    BY <1>0, <2>2, <2>3
  <2>5. d - 1 \in Nat /\ (n + t.step) + (d - 1) > t.hi
    BY <1>0, <2>2, <2>4
  <2>6. d - 1 \in Bad
    BY <2>3, <2>5
  <2> QED
    BY <2>1, <2>4, <2>6
<1>6. loop[t.lo] = from[t.lo]
  <2>1. t.lo + (t.hi + 1) > t.hi /\ t.hi + 1 \in Nat
    BY <1>0
  <2> QED
    BY <1>0, <1>5, <2>1
<1> QED
  BY <1>0, <1>3, <1>6 DEF from

\* Those from lo on are the ones up to hi that lie on the grid of the step.
LEMMA TermIsExact ==
    ASSUME NEW t \in [lo : Nat, hi : Nat, step : Nat], t.step # 0
    PROVE  Term(t) = Denoted(t)
<1> DEFINE d == t.step
<1>0. t.hi \in Nat /\ t.lo \in Nat /\ d \in Nat /\ d >= 1
  OBVIOUS
<1> HIDE DEF d
<1>1. \A i \in Nat : i * d \in Nat /\ i * d >= i
  <2> SUFFICES ASSUME NEW i \in Nat PROVE i * d \in Nat /\ i * d >= i
    OBVIOUS
  <2>1. PICK e \in Nat : d = e + 1
    <3>1. d - 1 \in Nat /\ d = (d - 1) + 1
      BY <1>0
    <3> QED
      BY <3>1
  <2>2. i * e \in Nat /\ i * (e + 1) = i * e + i
    OBVIOUS
  <2> QED
    BY <2>1, <2>2
<1>2. ASSUME NEW n \in Nat, n <= t.hi, NEW i \in Nat, n = t.lo + i * d
      PROVE  n \in t.lo..t.hi /\ i \in 0..t.hi
  BY <1>0, <1>1, <1>2
<1>3. From(t, t.lo) = {n \in t.lo..t.hi : \E m \in 0..t.hi : n = t.lo + m * d}
  <2>1. \A n \in From(t, t.lo) : n \in t.lo..t.hi /\ \E m \in 0..t.hi : n = t.lo + m * d
    BY <1>2 DEF From, d
  <2>2. \A n \in t.lo..t.hi : (\E m \in 0..t.hi : n = t.lo + m * d) => n \in From(t, t.lo)
    BY <1>0 DEF From, d
  <2> QED
    BY <2>1, <2>2
<1> QED
  BY <1>3, TermIsFrom DEF d, Denoted

\* The indices are those of the spec, or not there yet.
Expansion ==
    /\ terms \in Terms
    /\ indices = {} \/ (~Single /\ indices = ParseArraySpec(terms))

LEMMA ExpansionStep ==
    ASSUME Expansion, [Next]_vars
    PROVE  Expansion' /\ (Start \/ UNCHANGED <<terms, indices>>)
<1>1. CASE UNCHANGED <<terms, indices>>
  BY <1>1 DEF Expansion, Single, ParseArraySpec
<1>2. CASE Start
  BY <1>2 DEF Expansion, Start, Single
<1>3. CASE \E k \in Attempt : Handle(k)
  BY <1>1, <1>3 DEF Handle, Expand, Find, validateDeps, Insert, Recheck
<1>4. CASE ~Start /\ ~ \E k \in Attempt : Handle(k)
  BY <1>1, <1>4 DEF Next, Command, Send, Broken, Receive, Retry, NoServer, Timeout, Crash,
     Dies, CleanedUp, vars
<1> QED
  BY <1>2, <1>3, <1>4

LEMMA ExpansionIsExact ==
    ASSUME Expansion, indices # {}
    PROVE  /\ indices = UNION {Denoted(terms[i]) : i \in DOMAIN terms}
           /\ terms \in Seq([lo : Nat, hi : Nat, step : Nat])
<1>1. terms \in Seq([lo : Nat, hi : Nat, step : Nat])
  BY SubmitAssumption DEF Expansion
<1>2. /\ \A i \in DOMAIN terms : ~BadTerm(terms[i])
      /\ indices = UNION {Term(terms[i]) : i \in DOMAIN terms}
  BY DEF ParseArraySpec, Expansion
<1>3. \A i \in DOMAIN terms : terms[i] \in [lo : Nat, hi : Nat, step : Nat]
  <2> DEFINE R == [lo : Nat, hi : Nat, step : Nat]
  <2>1. terms \in Seq(R)
    BY <1>1
  <2> HIDE DEF R
  <2>2. \A i \in DOMAIN terms : terms[i] \in R
    BY <2>1
  <2> QED
    BY <2>2 DEF R
<1>4. \A i \in DOMAIN terms : Term(terms[i]) = Denoted(terms[i])
  BY <1>2, <1>3, TermIsExact DEF BadTerm
<1> QED
  BY <1>1, <1>2, <1>4

\* The indices of an array are exactly the numbers its spec denotes: none is lost
\* at the end of a range, none added by a step that jumps over it, whatever the
\* terms and however they overlap (ParseArraySpec).
THEOREM SpecTheorem == Spec => []SpecIsExpanded
<1>1. Init => Expansion
  BY DEF Init, Expansion
<1>2. Expansion /\ [Next]_vars => Expansion'
  BY ExpansionStep
<1>3. Expansion => SpecIsExpanded
  BY ExpansionIsExact DEF SpecIsExpanded
<1> QED
  BY <1>1, <1>2, <1>3, PTL DEF Spec

-----------------------------------------------------------------------------
(***************************************************************************)
(* Sorting.                                                                *)
(***************************************************************************)

\* The elements of S whose keys are not above that of x.
UpTo(S, key, x) == {y \in S : key[y] <= key[x]}

Distinct(S, key) == \A x, y \in S : key[x] = key[y] => x = y

Ascending(s, key) == \A m, n \in DOMAIN s : m < n => key[s[m]] <= key[s[n]]

LEMMA RankGrows ==
    ASSUME NEW S, IsFiniteSet(S), NEW key \in [S -> Nat]
    PROVE  /\ \A x \in S : Cardinality(UpTo(S, key, x)) \in 1..Cardinality(S)
           /\ \A x, y \in S : key[x] < key[y] =>
                Cardinality(UpTo(S, key, x)) < Cardinality(UpTo(S, key, y))
<1>0. Cardinality(S) \in Nat
  BY FS_CardinalityType
<1>1. ASSUME NEW x \in S
      PROVE  /\ IsFiniteSet(UpTo(S, key, x)) /\ Cardinality(UpTo(S, key, x)) \in Nat
             /\ Cardinality(UpTo(S, key, x)) <= Cardinality(S)
             /\ Cardinality(UpTo(S, key, x)) # 0
  <2>1. UpTo(S, key, x) \in SUBSET S /\ x \in UpTo(S, key, x)
    BY DEF UpTo
  <2>2. IsFiniteSet(UpTo(S, key, x)) /\ Cardinality(UpTo(S, key, x)) <= Cardinality(S)
    BY <2>1, FS_Subset
  <2>3. Cardinality(UpTo(S, key, x)) # 0
    BY <2>1, <2>2, FS_EmptySet
  <2> QED
    BY <2>2, <2>3, FS_CardinalityType
<1>2. \A x \in S : Cardinality(UpTo(S, key, x)) \in 1..Cardinality(S)
  BY <1>0, <1>1
<1>3. ASSUME NEW x \in S, NEW y \in S, key[x] < key[y]
      PROVE  Cardinality(UpTo(S, key, x)) < Cardinality(UpTo(S, key, y))
  <2>1. UpTo(S, key, x) \in SUBSET UpTo(S, key, y)
    BY <1>3 DEF UpTo
  <2>2. y \in UpTo(S, key, y) /\ y \notin UpTo(S, key, x)
    BY <1>3 DEF UpTo
  <2>3. /\ Cardinality(UpTo(S, key, x)) <= Cardinality(UpTo(S, key, y))
        /\ Cardinality(UpTo(S, key, y)) # Cardinality(UpTo(S, key, x))
    BY <1>1, <2>1, <2>2, FS_Subset
  <2> QED
    BY <1>1, <2>3
<1> QED
  BY <1>2, <1>3

\* A finite set whose elements have keys of their own can be sorted: by rank.
LEMMA CanBeSorted ==
    ASSUME NEW S, IsFiniteSet(S), NEW key \in [S -> Nat], Distinct(S, key)
    PROVE  \E s \in SetToSeqs(S) : Ascending(s, key)
<1> DEFINE D == 1..Cardinality(S)
           rank == [x \in S |-> Cardinality(UpTo(S, key, x))]
           s == [n \in D |-> CHOOSE x \in S : rank[x] = n]
<1>0. Cardinality(S) \in Nat
  BY FS_CardinalityType
<1>1. IsFiniteSet(D) /\ Cardinality(D) = Cardinality(S)
  BY <1>0, FS_Interval
<1>2. rank \in [S -> D]
  BY RankGrows
<1>3. \A x, y \in S : key[x] < key[y] => rank[x] < rank[y]
  BY RankGrows
<1> HIDE DEF D, rank
<1>4. \A x, y \in S : rank[x] = rank[y] => x = y
  <2> SUFFICES ASSUME NEW x \in S, NEW y \in S, rank[x] = rank[y] PROVE x = y
    OBVIOUS
  <2>1. ~(key[x] < key[y]) /\ ~(key[y] < key[x])
    <3>1. rank[x] \in Nat /\ rank[y] \in Nat
      BY <1>0, <1>2 DEF D
    <3> QED
      BY <1>3, <3>1
  <2>2. key[x] = key[y]
    BY <2>1
  <2> QED
    BY <2>2 DEF Distinct
<1>5. rank \in Injection(S, D)
  BY <1>2, <1>4 DEF Injection, IsInjective
<1>6. rank \in Surjection(S, D)
  BY <1>1, <1>5, FS_Injection
<1>7. \A n \in D : s[n] \in S /\ rank[s[n]] = n
  BY <1>6 DEF Surjection
<1>8. s \in [D -> S] /\ \A m, n \in D : m # n => s[m] # s[n]
  BY <1>7
<1>9. Ascending(s, key)
  <2> SUFFICES ASSUME NEW m \in D, NEW n \in D, m < n PROVE key[s[m]] <= key[s[n]]
    BY DEF Ascending
  <2>1. s[m] \in S /\ s[n] \in S /\ rank[s[m]] = m /\ rank[s[n]] = n
    BY <1>7
  <2> HIDE DEF s
  <2>2. m \in Nat /\ n \in Nat
    BY <1>0 DEF D
  <2>3. ~(key[s[n]] < key[s[m]])
    BY <1>3, <2>1, <2>2
  <2>4. key[s[m]] \in Nat /\ key[s[n]] \in Nat
    BY <2>1
  <2> QED
    BY <2>3, <2>4
<1> QED
  BY <1>8, <1>9 DEF SetToSeqs, D

\* Such a sequence leaves nothing out.
LEMMA NoneLeftOut ==
    ASSUME NEW S, IsFiniteSet(S), NEW s \in SetToSeqs(S)
    PROVE  s \in Surjection(1..Cardinality(S), S)
<1> DEFINE D == 1..Cardinality(S)
<1>1. IsFiniteSet(D) /\ Cardinality(D) = Cardinality(S)
  BY FS_CardinalityType, FS_Interval
<1>2. s \in [D -> S] /\ \A i, j \in D : i # j => s[i] # s[j]
  BY DEF SetToSeqs
<1> HIDE DEF D
<1>3. s \in Injection(D, S)
  BY <1>2 DEF Injection, IsInjective
<1>4. s \in Surjection(D, S)
  BY <1>1, <1>3, FS_Injection
<1> QED
  BY <1>4 DEF D

\* The n-th element of a sorted set has n elements up to it.
LEMMA PlaceIsRank ==
    ASSUME NEW S, IsFiniteSet(S), NEW key \in [S -> Nat], Distinct(S, key),
           NEW s \in SetToSeqs(S), Ascending(s, key), NEW n \in 1..Cardinality(S)
    PROVE  Cardinality(UpTo(S, key, s[n])) = n
<1> DEFINE D == 1..Cardinality(S)
<1>0. Cardinality(S) \in Nat
  BY FS_CardinalityType
<1>1. IsFiniteSet(D) /\ Cardinality(D) = Cardinality(S)
  BY <1>0, FS_Interval
<1>2. s \in [D -> S] /\ \A i, j \in D : i # j => s[i] # s[j]
  BY DEF SetToSeqs
<1>n. n \in D /\ n \in Nat /\ 1..n \in SUBSET D
  BY <1>0
<1>d. \A i \in D : i \in Nat /\ i >= 1
  BY <1>0
<1> HIDE DEF D
<1>4. s \in Surjection(D, S)
  BY NoneLeftOut DEF D
<1>5. ASSUME NEW y \in UpTo(S, key, s[n]) PROVE \E m \in 1..n : y = s[m]
  <2>1. PICK p \in D : s[p] = y
    BY <1>4 DEF Surjection, UpTo
  <2>2. CASE p <= n
    BY <1>d, <1>n, <2>1, <2>2
  <2>3. CASE n < p
    <3>1. key[s[n]] <= key[y]
      BY <1>2, <1>n, <2>1, <2>3 DEF Ascending
    <3>2. key[y] <= key[s[n]] /\ y \in S /\ s[n] \in S
      BY <1>2, <1>n DEF UpTo
    <3>3. key[y] = key[s[n]]
      BY <3>1, <3>2
    <3>4. y = s[n]
      BY <3>2, <3>3 DEF Distinct
    <3> QED
      BY <1>n, <3>4
  <2> QED
    BY <1>d, <1>n, <2>2, <2>3
<1>6. ASSUME NEW m \in 1..n PROVE s[m] \in UpTo(S, key, s[n])
  <2>1. m \in D /\ s[m] \in S /\ s[n] \in S
    BY <1>2, <1>n
  <2>2. m = n \/ m < n
    BY <1>n
  <2>3. key[s[m]] <= key[s[n]]
    BY <1>2, <1>n, <2>1, <2>2 DEF Ascending
  <2> QED
    BY <2>1, <2>3 DEF UpTo
<1> DEFINE U == UpTo(S, key, s[n])
           f == [m \in 1..n |-> s[m]]
<1>7. f \in Bijection(1..n, U)
  <2>1. f \in [1..n -> U]
    BY <1>6
  <2>2. \A i, j \in 1..n : f[i] = f[j] => i = j
    BY <1>2, <1>n
  <2>3. \A y \in U : \E m \in 1..n : f[m] = y
    BY <1>5
  <2> HIDE DEF f, U
  <2> QED
    BY <2>1, <2>2, <2>3 DEF Bijection, Injection, Surjection, IsInjective
<1>8. IsFiniteSet(1..n) /\ Cardinality(1..n) = n
  <2>1. IsFiniteSet(1..n) /\ Cardinality(1..n) = IF 1 > n THEN 0 ELSE n - 1 + 1
    BY <1>n, FS_Interval
  <2> QED
    BY <1>n, <2>1
<1>9. ExistsBijection(1..n, U)
  BY <1>7 DEF ExistsBijection
<1> HIDE DEF U
<1>10. Cardinality(U) = n
  BY <1>8, <1>9, FS_Bijection
<1> QED
  BY <1>10 DEF U

LEMMA SortedByIsSorted ==
    ASSUME NEW S, IsFiniteSet(S), NEW key \in [S -> Nat], Distinct(S, key)
    PROVE  /\ SortedBy(S, key) \in [1..Cardinality(S) -> S]
           /\ \A n \in 1..Cardinality(S) : Cardinality(UpTo(S, key, SortedBy(S, key)[n])) = n
           /\ \A x \in S : \E n \in 1..Cardinality(S) : SortedBy(S, key)[n] = x
<1>1. SortedBy(S, key) \in SetToSeqs(S) /\ Ascending(SortedBy(S, key), key)
  BY CanBeSorted DEF SortedBy, Ascending
<1>2. SortedBy(S, key) \in Surjection(1..Cardinality(S), S)
  BY <1>1, NoneLeftOut
<1>3. /\ SortedBy(S, key) \in [1..Cardinality(S) -> S]
      /\ \A x \in S : \E n \in 1..Cardinality(S) : SortedBy(S, key)[n] = x
  BY <1>2, Zenon DEF Surjection
<1>4. \A n \in 1..Cardinality(S) : Cardinality(UpTo(S, key, SortedBy(S, key)[n])) = n
  BY <1>1, PlaceIsRank, ZenonT(30)
<1> QED
  BY <1>3, <1>4, Zenon

-----------------------------------------------------------------------------
(***************************************************************************)
(* The reply.                                                              *)
(***************************************************************************)
LEMMA IndicesAreFinite ==
    ASSUME Expansion
    PROVE  IsFiniteSet(Indices) /\ Indices \subseteq Nat
<1>1. CASE Single
  BY <1>1, FS_Singleton DEF Indices
<1>2. CASE ~Single /\ indices = {}
  BY <1>2, FS_EmptySet DEF Indices
<1>3. CASE ~Single /\ indices # {}
  <2> DEFINE R == [lo : Nat, hi : Nat, step : Nat]
             T == {Denoted(terms[i]) : i \in DOMAIN terms}
             f == [i \in DOMAIN terms |-> Denoted(terms[i])]
  <2>1. Indices = UNION T /\ terms \in Seq(R)
    BY <1>3, ExpansionIsExact DEF Indices
  <2>2. \A t \in R : Denoted(t) \subseteq Nat /\ IsFiniteSet(Denoted(t))
    <3> SUFFICES ASSUME NEW t \in R PROVE Denoted(t) \subseteq Nat /\ IsFiniteSet(Denoted(t))
      OBVIOUS
    <3>1. t.lo \in Nat /\ t.hi \in Nat
      OBVIOUS
    <3>2. Denoted(t) \in SUBSET (t.lo..t.hi)
      BY DEF Denoted
    <3>3. IsFiniteSet(t.lo..t.hi) /\ t.lo..t.hi \subseteq Nat
      BY <3>1, FS_Interval
    <3> QED
      BY <3>2, <3>3, FS_Subset
  <2> HIDE DEF R
  <2>3. Len(terms) \in Nat /\ DOMAIN terms = 1..Len(terms) /\ \A i \in DOMAIN terms : terms[i] \in R
    BY <2>1
  <2>4. IsFiniteSet(DOMAIN terms)
    BY <2>3, FS_Interval
  <2>5. f \in Surjection(DOMAIN terms, T)
    BY DEF Surjection
  <2>6. IsFiniteSet(T)
    BY <2>4, <2>5, FS_Surjection
  <2>7. \A U \in T : U \subseteq Nat /\ IsFiniteSet(U)
    BY <2>2, <2>3
  <2> HIDE DEF T, f
  <2> QED
    BY <2>1, <2>6, <2>7, FS_UNION
<1> QED
  BY <1>1, <1>2, <1>3

\* The ids name the rows, in the order of the indices.
Names(I, ids, rows) ==
    /\ Len(ids) = Cardinality(rows)
    /\ \A n \in DOMAIN ids :
         \E t \in rows : /\ t.id = ids[n]
                         /\ Cardinality({i \in I : i <= t.index}) = n

\* One row for each index.
OneEach(I, rows) ==
    /\ \A t \in rows : t.index \in I
    /\ \A i \in I : \E t \in rows : t.index = i
    /\ \A t, u \in rows : t.index = u.index => t = u

RowOf(k, i) == [id |-> IF Single THEN <<0, 0>> ELSE <<k, i>>, index |-> i,
                deps |-> ToSet(taskDeps[k][i])]

LEMMA RowsAreOneEach ==
    ASSUME NEW k
    PROVE  /\ OneEach(Indices, Rows(k))
           /\ \A i \in Indices : RowOf(k, i) \in Rows(k) /\ RowOf(k, i).index = i
<1>1. Rows(k) = {RowOf(k, i) : i \in Indices}
  BY DEF Rows, RowOf
<1>2. \A i \in Indices : RowOf(k, i).index = i
  BY DEF RowOf
<1> QED
  BY <1>1, <1>2 DEF OneEach

\* There are as many rows as indices, up to any of them.
LEMMA RowsAreCounted ==
    ASSUME Expansion, NEW rows, OneEach(Indices, rows)
    PROVE  /\ IsFiniteSet(rows) /\ Cardinality(rows) = Cardinality(Indices)
           /\ \A t \in rows :
                Cardinality({i \in Indices : i <= t.index}) =
                  Cardinality(UpTo(rows, [u \in rows |-> u.index], t))
<1>0. IsFiniteSet(Indices) /\ Indices \subseteq Nat
  BY IndicesAreFinite
<1> DEFINE key == [u \in rows |-> u.index]
<1>1. key \in Injection(rows, Indices) /\ key \in Surjection(rows, Indices)
  BY DEF OneEach, Injection, IsInjective, Surjection
<1>2. IsFiniteSet(rows) /\ Cardinality(rows) = Cardinality(Indices)
  <2> HIDE DEF key
  <2> QED
    BY <1>0, <1>1, FS_Injection
<1>3. ASSUME NEW t \in rows
      PROVE  Cardinality({i \in Indices : i <= t.index}) = Cardinality(UpTo(rows, key, t))
  <2> DEFINE U == UpTo(rows, key, t)
             V == {i \in Indices : i <= t.index}
             f == [u \in U |-> u.index]
  <2>1. U = {u \in rows : u.index <= t.index}
    BY DEF UpTo
  <2> HIDE DEF U
  <2>2. f \in [U -> V]
    BY <2>1 DEF OneEach
  <2>3. \A x, y \in U : f[x] = f[y] => x = y
    BY <2>1 DEF OneEach
  <2>4. \A i \in V : \E u \in U : f[u] = i
    BY <2>1 DEF OneEach
  <2> HIDE DEF V, f
  <2>5. f \in Bijection(U, V)
    BY <2>2, <2>3, <2>4 DEF Bijection, Injection, Surjection, IsInjective
  <2>6. ExistsBijection(U, V)
    BY <2>5 DEF ExistsBijection
  <2>7. IsFiniteSet(U)
    <3>1. U \in SUBSET rows
      BY <2>1
    <3> QED
      BY <1>2, <3>1, FS_Subset
  <2>8. Cardinality(V) = Cardinality(U)
    BY <2>6, <2>7, FS_Bijection
  <2> QED
    BY <2>8 DEF U, V
<1> QED
  BY <1>2, <1>3

LEMMA NewIdsAreNames ==
    ASSUME Expansion, NEW k
    PROVE  Names(Indices, NewIds(k), Rows(k))
<1> DEFINE key == [i \in Indices |-> i]
           s == InOrder(Indices)
           c == Cardinality(Indices)
<1>1. IsFiniteSet(Indices) /\ Indices \subseteq Nat
  BY IndicesAreFinite
<1>2. key \in [Indices -> Nat] /\ Distinct(Indices, key)
  BY <1>1 DEF Distinct
<1>3. /\ s \in [1..c -> Indices]
      /\ \A n \in 1..c : Cardinality(UpTo(Indices, key, s[n])) = n
  <2> HIDE DEF key
  <2>1. s = SortedBy(Indices, key)
    BY DEF InOrder, key
  <2>2. /\ SortedBy(Indices, key) \in [1..c -> Indices]
        /\ \A n \in 1..c : Cardinality(UpTo(Indices, key, SortedBy(Indices, key)[n])) = n
    BY <1>1, <1>2, SortedByIsSorted
  <2> HIDE DEF s
  <2> QED
    BY <2>1, <2>2
<1>4. \A n \in 1..c : Cardinality({i \in Indices : i <= s[n]}) = n
  <2>1. \A n \in 1..c : UpTo(Indices, key, s[n]) = {i \in Indices : i <= s[n]}
    BY <1>3 DEF UpTo
  <2> QED
    BY <1>3, <2>1
<1>5. c \in Nat /\ Cardinality(Rows(k)) = c
  BY <1>1, RowsAreOneEach, RowsAreCounted, FS_CardinalityType
<1>6. NewIds(k) = [n \in 1..c |-> IF Single THEN <<0, 0>> ELSE <<k, s[n]>>]
  BY DEF NewIds
<1> HIDE DEF c, s
<1>7. Len(NewIds(k)) = c
  BY <1>5, <1>6
<1>8. ASSUME NEW n \in 1..c
      PROVE  \E t \in Rows(k) : /\ t.id = NewIds(k)[n]
                                /\ Cardinality({i \in Indices : i <= t.index}) = n
  <2>1. s[n] \in Indices
    BY <1>3
  <2>2. RowOf(k, s[n]) \in Rows(k) /\ RowOf(k, s[n]).index = s[n]
    BY <2>1, RowsAreOneEach
  <2>3. RowOf(k, s[n]).id = NewIds(k)[n]
    BY <1>6 DEF RowOf
  <2>4. Cardinality({i \in Indices : i <= s[n]}) = n
    BY <1>4
  <2> QED
    BY <2>2, <2>3, <2>4
<1> QED
  BY <1>5, <1>6, <1>7, <1>8 DEF Names

LEMMA ExistingIdsAreNames ==
    ASSUME Expansion, OneEach(Indices, tasks)
    PROVE  Names(Indices, ExistingIds, tasks)
<1> DEFINE key == [t \in tasks |-> t.index]
           s == SortedBy(tasks, key)
           c == Cardinality(tasks)
<1>1. IsFiniteSet(tasks)
  BY RowsAreCounted
<1>2. key \in [tasks -> Nat] /\ Distinct(tasks, key)
  BY IndicesAreFinite DEF OneEach, Distinct
<1>3. /\ s \in [1..c -> tasks]
      /\ \A n \in 1..c : Cardinality(UpTo(tasks, key, s[n])) = n
  <2> HIDE DEF key
  <2> QED
    BY <1>1, <1>2, SortedByIsSorted
<1>4. ASSUME NEW n \in 1..c PROVE Cardinality({i \in Indices : i <= s[n].index}) = n
  <2>1. s[n] \in tasks
    BY <1>3
  <2> HIDE DEF s
  <2>2. Cardinality({i \in Indices : i <= s[n].index}) = Cardinality(UpTo(tasks, key, s[n]))
    BY <2>1, RowsAreCounted
  <2> QED
    BY <1>3, <2>2
<1>5. c \in Nat
  BY <1>1, FS_CardinalityType
<1>6. ExistingIds = [n \in 1..c |-> s[n].id]
  BY <1>3 DEF ExistingIds
<1> HIDE DEF c, s
<1>7. Len(ExistingIds) = c
  BY <1>5, <1>6
<1>8. \A n \in 1..c : s[n] \in tasks /\ s[n].id = ExistingIds[n]
  BY <1>3, <1>6
<1>9. DOMAIN ExistingIds = 1..c
  BY <1>6
<1> QED
  BY <1>4, <1>7, <1>8, <1>9 DEF Names, c

\* The command got past the expansion, so there are indices.
Begun ==
    /\ client \notin {"start", "rejected"} => Indices # {}
    /\ \A k \in Attempt : pc[k] # "none" => Indices # {}

\* Whoever says that the request is done names the rows that are in the table.
Replied ==
    /\ tasks # {} => OneEach(Indices, tasks)
    /\ \A k \in Attempt :
         /\ pc[k] = "answer" /\ answer[k].code = 201 =>
              tasks # {} /\ Names(Indices, answer[k].ids, tasks)
         /\ pc[k] = "recheck" => answer[k].code # 201
    /\ client = "ok" => tasks # {} /\ Names(Indices, reply.ids, tasks)

LEMMA BegunStep ==
    ASSUME Attempts, Expansion, NotYet, Begun, [Next]_vars
    PROVE  Begun'
<1>1. CASE Start
  BY <1>1 DEF Begun, NotYet, Start, Indices, Single
<1>2. CASE ~Start
  <2>1. Indices' = Indices
    BY <1>2, ExpansionStep DEF Indices, Single
  <2>2. CASE \E k \in Attempt : Handle(k)
    BY <2>1, <2>2, HandlerSteps DEF Begun, AtWork, Attempts
  <2>3. CASE Send
    BY <2>1, <2>3 DEF Begun, Send
  <2>4. CASE Broken \/ Receive \/ Retry \/ NoServer \/ Timeout
    BY <2>1, <2>4 DEF Begun, Broken, Receive, Retry, NoServer, Timeout
  <2>5. CASE Crash
    BY <2>1, <2>5 DEF Begun, Crash
  <2>6. CASE \E o \in OldId : Dies(o) \/ CleanedUp(o)
    BY <2>1, <2>6 DEF Begun, Dies, CleanedUp
  <2>7. CASE UNCHANGED vars
    BY <2>1, <2>7 DEF Begun, vars
  <2> QED
    BY <1>2, <2>2, <2>3, <2>4, <2>5, <2>6, <2>7 DEF Next, Command
<1> QED
  BY <1>1, <1>2

\* What the handler of attempt k says.
LEMMA HandlerSays ==
    ASSUME Attempts, OneAtATime, Expansion, Begun, Replied, NEW k \in Attempt, Handle(k)
    PROVE  /\ tasks' # {} => OneEach(Indices, tasks')
           /\ pc'[k] = "answer" /\ answer'[k].code = 201 =>
                tasks' # {} /\ Names(Indices, answer'[k].ids, tasks')
           /\ pc'[k] = "recheck" => answer'[k].code # 201
<1>0. pc[k] \in AtWork /\ Indices # {}
  BY HandlerSteps DEF Begun, AtWork
<1>1. CASE Expand(k)
  BY <1>1 DEF Expand, Answer, httpStatus, Attempts, Replied
<1>2. CASE validateDeps(k)
  BY <1>2 DEF validateDeps, InsertFails, httpStatus, Attempts, Replied
<1>3. CASE (Find(k) \/ Recheck(k)) /\ Exists
  <2>1. tasks' = tasks /\ pc'[k] = "answer" /\ answer'[k].ids = ExistingIds
    BY <1>3 DEF Find, Recheck, Answer, Attempts
  <2>2. tasks # {} /\ OneEach(Indices, tasks)
    BY <1>3 DEF Exists, Replied
  <2> QED
    BY <2>1, <2>2, ExistingIdsAreNames
<1>4. CASE (Find(k) \/ Recheck(k)) /\ ~Exists
  <2>1. /\ tasks' = tasks /\ pc'[k] # "recheck"
        /\ pc'[k] = "answer" => answer'[k].code # 201
    BY <1>4 DEF Find, Recheck, Answer, Attempts, Replied
  <2> QED
    BY <2>1 DEF Replied
<1>5. CASE Insert(k)
  <2>1. CASE ~Refused(k) /\ tasks' = tasks \cup Rows(k) /\ Answer(k, 201, NewIds(k))
    <3>1. /\ tasks' = tasks \/ (tasks = {} /\ tasks' = Rows(k))
          /\ pc'[k] = "answer" /\ answer'[k].ids = NewIds(k)
      BY <2>1, InsertsIntoNothing DEF Answer, Attempts
    <3>2. Rows(k) # {} /\ OneEach(Indices, Rows(k)) /\ Names(Indices, NewIds(k), Rows(k))
      BY <1>0, RowsAreOneEach, NewIdsAreNames
    <3>3. tasks = {}
      BY <1>5, <2>1 DEF Insert, OneAtATime, AtWork, Refused, Exists
    <3> QED
      BY <2>1, <3>1, <3>2, <3>3
  <2>2. CASE UNCHANGED tasks /\ \E e \in {"constraint", "busy"} : InsertFails(k, e)
    <3>1. PICK e \in {"constraint", "busy"} : InsertFails(k, e)
      BY <2>2
    <3>2. pc'[k] = "recheck" /\ answer'[k].code = httpStatus(e)
      BY <3>1 DEF InsertFails, Attempts
    <3>3. httpStatus(e) # 201
      BY DEF httpStatus
    <3> QED
      BY <2>2, <3>2, <3>3 DEF Replied
  <2> QED
    BY <1>5, <2>1, <2>2 DEF Insert
<1> QED
  BY <1>1, <1>2, <1>3, <1>4, <1>5 DEF Handle

LEMMA RepliedStep ==
    ASSUME Attempts, OneAtATime, NotYet, Expansion, Begun, Replied, [Next]_vars
    PROVE  Replied'
<1>1. CASE Start
  BY <1>1 DEF Replied, NotYet, Start
<1>2. CASE ~Start
  <2>0. Indices' = Indices
    BY <1>2, ExpansionStep DEF Indices, Single
  <2>1. ASSUME NEW k \in Attempt, Handle(k) PROVE Replied'
    <3>1. tasks' = tasks \/ tasks = {}
      BY <2>1, InsertsIntoNothing
    <3>2. UNCHANGED command
      BY <2>1, HandlerSteps
    <3>3. \A n \in Attempt : n # k => pc'[n] = pc[n] /\ answer'[n] = answer[n]
      BY <2>1, HandlerSteps DEF Attempts
    <3>4. /\ tasks' # {} => OneEach(Indices, tasks')
          /\ pc'[k] = "answer" /\ answer'[k].code = 201 =>
               tasks' # {} /\ Names(Indices, answer'[k].ids, tasks')
          /\ pc'[k] = "recheck" => answer'[k].code # 201
      BY <2>1, HandlerSays
    <3> QED
      BY <2>0, <3>1, <3>2, <3>3, <3>4 DEF Replied
  <2>2. CASE Receive
    <3>1. /\ reply' = answer[attempt] /\ attempt \in Attempt /\ pc[attempt] = "answer"
          /\ client' = "ok" => reply'.code = 201
          /\ UNCHANGED <<pc, answer, tasks>>
      BY <2>2 DEF Receive, Attempts
    <3> QED
      BY <2>0, <3>1 DEF Replied
  <2>3. CASE Send
    <3>1. /\ UNCHANGED <<answer, tasks>> /\ client' # "ok"
          /\ \A k \in Attempt : pc'[k] = pc[k] \/ pc'[k] \in {"find", "expand"}
      BY <2>3 DEF Send, Attempts
    <3> QED
      BY <2>0, <3>1 DEF Replied
  <2>4. CASE Broken \/ Retry \/ NoServer \/ Timeout
    <3>1. UNCHANGED <<pc, answer, tasks>> /\ client' # "ok"
      BY <2>4 DEF Broken, Retry, NoServer, Timeout
    <3> QED
      BY <2>0, <3>1 DEF Replied
  <2>5. CASE Crash
    <3>1. /\ UNCHANGED <<client, reply, answer, tasks>>
          /\ \A k \in Attempt : pc'[k] = pc[k] \/ pc'[k] = "dead"
      BY <2>5 DEF Crash
    <3> QED
      BY <2>0, <3>1 DEF Replied
  <2>6. CASE (\E o \in OldId : Dies(o) \/ CleanedUp(o)) \/ UNCHANGED vars
    <3>1. UNCHANGED <<pc, client, reply, answer, tasks>>
      BY <2>6 DEF Dies, CleanedUp, vars
    <3> QED
      BY <2>0, <3>1 DEF Replied
  <2> QED
    BY <1>2, <2>1, <2>2, <2>3, <2>4, <2>5, <2>6 DEF Next, Command
<1> QED
  BY <1>1, <1>2

\* The ids in the response to a successful submit are those of the rows in the
\* table, one for each index and in their order: of this attempt or of an earlier
\* one whose answer was lost (SubmitJob, SubmitArray), unless attempts of an array
\* overlap.
THEOREM ReplyTheorem == "overlap" \notin Fault /\ Spec => []ReplyIsTrue
<1> DEFINE I == /\ "overlap" \notin Fault
                /\ Attempts /\ OneAtATime /\ NotYet /\ Expansion /\ Begun /\ Replied
<1>1. "overlap" \notin Fault /\ Init => I
  <2>1. Init => OneAtATime /\ NotYet /\ Expansion /\ Begun
    BY DEF Init, OneAtATime, NotYet, AtWork, Expansion, Begun
  <2>2. Init => Replied
    BY DEF Init, Replied
  <2> QED
    BY <2>1, <2>2, AttemptsInit
<1>2. I /\ [Next]_vars => I'
  BY AttemptsStep, OneAtATimeStep, ExpansionStep, BegunStep, RepliedStep
<1>3. I => ReplyIsTrue
  BY DEF Replied, Names, ReplyIsTrue
<1> HIDE DEF I
<1> QED
  BY <1>1, <1>2, <1>3, PTL DEF Spec

-----------------------------------------------------------------------------
(***************************************************************************)
(* Dependencies.                                                           *)
(***************************************************************************)

\* Flattening keeps what is in the sequences and adds nothing.
LEMMA FlattenCollects ==
    ASSUME NEW X, NEW n \in Nat, NEW seqs \in [1..n -> Seq(X)]
    PROVE  ToSet(FlattenSeq(seqs)) = UNION {ToSet(seqs[m]) : m \in 1..n}
<1> DEFINE Body(h, k) == [i \in 1..k |-> IF i = 1 THEN seqs[i] ELSE h[i - 1] \o seqs[i]]
           flatten == CHOOSE h : h = Body(h, n)
<1>1. Len(seqs) = n
  OBVIOUS
<1>2. CASE n = 0
  <2>1. FlattenSeq(seqs) = seqs
    BY <1>1, <1>2 DEF FlattenSeq
  <2>2. 1..n = {}
    BY <1>2
  <2>3. DOMAIN seqs = {}
    BY <2>2
  <2> QED
    BY <2>1, <2>2, <2>3 DEF ToSet
<1>3. CASE n # 0
  <2>1. \E h : h = Body(h, n)
    <3> DEFINE Made(k) == \E h : h = Body(h, k)
               Bad == {k \in 1..n : ~Made(k)}
    <3> HIDE DEF Made
    <3> SUFFICES ASSUME Bad # {} PROVE FALSE
      <4>1. Bad = {} => Made(n)
        BY <1>3
      <4> QED
        BY <4>1 DEF Made
    <3>1. PICK k \in Bad : \A j \in Bad : k <= j
      <4>1. Bad \subseteq Nat
        OBVIOUS
      <4> HIDE DEF Bad
      <4> QED
        BY <4>1, LeastOf
    <3>2. k \in 1..n /\ ~Made(k)
      OBVIOUS
    <3>3. CASE k = 1
      <4> DEFINE h == [i \in 1..1 |-> seqs[i]]
      <4>1. h = Body(h, 1)
        OBVIOUS
      <4> QED
        BY <3>2, <3>3, <4>1 DEF Made
    <3>4. CASE k # 1
      <4>1. k - 1 \in 1..n /\ ~(k <= k - 1)
        BY <3>2, <3>4
      <4>2. Made(k - 1)
        BY <3>1, <4>1
      <4>3. PICK h : h = Body(h, k - 1)
        BY <4>2 DEF Made
      <4> DEFINE g == [i \in 1..k |-> IF i = k THEN h[k - 1] \o seqs[k] ELSE h[i]]
      <4>4. ASSUME NEW i \in 1..k
            PROVE  g[i] = IF i = 1 THEN seqs[i] ELSE g[i - 1] \o seqs[i]
        <5>0. k \in Nat /\ k > 1 /\ i \in Nat
          BY <3>2, <3>4
        <5>1. CASE i = k
          <6>1. g[i] = h[k - 1] \o seqs[k] /\ i # 1
            BY <5>0, <5>1, SMTT(30)
          <6>2. i - 1 \in 1..k /\ i - 1 # k /\ g[i - 1] = h[k - 1]
            BY <5>0, <5>1
          <6> QED
            BY <5>1, <6>1, <6>2
        <5>2. CASE i # k
          <6>1. i \in 1..(k - 1) /\ g[i] = h[i]
            BY <5>0, <5>2
          <6>2. h[i] = IF i = 1 THEN seqs[i] ELSE h[i - 1] \o seqs[i]
            <7> HIDE DEF g
            <7> QED
              BY <4>3, <6>1
          <6>3. i # 1 => g[i - 1] = h[i - 1]
            BY <5>0, <5>2
          <6> QED
            BY <6>1, <6>2, <6>3
        <5> QED
          BY <5>1, <5>2
      <4>5. g = Body(g, k)
        BY <4>4
      <4> QED
        BY <3>2, <4>5 DEF Made
    <3> QED
      BY <3>3, <3>4
  <2>2. flatten = Body(flatten, n)
    <3> HIDE DEF Body
    <3> QED
      BY <2>1
  <2>3. FlattenSeq(seqs) = flatten[n]
    BY <1>1, <1>3 DEF FlattenSeq
  <2> HIDE DEF flatten
  <2>4. \A i \in 1..n : flatten[i] = IF i = 1 THEN seqs[i] ELSE flatten[i - 1] \o seqs[i]
    BY <2>2
  <2> DEFINE Right(i) == /\ flatten[i] \in Seq(X)
                         /\ Range(flatten[i]) = UNION {Range(seqs[m]) : m \in 1..i}
             Bad == {i \in 1..n : ~Right(i)}
  <2>5. Bad = {}
    <3> SUFFICES ASSUME Bad # {} PROVE FALSE
      OBVIOUS
    <3>1. PICK i \in Bad : \A j \in Bad : i <= j
      <4>1. Bad \subseteq Nat
        OBVIOUS
      <4> HIDE DEF Bad
      <4> QED
        BY <4>1, LeastOf
    <3>2. i \in 1..n /\ ~Right(i) /\ i \in Nat /\ i >= 1
      OBVIOUS
    <3>3. CASE i = 1
      <4>1. flatten[i] = seqs[1] /\ 1..i = {1} /\ seqs[1] \in Seq(X)
        BY <1>3, <2>4, <3>2, <3>3
      <4>2. Right(i)
        BY <4>1
      <4> QED
        BY <3>2, <4>2
    <3>4. CASE i # 1
      <4>1. i - 1 \in 1..n /\ ~(i <= i - 1)
        BY <3>2, <3>4
      <4>2. Right(i - 1)
        <5> HIDE DEF Right
        <5> QED
          BY <3>1, <4>1
      <4>3. flatten[i] = flatten[i - 1] \o seqs[i] /\ seqs[i] \in Seq(X)
        BY <2>4, <3>2, <3>4
      <4>4. 1..i = 1..(i - 1) \cup {i}
        BY <3>2
      <4>5. flatten[i] \in Seq(X)
        BY <4>2, <4>3, ConcatProperties
      <4>6. Range(flatten[i]) = Range(flatten[i - 1]) \cup Range(seqs[i])
        BY <4>2, <4>3, RangeConcatenation
      <4>7. Range(flatten[i]) = UNION {Range(seqs[m]) : m \in 1..i}
        BY <4>2, <4>4, <4>6
      <4> QED
        BY <3>2, <4>5, <4>7
    <3> QED
      BY <3>3, <3>4
  <2>6. Right(n)
    <3> HIDE DEF Right
    <3> QED
      BY <1>3, <2>5
  <2>7. \A s : ToSet(s) = Range(s)
    BY DEF ToSet, Range
  <2> QED
    BY <2>3, <2>6, <2>7
<1> QED
  BY <1>2, <1>3

DepSpec == [kind : {"afterok", "aftercorr"}, to : OldArray \cup OldJob \cup {Unknown},
            index : Nat \cup {NoTask}]

Id == (OldArray \cup OldJob \cup {Unknown}) \X Nat

\* The parents that are a whole array, in whatever order: all its tasks.
LEMMA AllOfIsAll ==
    ASSUME NEW a \in OldArray
    PROVE  /\ AllOf(a) \in Seq(Id)
           /\ ToSet(AllOf(a)) = {<<a, m>> : m \in Members(a)}
<1> DEFINE S == Members(a)
           key == [i \in S |-> i]
           c == Cardinality(S)
<1>1. S \subseteq Nat /\ IsFiniteSet(S)
  <2>1. S \in SUBSET OldIndex[a]
    BY DEF Members
  <2> QED
    BY <2>1, FS_Subset, SubmitAssumption
<1>2. c \in Nat
  BY <1>1, FS_CardinalityType
<1>3. key \in [S -> Nat] /\ Distinct(S, key)
  BY <1>1 DEF Distinct
<1>4. AllOf(a) = [n \in 1..c |-> <<a, SortedBy(S, key)[n]>>]
  BY DEF AllOf, InOrder
<1> HIDE DEF S, key, c
<1>5. /\ SortedBy(S, key) \in [1..c -> S]
      /\ \A x \in S : \E n \in 1..c : SortedBy(S, key)[n] = x
  <2>1. /\ SortedBy(S, key) \in [1..Cardinality(S) -> S]
        /\ \A x \in S : \E n \in 1..Cardinality(S) : SortedBy(S, key)[n] = x
    <3>1. IsFiniteSet(S) /\ key \in [S -> Nat] /\ Distinct(S, key)
      BY <1>1, <1>3
    <3> QED
      BY <3>1, SortedByIsSorted, ZenonT(30)
  <2> QED
    BY <2>1 DEF c
<1>6. ASSUME NEW n \in 1..c PROVE AllOf(a)[n] \in Id
  <2>1. SortedBy(S, key)[n] \in Nat
    BY <1>1, <1>5
  <2>2. AllOf(a)[n] = <<a, SortedBy(S, key)[n]>>
    BY <1>4
  <2> QED
    BY <2>1, <2>2 DEF Id
<1>7. AllOf(a) \in Seq(Id)
  <2>1. AllOf(a) \in [1..c -> Id]
    BY <1>4, <1>6
  <2> QED
    BY <1>2, <2>1, SeqDef
<1>8. ToSet(AllOf(a)) = {<<a, m>> : m \in S}
  <2>1. ToSet(AllOf(a)) = {AllOf(a)[n] : n \in 1..c}
    BY <1>4 DEF ToSet
  <2> QED
    BY <1>4, <1>5, <2>1
<1> QED
  BY <1>7, <1>8 DEF S

\* What a dependency is expanded to, for task i, is what it means.
LEMMA DepOfIsMeant ==
    ASSUME NEW d \in DepSpec, NEW i \in Nat, DepOf(d, i) # <<>>
    PROVE  /\ DepOf(d, i) \in Seq(Id)
           /\ ToSet(DepOf(d, i)) = Means(d, i)
           /\ \A e \in Means(d, i) : e[1] \in OldArray => e \in OldId \/ Members(e[1]) = {}
<1>0. /\ d.to \in OldArray \cup OldJob \cup {Unknown} /\ d.index \in Nat \cup {NoTask}
      /\ d.kind \in {"afterok", "aftercorr"}
  BY DEF DepSpec
<1>1. \A x : ToSet(<<x>>) = {x}
  BY DEF ToSet
<1>2. \A a, m : m \in Members(a) => a \in OldArray /\ m \in Nat /\ <<a, m>> \in OldId
  BY SubmitAssumption DEF Members, OldId
<1>3. \A m \in Nat : <<d.to, m>> \in Id /\ <<<<d.to, m>>>> \in Seq(Id)
  <2>1. \A m \in Nat : <<d.to, m>> \in Id
    BY <1>0 DEF Id
  <2> QED
    BY <2>1
<1>4. CASE d.kind = "aftercorr"
  <2>1. DepOf(d, i) = <<<<d.to, i>>>> /\ i \in Members(d.to)
    BY <1>4 DEF DepOf, AfterCorr
  <2>2. Means(d, i) = {<<d.to, i>>}
    BY <1>4 DEF Means
  <2> QED
    BY <1>1, <1>2, <1>3, <2>1, <2>2
<1>5. CASE d.kind = "afterok" /\ d.index # NoTask
  <2>1. DepOf(d, i) = <<<<d.to, d.index>>>> /\ d.index \in Members(d.to)
    BY <1>5 DEF DepOf, AfterOk
  <2>2. Means(d, i) = {<<d.to, d.index>>}
    BY <1>5 DEF Means
  <2> QED
    BY <1>1, <1>2, <1>3, <2>1, <2>2
<1>6. CASE d.kind = "afterok" /\ d.index = NoTask /\ Members(d.to) = {}
  <2>1. DepOf(d, i) = <<<<d.to, 0>>>>
    BY <1>6 DEF DepOf, AfterOk
  <2>2. Means(d, i) = {<<d.to, 0>>}
    BY <1>6 DEF Means
  <2> QED
    BY <1>1, <1>3, <1>6, <2>1, <2>2
<1>7. CASE d.kind = "afterok" /\ d.index = NoTask /\ Members(d.to) # {}
  <2>1. DepOf(d, i) = AllOf(d.to)
    BY <1>7 DEF DepOf, AfterOk
  <2>2. d.to \in OldArray
    BY <1>7 DEF Members
  <2>3. Means(d, i) = {<<d.to, m>> : m \in Members(d.to)}
    BY <1>7, <2>2 DEF Means
  <2>4. \A e \in Means(d, i) : e \in OldId
    BY <1>2, <2>3
  <2> QED
    BY <2>1, <2>2, <2>3, <2>4, AllOfIsAll
<1> QED
  BY <1>0, <1>4, <1>5, <1>6, <1>7

\* All the dependencies of a task together.
LEMMA ExpandedIsMeant ==
    ASSUME deps \in Deps, Expandable, NEW i \in Indices, Indices \subseteq Nat
    PROVE  /\ ToSet(ExpandedDeps[i]) = UNION {Means(deps[n], i) : n \in DOMAIN deps}
           /\ \A d \in ToSet(ExpandedDeps[i]) :
                d[1] \in OldArray => d \in OldId \/ Members(d[1]) = {}
<1> DEFINE seqs == [n \in DOMAIN deps |-> DepOf(deps[n], i)]
<1>1. deps \in Seq(DepSpec)
  BY SubmitAssumption DEF DepSpec
<1>2. Len(deps) \in Nat /\ DOMAIN deps = 1..Len(deps) /\ \A n \in DOMAIN deps : deps[n] \in DepSpec
  BY <1>1
<1>3. \A n \in DOMAIN deps :
        /\ DepOf(deps[n], i) \in Seq(Id)
        /\ ToSet(DepOf(deps[n], i)) = Means(deps[n], i)
        /\ \A e \in Means(deps[n], i) : e[1] \in OldArray => e \in OldId \/ Members(e[1]) = {}
  BY <1>2, DepOfIsMeant DEF Expandable
<1>4. ExpandedDeps[i] = FlattenSeq(seqs)
  BY DEF ExpandedDeps
<1>5. seqs \in [1..Len(deps) -> Seq(Id)]
  BY <1>2, <1>3
<1>6. ToSet(FlattenSeq(seqs)) = UNION {ToSet(seqs[n]) : n \in 1..Len(deps)}
  <2> HIDE DEF seqs
  <2> QED
    BY <1>2, <1>5, FlattenCollects
<1>7. \A n \in 1..Len(deps) : ToSet(seqs[n]) = Means(deps[n], i)
  BY <1>2, <1>3
<1>8. ToSet(ExpandedDeps[i]) = UNION {Means(deps[n], i) : n \in DOMAIN deps}
  <2> HIDE DEF seqs
  <2> QED
    BY <1>2, <1>4, <1>6, <1>7
<1> QED
  BY <1>3, <1>8

\* A request waits for all that its dependencies name and for nothing else, and is
\* refused when it names a task that an existing array does not have: for any
\* arrays, with any of their tasks cleaned up (resolveDepTarget, the fan-out of
\* afterok and the pairing of aftercorr).
THEOREM DepsTheorem == Spec => DepsAreExpanded
<1> DEFINE I == /\ Attempts /\ Expansion /\ deps \in Deps /\ DOMAIN taskDeps = Attempt
           A == \A k \in Attempt : taskDeps'[k] # taskDeps[k] =>
                  \A i \in Indices :
                    /\ ToSet(taskDeps'[k][i]) = UNION {Means(deps[n], i) : n \in DOMAIN deps}
                    /\ \A d \in ToSet(taskDeps'[k][i]) :
                         d[1] \in OldArray => d \in OldId \/ Members(d[1]) = {}
<1>1. Init => I
  BY AttemptsInit DEF Init, Expansion
<1>2. I /\ [Next]_vars => taskDeps' = taskDeps \/ \E k \in Attempt : Expand(k)
  BY DEF Next, Command, Start, Send, Broken, Receive, Retry, NoServer, Timeout, Handle, Find,
     validateDeps, Insert, Recheck, Crash, Dies, CleanedUp, vars
<1>3. I /\ [Next]_vars => I'
  <2> SUFFICES ASSUME I, [Next]_vars PROVE I'
    OBVIOUS
  <2>1. deps' = deps
    BY DEF Next, Command, Start, Send, Broken, Receive, Retry, NoServer, Timeout, Handle, Expand,
       Find, validateDeps, Insert, Recheck, Crash, Dies, CleanedUp, vars
  <2>2. DOMAIN taskDeps' = Attempt
    BY <1>2 DEF Expand
  <2> QED
    BY <2>1, <2>2, AttemptsStep, ExpansionStep
<1>4. I /\ [Next]_vars => A
  <2> SUFFICES ASSUME I, NEW k \in Attempt, Expand(k) PROVE A
    BY <1>2
  <2>1. taskDeps' = taskDeps \/ (Expandable /\ taskDeps' = [taskDeps EXCEPT ![k] = ExpandedDeps])
    BY DEF Expand
  <2>2. Indices \subseteq Nat
    BY IndicesAreFinite
  <2>3. CASE Expandable /\ taskDeps' = [taskDeps EXCEPT ![k] = ExpandedDeps]
    <3>1. taskDeps'[k] = ExpandedDeps /\ \A j \in Attempt : j # k => taskDeps'[j] = taskDeps[j]
      BY <2>3
    <3> QED
      BY <2>2, <2>3, <3>1, ExpandedIsMeant
  <2> QED
    BY <2>1, <2>3
<1> HIDE DEF I
<1> QED
  BY <1>1, <1>3, <1>4, PTL DEF Spec, DepsAreExpanded
=============================================================================
