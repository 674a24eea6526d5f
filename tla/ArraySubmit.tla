----------------------------- MODULE ArraySubmit -----------------------------
(***************************************************************************)
(* One batchq submit, of a job or of an array, from the command line to    *)
(* the tables.  The client expands the array spec, chooses the id of the   *)
(* job or of the array once, and sends the request again after a time-out, *)
(* a 5xx answer or a server that is not there.  The server expands the     *)
(* dependencies, looks whether the id is known, validates and inserts.     *)
(*                                                                         *)
(* Each attempt has a handler of its own, which goes on when the client    *)
(* has stopped waiting for it.  A job id is a pair: <<a, i>> for task i of *)
(* the existing array a, <<p, 0>> for the existing job p, <<k, i>> for the *)
(* task i that attempt k inserts, <<0, 0>> for a submitted single job.     *)
(***************************************************************************)
EXTENDS Integers, FiniteSets, Sequences, SequencesExt

CONSTANTS
    OldArray,     \* the arrays that exist
    OldIndex,     \* OldArray -> SUBSET Nat: the indices of their tasks
    OldJob,       \* the single jobs that exist
    Unknown,      \* a name no job or array has
    Terms,        \* the array specs: sequences of [lo, hi, step]
    Deps,         \* the dependency specs: sequences of [kind, to, index]
    NoTask,       \* index of a dependency on a job or a whole array
    MaxTasks,     \* maxArrayTasks
    MaxAttempts,  \* 1 + len(handoffBackoffs)
    Fault, MaxFaults

FaultKind == {"noServer", "timeout", "overlap", "budget", "busy", "crash"}

ASSUME SubmitAssumption ==
    /\ OldIndex \in [OldArray -> SUBSET Nat]
    /\ \A x \in OldArray : IsFiniteSet(OldIndex[x])
    /\ OldArray \cap OldJob = {} /\ Unknown \notin OldArray \cup OldJob
    /\ Terms \subseteq Seq([lo : Nat, hi : Nat, step : Nat])
    /\ NoTask \notin Nat
    /\ Deps \subseteq Seq([kind : {"afterok", "aftercorr"},
                           to : OldArray \cup OldJob \cup {Unknown},
                           index : Nat \cup {NoTask}])
    /\ MaxTasks \in Nat /\ MaxAttempts \in Nat \ {0}
    /\ Fault \subseteq FaultKind /\ MaxFaults \in Nat

Attempt == 1..MaxAttempts
OldId   == {<<j, 0>> : j \in OldJob}
             \cup UNION {{<<a, i>> : i \in OldIndex[a]} : a \in OldArray}

VARIABLES
    \* the command line
    terms, deps,  \* what the user asks for; no terms for a single job
    client,       \* where the command is
    attempt,      \* the attempts made
    indices,      \* the expanded array spec
    reply,        \* what the command was told: a code and ids
    unsure,       \* the outcome of some attempt is not known to it (history)
    \* the server
    pc,           \* where the handler of each attempt is
    taskDeps,     \* Attempt -> index -> sequence of ids
    answer,       \* Attempt -> a code and ids
    \* the tables
    old,          \* OldId -> "alive", "dead" (failed, canceled), "gone"
    tasks,        \* the rows of the submitted job or array
    faults

command == <<terms, deps, client, attempt, indices, reply, unsure>>
server  == <<pc, taskDeps, answer>>
vars    == <<terms, deps, client, attempt, indices, reply, unsure, pc, taskDeps,
             answer, old, tasks, faults>>

Single  == terms = <<>>
Indices == IF Single THEN {0} ELSE indices

NoReply == [code |-> 0, ids |-> <<>>]
Code    == {0, 201, 400, 404, 500}
Client  == {"start", "send", "wait", "retry", "ok", "failed", "rejected"}
Pc      == {"none", "find", "expand", "validate", "insert", "recheck", "answer",
            "dead"}

\* What the indices of an array are is the subject of SpecIsExpanded.
TypeOK ==
    /\ terms \in Terms /\ deps \in Deps
    /\ client \in Client
    /\ attempt \in 0..MaxAttempts
    /\ unsure \in BOOLEAN
    /\ pc \in [Attempt -> Pc]
    /\ reply.code \in Code
    /\ \A k \in Attempt : answer[k].code \in Code
    /\ old \in [OldId -> {"alive", "dead", "gone"}]
    /\ \A t \in tasks : t.id \in (Attempt \cup {0}) \X Indices /\ t.index \in Indices
    /\ faults \in 0..MaxFaults

Init ==
    /\ terms \in Terms /\ deps \in Deps
    /\ client = "start"
    /\ attempt = 0
    /\ indices = {}
    /\ reply = NoReply
    /\ unsure = FALSE
    /\ pc = [k \in Attempt |-> "none"]
    /\ taskDeps = [k \in Attempt |-> <<>>]
    /\ answer = [k \in Attempt |-> NoReply]
    /\ old = [o \in OldId |-> "alive"]
    /\ tasks = {}
    /\ faults = 0

MayHappen(f) == f \in Fault /\ faults < MaxFaults /\ faults' = faults + 1

-----------------------------------------------------------------------------
(***************************************************************************)
(* ParseArraySpec.                                                         *)
(***************************************************************************)
BadTerm(t) == t.hi < t.lo \/ t.step = 0

TermWithoutEnd(t) ==
    LET loop[n \in Nat] == IF n >= t.hi THEN {} ELSE {n} \cup loop[n + t.step]
    IN loop[t.lo]

\* lo, lo + step, ... as far as hi
Term(t) ==
    LET loop[n \in Nat] == IF n > t.hi THEN {} ELSE {n} \cup loop[n + t.step]
    IN loop[t.lo]

\* The indices, none if the spec is not valid.
ParseArraySpec(s) ==
    LET all == UNION {Term(s[i]) : i \in DOMAIN s} IN
    IF (\E i \in DOMAIN s : BadTerm(s[i])) \/ Cardinality(all) > MaxTasks
      THEN {} ELSE all

-----------------------------------------------------------------------------
(***************************************************************************)
(* The command.                                                            *)
(***************************************************************************)
Start ==
    /\ client = "start"
    /\ IF ~Single /\ ParseArraySpec(terms) = {}
         THEN client' = "rejected" /\ UNCHANGED indices
         ELSE /\ client' = "send"
              /\ indices' = IF Single THEN {} ELSE ParseArraySpec(terms)
    /\ UNCHANGED <<terms, deps, attempt, reply, unsure, server, old, tasks, faults>>

\* SubmitJob looks for the id first, SubmitArray expands the dependencies first.
Send ==
    /\ client = "send"
    /\ attempt' = attempt + 1
    /\ client' = "wait"
    /\ pc' = [pc EXCEPT ![attempt'] = IF Single THEN "find" ELSE "expand"]
    /\ UNCHANGED <<terms, deps, indices, reply, unsure, taskDeps, answer, old, tasks,
                   faults>>

\* No server, or one that drains: the request did nothing.
NoServer ==
    /\ MayHappen("noServer")
    /\ client = "send"
    /\ attempt' = attempt + 1
    /\ client' = "retry"
    /\ UNCHANGED <<terms, deps, indices, reply, unsure, server, old, tasks>>

Settled(k) == pc[k] \in {"answer", "dead"}

\* The client stops waiting.  Only with the fault "overlap" does it so while the
\* handler of an array is at work.
Timeout ==
    /\ MayHappen("timeout")
    /\ client = "wait"
    /\ "overlap" \in Fault \/ Single \/ Settled(attempt)
    /\ client' = "retry"
    /\ unsure' = TRUE
    /\ UNCHANGED <<terms, deps, attempt, indices, reply, server, old, tasks>>

WaitsForEver == FALSE

\* The connection breaks when the server dies, which is not retried.
Broken ==
    /\ client = "wait" /\ pc[attempt] = "dead"
    /\ client' = "failed"
    /\ unsure' = TRUE
    /\ UNCHANGED <<terms, deps, attempt, indices, reply, server, old, tasks, faults>>

retryableIdempotent(code) == code >= 500

Receive ==
    /\ client = "wait" /\ pc[attempt] = "answer"
    /\ reply' = answer[attempt]
    /\ client' = IF reply'.code = 201 THEN "ok"
                 ELSE IF retryableIdempotent(reply'.code) THEN "retry"
                 ELSE "failed"
    /\ UNCHANGED <<terms, deps, attempt, indices, unsure, server, old, tasks, faults>>

\* Back off and send again, unless the attempts or the two minutes are used up.
Retry ==
    /\ client = "retry"
    /\ \/ /\ client' = IF attempt < MaxAttempts THEN "send" ELSE "failed"
          /\ UNCHANGED faults
       \/ MayHappen("budget") /\ client' = "failed"
    /\ UNCHANGED <<terms, deps, attempt, indices, reply, unsure, server, old, tasks>>

-----------------------------------------------------------------------------
(***************************************************************************)
(* Dependencies.                                                           *)
(***************************************************************************)

\* The elements of S by ascending key.
SortedBy(S, key) ==
    CHOOSE s \in SetToSeqs(S) : \A m, n \in DOMAIN s : m < n => key[s[m]] <= key[s[n]]

InOrder(S) == SortedBy(S, [i \in S |-> i])

\* FindArrayMembers of an existing array: tasks that were cleaned up are gone.
Members(a) == IF a \in OldArray THEN {i \in OldIndex[a] : old[<<a, i>>] # "gone"} ELSE {}

AllOf(a) == [n \in 1..Cardinality(Members(a)) |->
               <<a, InOrder(Members(a))[n]>>]

\* resolveDepTarget and the fan-out of afterok: a task, a whole array, or else
\* the name is taken for the id of a job.  No ids: a bad request.
AfterOk(d) ==
    IF d.index # NoTask
      THEN IF d.index \in Members(d.to) THEN <<<<d.to, d.index>>>> ELSE <<>>
    ELSE IF Members(d.to) = {} THEN <<<<d.to, 0>>>> ELSE AllOf(d.to)

\* Pairs the tasks of two arrays by their place among the indices.
AfterCorrByPosition(d, i) ==
    LET m == InOrder(Members(d.to)) IN
    IF \/ Single \/ d.index # NoTask
       \/ Members(d.to) = {} \/ Cardinality(Members(d.to)) # Cardinality(Indices)
      THEN <<>>
      ELSE <<<<d.to, m[Cardinality({n \in Indices : n <= i})]>>>>

\* aftercorr pairs the tasks of two arrays by index.
AfterCorr(d, i) ==
    IF \/ Single \/ d.index # NoTask
       \/ Members(d.to) = {} \/ Cardinality(Members(d.to)) # Cardinality(Indices)
       \/ i \notin Members(d.to)
      THEN <<>>
      ELSE <<<<d.to, i>>>>

DepOf(d, i) == IF d.kind = "afterok" THEN AfterOk(d) ELSE AfterCorr(d, i)

Expandable == \A i \in Indices : \A n \in DOMAIN deps : DepOf(deps[n], i) # <<>>

ExpandedDeps ==
    [i \in Indices |-> FlattenSeq([n \in DOMAIN deps |-> DepOf(deps[n], i)])]

-----------------------------------------------------------------------------
(***************************************************************************)
(* The handler of attempt k.                                               *)
(***************************************************************************)
httpStatus(err) ==
    IF err = "not found" THEN 404 ELSE IF err = "bad request" THEN 400 ELSE 500

Answer(k, code, ids) ==
    /\ pc' = [pc EXCEPT ![k] = "answer"]
    /\ answer' = [answer EXCEPT ![k] = [code |-> code, ids |-> ids]]

\* The rows as they come from the table.
NewestFirst ==
    LET sorted == SortedBy(tasks, [t \in tasks |-> -t.index]) IN
    [n \in DOMAIN sorted |-> sorted[n].id]

\* The rows of the id, in the order of their indices.
ExistingIds ==
    LET sorted == SortedBy(tasks, [t \in tasks |-> t.index]) IN
    [n \in DOMAIN sorted |-> sorted[n].id]

Expand(k) ==
    /\ pc[k] = "expand"
    /\ IF Expandable
         THEN /\ taskDeps' = [taskDeps EXCEPT ![k] = ExpandedDeps]
              /\ pc' = [pc EXCEPT ![k] = IF Single THEN "validate" ELSE "find"]
              /\ UNCHANGED answer
         ELSE Answer(k, httpStatus("bad request"), <<>>) /\ UNCHANGED taskDeps
    /\ UNCHANGED <<command, old, tasks, faults>>

AlwaysNew == FALSE

\* An attempt before this one has inserted the id.
Exists == tasks # {}

Find(k) ==
    /\ pc[k] = "find"
    /\ IF Exists
         THEN Answer(k, 201, ExistingIds)
         ELSE /\ pc' = [pc EXCEPT ![k] = IF Single THEN "expand" ELSE "validate"]
              /\ UNCHANGED answer
    /\ UNCHANGED <<command, taskDeps, old, tasks, faults>>

Parents(k) == UNION {ToSet(taskDeps[k][i]) : i \in DOMAIN taskDeps[k]}
Missing(k) == ~ \A d \in Parents(k) : d \in OldId /\ old[d] # "gone"

\* An insert that fails is not yet an error: see Recheck.
InsertFails(k, err) ==
    /\ pc' = [pc EXCEPT ![k] = "recheck"]
    /\ answer' = [answer EXCEPT ![k] = [code |-> httpStatus(err), ids |-> <<>>]]

\* validateDeps: of several bad parents any may be the first.
validateDeps(k) ==
    /\ pc[k] = "validate"
    /\ \/ Missing(k) /\ InsertFails(k, "not found")
       \/ /\ \E d \in Parents(k) \cap OldId : old[d] = "dead"
          /\ InsertFails(k, "dead parent")
       \/ /\ ~Missing(k) /\ \A d \in Parents(k) : old[d] # "dead"
          /\ pc' = [pc EXCEPT ![k] = "insert"]
          /\ UNCHANGED answer
    /\ UNCHANGED <<command, taskDeps, old, tasks, faults>>

\* job_deps: a parent named twice is a duplicate key.
NamedTwice(k) ==
    \E i \in DOMAIN taskDeps[k] :
        Cardinality(ToSet(taskDeps[k][i])) # Len(taskDeps[k][i])

Rows(k) == {[id |-> IF Single THEN <<0, 0>> ELSE <<k, i>>, index |-> i,
             deps |-> ToSet(taskDeps[k][i])] : i \in Indices}

NewIds(k) == [n \in 1..Cardinality(Indices) |->
                IF Single THEN <<0, 0>> ELSE <<k, InOrder(Indices)[n]>>]

Refused(k) == NamedTwice(k) \/ Missing(k) \/ (Single /\ Exists)

\* The error of a commit that went through, and no second look.
InsertUnreported(k) ==
    /\ pc[k] = "insert"
    /\ tasks' = tasks \cup Rows(k)
    /\ Answer(k, 404, <<>>)
    /\ UNCHANGED <<command, taskDeps, old, faults>>

\* InsertJob, InsertArray: one transaction, which may find the database locked.
Insert(k) ==
    /\ pc[k] = "insert"
    /\ \/ Refused(k) /\ InsertFails(k, "constraint") /\ UNCHANGED <<tasks, faults>>
       \/ MayHappen("busy") /\ InsertFails(k, "busy") /\ UNCHANGED tasks
       \/ /\ ~Refused(k)
          /\ tasks' = tasks \cup Rows(k)
          /\ Answer(k, 201, NewIds(k))
          /\ UNCHANGED faults
    /\ UNCHANGED <<command, taskDeps, old>>

\* Another attempt may have won.
Recheck(k) ==
    /\ pc[k] = "recheck"
    /\ IF Exists THEN Answer(k, 201, ExistingIds)
       ELSE Answer(k, answer[k].code, <<>>)
    /\ UNCHANGED <<command, taskDeps, old, tasks, faults>>

Crash ==
    /\ MayHappen("crash")
    /\ pc' = [k \in Attempt |-> IF pc[k] \in {"none", "answer"} THEN pc[k] ELSE "dead"]
    /\ UNCHANGED <<command, taskDeps, answer, old, tasks>>

-----------------------------------------------------------------------------
(***************************************************************************)
(* The existing jobs fail and are cleaned up meanwhile.                    *)
(***************************************************************************)
Dies(o) ==
    /\ old[o] = "alive"
    /\ old' = [old EXCEPT ![o] = "dead"]
    /\ UNCHANGED <<command, server, tasks, faults>>

CleanedUp(o) ==
    /\ old[o] # "gone" /\ \A t \in tasks : o \notin t.deps
    /\ old' = [old EXCEPT ![o] = "gone"]
    /\ UNCHANGED <<command, server, tasks, faults>>

-----------------------------------------------------------------------------
Command == Start \/ Send \/ Broken \/ Receive \/ Retry

Handle(k) == Expand(k) \/ Find(k) \/ validateDeps(k) \/ Insert(k) \/ Recheck(k)

Next ==
    \/ Command \/ NoServer \/ Timeout
    \/ \E k \in Attempt : Handle(k)
    \/ Crash
    \/ \E o \in OldId : Dies(o) \/ CleanedUp(o)

\* The command and the handlers run; nobody owes a fault.
Spec == Init /\ [][Next]_vars /\ WF_vars(Command) /\ \A k \in Attempt : WF_vars(Handle(k))

-----------------------------------------------------------------------------
(***************************************************************************)
(* Correctness.                                                            *)
(***************************************************************************)

\* However often it is sent, the request inserts its rows at most once, and all
\* of them or none.
SubmittedOnce ==
    \/ tasks = {}
    \/ \A i \in Indices : Cardinality({t \in tasks : t.index = i}) = 1

\* The ids in the response that the command gets name exactly the rows in the
\* tables, one per index and in their order, whichever attempt inserted them.  (Of
\* an array the command prints the array id alone.)
ReplyIsTrue ==
    client = "ok" =>
        /\ Len(reply.ids) = Cardinality(tasks)
        /\ \A n \in DOMAIN reply.ids :
             \E t \in tasks : /\ t.id = reply.ids[n]
                              /\ Cardinality({i \in Indices : i <= t.index}) = n

\* A command that fails has submitted nothing, unless it lost track of an attempt.
FailureIsTrue == client \in {"failed", "rejected"} /\ ~unsure => tasks = {}

\* What a dependency means: every task of the array, or the one of the index.
Means(d, i) ==
    IF d.kind = "aftercorr" THEN {<<d.to, i>>}
    ELSE IF d.index # NoTask THEN {<<d.to, d.index>>}
    ELSE IF d.to \in OldArray /\ Members(d.to) # {} THEN {<<d.to, m>> : m \in Members(d.to)}
    ELSE {<<d.to, 0>>}

\* A request that is expanded waits for all it names and for nothing else, and
\* one that names a task that is not there is refused.
DepsAreExpanded ==
    [][\A k \in Attempt : taskDeps'[k] # taskDeps[k] =>
         \A i \in Indices :
           /\ ToSet(taskDeps'[k][i]) = UNION {Means(deps[n], i) : n \in DOMAIN deps}
           /\ \A d \in ToSet(taskDeps'[k][i]) :
                d[1] \in OldArray => d \in OldId \/ Members(d[1]) = {}]_vars

\* What a term lo-hi:step means.
Denoted(t) == {n \in t.lo..t.hi : \E m \in 0..t.hi : n = t.lo + m * t.step}

\* The tasks of an array are the numbers its spec denotes.
SpecIsExpanded ==
    indices # {} => indices = UNION {Denoted(terms[i]) : i \in DOMAIN terms}

\* The command comes to an end, whatever becomes of its attempts.
SubmitSettles == <>(client \in {"ok", "failed", "rejected"})
=============================================================================
