----------------------------- MODULE MCJobQueue -----------------------------
(***************************************************************************)
(* TLC instances of JobQueue.                                              *)
(*   array   : the two tasks j1, j2 of one array with throttle 1 and a     *)
(*             plain job that may depend on them or be their parent, with  *)
(*             limits, batch budgets and priorities that matter.           *)
(*   resolve : three jobs without arrays, every dependency graph.          *)
(*   live    : the jobs of array, one runner, a crash.                     *)
(***************************************************************************)
EXTENDS JobQueue

CONSTANTS j1, j2, j3, a1

PlainArrayOf    == [j \in Job |-> NoArray]
PlainArrayIndex == [j \in Job |-> 0]
PlainThrottle   == [a \in Array |-> 0]
UnitNeed        == [j \in Job |-> 1]

\* j1 and j2 are the tasks of array a1.
TaskArrayOf     == [j \in Job |-> IF j \in {j1, j2} THEN a1 ELSE NoArray]
TaskArrayIndex  == [j \in Job |-> IF j = j2 THEN 1 ELSE 0]
TaskThrottle    == [a \in Array |-> 1]

\* j3 needs more than a small runner offers.
MixedNeed       == [j \in Job |-> IF j = j3 THEN 2 ELSE 1]
=============================================================================
