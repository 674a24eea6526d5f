---------------------------- MODULE MCSlurmRunner ----------------------------
(***************************************************************************)
(* TLC instances of SlurmRunner.                                           *)
(*   gather, live : the tasks j1, j2 of array a1, a plain job j3 after     *)
(*                  both;                                                  *)
(*   recovery     : the two tasks alone.                                   *)
(***************************************************************************)
EXTENDS SlurmRunner

CONSTANTS j1, j2, j3, a1, p1, r1, h1

InArrays     == [j \in Job |-> IF j \in {j1, j2} THEN a1 ELSE NoArray]
SecondIsOne  == [j \in Job |-> IF j = j2 THEN 1 ELSE 0]

NoParents    == [j \in Job |-> {}]
Gather       == [j \in Job |-> IF j = j3 THEN {j1, j2} ELSE {}]

SameId       == [p \in Pass |-> r1]
OneHost      == [p \in Pass |-> h1]

Unset        == -1

OneJob       == {{j} : j \in Job}
OneOrArray   == OneJob \cup {{j \in Job : ArrayOf[j] = a} : a \in Array}
=============================================================================
