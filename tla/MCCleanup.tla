------------------------------ MODULE MCCleanup ------------------------------
(***************************************************************************)
(* TLC instances of Cleanup.                                               *)
(***************************************************************************)
EXTENDS Cleanup

Symmetry == Permutations(Job) \cup Permutations(Op) \cup Permutations(Name)
=============================================================================
