------------------------- MODULE MCServerLifecycle -------------------------
(***************************************************************************)
(* TLC instances of ServerLifecycle.  Two processes that may be restarted  *)
(* are enough for every race: a crashed one, restarted, meets the other.   *)
(***************************************************************************)
EXTENDS ServerLifecycle, TLC

Symmetry == Permutations(Server) \cup Permutations(Request)
=============================================================================
