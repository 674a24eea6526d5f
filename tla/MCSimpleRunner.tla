--------------------------- MODULE MCSimpleRunner ---------------------------
(***************************************************************************)
(* The TLC instance of SimpleRunner: j1 and j2 compete for the one gpu; j3    *)
(* waits for j1, runs beside j2, hangs, and has a walltime.                *)
(***************************************************************************)
EXTENDS SimpleRunner

CONSTANTS j1, j2, j3, gpu

ChainParents == [j \in Job |-> IF j = j3 THEN {j1} ELSE {}]

SomeProcs == [j \in Job |-> IF j = j3 THEN 2 ELSE 1]
SomeMem   == [j \in Job |-> IF j = j2 THEN 2 ELSE 1]
OneGpu    == [j \in Job |-> [n \in Resource |-> IF j = j3 THEN 0 ELSE 1]]
NoTypes   == [n \in Resource |-> {}]
GpuPool   == [n \in Resource |-> 1]
=============================================================================
