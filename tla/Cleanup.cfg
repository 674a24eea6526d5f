\* Two requests of any kind at a time (no two cleanups: the second is refused);
\* chunks of two of the three jobs; one crash, abort, failed read, failed copy or
\* failed delete of a request that does not archive.
CONSTANTS
    Job = {j1, j2, j3}
    Op = {r1, r2}
    Name = {n1, n2}
    Chunk = 2
    Fault = {"crash", "abort", "readFails", "copyFails", "deleteFails"}
    MaxFaults = 1
SPECIFICATION Spec
CHECK_DEADLOCK FALSE
SYMMETRY Symmetry
INVARIANTS
    NothingLost
    ChunkIsDeletable
    KeptJobsIntact
    CleanupGuarded
PROPERTIES
    PlanIsExact
    SealedIsFinal
