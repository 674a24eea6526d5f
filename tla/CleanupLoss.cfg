\* One request to archive one ended job; a job that depends on it is submitted
\* while it runs.
CONSTANTS
    Job = {j1, j2}
    Op = {r1}
    Name = {n1}
    Chunk = 2
    Fault = {"newDependent"}
    MaxFaults = 0
SPECIFICATION Spec
CHECK_DEADLOCK FALSE
INVARIANT NothingLost
