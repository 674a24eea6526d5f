\* An array of two tasks, throttle 1, beside a plain job; limits, batches and
\* priorities that matter.
CONSTANTS
    j1 = j1
    j2 = j2
    j3 = j3
    a1 = a1
    Job = {j1, j2, j3}
    Array = {a1}
    NoArray = NoArray
    ArrayOf <- TaskArrayOf
    ArrayIndex <- TaskArrayIndex
    Throttle <- TaskThrottle
    Need <- MixedNeed
    SimpleRunner = {simple}
    SlurmRunner = {slurm}
    NoRunner = NoRunner
    Handler = {h1}
    Limit = {0, 1}
    Budget = {0, 1}
    MinTasks = {0, 2}
    Priority = {0, 1}
    MaxCrashes = 0
SPECIFICATION Spec
INVARIANTS
    ClaimLock
    DependencySafety
    ThrottleRespected
PROPERTY
    ImplementsLifecycle
