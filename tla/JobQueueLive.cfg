\* The two tasks of an array with throttle 1 beside a plain job that may be their
\* parent or depend on them, one simple runner, one server crash: every job
\* ends.
CONSTANTS
    j1 = j1
    j2 = j2
    j3 = j3
    a1 = a1
    Job = {j1, j2, j3}
    Array = {a1}
    NoArray = NoArray
    ArrayOf <- TaskArrayOf
    ArrayIndex <- TaskArrayIndex
    Throttle <- TaskThrottle
    Need <- UnitNeed
    SimpleRunner = {simple}
    SlurmRunner = {}
    NoRunner = NoRunner
    Handler = {h1}
    Limit = {0}
    Budget = {0}
    MinTasks = {0}
    Priority = {0}
    MaxCrashes = 1
SPECIFICATION LiveSpec
PROPERTY
    EveryJobEnds
