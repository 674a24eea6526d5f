\* Three jobs over every dependency graph: deaths take all live dependents along
\* and no WAITING job is forgotten, also across a server crash.
CONSTANTS
    j1 = j1
    j2 = j2
    j3 = j3
    a1 = a1
    Job = {j1, j2, j3}
    Array = {}
    NoArray = NoArray
    ArrayOf <- PlainArrayOf
    ArrayIndex <- PlainArrayIndex
    Throttle <- PlainThrottle
    Need <- UnitNeed
    SimpleRunner = {simple}
    SlurmRunner = {}
    NoRunner = NoRunner
    Handler = {h1}
    Limit = {0}
    Budget = {0}
    MinTasks = {0}
    Priority = {0}
    MaxCrashes = 1
SPECIFICATION FairSpec
PROPERTIES
    CascadeIsAtomic
    WaitingIsResolved
