\* One runner with 3 procs, 3 units of memory and 1 gpu for jobs that do not all
\* fit, two jobs per invocation and two invocations; one fault of any kind.
CONSTANTS
    j1 = j1
    j2 = j2
    j3 = j3
    gpu = gpu
    Job = {j1, j2, j3}
    Parents <- ChainParents
    Me = Me
    NoRunner = NoRunner
    Procs <- SomeProcs
    Mem <- SomeMem
    Resource = {gpu}
    Types <- NoTypes
    Want <- OneGpu
    Suits = {j1, j2, j3}
    Timed = {j3}
    Hangs = {j3}
    MaxProcs = 3
    MaxMem = 3
    Pool <- GpuPool
    MaxJobs = 2
    Forever = TRUE
    Fault = {"claimLost", "readLost", "cancelLost", "reportLost", "startFails", "crash", "interrupt", "drain", "cancel"}
    MaxFaults = 1
    MaxStarts = 2
SPECIFICATION FairSpec
CHECK_DEADLOCK FALSE
INVARIANTS
    CapacityConserved
    ResourcesWithinPool
    NoLostWakeup
    ReportsAreTrue
PROPERTIES
    RunsOnceAfterParents
    LifecycleRespected
    CanceledDies
    EveryJobEnds
    DrainEnds
