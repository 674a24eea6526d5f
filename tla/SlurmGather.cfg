\* An array and a job that gathers it, one runner, every fault but lost claims,
\* one crash at any point, cancels of jobs and of the array, room for two tasks
\* in SLURM.
CONSTANTS
    j1 = j1
    j2 = j2
    j3 = j3
    a1 = a1
    p1 = p1
    r1 = r1
    h1 = h1
    NoArray = NoArray
    NoRunner = NoRunner
    NoHost = NoHost
    Host = {h1}
    RunnerId = {r1}
    Job = {j1, j2, j3}
    Array = {a1}
    ArrayOf <- InArrays
    ArrayIndex <- SecondIsOne
    Parents <- Gather
    Pass = {p1}
    RunnerOf <- SameId
    HostOf <- OneHost
    RecoverOrphans = {}
    RecoverHostless = {}
    MaxUserJobs = 2
    MaxJobs <- Unset
    MinArray = 0
    FullArray = FALSE
    MinAge = 0
    ClaimTime = 0
    SbatchTime = 0
    MarkTime = 0
    CancelTarget <- OneOrArray
    Fault = {"writeLost", "sbatchFails", "nodeFail", "timeLimit", "markLost",
             "readLost", "squeueFails", "crash"}
    MaxCrashes = 1
    MaxSbatch = 3
SPECIFICATION Spec
INVARIANTS
    ParentsRunFirst
    StatusMatchesSlurm
    LiveQueueBounded
PROPERTIES
    LifecycleRespected
