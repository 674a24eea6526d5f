\* Every job ends: an array smaller than --slurm-min-array allows, one place in
\* SLURM, one job per invocation, lost claims, lost hosts and one crash at any
\* point, also between an sbatch and its hand-off, recovered by age.
CONSTANTS
    j1 = j1
    j2 = j2
    j3 = j3
    a1 = a1
    p1 = p1
    r1 = r1
    h1 = h1
    NoArray = NoArray
    NoRunner = NoRunner
    NoHost = NoHost
    Host = {h1}
    RunnerId = {r1}
    Job = {j1, j2, j3}
    Array = {a1}
    ArrayOf <- InArrays
    ArrayIndex <- SecondIsOne
    Parents <- Gather
    Pass = {p1}
    RunnerOf <- SameId
    HostOf <- OneHost
    RecoverOrphans = {}
    RecoverHostless = {p1}
    MaxUserJobs = 1
    MaxJobs = 1
    MinArray = 5
    FullArray = FALSE
    MinAge = 1
    ClaimTime = 0
    SbatchTime = 0
    MarkTime = 0
    CancelTarget = {}
    Fault = {"claimLost", "hostLost", "crash"}
    MaxCrashes = 1
    MaxSbatch = 4
SPECIFICATION FairSpec
INVARIANTS
    OnlyRecoveryResubmits
PROPERTIES
    EveryJobSettles
    InvocationCap
