\* Jobs and arrays, every kind of dependency; time-outs, a missing server, a
\* locked database and crashes; attempts of an array do not overlap.
CONSTANTS
    a = a
    p = p
    u = u
    OldArray = {a}
    OldIndex <- TwoTasks
    OldJob = {p}
    Unknown = u
    Terms <- SomeTerms
    Deps <- SomeDeps
    NoTask <- None
    MaxTasks = 3
    MaxAttempts = 3
    Fault = {"noServer", "timeout", "budget", "busy", "crash"}
    MaxFaults = 2
SPECIFICATION Spec
CHECK_DEADLOCK FALSE
INVARIANTS
    SubmittedOnce
    ReplyIsTrue
    FailureIsTrue
    SpecIsExpanded
PROPERTIES
    DepsAreExpanded
    SubmitSettles
