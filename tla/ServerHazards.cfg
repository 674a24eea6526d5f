\* All hazards: what goes wrong is repaired.
CONSTANTS
    Server = {s1, s2}
    NoServer = NoServer
    Request = {r1}
    MaxRetries = 1
    Env = {"forced", "slowTeardown", "recoveryRace"}
SPECIFICATION FairSpec
INVARIANT
    RetryIsSafe
PROPERTIES
    OrphanStepsDown
    RequestSettles
