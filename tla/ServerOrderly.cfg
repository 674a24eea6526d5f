\* Idle culls, crashes, failed opens and handoffs, without the three hazards.
CONSTANTS
    Server = {s1, s2, s3}
    NoServer = NoServer
    Request = {r1, r2}
    MaxRetries = 1
    Env = {}
SPECIFICATION Spec
SYMMETRY Symmetry
INVARIANTS
    DatabaseUnderLock
    HandlersKeepDatabase
