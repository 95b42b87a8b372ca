SPECIFICATION FairSpec
CONSTANTS
    r1 = r1
    r2 = r2
    r3 = r3
    a1 = a1
    p1 = p1
    NoRun = NoRun
    NoKey = NoKey
    Runs = {r1, r2}
    LastDate = 1
    RunKinds = {"scheduled", "manual", "data_only", "reanalyze"}
    RawIndicators = FALSE
    LockEnabled = TRUE
    MaxFaults = 0
    CacheTTL = 2
    Admins = {}
    Readers = {}
    MaxPublications = 2
CHECK_DEADLOCK FALSE
INVARIANTS
    OneAttemptPerKey
    LockFollowsRun
PROPERTIES
    RunSettles
