SPECIFICATION FairSpec
CONSTANTS
    r1 = r1
    r2 = r2
    r3 = r3
    a1 = a1
    p1 = p1
    NoRun = NoRun
    NoKey = NoKey
    Runs = {r1}
    LastDate = 1
    RunKinds = {"manual", "data_only"}
    RawIndicators = TRUE
    LockEnabled = TRUE
    MaxFaults = 0
    CacheTTL = 1
    Admins = {}
    Readers = {}
    MaxPublications = 2
CHECK_DEADLOCK FALSE
PROPERTIES
    NoRunHangs
