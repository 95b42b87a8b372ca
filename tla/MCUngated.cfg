SPECIFICATION Spec
CONSTANTS
    r1 = r1
    r2 = r2
    r3 = r3
    a1 = a1
    p1 = p1
    NoRun = NoRun
    NoKey = NoKey
    Runs = {r1, r2}
    LastDate = 1
    RunKinds = {"manual", "reanalyze"}
    RawIndicators = TRUE
    LockEnabled = TRUE
    MaxFaults = 1
    CacheTTL = 1
    Admins = {a1}
    Readers = {}
    MaxPublications = 2
CHECK_DEADLOCK FALSE
INVARIANT
    PublishedPassedGate
