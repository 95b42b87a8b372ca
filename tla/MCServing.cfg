SPECIFICATION FairSpec
CONSTANTS
    r1 = r1
    r2 = r2
    r3 = r3
    a1 = a1
    p1 = p1
    NoRun = NoRun
    NoKey = NoKey
    Runs = {r1, r2}
    LastDate = 2
    RunKinds = {"scheduled"}
    RawIndicators = TRUE
    LockEnabled = FALSE
    MaxFaults = 0
    CacheTTL = 2
    Admins = {a1}
    Readers = {p1}
    MaxPublications = 2
CHECK_DEADLOCK FALSE
INVARIANTS
    ServedIsPublished
PROPERTIES
    CacheConverges
