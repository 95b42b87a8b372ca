SPECIFICATION Spec
CONSTANTS
    r1 = r1
    r2 = r2
    r3 = r3
    Runs = {r1, r2}
    LastDate = 2
    NoRun = NoRun
    NoKey = NoKey
    CacheTTL = 1
    RunKinds = {"scheduled", "manual", "reanalyze", "data_only", "replay"}
    RawIndicators = TRUE
    LockEnabled = FALSE
    MaxFaults = 1
    Admins = {a1}
    Readers = {}
    MaxPublications = 3
    a1 = a1
    p1 = p1
SYMMETRY Symmetry
CHECK_DEADLOCK FALSE
INVARIANTS
    TypeOK
    PassedUnlessRedone
    ManualNeedsApproval
    RowFollowsSnapshot
PROPERTIES
    PublicationRefines
