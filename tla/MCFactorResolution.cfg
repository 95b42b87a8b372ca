SPECIFICATION Spec
CONSTANTS
    equity = equity
    gold = gold
    rates = rates
    policy = policy
    NoAsset = NoAsset
    Factors = {rates, policy}
    Assets = {equity, gold}
    Targets <- MCTargets
    MaxStale <- MCMaxStale
    NeutralIfAbsent = {policy}
    Lookback = 5
    Inputs <- MCInputs
    EventSets <- MCEventSets
    AsOfTimes = {6, 7, 11}
    MaxRuns = 3
    Sensitivity <- MCSensitivity
    Critical <- MCCritical
    PreviewCoverage = 55
    PublishCoverage = 72
    FreshCoverage = 50
    CriticalCoverage = 50
    UnavailableRatio = 45
CHECK_DEADLOCK FALSE
INVARIANTS
    TypeOK
    PointInTime
    CarriedFromEarlier
    PublishRestsOnRecent
