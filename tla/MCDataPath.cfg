CONSTANTS
    \* the bridge's client
    Threads = {"t1","t2"}
    Pages = 2
    PageTTL = 1
    PageBackoff = 1
    FrameTTL = 1
    FrameBackoff = 2
    PageAttempts = 1
    Nothing = Nothing
    \* earnings snapshots
    Requests = {"r1","r2"}
    Stocks = {"s1","s2"}
    DayLength = 2
    WindowDays = 1
    MaxClock = 3
    MaxSaves = 3
    NoValue = NoValue
    \* the indicator store
    ObsDates = {1, 2}
    ObsValues = {"x", "y"}
    Collectors = {"c1", "c2"}
    SourceKinds = {"live", "dated", "external"}
    HistoryLimit = 2
    MaxTime = 2
    MaxCollections = 2
    MaxPushes = 3
    MaxRevisions = 1
    NoObs = NoObs
    \* the computations
    FreshAge = 1
    HardAge = 4
    Floor = 40
    Window = 4
    ScoredAssets = {"CSI300", "RMB_GOLD"}
    GoldAsset = "RMB_GOLD"
    Everywhere = "ALL"
    Sensitivity <- MCSensitivity
    GroupOf <- MCGroupOf
    GroupCap <- MCGroupCap
    HorizonWeight <- MCHorizonWeight
    CriticalFactors <- MCCriticalFactors
    CriticalCap = 700
    MaxDocuments = 3
    Lookback = 4
    MaxGap = 2
    ClusterBudget = 2
    CalculatorInputs <- MCCalculatorInputs
    Ages <- MCAges
    Histories <- MCHistories
    RowSets <- MCRowSets
    Feeds <- MCFeeds
    Cutoffs <- MCCutoffs
    EventSets <- MCEventSets

SPECIFICATION DataSpec

INVARIANTS
    DataTypeOK
    VintageExact
    StoredHistoryKept
    EarningsPointInTime
    StalenessBounded
    WholeOrMuted
    AgeingNeverHelps
    DirectionKept
    ScoreSound
    EventsMergeOnce

PROPERTY BridgeRecovers

\* a part that has answered its requests, or has computed, is at rest
CHECK_DEADLOCK FALSE
