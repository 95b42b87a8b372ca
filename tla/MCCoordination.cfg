CONSTANTS
    \* the runtime configuration
    a = a
    b = b
    None = None
    Types <- MCTypes
    Versions = {"v1", "v2"}
    Contents = {"x", "y"}
    FirstVersion = "v1"
    FirstContent = "x"
    Candidates = {"y"}
    ValidBundles <- MCValidBundles
    WeightType = a
    Processes = {"p1", "p2"}
    Servers = {"p1"}
    Strict = TRUE
    MaxActivations = 2
    MaxStages = 1
    \* the trace stream
    MaxEvents = 4
    MaxAttempts = 2
    PageSize = 2
    \* research
    NoRow = NoRow
    ResearchModes = {"mock", "live", "disabled"}
    ResearchAttempts = 2
    MaxReviews = 2
    \* the flow
    NumIndicators = 2
    MaxClusters = 2
    Workers = 2
    CalcRetries = 1
    \* event intelligence
    Aliases = {"qwen_fast", "deepseek_fast", "deepseek_reasoning", "deepseek_high", "gpt_expert"}
    Route <- MCRoute
    Configured <- MCConfigured
    Repairs = 1
    Retries = 1
    Factors = {"f", "x"}
    AllowedFactors = {"f"}
    Strengths = {1, 3, 4}
    TierSets <- MCTierSets
    \* the run lock
    LockWorkers = {"w1", "w2", "w3"}
    LockKeys = {"k1", "k2"}
    NoOwner = NoOwner
    NoKey = NoKey
    LockEnabled = TRUE

SPECIFICATION CoordinationSpec

INVARIANTS
    PartsTypeOK
    ActiveBundleSound
    StagesShareBundle
    DoneAfterDrain
    ReviewableIsBacked
    PreparedIsWhole
    CostContract
    ContestedIsReviewed
    Exclusive
    HeldIsStored

PROPERTY EveryPartSettles

\* every part comes to its end, and then nothing is left to do
CHECK_DEADLOCK FALSE
