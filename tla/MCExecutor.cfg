SPECIFICATION FairSpec
CONSTANTS
    t1 = t1
    t2 = t2
    slow = slow
    flaky = flaky
    good = good
    Callers = {t1, t2}
    Keys = {slow, flaky, good}
    Candidates <- Shared
    Blocking = {slow, good}
    Failing = {flaky}
    Slow = {slow}
    Retries = 1
    Threshold = 2
    Cooldown = 2
    PoolSize = 2
INVARIANTS
    TypeOK
    FailuresBounded
PROPERTIES
    EveryCallReturns
    NoPrimaryBanned
