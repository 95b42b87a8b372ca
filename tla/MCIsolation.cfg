SPECIFICATION Spec
CONSTANTS
    t1 = t1
    t2 = t2
    slow = slow
    flaky = flaky
    good = good
    Callers = {t1}
    Keys = {slow, good}
    Candidates <- Alone
    Blocking = {slow, good}
    Failing = {}
    Slow = {slow}
    Retries = 1
    Threshold = 2
    Cooldown = 2
    PoolSize = 2
INVARIANT
    HealthyNeverCounted
