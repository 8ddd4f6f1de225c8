SPECIFICATION MCSpec
CONSTANTS
    Callers = {c1, c2}
    Nobody = Nobody
    None = None
    Broken = Broken
    Error = Error
    RefreshBefore = 2
    MaxAttempts = 2
    MaxTime = 1
    NoToken = NoToken
    Margin = 1
    Lifetime = 3
    LastMoment = 4
    MaxTokens = 8
    MaxFaults = 2
INVARIANTS
    CacheNeverGoesBack
    NeverResendsRefused
PROPERTIES
    NeverAnswersExpired
    FailsOnlyWithoutUsable
    EveryCallAnswered
    EventuallyLoads
