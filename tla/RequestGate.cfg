CONSTANTS
    k1 = k1
    k2 = k2
    m1 = m1
    m2 = m2
    None = None
    Modes = {"dev-header", "bearer-jwt"}
    Requests = {r1, r2}
    Keys = {k1, k2}
    Tokens <- MCTokens
    MessageIds = {m1}
    Buckets = {"messages", "sessions"}
    LimitOf <- MCLimitOf
    WindowOf <- MCWindowOf
    EvictEvery = 2
    TicksPerSecond = 2
    Refresh = 2
    Fetching = 1
    SkewS = 0
    JwksUrl = TRUE
    MaxClock = 5
    MaxChecks <- MCMaxChecks
SYMMETRY GateSymmetry
SPECIFICATION Spec
PROPERTIES RevokedKeyFades PublishedKeyAccepted LimiterExact RetryAfterSuffices
