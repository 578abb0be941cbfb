SPECIFICATION FairSpec
CONSTANTS
    c1 = c1
    c2 = c2
    Callers = {c1, c2}
    Ops = {"devices", "rpc"}
    MaxRetries = 1
    Timeout = 1
    Margin = 1
    ExpiresIn = 3
    CacheTTL = 2
    Cancels = TRUE
    LastBegin = 2
    MaxCalls = 2
INVARIANTS TokenLive CacheAge
PROPERTIES CallsReturn
CHECK_DEADLOCK FALSE
