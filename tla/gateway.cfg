SPECIFICATION GatewaySpec
CONSTANTS
    r1 = r1
    r2 = r2
    r3 = r3
    Requests = {r1, r2, r3}
    Threshold = 3
    Panics = TRUE
    Series = {"cpu", "memory"}
    Burst = 2
CHECK_DEADLOCK FALSE
INVARIANTS ClosedBelowThreshold AtMostTwoProbes FailuresJustified MetricsFaithful
PROPERTIES KeepsBreaker ServiceResumes
