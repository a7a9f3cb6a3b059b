CONSTANTS
    p1 = p1
    p2 = p2
    k1 = k1
    k2 = k2
    Provider = {p1, p2}
    Key = {k1, k2}
    Amount = {0, 1, 2}
    Answer <- MCAnswer
    None = None
    Failed = Failed
    MonitorsLoad = TRUE
    StoreFails = TRUE
    MaxEvents = 2
SPECIFICATION MCSpec
INVARIANTS TypeOK ExcludedForCause
PROPERTIES LastKnownGood Settles
CHECK_DEADLOCK FALSE
