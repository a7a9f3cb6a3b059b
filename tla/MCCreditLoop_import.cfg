CONSTANTS
    p1 = p1
    p2 = p2
    k1 = k1
    k2 = k2
    Provider = {p1, p2}
    Key = {k1, k2}
    Amount = {0, 1, 2}
    Answer <- MCAnswer
    None = None
    Failed = Failed
    MonitorsLoad = FALSE
    StoreFails = FALSE
    MaxEvents = 1
SPECIFICATION MCSpec
PROPERTIES EachRead
CHECK_DEADLOCK FALSE
