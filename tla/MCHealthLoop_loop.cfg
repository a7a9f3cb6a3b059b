CONSTANTS
    p1 = p1
    p2 = p2
    t1 = t1
    t2 = t2
    t3 = t3
    Provider = {p1, p2}
    Target = {t1, t2, t3}
    Response = {0, 200}
    Raises = {}
    Malformed = {t3}
    StoreFails = TRUE
    MaxEvents = 3
SPECIFICATION MCSpec
INVARIANTS TypeOK NotSlandered
PROPERTIES Converges EachProbed
CHECK_DEADLOCK FALSE
