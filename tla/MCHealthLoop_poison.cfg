CONSTANTS
    p1 = p1
    p2 = p2
    t1 = t1
    t2 = t2
    t3 = t3
    Provider = {p1, p2}
    Target = {t1, t2}
    Response = {200}
    Raises = {t2}
    Malformed = {}
    StoreFails = FALSE
    MaxEvents = 1
SPECIFICATION MCSpec
PROPERTY EachProbed
