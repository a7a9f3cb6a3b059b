CONSTANTS
    p1 = p1
    p2 = p2
    s1 = s1
    k1 = k1
    k2 = k2
    Empty = Empty
    ApiKeys <- MCApiKeys
    EncKey = {"x", "y"}
    None = None
    Provider = {p1, p2}
    Bearer = {s1}
    Rank = {1}
    Strategy = {"priority"}
    SeedStrategy = "priority"
    MaxOrder = 2
    Seed <- MCSeed
SPECIFICATION Spec
INVARIANTS TypeOK RankedUnlessCut NoOrphans OrderKept KeyKept
PROPERTIES SeededInOrder HandlersAreSteps
