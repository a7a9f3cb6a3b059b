CONSTANTS
    p1 = p1
    p2 = p2
    p3 = p3
    key = key
    agent = agent
    Absent = Absent
    r1 = r1
    r2 = r2
    None = None
    Provider = {p1, p2}
    Sender <- MCSender
    CLIENT_KEY = key
    ADMIN_KEY = key
    Request = {r1, r2}
    Name <- MCName
    Model = {"m"}
    Alias <- MCAlias
    ModelPart <- MCModelPart
    Row <- MCRow
    Ask <- MCAsk
    Status = {200, 502, 504}
    MaxOrder = 1
    MaxEvents = 2
SPECIFICATION MCSpec
INVARIANT OverrideForced
CHECK_DEADLOCK FALSE
