CONSTANTS
    p1 = p1
    p2 = p2
    t1 = t1
    t2 = t2
    key = key
    Absent = Absent
    r1 = r1
    r2 = r2
    None = None
    Provider = {p1, p2}
    Sender <- MCSender
    CLIENT_KEY = key
    ADMIN_KEY = key
    Request = {r1, r2}
    Name <- MCName
    Model = {"m"}
    Alias <- MCAlias
    ModelPart <- MCModelPart
    Row <- MCRow
    Ask <- MCAsk
    Status = {200, 502, 504}
    MaxOrder = 1
    Target = {t1, t2}
    Response = {0, 200}
    MaxEvents = 2
SPECIFICATION MCSpec
PROPERTIES RefusedForCause KeepsPromise
