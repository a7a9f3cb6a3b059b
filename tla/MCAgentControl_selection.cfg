CONSTANTS
    p1 = p1
    p2 = p2
    a1 = a1
    s1 = s1
    Absent = Absent
    None = None
    Provider = {p1, p2}
    Agent = {a1}
    Header <- MCHeader
    Sender = {}
    CLIENT_KEY = "client"
    ADMIN_KEY = "admin"
SPECIFICATION Spec
INVARIANTS SelectionTakesEffect
