CONSTANTS
    Lethal = {"credit", "health"}
    MaxRows = 6
SPECIFICATION Spec
INVARIANTS TypeOK ClosedUnused NothingLeftBehind
PROPERTIES ShutdownEnds
CHECK_DEADLOCK FALSE
