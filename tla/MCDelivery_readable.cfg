CONSTANTS
    None = None
    Size <- MCSize
SPECIFICATION Spec
INVARIANTS ArrivesReadable
CHECK_DEADLOCK FALSE
