CONSTANTS
    Jobs = {a, b, c, d}
    Slots = {0, 1}
    MaxPending = 1
    MaxInFlight = 2
    Urgent = {c}
    Transferred = {b}
    Stamped = {b}
    Throwing = {}
    Survives = TRUE
    MaxErrors = 1
    None = None
SPECIFICATION PoolSpec
INVARIANTS
    OneOutcome
    WithinCaps
    RecordMarked
PROPERTIES
    SilentAfterDispose
    MarkersLeakLate
CHECK_DEADLOCK FALSE
