CONSTANTS
    Jobs = {a, b, c}
    Slots = {0, 1}
    MaxPending = 2
    MaxInFlight = 1
    Urgent = {c}
    Transferred = {}
    Stamped = {b}
    Throwing = {}
    Survives = FALSE
    MaxErrors = 2
    None = None
SPECIFICATION PoolFairSpec
INVARIANTS
    NoStall
PROPERTIES
    JobSettles
CHECK_DEADLOCK FALSE
