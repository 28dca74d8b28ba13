CONSTANTS
    Keys = {a, b}
    EditKeys = {a}
    Callers = {t}
    TickCalls = {t}
    FlushCalls = {}
    Facade = facade
    Closer = closer
    Poisoned = {}
    Limit = 2
    MaxEpoch = 2
    ZeroLimit = 1
    MaxRounds = 2
    MaxOutages = 1
    Resets = TRUE
    None = None
SPECIFICATION GameSpec
INVARIANTS
    OverlayCovers
    RecoveryArmed
    FailedResetKeeps
CHECK_DEADLOCK FALSE
