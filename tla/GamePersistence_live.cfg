CONSTANTS
    Keys = {a}
    EditKeys = {a}
    Callers = {t, p, closer, facade}
    TickCalls = {t}
    FlushCalls = {p, closer, facade}
    Facade = facade
    Closer = closer
    Poisoned = {}
    Limit = 1
    MaxEpoch = 1
    ZeroLimit = 2
    MaxRounds = 3
    MaxOutages = 1
    Resets = FALSE
    None = None
SPECIFICATION GameFairSpec
PROPERTIES
    SavesResume
    FacadeReturns
CHECK_DEADLOCK FALSE
