CONSTANTS
    Keys = {a, b}
    Autos = {t}
    Flushers = {f, g}
    Closers = {g}
    None = None
    Limit = 2
    ZeroLimit = 2
    MaxEpoch = 2
SPECIFICATION ServerSpec
INVARIANTS
    PendingUntilSaved
    ClosedIsSaved
PROPERTIES
    ServerImplementsStore
    FlushEnds
