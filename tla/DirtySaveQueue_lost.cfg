CONSTANTS
    Keys = {a, b}
    Callers = {t}
    None = None
    Poisoned = {}
    Limit = 2
    MaxEpoch = 2
SPECIFICATION Spec
INVARIANTS
    NothingLost
