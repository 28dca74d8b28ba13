CONSTANTS
    Keys = {a, b, c}
    Callers = {t, f}
    None = None
    Poisoned = {b, c}
    Limit = 2
    MaxEpoch = 2
SPECIFICATION KeepSpec
INVARIANTS
    SingleFlight
    NewerThanStore
PROPERTIES
    ImplementsStore
    MarksStay
    CallSettles
    EventuallyDurable
