SPECIFICATION Safety
CONSTANTS
    Items = {i1, i2}
    Conns = {k1, k2}
    Timeouts <- SomeTimeouts
    Caps = {1}
    Ms = 2
    DefaultMs = 2
    MaxTime = 5
    None = None
SYMMETRY Symmetry
INVARIANTS AcceptedKept DroppedOnlyIfExpired IInv
PROPERTIES TTLWithinTimeout ImplementsQueue
CHECK_DEADLOCK FALSE
