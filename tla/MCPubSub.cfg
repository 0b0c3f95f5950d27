SPECIFICATION Spec
CONSTANTS
    Pubs = {m1, m2}
    Conns = {k1}
    a = a
    p = p
    Channels = {a, b}
    Patterns = {p}
    Covers <- PatternCovers
    Foreign = {m2}
    MaxCmds = 3
INVARIANTS AckedTakesEffect EventOnce IInv
PROPERTIES EventsArrive EventsEnd
CHECK_DEADLOCK FALSE
