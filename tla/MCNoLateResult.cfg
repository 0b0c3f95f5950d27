SPECIFICATION Spec
CONSTANTS
    Items = {i1}
    Timed = i1
    Callees = {k1}
    Workers = {w1}
    Server = s
    Timeouts = {4}
    CallCaps = {0}
    ResultCaps = {0}
    Ms = 2
    DefaultMs = 2
    MaxTime = 8
    None = None
PROPERTIES NoLateResult
CHECK_DEADLOCK FALSE
