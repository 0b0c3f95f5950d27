SPECIFICATION MCSpec
CONSTANTS
    Items = {i1, i2}
    Timed = i1
    Callees = {k1}
    Workers = {w1, w2}
    Server = s
    Timeouts = {5}
    CallCaps = {1}
    ResultCaps = {1}
    Ms = 2
    DefaultMs = 2
    MaxTime = 7
    None = None
INVARIANTS OneWorker
PROPERTIES CallsSettle StreamsEnd ImplementsRpc StoredLateOnlyByWait AnsweredLateOnlyByWait
CHECK_DEADLOCK FALSE
