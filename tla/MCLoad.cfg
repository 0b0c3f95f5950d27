SPECIFICATION LoadSpec
CONSTANTS
    Calls = {c1, c2}
    Others = {}
    Closers = {r}
    OtherMsgs = {}
    Runner = r
INVARIANTS NextHasRoom WaitsForCalls
PROPERTIES OneAtATime StopEnds
CHECK_DEADLOCK FALSE
