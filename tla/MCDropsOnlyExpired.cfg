SPECIFICATION Spec
CONSTANTS
    Calls = {c1}
    Others = {}
    Closers = {k1}
    OtherMsgs = {}
INVARIANT DropsOnlyExpired
CHECK_DEADLOCK FALSE
