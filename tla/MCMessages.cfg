SPECIFICATION Safety
CONSTANTS
    Names = {"EXP", "LOG", "CALL"}
    Subjects = {s1, s2}
    Headers <- SomeHeaders
    MaxMsgs = 4
INVARIANTS Correlated HeaderRestricts IInv
CHECK_DEADLOCK FALSE
