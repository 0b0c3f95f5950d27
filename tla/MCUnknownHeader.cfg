SPECIFICATION Safety
CONSTANTS
    Names = {"EXP", "LOG", "CALL"}
    Subjects = {s1, s2}
    Headers <- UnknownHeaders
    MaxMsgs = 2
INVARIANTS HeaderRestricts
CHECK_DEADLOCK FALSE
