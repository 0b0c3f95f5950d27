SPECIFICATION Spec
CONSTANTS
    Calls = {c1}
    Others = {o1}
    Closers = {k1, k2}
    OtherMsgs = {"OTHER"}
INVARIANTS NeverBoth IInv
PROPERTIES NoRequestAfterStop EveryCallAnswered CloseTerminates ImplementsPromise
CHECK_DEADLOCK FALSE
