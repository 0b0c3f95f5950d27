SPECIFICATION Spec
CONSTANTS
    AllowedSets <- HeaderSets
    Upgraded = TRUE
    AppCloses = "connected"
    Command = TRUE
    MaxMsgs = 1
INVARIANTS CallbackOrder NoBrokerConnLeft NoNilConn IInv
PROPERTIES CloseErrKept AllEnd
CHECK_DEADLOCK FALSE
