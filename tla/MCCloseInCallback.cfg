SPECIFICATION Safety
CONSTANTS
    AllowedSets <- HeaderSets
    Upgraded = TRUE
    AppCloses = "any"
    Command = TRUE
    MaxMsgs = 1
INVARIANT NoBrokerConnLeft
CHECK_DEADLOCK FALSE
