SPECIFICATION FairSpec
CONSTANTS
    LineKinds = {"echo", "other", "long"}
    IdModulus = 2
    SendCap = 1
    MaxLines = 4
    MaxMessages = 1
INVARIANTS TypeOK WriterHoldsItsData RequestsFollowCommands NoTwoInARowDropped
PROPERTIES LinesDispatched ClientEndsWithServer
CHECK_DEADLOCK FALSE
