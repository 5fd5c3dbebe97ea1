SPECIFICATION FairSpec
CONSTANTS
    MaxBufferSize = 4
    PrefixSize = 2
    DiscardDelim = TRUE
    Sizes = {0, 2, 3, 4}
    Kinds = {"line"}
    Calls = {"untilInf"}
    MaxItems = 3
    MaxCalls = 2
INVARIANTS BufferBounded DeliveredIntact
PROPERTIES ImplementsMessageStream EverythingDelivered
CHECK_DEADLOCK FALSE
