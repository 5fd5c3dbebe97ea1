SPECIFICATION FairSpec
CONSTANTS
    MaxBufferSize = 3
    PrefixSize = 2
    DiscardDelim = TRUE
    Sizes = {1, 3, 4}
    Kinds = {"frame"}
    Calls = {"proto"}
    MaxItems = 3
    MaxCalls = 2
INVARIANTS TypeOK LockMatchesRead OwnCallback BufferBounded DeliveredIntact PrefixCacheIsCurrent
PROPERTIES ImplementsMessageStream EverythingDelivered
CHECK_DEADLOCK FALSE
