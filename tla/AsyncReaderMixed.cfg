SPECIFICATION Spec
CONSTANTS
    MaxBufferSize = 4
    PrefixSize = 2
    DiscardDelim = FALSE
    Sizes = {1, 5}
    Kinds = {"line", "frame"}
    Calls = {"until", "untilInf", "proto"}
    MaxItems = 3
    MaxCalls = 3
INVARIANTS LockMatchesRead OwnCallback BufferBounded
CHECK_DEADLOCK FALSE
