SPECIFICATION Spec
CONSTANTS
    MaxBufferSize = 4
    PrefixSize = 2
    DiscardDelim = TRUE
    Sizes = {1}
    Kinds = {"line", "frame"}
    Calls = {"until", "proto"}
    MaxItems = 2
    MaxCalls = 2
INVARIANTS PrefixCountIncludesExcess
CHECK_DEADLOCK FALSE
