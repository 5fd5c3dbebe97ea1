SPECIFICATION Spec
CONSTANTS
    SizeModulus = 64
    VarintBase = 2
    MaxBufferSize = 16
    IdModulus = 3
    MaxPieces = 5
    MaxCommands = 4
INVARIANTS EchoIsFaithful AssertionsHold RefusedOnlyNearLimit
CHECK_DEADLOCK FALSE
