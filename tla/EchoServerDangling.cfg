SPECIFICATION Spec
CONSTANTS
    ClientHandlers = {"test"}
    Oversized = {}
    AcceptErrors = FALSE
    SendCaps = {2}
    MaxConns = 1
    MaxRequests = 1
    MaxHalves = 6
INVARIANTS NoDanglingHandler
CHECK_DEADLOCK FALSE
