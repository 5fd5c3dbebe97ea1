SPECIFICATION Spec
CONSTANTS
    ClientHandlers = {"echo"}
    Oversized = {}
    AcceptErrors = FALSE
    SendCaps = {2}
    MaxConns = 1
    MaxRequests = 3
    MaxHalves = 6
INVARIANTS HoldsUntilSent
CHECK_DEADLOCK FALSE
