SPECIFICATION FairSpec
CONSTANTS
    ClientHandlers = {"echo", "test"}
    Oversized = {2}
    AcceptErrors = TRUE
    SendCaps = {1, 3}
    MaxConns = 2
    MaxRequests = 2
    MaxHalves = 4
INVARIANTS TypeOK OneReadPerConnection WriteLockMatchesWrite AlwaysAccepting WritesNotInterleaved NothingLostUnlessBlocked GreetingBeforeClose ServerEndsForAReason
PROPERTIES RequestsHandled
CHECK_DEADLOCK FALSE
