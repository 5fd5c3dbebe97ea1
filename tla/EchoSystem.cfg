SPECIFICATION FairSystem
CONSTANTS
    LineKinds = {"echo"}
    IdModulus = 4
    SendCap = 1
    MaxLines = 3
    MaxMessages = 4
    ServerSendCap = 2
    Oversized = {3}
INVARIANTS PatientUserLosesNothing ClientEndsAtEof
PROPERTIES ImplementsEchoService CommandsAnswered
CHECK_DEADLOCK FALSE
