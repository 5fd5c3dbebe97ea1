SPECIFICATION Spec
CONSTANTS
    GreetingSize = 50
    ResponseSize = 20
    RecvBufferSize = 128
    MaxFrames = 2
INVARIANTS ReturnsWhenClosed
CHECK_DEADLOCK FALSE
