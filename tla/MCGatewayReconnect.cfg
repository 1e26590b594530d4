CONSTANTS
    d1 = d1
    d2 = d2
    Dialers <- MCOneDialer
    MaxConnects = 2
    MaxFrames = 2
    Depth = 1
    MayClose = FALSE
SPECIFICATION Spec
CHECK_DEADLOCK FALSE
INVARIANTS
    ReconnectIsSafe
