CONSTANTS
    d1 = d1
    d2 = d2
    Dialers <- MCTwoDialers
    MaxConnects = 2
    MaxFrames = 4
    Depth = 1
    MayClose = TRUE
SPECIFICATION MCSpec
CHECK_DEADLOCK FALSE
INVARIANTS
    StreamTypeOK
    OneReader
    EventsAreMessages
    CloseLeavesNothing
PROPERTIES
    CloseEnds
    EndIsSeen
