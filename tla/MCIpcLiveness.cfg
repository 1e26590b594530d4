CONSTANTS
    c1 = c1
    c2 = c2
    NoClient = NoClient
    Clients <- MCOne
    Messages <- MCSome
    Depth = 1
    MaxSent = 2
    MaxNotices = 1
SPECIFICATION Spec
CHECK_DEADLOCK FALSE
PROPERTIES
    StopReturnsUnlessLate
    RequestsAreAnswered
    BroadcastEnds
