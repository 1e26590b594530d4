CONSTANTS
    c1 = c1
    c2 = c2
    NoClient = NoClient
    Clients <- MCOne
    Messages <- Message
    Depth = 1
    MaxSent = 2
    MaxNotices = 1
SPECIFICATION Spec
CHECK_DEADLOCK FALSE
INVARIANTS
    IpcTypeOK
    NothingBeforeLogin
    AnswersInOrder
    StopWaitsForHandlers
