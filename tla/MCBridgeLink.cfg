CONSTANTS
    b1 = b1
    b2 = b2
    r1 = r1
    r2 = r2
    Nobody = Nobody
    Stale = Stale
    Login = Login
    Bridges <- MCBridges
    Requests <- MCRequests
    Accepting <- MCAccepting
    MaxLinks = 2
SPECIFICATION MCSpec
INVARIANTS
    LinkTypeOK
    UpIsReachable
    LoginFirst
    NobodyForgotten
    OnlineMeansLoggedIn
PROPERTIES
    CallsAreKept
    ComesBack
