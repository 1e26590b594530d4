CONSTANTS
    b1 = b1
    b2 = b2
    r1 = r1
    r2 = r2
    Nobody = Nobody
    Stale = Stale
    Login = Login
    Bridges <- MCOneBridge
    Requests <- MCOneRequest
    Accepting <- MCNone
    MaxLinks = 2
SPECIFICATION Spec
PROPERTIES
    ReachedMeansPaired
