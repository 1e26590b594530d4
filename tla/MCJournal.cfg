CONSTANTS
    c1 = c1
    c2 = c2
    p1 = p1
    h1 = h1
    NoHash = NoHash
    NoEntry = NoEntry
    ChangeSets <- MCChangeSets
    Paths <- MCPaths
    Hashes <- MCHashes
    OpTypes <- MCOpTypes
    MaxOps = 2
    MaxErrors = 2
SPECIFICATION Spec
SYMMETRY MCSymmetry
INVARIANTS
    TypeOK
    AcknowledgedSurvives
    FileBehindMemory
PROPERTIES
    DurableLogGrows
