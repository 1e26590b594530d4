CONSTANTS
    c1 = c1
    c2 = c2
    h1 = h1
    h2 = h2
    NoHash = NoHash
    NoEntry = NoEntry
    NoPath = NoPath
    ChangeSets <- MCTwo
    Handlers <- MCTwoHandlers
    Paths <- MCPaths
    TreePaths <- MCPaths
    Texts <- MCTexts
    Hashes <- MCHashes
    OpTypes <- MCOpTypes
    Requests <- MCRequests
    Trees <- MCTrees
    MaxFaults = 2
SPECIFICATION MCSpec
SYMMETRY MCSymmetry
CHECK_DEADLOCK FALSE
INVARIANTS
    PatchTypeOK
    RolledBackMeansRestored
    NothingLost
    ReversibleIsUndoable
    CompletedIsRecorded
    InterruptedApplyIsPending
