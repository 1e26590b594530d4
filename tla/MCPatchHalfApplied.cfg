CONSTANTS
    c1 = c1
    c2 = c2
    h1 = h1
    h2 = h2
    NoHash = NoHash
    NoEntry = NoEntry
    NoPath = NoPath
    ChangeSets <- MCOne
    Handlers <- MCOneHandler
    Paths <- MCPaths
    TreePaths <- MCPaths
    Texts <- MCTexts
    Hashes <- MCHashes
    OpTypes <- MCOpTypes
    Requests <- MCPairs
    Trees <- MCTrees
    MaxFaults = 1
SPECIFICATION Spec
CHECK_DEADLOCK FALSE
INVARIANT
    HalfAppliedIsUndone
