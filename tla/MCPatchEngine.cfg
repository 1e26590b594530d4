CONSTANTS
    c1 = c1
    x = x
    y = y
    n = n
    NoHash = NoHash
    NoEntry = NoEntry
    NoPath = NoPath
    NoText = NoText
    Missing = Missing
    ChangeSets <- MCOne
    TreePaths <- MCPaths
    Texts <- MCTexts
    OpTypes <- MCOpTypes
    Proposals <- MCProposals
    Trees <- MCTrees
    Edits <- MCEdits
    ScenePaths <- MCScenes
    ResourcePaths <- MCResources
    ProjectFile <- project
    Settings <- MCSettings
    MaxFaults = 2
    MaxEdits = 1
SPECIFICATION Spec
CHECK_DEADLOCK FALSE
INVARIANTS
    EngineTypeOK
    EffectsAreJournalled
    PreimageIsOriginal
    CompletedMatchesTree
    PreflightIsEnough
PROPERTIES
    OnlyThatSetting
