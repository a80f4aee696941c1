SPECIFICATION FairSpec
CONSTANTS
    ComponentId = {"app", "d1", "d2"}
    MaxSlots = 3
    MaxComponents = 2
    MaxManifests = 3
    MaxSeqDepth = 4
    CreateResults = {"SUCCESS", "ERR_UNSUPPORTED_COMPONENT_ID"}
    ReleaseResults = {"SUCCESS"}
    DependencyDenied = FALSE
    PlatResults = {"SUCCESS", "FAIL_CONDITION"}
    LoadResults = {"SUCCESS"}
    AuthResults = {"SUCCESS"}
    Worlds <- MCNested
    Calls = {6}
INVARIANTS TypeOK ResumedInPlace
PROPERTIES UsesRegistry MovesForward EveryCallReturns
