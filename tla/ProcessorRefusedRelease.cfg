SPECIFICATION Spec
CONSTANTS
    ComponentId = {"app", "d1", "d2"}
    MaxSlots = 3
    MaxComponents = 2
    MaxManifests = 3
    MaxSeqDepth = 5
    CreateResults = {"SUCCESS"}
    ReleaseResults = {"SUCCESS"}
    DependencyDenied = TRUE
    PlatResults = {"SUCCESS"}
    LoadResults = {"SUCCESS"}
    AuthResults = {"SUCCESS", "ERR_AUTHENTICATION"}
    Worlds <- MCChains
    Calls = {6}
PROPERTIES CheckedManifestRemoved
