SPECIFICATION Spec
CONSTANTS
    ComponentId = {"app", "d1", "d2"}
    MaxSlots = 3
    MaxComponents = 2
    MaxManifests = 2
    MaxSeqDepth = 5
    CreateResults = {"SUCCESS"}
    ReleaseResults = {"SUCCESS"}
    DependencyDenied = FALSE
    PlatResults = {"SUCCESS"}
    LoadResults = {"SUCCESS"}
    AuthResults = {"SUCCESS"}
    Worlds <- MCForbidden
    Calls = {6}
PROPERTIES SharedHasNoEffect
