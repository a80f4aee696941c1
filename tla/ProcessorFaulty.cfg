SPECIFICATION Spec
CONSTANTS
    ComponentId = {"app", "d1", "d2"}
    MaxSlots = 3
    MaxComponents = 2
    MaxManifests = 3
    MaxSeqDepth = 5
    CreateResults = {"SUCCESS"}
    ReleaseResults = {"SUCCESS", "ERR_CRASH"}
    DependencyDenied = TRUE
    PlatResults = {"SUCCESS"}
    LoadResults = {"SUCCESS"}
    AuthResults = {"SUCCESS", "FAIL_CONDITION"}
    Worlds <- MCChains
    Calls = {6}
CONSTRAINT RefCountBound
INVARIANTS StacksAgree
PROPERTIES UsesRegistry ProcessesWhatWasChecked
