SPECIFICATION Spec
CONSTANTS
    MaxSlots = 2
    MaxComponents = 2
    MaxManifests = 1
    MaxSeqDepth = 5
    PlatResults = {"SUCCESS", "FAIL_CONDITION"}
    Setups <- MCFallback
    Dependencies = {}
INVARIANTS FailedDirectiveAborts
