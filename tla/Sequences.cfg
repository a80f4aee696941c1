SPECIFICATION FairSpec
CONSTANTS
    MaxSlots = 2
    MaxComponents = 3
    MaxManifests = 1
    MaxSeqDepth = 3
    PlatResults = {"SUCCESS", "FAIL_CONDITION", "ERR_TIMEOUT"}
    Setups <- MCPrograms
    Dependencies = {1}
INVARIANTS TypeOK CallChain NoStaleResult AgreesWithReference SoftFailureStaysInside HardErrorIsFinal
PROPERTIES MovesForward Termination OnlySelectedTouched ValidationIsPure
