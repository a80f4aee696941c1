SPECIFICATION Spec
CONSTANTS
    ComponentId = {"app", "d1", "d2"}
    MaxSlots = 3
    MaxComponents = 2
    MaxManifests = 2
    MaxSeqDepth = 5
    CreateResults = {"SUCCESS"}
    ReleaseResults = {"SUCCESS"}
    DependencyDenied = FALSE
    PlatResults = {"SUCCESS", "FAIL_CONDITION", "ERR_TIMEOUT"}
    LoadResults = {"SUCCESS", "ERR_AUTHENTICATION"}
    AuthResults = {"SUCCESS"}
    Worlds <- MCOneDependency
    Calls = {6, 9}
INVARIANTS IdleIsClean
PROPERTIES ProcessesWhatWasChecked DependencySharedHasNoEffect RehearsedOnlyInDryRun IntegrityFailsSoftly
