SPECIFICATION SpecHistory
CONSTANTS
    ComponentId = {c1, c2, c3}
    MaxSlots = 2
    MaxComponents = 2
    MaxManifests = 3
    CreateResults = {"SUCCESS", "ERR_UNSUPPORTED_COMPONENT_ID"}
    ReleaseResults = {"SUCCESS", "ERR_CRASH"}
    DependencyDenied = TRUE
CONSTRAINT RefCountBound
INVARIANTS TypeOK HandlesMatch OneSlotPerComponent
    NoDanglingUnlessDenied ExactUntilMishap PoolEmptyUntilMishap
PROPERTIES IdentityStable
