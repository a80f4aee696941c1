SPECIFICATION Spec
CONSTANTS
    Envelope <- MCEnvelope
    Manifest <- MCManifest
    MaxManifests = 2
    Unsigned = {"local"}
    Authorized <- MCAuthorized
    VersionParts <- MCParts
    CreateResults = {"SUCCESS", "ERR_UNSUPPORTED_COMPONENT_ID"}
    SequenceNumResults = {"SUCCESS", "ERR_TIMEOUT"}
    ReleaseResults = {"SUCCESS", "ERR_CRASH"}
    Asked <- MCAsked
    Wanted <- MCWanted
    Rooms = {2, 5}
INVARIANTS TypeOK CreatedOnlyIfAcceptable MetadataIsTruthful FreeWhenIdle
PROPERTIES ImplementsAcceptance
