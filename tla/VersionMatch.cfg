SPECIFICATION Spec
CONSTANTS
    Version <- MCVersion
    PlatResults = {"SUCCESS", "ERR_IO"}
INVARIANTS AgreesWithPrecedence ConsistentComparisons PrefixStandsForReleases
