SPECIFICATION FairSpec
CONSTANTS
    Worlds <- MCWorlds
    Ontology <- MCOntology
    Builders = {"mock", "netbox", "controller"}
    Numerals = {"65000", "65001"}
    Limit = 2
    NoOne = none
CHECK_DEADLOCK FALSE
INVARIANTS FailureIsolated TransformsSound CrashCause
PROPERTIES SyncEnds
