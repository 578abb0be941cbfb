SPECIFICATION Spec
CONSTANTS
    Directories <- MCDirectories
    Resources <- MCResources
    Hole = hole
    NoModel = none
    MaxBatch = 3
CHECK_DEADLOCK FALSE
INVARIANTS LoadVerdict Inherited AcceptedConforms MappingExact GraphFaithful
