SPECIFICATION Spec
CONSTANTS
    p1 = p1
    p2 = p2
    Procs = {p1, p2}
    Names = {"s1"}
    Versions = {1, 2, 3}
    MaxInteger = 2
    Jobs = {"create", "delete", "sync"}
    MaxCalls = 2
    MaxBoots = 2
    MaxOutages = 1
    MaxEntries = 1
    RowLimit = 2
SYMMETRY Goroutines
INVARIANTS AuditTrail VersionRecorded LogsFollowWrites
PROPERTIES MigrationFaithful
CHECK_DEADLOCK FALSE
