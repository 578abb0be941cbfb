SPECIFICATION FairSpec
CONSTANTS
    p1 = p1
    p2 = p2
    u1 = u1
    u2 = u2
    s1 = s1
    s2 = s2
    s3 = s3
    Procs = {p1, p2}
    Snaps = {s1, s2}
    Default = default
    Uris <- OneUri
    Rels <- NoRels
    Labels <- MCLabels
    Types <- MCTypes
    LabelOf <- OneLabel
    TypeOf <- NoTypeOf
    Models <- OneModel
    Jobs <- OverlapJobs
    MaxCopies = 2
    MaxActive = 1
    Faults = FALSE
    Crashes = FALSE
    UseRepo = FALSE
    Retention = FALSE
    Careless = FALSE
INVARIANTS ActiveBound
PROPERTIES CallsReturn
