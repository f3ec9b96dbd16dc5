SPECIFICATION FairSpec
CONSTANTS
    ann = ann
    bob = bob
    n1 = n1
    n2 = n2
    r1 = r1
    r2 = r2
    r3 = r3
    r4 = r4
    Users = {ann, bob}
    Notes = {n1, n2}
    Requests = {r1, r2, r3, r4}
    PoolLimit = 2
    MaxFile = 2
    Owner <- MCOwner
    Types <- MCTypes
    Files <- MCFiles
    MaxTotal = 2
    Workload <- QuotaWorkload
    Faults = {"database"}
INVARIANTS
    MetadataHasContent
    OrphansExplained
    TornOnlyIfDeleted
    FailedUploadLeavesNoTrace
    OvershootBounded
PROPERTIES
    OneStore
    AllAnswered
CHECK_DEADLOCK FALSE
