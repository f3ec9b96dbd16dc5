SPECIFICATION Spec
CONSTANTS
    ann = ann
    bob = bob
    x = x
    y = y
    z = z
    w = w
    r1 = r1
    r2 = r2
    r3 = r3
    Null = Null
    Unset = Unset
    Users = {ann, bob}
    Names = {"a", "b", "c", "d", "long"}
    LongNames = {"long"}
    Seeds = {x, y, z, w}
    InitialFolders <- MCInitial
    Requests = {r1, r2, r3}
    PoolLimit = 3
    Workload <- RaceWorkload
INVARIANTS
    FoldersTypeOK
    ParentSameOwner
PROPERTIES
    OnlyOwnerChanges
    DeleteLeavesNothing
    RemovedWasBelow
CHECK_DEADLOCK FALSE
