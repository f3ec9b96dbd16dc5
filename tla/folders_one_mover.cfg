SPECIFICATION FairSpec
CONSTANTS
    ann = ann
    bob = bob
    x = x
    y = y
    z = z
    w = w
    r1 = r1
    r2 = r2
    r3 = r3
    Null = Null
    Unset = Unset
    Users = {ann, bob}
    Names = {"a", "b", "c", "d", "long"}
    LongNames = {"long"}
    Seeds = {x, y, z, w}
    InitialFolders <- MCInitial
    Requests = {r1, r2, r3}
    PoolLimit = 2
    Workload <- OneMoverWorkload
INVARIANTS
    Acyclic
PROPERTIES
    UniqueUnlessRaced
    AllAnswered
CHECK_DEADLOCK FALSE
