SPECIFICATION NotesFairSpec
CONSTANTS
    ann = ann
    bob = bob
    x = x
    y = y
    w = w
    m = m
    k = k
    r1 = r1
    r2 = r2
    q1 = q1
    q2 = q2
    Null = Null
    Unset = Unset
    Users = {ann, bob}
    Names = {"a", "b", "d"}
    LongNames = {}
    Titles = {"s", "t", "u"}
    Seeds = {x, y, w}
    InitialFolders <- MCInitial
    NoteSeeds = {m, k}
    InitialNotes <- MCNotes
    Requests = {r1, r2}
    NoteRequests = {q1, q2}
    PoolLimit = 2
    Workload <- MCWorkload
    NoteWorkload <- MCNoteWorkload
INVARIANTS
    NotesTypeOK
    NotesInOwnFolder
    TakenFromTree
    NoteKept
    UpdateTakesEffect
PROPERTIES
    NotesOnlyByOwner
    UpdatesMerge
    AllNotesAnswered
CHECK_DEADLOCK FALSE
