----------------------------- MODULE NotesProofs -----------------------------
(* Theorems of Notes, for every mix of note and folder requests.  Folders  *)
(* is a component of Notes: the folder part of a behaviour of NotesSpec is *)
(* a behaviour of Spec, so that the theorems of FoldersProofs hold here    *)
(* and its invariants can be used below.                                   *)
EXTENDS Notes, FoldersProofs

LEMMA FolderRequestMoves ==
    ASSUME NEW r \in Requests, FolderRequest(r)
    PROVE  Moved(r) \/ UNCHANGED vars
  BY DEF FolderRequest, FolderMove, ReadNotes, AllRead, DropTreeAndNotes, Moved,
     Step, CheckName, CheckParent, WriteRow, DeleteRows

LEMMA NoteRequestLeavesFolders ==
    ASSUME NEW q \in NoteRequests, NoteRequest(q)
    PROVE  UNCHANGED <<vars, asked, held>>
  BY DEF NoteRequest, NoteArrive, RefuseNote, NoteStep, NoteMissing, GetNote,
     LoadNote, FolderMissing, FolderFound, RejectNote, InsertNote, WriteNote,
     RefreshNote, DropNote

LEMMA NotesStepFolders == [NotesNext]_noteVars => [Next]_vars
<1>1. CASE UNCHANGED noteVars
  BY <1>1 DEF noteVars
<1>2. ASSUME NEW r \in Requests, FolderRequest(r) PROVE [Next]_vars
  BY <1>2, FolderRequestMoves DEF Next, Moved
<1>3. ASSUME NEW q \in NoteRequests, NoteRequest(q) PROVE [Next]_vars
  BY <1>3, NoteRequestLeavesFolders
<1> QED BY <1>1, <1>2, <1>3 DEF NotesNext

(* The folder requests of the composition behave as those of Folders: the  *)
(* notes they load and remove, and the note requests beside them, add no   *)
(* behaviour to the table of folders.                                      *)
THEOREM NotesUseFolders == NotesSpec => Spec
<1>1. NotesInit => Init
  BY DEF NotesInit
<1> QED BY <1>1, NotesStepFolders, PTL DEF NotesSpec, Spec

LEMMA OwnerInvOfNotes == NotesSpec => []OwnerInv
  BY NotesUseFolders, OwnerInit, OwnerStep, PTL DEF Spec

-----------------------------------------------------------------------------
(* Each stage belongs to some kinds of call.                               *)
NoteStageOfCall ==
    \A q \in NoteRequests :
        /\ notePc[q] = "load" => noteCall[q] \in UpdateNote \cup NoteById
        /\ notePc[q] = "folder" => /\ noteCall[q] \in CreateNote \cup UpdateNote
                                   /\ noteCall[q].folder \in FolderIds
        /\ notePc[q] \in {"write", "refresh"} =>
              noteCall[q] \in CreateNote \cup UpdateNote
        /\ notePc[q] = "drop" => noteCall[q] \in NoteById /\ noteCall[q].op = "delete"

NoteTypeInv == NotesTypeOK /\ NoteStageOfCall

LEMMA NoteCallKinds ==
    ASSUME NEW c \in NoteCalls
    PROVE  /\ c.op = "create" => c \in CreateNote
           /\ c.op = "update" => c \in UpdateNote
           /\ c.op \in {"get", "delete"} => c \in NoteById
           /\ c.op \in {"create", "update", "get", "delete"}
  BY DEF NoteCalls, CreateNote, UpdateNote, NoteById

LEMMA NoteTypeInit == NotesInit => NoteTypeInv
  BY NotesAssumption DEF NotesInit, N!SessionsInit, NoteRow, NoNote, NoteIds,
     NoteTypeInv, NotesTypeOK, NoteStageOfCall, NoteStages, Statuses, NoCall, N!NoCall

LEMMA NoteTypeStep ==
    TypeInv /\ NoteTypeInv /\ [NotesNext]_noteVars => NoteTypeInv'
<1> SUFFICES ASSUME TypeInv, NoteTypeInv, [NotesNext]_noteVars PROVE NoteTypeInv'
  OBVIOUS
<1> USE NotesAssumption
<1> USE DEF NoteTypeInv, NotesTypeOK, NoteStageOfCall, NoteStages, NoteHolding
<1>1. CASE UNCHANGED noteVars
  BY <1>1 DEF noteVars, noteSessions
<1>2. ASSUME NEW r \in Requests, FolderRequest(r) PROVE NoteTypeInv'
  <2>1. UNCHANGED noteSessions
    BY <1>2 DEF FolderRequest, FolderMove, ReadNotes, AllRead, DropTreeAndNotes
  <2>2. CASE FolderMove(r) \/ AllRead(r)
    BY <2>1, <2>2 DEF FolderMove, AllRead, noteSessions
  <2>3. CASE ReadNotes(r)
    <3>1. \A f : LoadedNotes(r, f) \subseteq NoteIds
      BY DEF LoadedNotes, NotesOf
    <3>2. Loaded(r) \subseteq FolderIds
      BY <2>3 DEF ReadNotes, At, TypeInv, FoldersTypeOK, StageOfCall, Loaded, Memory, DeleteCall
    <3> QED BY <2>1, <2>3, <3>1, <3>2 DEF ReadNotes, noteSessions
  <2>4. CASE DropTreeAndNotes(r)
    BY <2>1, <2>4 DEF DropTreeAndNotes, noteSessions
  <2> QED BY <1>2, <2>2, <2>3, <2>4 DEF FolderRequest
<1>3. ASSUME NEW q \in NoteRequests, NoteArrive(q) PROVE NoteTypeInv'
  <2>1. PICK c \in NoteCalls : N!Enter(q, c, FirstNoteStage(c))
    BY <1>3 DEF NoteArrive
  <2>2. /\ c.op = "create" => c \in CreateNote
        /\ c.op # "create" => c \in UpdateNote \cup NoteById
    BY NoteCallKinds
  <2>3. FirstNoteStage(c) = IF c.op # "create" THEN "load"
                            ELSE IF c.folder = Null THEN "write" ELSE "folder"
    BY DEF FirstNoteStage
  <2>4. c.op = "create" /\ c.folder # Null => c.folder \in FolderIds
    BY <2>2 DEF CreateNote, Parents
  <2> QED BY <1>3, <2>1, <2>2, <2>3, <2>4 DEF NoteArrive, N!Enter
<1>4. ASSUME NEW q \in NoteRequests, RefuseNote(q) PROVE NoteTypeInv'
  <2>1. PICK c \in NoteCalls : noteCall' = [noteCall EXCEPT ![q] = c]
    BY <1>4 DEF RefuseNote
  <2> QED BY <1>4, <2>1 DEF RefuseNote, StatusOf, Statuses
<1>5. ASSUME NEW q \in NoteRequests, LoadNote(q) PROVE NoteTypeInv'
  <2>1. noteCall[q] \in UpdateNote \cup NoteById
    BY <1>5 DEF LoadNote, N!At
  <2>2. noteSeen' \in [NoteRequests -> NoteRow \cup {NoNote}]
    BY <1>5, <2>1 DEF LoadNote, UpdateNote, NoteById
  <2>3. PICK stage \in {"drop", "folder", "write"} :
          /\ N!Goto(q, stage)
          /\ stage = "drop" <=> noteCall[q].op = "delete"
          /\ stage = "folder" => noteCall[q].folder \notin {Null, Unset}
    BY <1>5, <2>1 DEF LoadNote, UpdateNote, NoteById
  <2>4. IF stage = "drop" THEN noteCall[q] \in NoteById ELSE noteCall[q] \in UpdateNote
    BY <1>5, <2>1, <2>3 DEF LoadNote, UpdateNote, NoteById
  <2>5. stage = "folder" => noteCall[q].folder \in FolderIds
    BY <2>3, <2>4 DEF UpdateNote, Parents
  <2> QED BY <1>5, <2>2, <2>3, <2>4, <2>5 DEF LoadNote, N!Goto
<1>6. ASSUME NEW q \in NoteRequests, FolderFound(q) PROVE NoteTypeInv'
  BY <1>6 DEF FolderFound, N!Goto, N!At
<1>7. ASSUME NEW q \in NoteRequests, InsertNote(q) PROVE NoteTypeInv'
  <2>1. noteCall[q] \in CreateNote
    BY <1>7 DEF InsertNote, N!At, UpdateNote, CreateNote
  <2> QED BY <1>7, <2>1 DEF InsertNote, N!Goto, N!At, NoteRow, CreateNote, NoteIds
<1>8. ASSUME NEW q \in NoteRequests, WriteNote(q) PROVE NoteTypeInv'
  <2> DEFINE n == noteCall[q].note
  <2>1. noteCall[q] \in UpdateNote /\ n \in NoteIds
    BY <1>8 DEF WriteNote, N!At, UpdateNote, CreateNote
  <2>2. notes' \in [NoteIds -> NoteRow \cup {NoNote}]
    <3>1. CASE ~NoteExists(n)
      <4>1. NewColumn(q, "folder") = Null /\ NewColumn(q, "title") = Null
        BY <1>8, <2>1, <3>1 DEF WriteNote, NoteRefused, NewColumn, NoteExists, NoNote,
           UpdateNote
      <4> QED BY <1>8, <2>1, <3>1, <4>1 DEF WriteNote, NoteExists, NoNote
    <3>2. CASE NoteExists(n)
      <4>1. NewColumn(q, "folder") \in Parents /\ NewColumn(q, "title") \in Titles
        BY <1>8, <2>1, <3>2 DEF WriteNote, NoteRefused, NewColumn, NoteExists, NoteRow,
           UpdateNote, Sets
      <4>2. notes[n] \in NoteRow
        BY <2>1, <3>2 DEF NoteExists
      <4> QED BY <1>8, <2>1, <4>1, <4>2 DEF WriteNote, NoteRow
    <3> QED BY <3>1, <3>2
  <2> QED BY <1>8, <2>1, <2>2 DEF WriteNote, N!Goto, N!At
<1>9. ASSUME NEW q \in NoteRequests, DropNote(q) PROVE NoteTypeInv'
  BY <1>9 DEF DropNote, N!Respond, N!At, Statuses
<1>10. ASSUME NEW q \in NoteRequests, \/ NoteMissing(q) \/ GetNote(q) \/ FolderMissing(q)
                                      \/ RejectNote(q) \/ RefreshNote(q)
       PROVE  NoteTypeInv'
  <2>1. \E code \in Statuses : N!Respond(q, code)
    BY <1>10 DEF NoteMissing, GetNote, FolderMissing, RejectNote, RefreshNote,
       StatusOf, Statuses
  <2>2. UNCHANGED <<notes, asked, held, noteSeen>>
    BY <1>10 DEF NoteMissing, GetNote, FolderMissing, RejectNote, RefreshNote
  <2> QED BY <2>1, <2>2 DEF N!Respond
<1> QED
  BY <1>1, <1>2, <1>3, <1>4, <1>5, <1>6, <1>7, <1>8, <1>9, <1>10
     DEF NotesNext, NoteRequest, NoteStep

(* The table of notes and the sessions keep their types.                   *)
THEOREM NotesTypeCorrect == NotesSpec => []NotesTypeOK
<1>1. OwnerInv => TypeInv
  BY DEF OwnerInv
<1>2. NoteTypeInv => NotesTypeOK
  BY DEF NoteTypeInv
<1> QED BY <1>1, <1>2, OwnerInvOfNotes, NoteTypeInit, NoteTypeStep, PTL DEF NotesSpec

-----------------------------------------------------------------------------
(* The row of a create request exists only once the request has written    *)
(* it, and belongs to its user.                                            *)
NoteRowsWritten ==
    \A q \in NoteRequests : NoteExists(q) =>
        notePc[q] \in {"refresh", "done"} /\ notes[q].owner = noteCall[q].user

(* n was read as a note of u: it stays one for as long as it exists.       *)
NoteChecked(n, u) ==
    /\ n \in NoteIds
    /\ n \in NoteRequests => notePc[n] \in {"refresh", "done"}
    /\ NoteExists(n) => notes[n].owner = u

NoteTargetChecked ==
    \A q \in NoteRequests :
        /\ notePc[q] \in {"folder", "write", "drop"}
        /\ noteCall[q].op \in {"update", "delete"}
        => NoteChecked(noteCall[q].note, noteCall[q].user)

(* At the write, a folder that is about to be set has been checked.        *)
NoteFolderChecked ==
    \A q \in NoteRequests :
        notePc[q] = "write" /\ noteCall[q].folder \notin {Null, Unset} =>
            Checked(noteCall[q].folder, noteCall[q].user)

(* A delete holds notes of its user, and none before it has begun.         *)
HeldChecked ==
    \A r \in Requests :
        /\ pc[r] \in {"idle", "load"} => held[r] = {}
        /\ pc[r] \in {"expand", "drop"} =>
              \A n \in held[r] : NoteChecked(n, call[r].user)

NoteInv == /\ NoteTypeInv
           /\ NoteRowsWritten
           /\ NoteTargetChecked
           /\ NoteFolderChecked
           /\ HeldChecked
           /\ NotesInOwnFolder

LEMMA NoteRowNotEmpty == ASSUME NEW row \in NoteRow PROVE row # NoNote
  BY NotesAssumption DEF NoteRow, NoNote

LEMMA NoteInit == NotesInit => NoteInv
<1> SUFFICES ASSUME NotesInit PROVE NoteInv
  OBVIOUS
<1>1. NoteTypeInv
  BY NoteTypeInit
<1>2. NoteRowsWritten
  BY NotesAssumption DEF NotesInit, NoteRowsWritten, NoteExists, NoteIds
<1>3. NotesInOwnFolder
  <2>1. \A f \in Seeds : folders[f] = InitialFolders[f] /\ InitialFolders[f] # NoRow
    BY FoldersAssumption, RowNotEmpty DEF NotesInit, Init, FolderIds
  <2> QED BY <2>1, NotesAssumption DEF NotesInit, NotesInOwnFolder, Exists, NoteExists
<1>4. NoteTargetChecked /\ NoteFolderChecked /\ HeldChecked
  BY DEF NotesInit, Init, SessionsInit, N!SessionsInit, NoteTargetChecked,
     NoteFolderChecked, HeldChecked
<1> QED BY <1>1, <1>2, <1>3, <1>4 DEF NoteInv

(* A step of a note request: the request moves forward, and only a write   *)
(* or a drop changes the table.                                            *)
LEMMA OneNoteMoves ==
    ASSUME NoteTypeInv, NEW q \in NoteRequests, NoteRequest(q)
    PROVE  /\ \A p \in NoteRequests \ {q} :
                 notePc'[p] = notePc[p] /\ noteCall'[p] = noteCall[p]
           /\ notePc[q] # "idle" => noteCall'[q] = noteCall[q]
           /\ notePc[q] \in {"refresh", "done"} => notePc'[q] = "done"
           /\ \/ notes' = notes
              \/ InsertNote(q) \/ WriteNote(q) \/ DropNote(q)
<1> USE DEF NoteTypeInv, NotesTypeOK, N!At, N!Goto, N!Respond
<1>1. CASE NoteArrive(q) \/ RefuseNote(q)
  BY <1>1 DEF NoteArrive, RefuseNote, N!Enter
<1>2. CASE NoteStep(q)
  BY <1>2 DEF NoteStep, NoteMissing, GetNote, LoadNote, FolderMissing, FolderFound,
     RejectNote, InsertNote, WriteNote, RefreshNote, DropNote
<1> QED BY <1>1, <1>2 DEF NoteRequest

(* What an update makes of its note: the row of the same owner, or none.   *)
LEMMA NoteWritten ==
    ASSUME NoteTypeInv, NEW q \in NoteRequests, WriteNote(q)
    PROVE  LET n == noteCall[q].note
           IN  /\ noteCall[q] \in UpdateNote /\ n \in NoteIds
               /\ \A m \in NoteIds \ {n} : notes'[m] = notes[m]
               /\ notes[n] = NoNote => notes'[n] = NoNote
               /\ notes[n] # NoNote =>
                     /\ notes'[n] # NoNote
                     /\ notes'[n].owner = notes[n].owner
                     /\ notes'[n].folder = NewColumn(q, "folder")
                     /\ notes'[n].title = NewColumn(q, "title")
<1> USE NotesAssumption
<1> USE DEF NoteTypeInv, NotesTypeOK
<1> DEFINE n == noteCall[q].note
<1>1. noteCall[q] \in UpdateNote /\ n \in NoteIds
  BY DEF WriteNote, N!At, NoteStageOfCall, UpdateNote, CreateNote
<1>2. \A m \in NoteIds \ {n} : notes'[m] = notes[m]
  BY <1>1 DEF WriteNote
<1>3. ASSUME notes[n] = NoNote PROVE notes'[n] = NoNote
  <2>1. NewColumn(q, "folder") = Null /\ NewColumn(q, "title") = Null
    BY <1>1, <1>3 DEF WriteNote, NoteRefused, NewColumn, NoteExists, NoNote, UpdateNote
  <2>2. notes'[n] = [NoNote EXCEPT !.folder = Null, !.title = Null]
    BY <1>1, <1>3, <2>1 DEF WriteNote
  <2>3. notes'[n] \in [owner : {Null}, folder : {Null}, title : {Null}]
    BY ONLY <2>2 DEF NoNote
  <2> QED BY ONLY <2>3 DEF NoNote
<1>4. ASSUME notes[n] # NoNote
      PROVE  /\ notes'[n] # NoNote
             /\ notes'[n].owner = notes[n].owner
             /\ notes'[n].folder = NewColumn(q, "folder")
             /\ notes'[n].title = NewColumn(q, "title")
  <2>1. notes[n] \in NoteRow
    BY <1>1, <1>4
  <2>2. /\ notes'[n].owner = notes[n].owner
        /\ notes'[n].folder = NewColumn(q, "folder")
        /\ notes'[n].title = NewColumn(q, "title")
    BY <1>1, <2>1 DEF WriteNote, NoteRow
  <2>3. notes[n].owner \in Users /\ Null \notin Users
    BY <2>1, FoldersAssumption DEF NoteRow
  <2> QED BY <2>2, <2>3 DEF NoNote
<1> QED BY <1>1, <1>2, <1>3, <1>4

(* No step changes the owner of a note that stays, or reuses an identifier.*)
LEMMA NoteOwnersStay ==
    ASSUME NoteTypeInv, NotesNext, NEW n \in NoteIds, notes'[n] # NoNote
    PROVE  \/ NoteExists(n) /\ notes'[n].owner = notes[n].owner
           \/ n \in NoteRequests /\ InsertNote(n)
<1> USE DEF NoteTypeInv, NotesTypeOK, NoteExists
<1>1. ASSUME NEW r \in Requests, FolderRequest(r)
      PROVE  notes'[n] = notes[n]
  BY <1>1 DEF FolderRequest, FolderMove, ReadNotes, AllRead, DropTreeAndNotes
<1>2. ASSUME NEW q \in NoteRequests, NoteRequest(q)
      PROVE  \/ NoteExists(n) /\ notes'[n].owner = notes[n].owner
             \/ n = q /\ InsertNote(q)
  <2>1. CASE InsertNote(q)
    BY <2>1 DEF InsertNote
  <2>2. CASE WriteNote(q)
    BY <2>2, NoteWritten
  <2>3. CASE DropNote(q)
    BY <2>3 DEF DropNote
  <2> QED BY <1>2, <2>1, <2>2, <2>3, OneNoteMoves
<1> QED BY <1>1, <1>2 DEF NotesNext

(* NoteChecked(n, u) of the next state, n and u being those of this one.   *)
StaysNoteChecked(n, u) ==
    /\ n \in NoteIds
    /\ n \in NoteRequests => notePc'[n] \in {"refresh", "done"}
    /\ notes'[n] # NoNote => notes'[n].owner = u

LEMMA NoteCheckedAfter ==
    ASSUME NoteTypeInv, NotesNext, NEW n, NEW u, NoteChecked(n, u)
    PROVE  StaysNoteChecked(n, u)
<1>1. ASSUME n \in NoteRequests PROVE notePc'[n] \in {"refresh", "done"}
  <2>1. ASSUME NEW r \in Requests, FolderRequest(r) PROVE notePc' = notePc
    BY <2>1 DEF FolderRequest, FolderMove, ReadNotes, AllRead, DropTreeAndNotes,
       noteSessions
  <2>2. ASSUME NEW q \in NoteRequests, NoteRequest(q)
        PROVE  notePc'[n] \in {"refresh", "done"}
    BY <1>1, <2>2, OneNoteMoves DEF NoteChecked
  <2> QED BY <1>1, <2>1, <2>2 DEF NotesNext, NoteChecked
<1>2. notes'[n] # NoNote => notes'[n].owner = u
  BY NoteOwnersStay DEF NoteChecked, InsertNote, N!At
<1> QED BY <1>1, <1>2 DEF StaysNoteChecked, NoteChecked

(* A folder request other than the end of a delete leaves every folder in  *)
(* place, under its owner.                                                 *)
LEMMA FoldersStay ==
    ASSUME OwnerInv, NEW r \in Requests, FolderRequest(r), ~DropTreeAndNotes(r),
           NEW f \in FolderIds, folders[f] # NoRow
    PROVE  folders'[f] # NoRow /\ folders'[f].owner = folders[f].owner
<1> USE DEF OwnerInv, TypeInv, FoldersTypeOK, At
<1>1. CASE folders' = folders
  BY <1>1
<1>2. CASE InsertFolder(r)
  BY <1>2 DEF InsertFolder, RowsWritten, Exists
<1>3. CASE UpdateFolder(r)
  <2>1. folders'[f].owner = folders[f].owner
    BY <1>3 DEF UpdateFolder, Row, NoRow
  <2>2. folders[f].owner \in Users /\ Null \notin Users
    BY FoldersAssumption DEF Row
  <2> QED BY <2>1, <2>2 DEF NoRow
<1>4. folders' = folders \/ InsertFolder(r) \/ UpdateFolder(r)
  <2>1. CASE ReadNotes(r) \/ AllRead(r)
    BY <2>1 DEF ReadNotes, AllRead, TreeRead, vars
  <2>2. CASE FolderMove(r)
    BY <2>2 DEF FolderMove, Arrive, RefusePayload, TargetNotFound, LoadTarget,
       CheckName, NameAmbiguous, NameTaken, NameFree, CheckParent, ParentNotFound,
       ParentIsItself, LoadParent, AncestorIsItself, AncestorNotFound, LoadAncestor,
       WriteRow, RejectWrite, RefreshFolder, ReadChildren, DropCircular
  <2> QED BY <2>1, <2>2 DEF FolderRequest
<1> QED BY <1>1, <1>2, <1>3, <1>4

(* The notes a folder delete is about to remove are its user's.            *)
LEMMA TakenOwned ==
    ASSUME OwnerInv, NoteInv, NEW r \in Requests, At(r, "drop"), NEW n \in Taken(r),
           NoteExists(n)
    PROVE  n \in NoteIds /\ notes[n].owner = call[r].user
<1>1. CASE n \in held[r]
  BY <1>1 DEF NoteInv, HeldChecked, NoteChecked, At
<1>2. CASE n \in NotesOf(Cascade(Loaded(r)))
  <2>1. n \in NoteIds /\ notes[n].folder \in Cascade(Loaded(r))
    BY <1>2 DEF NotesOf
  <2>2. \A f \in Loaded(r) : Checked(f, call[r].user)
    BY DEF OwnerInv, TreeChecked, At
  <2>3. Loaded(r) \in SUBSET FolderIds
    BY <2>2 DEF Checked
  <2>4. \A f \in Loaded(r) : Exists(f) => folders[f].owner = call[r].user
    BY <2>2 DEF Checked
  <2>5. FoldersTypeOK /\ ParentSameOwner
    BY DEF OwnerInv, TypeInv
  <2>6. \A f \in Cascade(Loaded(r)) : Exists(f) => folders[f].owner = call[r].user
    <3> HIDE DEF FoldersTypeOK, Loaded
    <3> QED BY ONLY <2>3, <2>4, <2>5, CascadeOwned
  <2>7. notes[n].folder # Null
    BY <2>1, FoldersAssumption DEF Cascade
  <2> QED BY <2>1, <2>6, <2>7 DEF NoteInv, NotesInOwnFolder
<1> QED BY <1>1, <1>2 DEF Taken

LEMMA NotePreserved ==
    OwnerInv /\ OwnerInv' /\ NoteInv /\ [NotesNext]_noteVars => NoteInv'
<1> SUFFICES ASSUME OwnerInv, OwnerInv', NoteInv, [NotesNext]_noteVars
             PROVE  NoteInv'
  OBVIOUS
<1>0. TypeInv /\ TypeInv' /\ NoteTypeInv /\ NoteTypeInv'
  BY NoteTypeStep DEF OwnerInv, NoteInv
<1>1. CASE UNCHANGED noteVars
  BY <1>0, <1>1 DEF noteVars, noteSessions, vars, NoteInv, NoteRowsWritten,
     NoteTargetChecked, NoteFolderChecked, HeldChecked, NotesInOwnFolder, NoteChecked,
     Checked, NoteExists, Exists
<1>2. CASE NotesNext
  <2>1. \A n, u : NoteChecked(n, u) => StaysNoteChecked(n, u)
    BY <1>0, <1>2, NoteCheckedAfter
  <2>2. \A f, u : Checked(f, u) => StaysChecked(f, u)
    <3>1. ASSUME NEW r \in Requests, Moved(r), NEW f, NEW u, Checked(f, u)
          PROVE  StaysChecked(f, u)
      BY <1>0, <3>1, CheckedAfter
    <3>2. ASSUME UNCHANGED vars, NEW f, NEW u, Checked(f, u)
          PROVE  StaysChecked(f, u)
      BY <3>2 DEF vars, Checked, StaysChecked, Exists
    <3>3. (\E r \in Requests : Moved(r)) \/ UNCHANGED vars
      BY <1>2, FolderRequestMoves, NoteRequestLeavesFolders DEF NotesNext
    <3> QED BY <3>1, <3>2, <3>3
  <2>3. ASSUME NEW n \in NoteIds, NEW u, NoteExists(n), notes[n].owner = u
        PROVE  StaysNoteChecked(n, u)
    BY <2>1, <2>3 DEF NoteInv, NoteRowsWritten, NoteChecked
  <2>4. ASSUME NEW f \in FolderIds, NEW u, Visible(f, u) PROVE StaysChecked(f, u)
    BY <2>2, <2>4, VisibleChecked DEF OwnerInv
  <2>5. ASSUME NEW r \in Requests, FolderRequest(r) PROVE NoteInv'
    <3>1. UNCHANGED noteSessions /\ \A n \in NoteIds : notes'[n] \in {notes[n], NoNote}
      BY <2>5, <1>0 DEF FolderRequest, FolderMove, ReadNotes, AllRead,
         DropTreeAndNotes, NoteTypeInv, NotesTypeOK
    <3>2. NoteRowsWritten'
      BY <3>1 DEF NoteInv, NoteRowsWritten, NoteExists, noteSessions, NoteIds
    <3>3. NoteTargetChecked'
      BY <3>1, <2>1 DEF NoteInv, NoteTargetChecked, noteSessions, NoteChecked,
         StaysNoteChecked, NoteExists
    <3>4. NoteFolderChecked'
      BY <3>1, <2>2 DEF NoteInv, NoteFolderChecked, noteSessions, Checked,
         StaysChecked, Exists
    <3>5. HeldChecked'
      <4>1. Moved(r) \/ UNCHANGED vars
        BY <2>5, FolderRequestMoves
      <4>2. ReadNotes(r) \/ DropTreeAndNotes(r) \/ held' = held
        BY <2>5 DEF FolderRequest, FolderMove, AllRead
      <4>3. ASSUME NEW q \in Requests, q # r
            PROVE  pc'[q] = pc[q] /\ call'[q] = call[q] /\ held'[q] = held[q]
        BY <4>1, <4>2, <4>3, <1>0, OneMoves DEF vars, ReadNotes, DropTreeAndNotes,
           NoteTypeInv, NotesTypeOK
      <4>4. ASSUME NEW q \in Requests, pc'[q] \in {"idle", "load"}
            PROVE  held'[q] = {}
        <5>1. CASE q # r
          BY <4>3, <4>4, <5>1 DEF NoteInv, HeldChecked
        <5>2. CASE q = r
          <6>1. pc[r] \in {"idle", "load"}
            BY <4>1, <4>4, <5>2, <1>0, StageMoves DEF vars
          <6> QED BY <4>2, <5>2, <6>1 DEF ReadNotes, DropTreeAndNotes, DropTree, At,
                  NoteInv, HeldChecked
        <5> QED BY <5>1, <5>2
      <4>5. ASSUME NEW q \in Requests, pc'[q] \in {"expand", "drop"}, NEW n \in held'[q]
            PROVE  StaysNoteChecked(n, call'[q].user)
        <5>1. CASE q # r
          BY <4>3, <4>5, <5>1, <2>1 DEF NoteInv, HeldChecked
        <5>2. CASE q = r /\ ReadNotes(r)
          <6>1. PICK f \in Loaded(r) : held'[r] = held[r] \cup LoadedNotes(r, f)
            BY <5>2, <1>0 DEF ReadNotes, NoteTypeInv, NotesTypeOK
          <6>2. Checked(f, call[r].user) /\ call' = call /\ pc[r] = "expand"
            BY <5>2 DEF ReadNotes, At, OwnerInv, TreeChecked, vars
          <6>3. CASE n \in held[r]
            BY <5>2, <6>2, <6>3, <2>1 DEF NoteInv, HeldChecked
          <6>4. CASE n \in LoadedNotes(r, f)
            <7>1. n \in NoteIds /\ NoteExists(n) /\ notes[n].folder = f
              BY <6>4 DEF LoadedNotes, NotesOf
            <7>2. notes[n].owner = call[r].user
              BY <6>2, <7>1, FoldersAssumption
                 DEF Checked, NoteInv, NotesInOwnFolder
            <7> QED BY <5>2, <6>2, <7>1, <7>2, <2>3
          <6> QED BY <4>5, <5>2, <6>1, <6>3, <6>4
        <5>3. CASE q = r /\ DropTreeAndNotes(r)
          BY <5>3, <4>5, <1>0 DEF DropTreeAndNotes, NoteTypeInv, NotesTypeOK
        <5>4. CASE q = r /\ held' = held
          <6>1. LoadTarget(r) \/ pc[r] \in {"expand", "drop"}
            BY <4>1, <4>5, <5>4, <1>0, StageMoves
               DEF vars, ReadChildren, TreeRead, At
          <6>2. LoadTarget(r) => held[r] = {}
            BY DEF LoadTarget, At, NoteInv, HeldChecked
          <6>3. pc[r] \in {"expand", "drop"} => call'[r] = call[r]
            BY <4>1, <1>0, OneMoves DEF vars
          <6> QED BY <4>5, <5>4, <6>1, <6>2, <6>3, <2>1 DEF NoteInv, HeldChecked
        <5> QED BY <4>2, <5>1, <5>2, <5>3, <5>4
      <4> QED BY <4>4, <4>5 DEF HeldChecked, NoteChecked, StaysNoteChecked, NoteExists
    <3>6. NotesInOwnFolder'
      <4> SUFFICES ASSUME NEW n \in NoteIds,
                          notes'[n] # NoNote, notes'[n].folder # Null
                   PROVE  /\ folders'[notes'[n].folder] # NoRow
                          /\ folders'[notes'[n].folder].owner = notes'[n].owner
        BY DEF NotesInOwnFolder, NoteExists, Exists
      <4> DEFINE f == notes[n].folder
      <4>1. /\ notes'[n] = notes[n] /\ f \in FolderIds
            /\ folders[f] # NoRow /\ folders[f].owner = notes[n].owner
        BY <3>1, <1>0 DEF NoteInv, NotesInOwnFolder, NoteExists, Exists, NoteTypeInv,
           NotesTypeOK, NoteRow, NoNote, Parents
      <4>2. CASE DropTreeAndNotes(r)
        <5>1. n \notin Taken(r)
          BY <4>1, <4>2 DEF DropTreeAndNotes
        <5>2. f \notin Cascade(Loaded(r))
          BY <4>1, <5>1 DEF Taken, NotesOf, NoteExists
        <5>3. folders'[f] = folders[f]
          BY <4>1, <4>2, <5>2 DEF DropTreeAndNotes, DropTree
        <5> QED BY <4>1, <5>3
      <4> QED BY <4>1, <4>2, <2>5, FoldersStay
    <3> QED BY <1>0, <3>2, <3>3, <3>4, <3>5, <3>6 DEF NoteInv
  <2>6. ASSUME NEW q \in NoteRequests, NoteRequest(q) PROVE NoteInv'
    <3> USE DEF N!At, N!Goto, N!Respond
    <3>1. UNCHANGED <<vars, asked, held>>
      BY <2>6, NoteRequestLeavesFolders
    <3>2. /\ \A p \in NoteRequests \ {q} :
                notePc'[p] = notePc[p] /\ noteCall'[p] = noteCall[p]
          /\ notePc[q] # "idle" => noteCall'[q] = noteCall[q]
          /\ notePc[q] \in {"refresh", "done"} => notePc'[q] = "done"
      BY <1>0, <2>6, OneNoteMoves
    <3>3. NoteRowsWritten'
      <4> SUFFICES ASSUME NEW p \in NoteRequests, notes'[p] # NoNote
                   PROVE  /\ notePc'[p] \in {"refresh", "done"}
                          /\ notes'[p].owner = noteCall'[p].user
        BY DEF NoteRowsWritten, NoteExists
      <4>1. CASE NoteExists(p) /\ notes'[p].owner = notes[p].owner
        BY <4>1, <3>2 DEF NoteInv, NoteRowsWritten
      <4>2. CASE InsertNote(p)
        BY <4>2, <1>0 DEF InsertNote, NoteTypeInv, NotesTypeOK, NoteIds
      <4> QED BY <4>1, <4>2, <1>0, <1>2, NoteOwnersStay DEF NoteIds
    <3>4. NoteTargetChecked'
      <4> SUFFICES ASSUME NEW p \in NoteRequests,
                          notePc'[p] \in {"folder", "write", "drop"},
                          noteCall'[p].op \in {"update", "delete"}
                   PROVE  StaysNoteChecked(noteCall'[p].note, noteCall'[p].user)
        BY DEF NoteTargetChecked, NoteChecked, StaysNoteChecked, NoteExists
      <4>1. CASE p # q \/ FolderFound(q)
        BY <4>1, <3>2, <2>1, <1>0 DEF NoteInv, NoteTargetChecked, FolderFound,
           NoteTypeInv, NotesTypeOK
      <4>2. CASE p = q /\ LoadNote(q)
        <5>1. noteCall[q].note \in NoteIds
          BY <4>2, <1>0 DEF LoadNote, NoteTypeInv, NoteStageOfCall, UpdateNote, NoteById
        <5> QED BY <4>2, <5>1, <3>2, <2>3 DEF LoadNote, NoteVisible
      <4>3. CASE p = q /\ NoteArrive(q)
        BY <4>3, <1>0 DEF NoteArrive, N!Enter, FirstNoteStage, NoteTypeInv,
           NotesTypeOK
      <4>4. CASE p = q /\ ~NoteArrive(q) /\ ~LoadNote(q) /\ ~FolderFound(q)
        BY <4>4, <2>6, <1>0 DEF NoteRequest, NoteStep, RefuseNote, NoteMissing,
           GetNote, FolderMissing, RejectNote, InsertNote, WriteNote, RefreshNote,
           DropNote, NoteTypeInv, NotesTypeOK
      <4> QED BY <4>1, <4>2, <4>3, <4>4
    <3>5. NoteFolderChecked'
      <4> SUFFICES ASSUME NEW p \in NoteRequests, notePc'[p] = "write",
                          noteCall'[p].folder \notin {Null, Unset}
                   PROVE  StaysChecked(noteCall'[p].folder, noteCall'[p].user)
        BY DEF NoteFolderChecked, Checked, StaysChecked, Exists
      <4>1. CASE p # q
        BY <4>1, <3>2, <2>2 DEF NoteInv, NoteFolderChecked
      <4>2. CASE p = q /\ FolderFound(q)
        BY <4>2, <3>2, <2>4, <1>0 DEF FolderFound, FolderValid, NoteTypeInv,
           NoteStageOfCall
      <4>3. CASE p = q /\ LoadNote(q)
        BY <4>3, <3>2, <1>0 DEF LoadNote, NoteTypeInv, NotesTypeOK, NoteStageOfCall,
           UpdateNote, NoteById
      <4>4. CASE p = q /\ NoteArrive(q)
        BY <4>4, <1>0 DEF NoteArrive, N!Enter, FirstNoteStage, NoteTypeInv,
           NotesTypeOK
      <4>5. CASE p = q /\ ~NoteArrive(q) /\ ~LoadNote(q) /\ ~FolderFound(q)
        BY <4>5, <2>6, <1>0 DEF NoteRequest, NoteStep, RefuseNote, NoteMissing,
           GetNote, FolderMissing, RejectNote, InsertNote, WriteNote, RefreshNote,
           DropNote, NoteTypeInv, NotesTypeOK
      <4> QED BY <4>1, <4>2, <4>3, <4>4, <4>5
    <3>6. HeldChecked'
      BY <3>1, <2>1 DEF vars, NoteInv, HeldChecked, NoteChecked, StaysNoteChecked,
         NoteExists
    <3>7. NotesInOwnFolder'
      <4> SUFFICES ASSUME NEW n \in NoteIds,
                          notes'[n] # NoNote, notes'[n].folder # Null
                   PROVE  /\ folders[notes'[n].folder] # NoRow
                          /\ folders[notes'[n].folder].owner = notes'[n].owner
        BY <3>1 DEF vars, NotesInOwnFolder, NoteExists, Exists
      <4>1. CASE notes'[n] = notes[n]
        BY <4>1 DEF NoteInv, NotesInOwnFolder, NoteExists, Exists
      <4>2. CASE InsertNote(q) /\ n = q
        <5>1. notes'[q].owner = noteCall[q].user /\ notes'[q].folder = noteCall[q].folder
          BY <4>2, <1>0 DEF InsertNote, NoteTypeInv, NotesTypeOK
        <5>2. noteCall[q].folder # Unset
          BY <4>2, <1>0, FoldersAssumption DEF InsertNote, NoteTypeInv,
             NoteStageOfCall, CreateNote, UpdateNote
        <5> QED BY <4>2, <5>1, <5>2 DEF InsertNote, NoteRefused, FolderVanished,
                Exists, NoteInv, NoteFolderChecked, Checked
      <4>3. CASE WriteNote(q) /\ n = noteCall[q].note
        <5>1. /\ NoteExists(n)
              /\ notes'[n].owner = notes[n].owner
              /\ notes'[n].folder = NewColumn(q, "folder")
          BY <4>3, <1>0, NoteWritten DEF NoteExists
        <5>2. notes[n].owner = noteCall[q].user
          BY <4>3, <5>1 DEF WriteNote, NoteInv, NoteTargetChecked, NoteChecked
        <5>3. CASE Sets(q, "folder")
          BY <4>3, <5>1, <5>2, <5>3 DEF WriteNote, NewColumn, Sets, NoteRefused,
             FolderVanished, Exists, NoteInv, NoteFolderChecked, Checked
        <5>4. CASE ~Sets(q, "folder")
          BY <4>3, <5>1, <5>4 DEF NewColumn, NoteInv, NotesInOwnFolder, Exists
        <5> QED BY <5>3, <5>4
      <4>4. notes'[n] = notes[n] \/ (InsertNote(q) /\ n = q)
                \/ (WriteNote(q) /\ n = noteCall[q].note)
        <5>1. InsertNote(q) => n = q \/ notes'[n] = notes[n]
          BY <1>0 DEF InsertNote, NoteTypeInv, NotesTypeOK
        <5>2. WriteNote(q) => n = noteCall[q].note \/ notes'[n] = notes[n]
          BY <1>0, NoteWritten
        <5>3. DropNote(q) => notes'[n] = notes[n]
          BY <1>0 DEF DropNote, NoteTypeInv, NotesTypeOK
        <5> QED BY <5>1, <5>2, <5>3, <1>0, <2>6, OneNoteMoves
      <4> QED BY <4>1, <4>2, <4>3, <4>4
    <3> QED BY <1>0, <3>3, <3>4, <3>5, <3>6, <3>7 DEF NoteInv
  <2> QED BY <1>2, <2>5, <2>6 DEF NotesNext
<1> QED BY <1>1, <1>2

LEMMA NoteInvHolds == NotesSpec => []NoteInv
  BY OwnerInvOfNotes, NoteInit, NotePreserved, PTL DEF NotesSpec

(* Every note lies in an existing folder of its owner, or in none.         *)
THEOREM NoteFolderSafe == NotesSpec => []NotesInOwnFolder
<1>1. NoteInv => NotesInOwnFolder
  BY DEF NoteInv
<1> QED BY NoteInvHolds, <1>1, PTL

-----------------------------------------------------------------------------
(* The step of a request that changes a note moves that request on, and    *)
(* the request is of the note's owner.                                     *)
LEMMA NoteWriterOwns ==
    ASSUME OwnerInv, NoteInv, NotesNext, NEW n \in NoteIds, notes'[n] # notes[n]
    PROVE  \/ \E q \in NoteRequests :
                 /\ notePc'[q] # notePc[q]
                 /\ noteCall[q].user \in {notes[n].owner, notes'[n].owner}
           \/ \E r \in Requests :
                 /\ pc'[r] # pc[r]
                 /\ call[r].user = notes[n].owner
<1>0. NoteTypeInv /\ TypeInv
  BY DEF OwnerInv, NoteInv
<1>1. ASSUME NEW r \in Requests, FolderRequest(r)
      PROVE  pc'[r] # pc[r] /\ call[r].user = notes[n].owner
  <2>1. DropTreeAndNotes(r)
    BY <1>1 DEF FolderRequest, FolderMove, ReadNotes, AllRead
  <2>2. n \in Taken(r) /\ NoteExists(n)
    BY <2>1 DEF DropTreeAndNotes, NoteExists
  <2>3. At(r, "drop") /\ pc'[r] # pc[r]
    BY <2>1, <1>0 DEF DropTreeAndNotes, DropTree, Close, Respond, At, TypeInv, FoldersTypeOK
  <2> QED BY <2>2, <2>3, TakenOwned
<1>2. ASSUME NEW q \in NoteRequests, NoteRequest(q)
      PROVE  /\ notePc'[q] # notePc[q]
             /\ noteCall[q].user \in {notes[n].owner, notes'[n].owner}
  <2> USE DEF NoteTypeInv, NotesTypeOK, N!At, N!Goto, N!Respond
  <2>1. CASE InsertNote(q)
    BY <1>0, <2>1 DEF InsertNote
  <2>2. CASE WriteNote(q)
    <3>1. n = noteCall[q].note /\ NoteExists(n)
      BY <1>0, <2>2, NoteWritten DEF NoteExists
    <3> QED BY <1>0, <2>2, <3>1 DEF WriteNote, NoteInv, NoteTargetChecked, NoteChecked
  <2>3. CASE DropNote(q)
    <3>1. n = noteCall[q].note /\ NoteExists(n)
      BY <1>0, <2>3 DEF DropNote, NoteExists
    <3>2. noteCall[q].op = "delete"
      BY <1>0, <2>3 DEF DropNote, NoteStageOfCall
    <3> QED BY <1>0, <2>3, <3>1, <3>2 DEF DropNote, NoteInv, NoteTargetChecked,
            NoteChecked
  <2> QED BY <1>0, <1>2, <2>1, <2>2, <2>3, OneNoteMoves
<1> QED BY <1>1, <1>2 DEF NotesNext

(* A note is created, changed or removed only by a step of a request of    *)
(* its owner, whichever cascade of a folder delete reaches it.             *)
THEOREM OnlyOwnerWritesNotes == NotesSpec => NotesOnlyByOwner
<1> DEFINE Owned ==
      \A n \in NoteIds : notes'[n] # notes[n] =>
          \/ \E q \in NoteRequests :
                /\ notePc'[q] # notePc[q]
                /\ noteCall[q].user \in {notes[n].owner, notes'[n].owner}
          \/ \E r \in Requests :
                /\ pc'[r] # pc[r]
                /\ call[r].user = notes[n].owner
<1>1. OwnerInv /\ NoteInv /\ [NotesNext]_noteVars => [Owned]_noteVars
  <2> SUFFICES ASSUME OwnerInv, NoteInv, NotesNext PROVE Owned
    OBVIOUS
  <2> QED BY NoteWriterOwns
<1> QED BY OwnerInvOfNotes, NoteInvHolds, <1>1, PTL DEF NotesSpec, NotesOnlyByOwner

-----------------------------------------------------------------------------
(* What a request has written stays what it has written.                   *)
LEMMA NoteCommitted ==
    ASSUME NoteTypeInv, NotesNext, NEW q \in NoteRequests,
           notePc[q] \in {"refresh", "done"}
    PROVE  noteCall'[q] = noteCall[q] /\ notePc'[q] \in {"refresh", "done"}
<1>1. ASSUME NEW r \in Requests, FolderRequest(r) PROVE UNCHANGED noteSessions
  BY <1>1 DEF FolderRequest, FolderMove, ReadNotes, AllRead, DropTreeAndNotes
<1>2. ASSUME NEW p \in NoteRequests, NoteRequest(p)
      PROVE  noteCall'[q] = noteCall[q] /\ notePc'[q] \in {"refresh", "done"}
  BY <1>2, OneNoteMoves
<1> QED BY <1>1, <1>2 DEF NotesNext, noteSessions

(* A delete that has begun to load its tree forgets nothing of it.         *)
LEMMA LoadedGrows ==
    ASSUME TypeInv, NEW r \in Requests, Moved(r),
           pc[r] \in {"expand", "drop"}, pc'[r] \in {"expand", "drop"}
    PROVE  Loaded(r) \subseteq Loaded(r)'
<1> USE DEF TypeInv, FoldersTypeOK, At
<1>1. CASE LoadTarget(r)
  BY <1>1 DEF LoadTarget
<1>2. CASE TreeRead(r)
  BY <1>2 DEF TreeRead, Goto, Loaded
<1>3. CASE ReadChildren(r)
  <2>1. PICK g \in Loaded(r) :
          seen' = [seen EXCEPT ![r] = KeepChildren(seen[r], g, ChildrenOf({g}))]
    BY <1>3 DEF ReadChildren
  <2>2. seen[r].tree \subseteq seen'[r].tree
    BY <2>1 DEF KeepChildren, Memory
  <2>3. call' = call
    BY <1>3 DEF ReadChildren
  <2>4. \A edge \in seen[r].tree : edge \in seen'[r].tree
    BY <2>2
  <2> QED BY <2>3, <2>4 DEF Loaded
<1> QED BY <1>1, <1>2, <1>3, StageMoves

LEMMA TakenStep ==
    OwnerInv /\ NoteInv /\ TakenFromTree /\ [NotesNext]_noteVars => TakenFromTree'
<1> SUFFICES ASSUME OwnerInv, NoteInv, TakenFromTree, [NotesNext]_noteVars
             PROVE  TakenFromTree'
  OBVIOUS
<1>0. TypeInv /\ NoteTypeInv
  BY DEF OwnerInv, NoteInv
<1>1. CASE UNCHANGED noteVars
  BY <1>1 DEF noteVars, noteSessions, vars, TakenFromTree, NoteExists, Loaded,
     MovesNote
<1>2. CASE NotesNext
  <2> SUFFICES ASSUME NEW r \in Requests, pc'[r] \in {"expand", "drop"},
                      NEW n \in held'[r], notes'[n] # NoNote
               PROVE  \/ notes'[n].folder \in Loaded(r)'
                      \/ \E q \in NoteRequests :
                            MovesNote(q, n)' /\ notePc'[q] \in {"refresh", "done"}
    BY DEF TakenFromTree, NoteExists
  <2>1. ASSUME NEW q \in NoteRequests, MovesNote(q, n),
               notePc[q] \in {"refresh", "done"}
        PROVE  MovesNote(q, n)' /\ notePc'[q] \in {"refresh", "done"}
    BY <1>0, <1>2, <2>1, NoteCommitted DEF MovesNote
  <2>2. ASSUME n \in held[r], pc[r] \in {"expand", "drop"}, notes'[n] = notes[n],
               Loaded(r) \subseteq Loaded(r)'
        PROVE  \/ notes'[n].folder \in Loaded(r)'
               \/ \E q \in NoteRequests :
                     MovesNote(q, n)' /\ notePc'[q] \in {"refresh", "done"}
    BY <2>1, <2>2 DEF TakenFromTree, NoteExists
  <2>3. CASE \E s \in Requests : FolderRequest(s)
    <3>1. PICK s \in Requests : FolderRequest(s)
      BY <2>3
    <3>2. Moved(s) \/ UNCHANGED vars
      BY <3>1, FolderRequestMoves
    <3>3. n \in NoteIds
      BY <1>0, <1>2, NoteTypeStep DEF NoteTypeInv, NotesTypeOK
    <3>4. notes'[n] = notes[n]
      BY <3>1, <3>3, <1>0 DEF FolderRequest, FolderMove, ReadNotes, AllRead,
         DropTreeAndNotes, NoteTypeInv, NotesTypeOK
    <3>5. CASE n \in held[r]
      <4>1. pc[r] \in {"expand", "drop"}
        <5>1. CASE s # r \/ UNCHANGED vars
          BY <3>2, <5>1, <1>0, OneMoves DEF vars
        <5>2. CASE s = r /\ Moved(r)
          <6>1. ~LoadTarget(r)
            BY <3>5 DEF LoadTarget, At, NoteInv, HeldChecked
          <6> QED BY <5>2, <6>1, <1>0, StageMoves DEF ReadChildren, TreeRead, At
        <5> QED BY <3>2, <5>1, <5>2
      <4>2. Loaded(r) \subseteq Loaded(r)'
        <5>1. CASE UNCHANGED vars
          BY <5>1 DEF vars, Loaded
        <5>2. CASE s # r /\ Moved(s)
          BY <5>2, <1>0, OneMoves DEF Loaded
        <5>3. CASE s = r /\ Moved(r)
          BY <5>3, <4>1, <1>0, LoadedGrows
        <5> QED BY <3>2, <5>1, <5>2, <5>3
      <4> QED BY <2>2, <3>4, <3>5, <4>1, <4>2
    <3>6. CASE n \notin held[r]
      <4>1. ReadNotes(s) /\ s = r
        BY <3>1, <3>6, <1>0 DEF FolderRequest, FolderMove, AllRead, ReadNotes,
           DropTreeAndNotes, NoteTypeInv, NotesTypeOK
      <4>2. PICK f \in Loaded(r) : held'[r] = held[r] \cup LoadedNotes(r, f)
        BY <4>1, <1>0 DEF ReadNotes, NoteTypeInv, NotesTypeOK
      <4>3. notes[n].folder = f
        BY <3>6, <4>2 DEF LoadedNotes, NotesOf
      <4>4. Loaded(r) = Loaded(r)'
        BY <4>1 DEF ReadNotes, vars, Loaded
      <4> QED BY <3>4, <4>2, <4>3, <4>4
    <3> QED BY <3>5, <3>6
  <2>4. CASE \E q \in NoteRequests : NoteRequest(q)
    <3>1. PICK q \in NoteRequests : NoteRequest(q)
      BY <2>4
    <3>2. UNCHANGED <<vars, held>>
      BY <3>1, NoteRequestLeavesFolders
    <3>3. pc[r] \in {"expand", "drop"} /\ n \in held[r] /\ Loaded(r) = Loaded(r)'
      BY <3>2 DEF vars, Loaded
    <3>4. NoteChecked(n, call[r].user)
      BY <3>3 DEF NoteInv, HeldChecked
    <3>5. CASE notes'[n] = notes[n]
      BY <2>2, <3>3, <3>5
    <3>6. CASE WriteNote(q) /\ n = noteCall[q].note
      <4>1. /\ NoteExists(n) /\ notes'[n].folder = NewColumn(q, "folder")
            /\ noteCall[q] \in UpdateNote
        BY <3>6, <1>0, NoteWritten DEF NoteExists
      <4>2. CASE Sets(q, "folder")
        <5>1. noteCall' = noteCall /\ notePc'[q] = "refresh"
          BY <3>6, <1>0 DEF WriteNote, N!Goto, NoteTypeInv, NotesTypeOK
        <5>2. MovesNote(q, n)'
          BY <3>6, <4>2, <5>1 DEF WriteNote, MovesNote, Sets
        <5> QED BY <5>1, <5>2
      <4>3. CASE ~Sets(q, "folder")
        <5>1. notes'[n].folder = notes[n].folder
          BY <3>6, <4>1, <4>3 DEF NewColumn
        <5> QED BY <2>1, <3>3, <4>1, <5>1 DEF TakenFromTree
      <4> QED BY <4>2, <4>3
    <3>7. notes'[n] = notes[n] \/ (WriteNote(q) /\ n = noteCall[q].note)
      <4>1. InsertNote(q) => notes'[n] = notes[n]
        BY <1>0, <3>4 DEF InsertNote, N!At, NoteChecked, NoteTypeInv, NotesTypeOK
      <4>2. WriteNote(q) => n = noteCall[q].note \/ notes'[n] = notes[n]
        BY <1>0, <3>4, NoteWritten DEF NoteChecked
      <4>3. DropNote(q) => notes'[n] = notes[n]
        BY <1>0, <3>4 DEF DropNote, NoteTypeInv, NotesTypeOK, NoteChecked
      <4> QED BY <4>1, <4>2, <4>3, <1>0, <3>1, OneNoteMoves
    <3> QED BY <3>5, <3>6, <3>7
  <2> QED BY <1>2, <2>3, <2>4 DEF NotesNext
<1> QED BY <1>1, <1>2

(* A folder delete takes by primary key only what lies in its tree or was  *)
(* moved out of it, by an update of the note, after the delete had read it.*)
THEOREM OnlyTheTreeIsTaken == NotesSpec => []TakenFromTree
<1>1. NotesInit => TakenFromTree
  BY DEF NotesInit, Init, SessionsInit, TakenFromTree
<1> QED BY <1>1, TakenStep, OwnerInvOfNotes, NoteInvHolds, PTL DEF NotesSpec

-----------------------------------------------------------------------------
(* An answered request is done, and does nothing more.                     *)
Final == /\ \A r \in Requests : status[r] # "none" => pc[r] = "done"
         /\ \A q \in NoteRequests : noteStatus[q] # "none" => notePc[q] = "done"

LEMMA NoteAnswers ==
    ASSUME NoteTypeInv, NEW q \in NoteRequests, NoteRequest(q)
    PROVE  /\ notePc[q] # "done"
           /\ noteStatus'[q] = noteStatus[q] \/ notePc'[q] = "done"
           /\ noteStatus'[q] = "201" => noteStatus[q] = "201" \/ RefreshNote(q)
           /\ \A p \in NoteRequests \ {q} : noteStatus'[p] = noteStatus[p]
<1> USE DEF NoteTypeInv, NotesTypeOK, N!At, N!Goto, N!Respond
<1>1. CASE NoteArrive(q) \/ RefuseNote(q)
  BY <1>1 DEF NoteArrive, RefuseNote, N!Enter, StatusOf
<1>2. CASE NoteStep(q)
  BY <1>2 DEF NoteStep, NoteMissing, GetNote, LoadNote, FolderMissing, FolderFound,
     RejectNote, InsertNote, WriteNote, RefreshNote, DropNote, StatusOf
<1> QED BY <1>1, <1>2 DEF NoteRequest

LEMMA FinalStep == OwnerInv /\ NoteInv /\ Final /\ [NotesNext]_noteVars => Final'
<1> SUFFICES ASSUME OwnerInv, NoteInv, Final, [NotesNext]_noteVars PROVE Final'
  OBVIOUS
<1>0. TypeInv /\ NoteTypeInv
  BY DEF OwnerInv, NoteInv
<1>1. CASE UNCHANGED noteVars
  BY <1>1 DEF noteVars, vars, noteSessions, Final
<1>2. ASSUME NEW r \in Requests, FolderRequest(r) PROVE Final'
  <2>1. UNCHANGED noteSessions
    BY <1>2 DEF FolderRequest, FolderMove, ReadNotes, AllRead, DropTreeAndNotes
  <2> QED BY <1>0, <1>2, <2>1, FolderRequestMoves, FolderAnswers
          DEF Final, vars, noteSessions
<1>3. ASSUME NEW q \in NoteRequests, NoteRequest(q) PROVE Final'
  BY <1>0, <1>3, NoteRequestLeavesFolders, NoteAnswers, OneNoteMoves DEF Final, vars
<1> QED BY <1>1, <1>2, <1>3 DEF NotesNext

(* A note lies where it has been put, and what a folder delete holds was   *)
(* put in a folder that has been below the one it deletes.                 *)
NotePlaced ==
    /\ \A q \in NoteRequests : notePc[q] = "idle" => noteCall[q] = NoCall
    /\ \A n \in NoteIds :
          NoteExists(n) /\ notes[n].folder # Null => notes[n].folder \in NotePutIn(n)
    /\ \A r \in Requests, t \in FolderIds :
          pc[r] \in {"expand", "drop"} /\ call[r].target = t =>
              \A n \in held[r] : NotePutIn(n) \cap EverBelow(t) # {}

(* NotePutIn(n) of the next state, n being that of this one.               *)
NotePutInNext(n) ==
    {InitialNotes[s].folder : s \in NoteSeeds \cap {n}}
        \cup {noteCall'[q].folder : q \in
                 {p \in NoteRequests :
                    \/ /\ noteCall'[p].op = "update"
                       /\ noteCall'[p].note = n
                       /\ noteCall'[p].folder # Unset
                       /\ \/ notePc'[p] = "refresh"
                          \/ notePc'[p] = "done" /\ noteStatus'[p] \in {"200", "500"}
                    \/ (p = n /\ noteCall'[p].op = "create")}}

(* The two names for what the next state puts where.                       *)
LEMMA NextPlaces ==
    ASSUME NEW n, NEW t
    PROVE  NotePutIn(n)' = NotePutInNext(n) /\ EverBelow(t)' = BelowNext(t)
<1>1. NotePutIn(n)' = NotePutInNext(n)
  BY DEF NotePutIn, NotePutInNext, HasMovedNote, MovesNote, N!At
<1>2. EverBelow(t)' = BelowNext(t)
  BY DEF EverBelow, BelowNext, PutIn, PutInNext, HasMoved, At
<1> QED BY <1>1, <1>2

LEMMA PlacesStay ==
    ASSUME UNCHANGED noteVars, NEW n, NEW t
    PROVE  NotePutIn(n)' = NotePutIn(n) /\ EverBelow(t)' = EverBelow(t)
<1>1. NotePutIn(n)' = NotePutIn(n)
  BY DEF noteVars, noteSessions, NotePutIn, HasMovedNote, MovesNote, N!At
<1>2. EverBelow(t)' = EverBelow(t)
  BY DEF noteVars, vars, EverBelow, PutIn, HasMoved, At
<1> QED BY <1>1, <1>2

LEMMA NotePlacedInit == NotesInit => NotePlaced
<1> SUFFICES ASSUME NotesInit PROVE NotePlaced
  OBVIOUS
<1>1. ASSUME NEW n \in NoteIds, NoteExists(n) PROVE notes[n].folder \in NotePutIn(n)
  <2>1. n \in NoteSeeds /\ notes[n].folder = InitialNotes[n].folder
    BY <1>1 DEF NotesInit, NoteExists
  <2> QED BY <2>1 DEF NotePutIn
<1>2. /\ \A q \in NoteRequests : noteCall[q] = NoCall
      /\ \A r \in Requests : pc[r] = "idle"
  BY DEF NotesInit, Init, SessionsInit, N!SessionsInit, NoCall, N!NoCall
<1> QED BY <1>1, <1>2 DEF NotePlaced

(* A note request that has arrived does not become idle again, and after   *)
(* its commit it is answered.                                              *)
LEMMA NoteMovesOn ==
    ASSUME NoteTypeInv, NEW q \in NoteRequests, NoteRequest(q)
    PROVE  /\ notePc'[q] # "idle"
           /\ notePc[q] = "refresh" => RefreshNote(q)
<1> USE DEF NoteTypeInv, NotesTypeOK, N!At, N!Goto, N!Respond
<1>1. CASE NoteArrive(q) \/ RefuseNote(q)
  BY <1>1 DEF NoteArrive, RefuseNote, N!Enter, FirstNoteStage
<1>2. CASE NoteStep(q)
  BY <1>2 DEF NoteStep, NoteMissing, GetNote, LoadNote, FolderMissing, FolderFound,
     RejectNote, InsertNote, WriteNote, RefreshNote, DropNote
<1> QED BY <1>1, <1>2 DEF NoteRequest

(* Where a note has been it has been for good, and so for folders.         *)
LEMMA NotePutInGrows ==
    ASSUME NoteTypeInv, NotePlaced, NotesNext, NEW n
    PROVE  NotePutIn(n) \subseteq NotePutInNext(n)
<1>1. ASSUME NEW p \in NoteRequests, notePc[p] # "idle"
      PROVE  /\ noteCall'[p] = noteCall[p]
             /\ notePc[p] = "refresh" =>
                   notePc'[p] = "refresh" \/ (RefreshNote(p) /\ notePc'[p] = "done")
             /\ notePc[p] = "done" =>
                   notePc'[p] = "done" /\ noteStatus'[p] = noteStatus[p]
  <2>1. ASSUME NEW r \in Requests, FolderRequest(r) PROVE UNCHANGED noteSessions
    BY <2>1 DEF FolderRequest, FolderMove, ReadNotes, AllRead, DropTreeAndNotes
  <2>2. ASSUME NEW q \in NoteRequests, NoteRequest(q)
        PROVE  /\ noteCall'[p] = noteCall[p]
               /\ notePc[p] = "refresh" =>
                     notePc'[p] = "refresh" \/ (RefreshNote(p) /\ notePc'[p] = "done")
               /\ notePc[p] = "done" =>
                     notePc'[p] = "done" /\ noteStatus'[p] = noteStatus[p]
    <3>1. CASE p = q
      BY <1>1, <2>2, <3>1, OneNoteMoves, NoteAnswers, NoteMovesOn
    <3>2. CASE p # q
      BY <2>2, <3>2, OneNoteMoves, NoteAnswers
    <3> QED BY <3>1, <3>2
  <2> QED BY <2>1, <2>2 DEF NotesNext, noteSessions
<1>2. ASSUME NEW p \in NoteRequests, HasMovedNote(p, n)
      PROVE  /\ noteCall'[p] = noteCall[p]
             /\ \/ notePc'[p] = "refresh"
                \/ notePc'[p] = "done" /\ noteStatus'[p] \in {"200", "500"}
  <2>1. notePc[p] \in {"refresh", "done"} /\ noteCall[p].op = "update"
    BY <1>2 DEF HasMovedNote, MovesNote, N!At
  <2>2. RefreshNote(p) => noteStatus'[p] \in {"200", "500"}
    BY <2>1 DEF RefreshNote, N!Respond, StatusOf, NoteTypeInv, NotesTypeOK
  <2> QED BY <1>1, <1>2, <2>1, <2>2 DEF HasMovedNote, N!At
<1>3. ASSUME NEW p \in NoteRequests, noteCall[p].op = "create"
      PROVE  noteCall'[p] = noteCall[p]
  BY <1>1, <1>3 DEF NotePlaced, NoCall
<1>4. ASSUME NEW f \in NotePutIn(n),
             f \notin {InitialNotes[s].folder : s \in NoteSeeds \cap {n}}
      PROVE  f \in NotePutInNext(n)
  <2>1. PICK p \in NoteRequests :
          /\ f = noteCall[p].folder
          /\ HasMovedNote(p, n) \/ (p = n /\ noteCall[p].op = "create")
    BY <1>4 DEF NotePutIn
  <2>2. noteCall'[p] = noteCall[p]
    BY <1>2, <1>3, <2>1
  <2>3. \/ /\ noteCall'[p].op = "update"
           /\ noteCall'[p].note = n
           /\ noteCall'[p].folder # Unset
           /\ \/ notePc'[p] = "refresh"
              \/ notePc'[p] = "done" /\ noteStatus'[p] \in {"200", "500"}
        \/ (p = n /\ noteCall'[p].op = "create")
    BY <1>2, <2>1, <2>2 DEF HasMovedNote, MovesNote
  <2> QED BY <2>1, <2>2, <2>3 DEF NotePutInNext
<1> QED BY <1>4 DEF NotePutInNext

LEMMA BelowGrowsBesideNotes ==
    ASSUME TypeInv, PlacedInv, NotesNext, NEW t
    PROVE  EverBelow(t) \subseteq BelowNext(t)
<1>1. CASE UNCHANGED vars
  <2>1. \A f : PutIn(f) = PutInNext(f)
    BY <1>1 DEF vars, PutIn, PutInNext, HasMoved, At
  <2> QED BY <2>1 DEF EverBelow, BelowNext
<1>2. ASSUME NEW r \in Requests, Moved(r) PROVE EverBelow(t) \subseteq BelowNext(t)
  BY <1>2, BelowGrows
<1> QED BY <1>1, <1>2, FolderRequestMoves, NoteRequestLeavesFolders DEF NotesNext

LEMMA NotePlacedStep ==
    /\ OwnerInv /\ NoteInv /\ PlacedInv /\ NotePlaced /\ [NotesNext]_noteVars
    => NotePlaced'
<1> SUFFICES ASSUME OwnerInv, NoteInv, PlacedInv, NotePlaced, [NotesNext]_noteVars
             PROVE  NotePlaced'
  OBVIOUS
<1>0. TypeInv /\ NoteTypeInv /\ NoteTypeInv'
  BY NoteTypeStep DEF OwnerInv, NoteInv
<1>1. CASE UNCHANGED noteVars
  BY <1>1, PlacesStay DEF noteVars, noteSessions, vars, NotePlaced, NoteExists
<1>2. CASE NotesNext
  <2>1. /\ \A n : NotePutIn(n) \subseteq NotePutInNext(n)
        /\ \A t : EverBelow(t) \subseteq BelowNext(t)
    BY <1>0, <1>2, NotePutInGrows, BelowGrowsBesideNotes
  <2>2. ASSUME NEW q \in NoteRequests, notePc'[q] = "idle" PROVE noteCall'[q] = NoCall
    <3>1. ASSUME NEW r \in Requests, FolderRequest(r) PROVE UNCHANGED noteSessions
      BY <3>1 DEF FolderRequest, FolderMove, ReadNotes, AllRead, DropTreeAndNotes
    <3>2. ASSUME NEW p \in NoteRequests, NoteRequest(p)
          PROVE  notePc'[q] = notePc[q] /\ noteCall'[q] = noteCall[q]
      BY <1>0, <2>2, <3>2, OneNoteMoves, NoteMovesOn
    <3> QED BY <1>2, <2>2, <3>1, <3>2 DEF NotesNext, noteSessions, NotePlaced
  <2>3. ASSUME NEW n \in NoteIds, notes'[n] # NoNote, notes'[n].folder # Null
        PROVE  notes'[n].folder \in NotePutInNext(n)
    <3>1. CASE notes[n] # NoNote /\ notes'[n].folder = notes[n].folder
      BY <2>1, <2>3, <3>1 DEF NotePlaced, NoteExists
    <3>2. ASSUME NEW r \in Requests, FolderRequest(r) PROVE notes'[n] = notes[n]
      BY <1>0, <2>3, <3>2 DEF FolderRequest, FolderMove, ReadNotes, AllRead,
         DropTreeAndNotes, NoteTypeInv, NotesTypeOK
    <3>3. ASSUME NEW q \in NoteRequests, InsertNote(q)
          PROVE  notes'[n].folder \in NotePutInNext(n)
      <4>1. CASE n = q
        <5>1. notes'[n].folder = noteCall'[q].folder /\ noteCall'[q].op = "create"
          BY <1>0, <3>3, <4>1 DEF InsertNote, N!Goto, NoteTypeInv, NotesTypeOK
        <5> QED BY <4>1, <5>1 DEF NotePutInNext
      <4>2. CASE n # q
        <5>1. notes'[n] = notes[n]
          BY <1>0, <3>3, <4>2 DEF InsertNote, NoteTypeInv, NotesTypeOK
        <5> QED BY <2>3, <3>1, <5>1
      <4> QED BY <4>1, <4>2
    <3>4. ASSUME NEW q \in NoteRequests, WriteNote(q)
          PROVE  notes'[n].folder \in NotePutInNext(n)
      <4>1. CASE n # noteCall[q].note
        <5>1. notes'[n] = notes[n]
          BY <1>0, <3>4, <4>1, NoteWritten
        <5> QED BY <2>3, <3>1, <5>1
      <4>2. CASE n = noteCall[q].note
        <5>1. notes[n] # NoNote /\ notes'[n].folder = NewColumn(q, "folder")
          BY <1>0, <2>3, <3>4, <4>2, NoteWritten
        <5>2. CASE ~Sets(q, "folder")
          BY <3>1, <4>2, <5>1, <5>2 DEF NewColumn
        <5>3. CASE Sets(q, "folder")
          <6>1. /\ noteCall' = noteCall /\ notePc'[q] = "refresh"
                /\ noteCall[q].op = "update"
            BY <1>0, <3>4 DEF WriteNote, N!Goto, NoteTypeInv, NotesTypeOK
          <6>2. notes'[n].folder = noteCall[q].folder /\ noteCall[q].folder # Unset
            BY <5>1, <5>3 DEF NewColumn, Sets
          <6> QED BY <4>2, <6>1, <6>2 DEF NotePutInNext
        <5> QED BY <5>2, <5>3
      <4> QED BY <4>1, <4>2
    <3>5. ASSUME NEW q \in NoteRequests, DropNote(q) PROVE notes'[n] = notes[n]
      BY <1>0, <2>3, <3>5 DEF DropNote, NoteTypeInv, NotesTypeOK
    <3>6. ASSUME NEW q \in NoteRequests, NoteRequest(q)
          PROVE  \/ notes'[n] = notes[n]
                 \/ notes'[n].folder \in NotePutInNext(n)
      BY <1>0, <3>3, <3>4, <3>5, <3>6, OneNoteMoves
    <3> QED BY <1>2, <2>3, <3>1, <3>2, <3>6 DEF NotesNext
  <2>4. ASSUME NEW r \in Requests, NEW t \in FolderIds, call'[r].target = t,
               pc'[r] \in {"expand", "drop"}, NEW n \in held'[r]
        PROVE  NotePutInNext(n) \cap BelowNext(t) # {}
    <3>1. CASE /\ pc[r] \in {"expand", "drop"} /\ n \in held[r]
               /\ call'[r] = call[r]
      BY <2>1, <2>4, <3>1 DEF NotePlaced
    <3>2. ASSUME NEW q \in NoteRequests, NoteRequest(q)
          PROVE  pc' = pc /\ call' = call /\ held' = held
      BY <3>2, NoteRequestLeavesFolders DEF vars
    <3>3. ASSUME NEW s \in Requests, FolderRequest(s), n \in held[r]
          PROVE  pc[r] \in {"expand", "drop"} /\ call'[r] = call[r]
      <4>1. Moved(s) \/ UNCHANGED vars
        BY <3>3, FolderRequestMoves
      <4>2. CASE UNCHANGED vars
        BY <2>4, <4>2 DEF vars
      <4>3. CASE Moved(s) /\ s # r
        BY <1>0, <2>4, <4>3, OneMoves
      <4>4. CASE Moved(s) /\ s = r
        <5>1. ~LoadTarget(r)
          BY <3>3 DEF LoadTarget, At, NoteInv, HeldChecked
        <5>2. pc[r] \in {"expand", "drop"}
          BY <1>0, <2>4, <4>4, <5>1, StageMoves DEF ReadChildren, TreeRead, At
        <5> QED BY <1>0, <4>4, <5>2, OneMoves
      <4> QED BY <4>1, <4>2, <4>3, <4>4
    <3>4. ASSUME NEW s \in Requests, FolderRequest(s), n \notin held[r]
          PROVE  NotePutInNext(n) \cap BelowNext(t) # {}
      <4>1. ReadNotes(s) /\ s = r
        BY <1>0, <2>4, <3>4 DEF FolderRequest, FolderMove, AllRead, ReadNotes,
           DropTreeAndNotes, NoteTypeInv, NotesTypeOK
      <4>2. PICK f \in Loaded(r) : held'[r] = held[r] \cup LoadedNotes(r, f)
        BY <1>0, <4>1 DEF ReadNotes, NoteTypeInv, NotesTypeOK
      <4>3. n \in NoteIds /\ NoteExists(n) /\ notes[n].folder = f
        BY <2>4, <3>4, <4>2 DEF LoadedNotes, NotesOf
      <4>4. pc[r] = "expand" /\ call' = call
        BY <4>1 DEF ReadNotes, At, vars
      <4>5. f \in EverBelow(t)
        BY <2>4, <4>2, <4>4 DEF PlacedInv
      <4>6. f # Null
        BY <4>5, FoldersAssumption DEF EverBelow
      <4>7. f \in NotePutIn(n)
        BY <4>3, <4>6 DEF NotePlaced
      <4> QED BY <2>1, <4>4, <4>5, <4>7
    <3> QED BY <1>2, <2>4, <3>1, <3>2, <3>3, <3>4 DEF NotesNext
  <2> QED BY <2>2, <2>3, <2>4, NextPlaces DEF NotePlaced, NoteExists, NoCall
<1> QED BY <1>1, <1>2

LEMMA PlacedOfNotes == NotesSpec => [](PlacedInv /\ NotePlaced)
<1>1. NotesSpec => []PlacedInv
  BY NotesUseFolders, PlacedHolds, PTL
<1> QED BY <1>1, NotePlacedInit, NotePlacedStep, OwnerInvOfNotes, NoteInvHolds, PTL
        DEF NotesSpec

(* NoteKept, with a name for the folder that was deleted.                  *)
NoteRemains ==
    \A n \in NoteRequests :
        noteCall[n].op = "create" /\ noteStatus[n] = "201" =>
            \/ NoteExists(n)
            \/ \E q \in NoteRequests :
                  /\ noteCall[q].op = "delete"
                  /\ noteCall[q].note = n
                  /\ noteCall[q].user = noteCall[n].user
                  /\ noteStatus[q] = "204"
            \/ \E r \in Requests, t \in FolderIds :
                  /\ call[r].op = "delete"
                  /\ call[r].user = noteCall[n].user
                  /\ call[r].target = t
                  /\ status[r] = "204"
                  /\ NotePutIn(n) \cap EverBelow(t) # {}

LEMMA KeptStep ==
    /\ OwnerInv /\ NoteInv /\ Final /\ PlacedInv /\ NotePlaced
    /\ NoteRemains /\ [NotesNext]_noteVars
    => NoteRemains'
<1> SUFFICES ASSUME OwnerInv, NoteInv, Final, PlacedInv, NotePlaced, NoteRemains,
                    [NotesNext]_noteVars
             PROVE  NoteRemains'
  OBVIOUS
<1>0. TypeInv /\ NoteTypeInv
  BY DEF OwnerInv, NoteInv
<1>1. CASE UNCHANGED noteVars
  <2>1. \A n, t : NotePutIn(n)' = NotePutIn(n) /\ EverBelow(t)' = EverBelow(t)
    BY <1>1, PlacesStay
  <2>2. /\ noteCall' = noteCall /\ noteStatus' = noteStatus /\ notes' = notes
        /\ call' = call /\ status' = status
    BY <1>1 DEF noteVars, noteSessions, vars
  <2> SUFFICES ASSUME NEW n \in NoteRequests, noteCall[n].op = "create",
                      noteStatus[n] = "201", ~NoteExists(n),
                      NEW r \in Requests, NEW t \in FolderIds,
                      NotePutIn(n) \cap EverBelow(t) # {}
               PROVE  (NotePutIn(n) \cap EverBelow(t) # {})'
    BY <2>2 DEF NoteRemains, NoteExists
  <2> QED BY <2>1
<1>2. CASE NotesNext
  <2> DEFINE
        Removed(n, q) ==
            /\ noteCall[q].op = "delete"
            /\ noteCall[q].note = n
            /\ noteCall[q].user = noteCall[n].user
            /\ noteStatus[q] = "204"
        TakenDown(n, r, t) ==
            /\ call[r].op = "delete"
            /\ call[r].user = noteCall[n].user
            /\ call[r].target = t
            /\ status[r] = "204"
            /\ NotePutIn(n) \cap EverBelow(t) # {}
        TakenDownNext(n, r, t) ==
            /\ call'[r].op = "delete"
            /\ call'[r].user = noteCall'[n].user
            /\ call'[r].target = t
            /\ status'[r] = "204"
            /\ NotePutInNext(n) \cap BelowNext(t) # {}
  <2> SUFFICES ASSUME NEW n \in NoteRequests, noteCall'[n].op = "create",
                      noteStatus'[n] = "201", notes'[n] = NoNote
               PROVE  \/ \E q \in NoteRequests : Removed(n, q)'
                      \/ \E r \in Requests, t \in FolderIds : TakenDownNext(n, r, t)
    BY NextPlaces DEF NoteRemains, NoteExists
  <2>0. /\ NotePutIn(n) \subseteq NotePutInNext(n)
        /\ \A t : EverBelow(t) \subseteq BelowNext(t)
    BY <1>0, <1>2, NotePutInGrows, BelowGrowsBesideNotes
  <2>1. n \in NoteIds /\ \A q \in NoteRequests : notePc[q] = "done" =>
            /\ noteCall'[q] = noteCall[q] /\ noteStatus'[q] = noteStatus[q]
    <3>1. ASSUME NEW r \in Requests, FolderRequest(r) PROVE UNCHANGED noteSessions
      BY <3>1 DEF FolderRequest, FolderMove, ReadNotes, AllRead, DropTreeAndNotes
    <3>2. ASSUME NEW p \in NoteRequests, NoteRequest(p),
                 NEW q \in NoteRequests, notePc[q] = "done"
          PROVE  noteCall'[q] = noteCall[q] /\ noteStatus'[q] = noteStatus[q]
      BY <1>0, <3>2, OneNoteMoves, NoteAnswers
    <3> QED BY <1>2, <3>1, <3>2 DEF NotesNext, noteSessions, NoteIds
  <2>2. \A r \in Requests : pc[r] = "done" =>
            call'[r] = call[r] /\ status'[r] = status[r]
    BY <1>0, <1>2, FolderRequestMoves, FolderAnswers, NoteRequestLeavesFolders
       DEF NotesNext, vars
  <2>3. noteStatus[n] = "201" /\ notePc[n] = "done" /\ noteCall[n].op = "create"
    <3>1. noteStatus[n] = "201"
      <4>1. ASSUME NEW r \in Requests, FolderRequest(r) PROVE UNCHANGED noteSessions
        BY <4>1 DEF FolderRequest, FolderMove, ReadNotes, AllRead, DropTreeAndNotes
      <4>2. ASSUME NEW q \in NoteRequests, NoteRequest(q), noteStatus[n] # "201"
            PROVE  FALSE
        <5>1. q = n /\ RefreshNote(n)
          BY <1>0, <4>2, NoteAnswers
        <5>2. notes[n] # NoNote
          BY <1>0, <5>1 DEF RefreshNote, WrittenNote, NoteExists, N!Respond, StatusOf,
             NoteTypeInv, NotesTypeOK
        <5> QED BY <5>1, <5>2 DEF RefreshNote
      <4> QED BY <1>2, <4>1, <4>2 DEF NotesNext, noteSessions
    <3> QED BY <2>1, <3>1 DEF Final
  <2>4. ASSUME NEW q \in NoteRequests, Removed(n, q) PROVE Removed(n, q)'
    BY <2>1, <2>3, <2>4 DEF Final
  <2>5. ASSUME NEW r \in Requests, NEW t \in FolderIds, TakenDown(n, r, t)
        PROVE  TakenDownNext(n, r, t)
    BY <2>0, <2>1, <2>2, <2>3, <2>5 DEF Final
  <2>6. CASE ~NoteExists(n)
    BY <2>3, <2>4, <2>5, <2>6 DEF NoteRemains
  <2>7. CASE NoteExists(n)
    <3>1. notes[n].owner = noteCall[n].user /\ noteCall'[n] = noteCall[n]
      BY <2>1, <2>3, <2>7 DEF NoteInv, NoteRowsWritten
    <3>2. ASSUME NEW r \in Requests, FolderRequest(r)
          PROVE  \E t \in FolderIds : TakenDownNext(n, r, t)
      <4>1. DropTreeAndNotes(r)
        BY <2>7, <3>2 DEF FolderRequest, FolderMove, ReadNotes, AllRead, NoteExists
      <4>2. n \in Taken(r) /\ At(r, "drop")
        BY <2>1, <2>7, <4>1 DEF DropTreeAndNotes, DropTree, NoteExists
      <4>3. call[r].user = noteCall[n].user
        BY <2>7, <3>1, <4>2, TakenOwned
      <4>4. status'[r] = "204" /\ call' = call
        BY <1>0, <4>1 DEF DropTreeAndNotes, DropTree, Close, Respond, TypeInv, FoldersTypeOK
      <4>5. call[r].op = "delete" /\ call[r].target \in FolderIds
        BY <1>0, <4>2 DEF At, TypeInv, StageOfCall, DeleteCall
      <4>6. NotePutIn(n) \cap EverBelow(call[r].target) # {}
        <5>1. CASE n \in held[r]
          BY <4>2, <4>5, <5>1 DEF At, NotePlaced
        <5>2. CASE n \in NotesOf(Cascade(Loaded(r)))
          <6>1. call[r].target \in FolderIds /\ Loaded(r) \subseteq EverBelow(call[r].target)
            BY <1>0, <4>2 DEF At, TypeInv, StageOfCall, DeleteCall, PlacedInv
          <6>2. notes[n].folder \in EverBelow(call[r].target)
            BY <5>2, <6>1, BelowChildren DEF NotesOf
          <6>3. notes[n].folder # Null
            BY <6>2, FoldersAssumption DEF EverBelow
          <6> QED BY <2>1, <2>7, <6>2, <6>3 DEF NotePlaced
        <5> QED BY <4>2, <5>1, <5>2 DEF Taken
      <4> QED BY <2>0, <3>1, <4>3, <4>4, <4>5, <4>6
    <3>3. ASSUME NEW q \in NoteRequests, NoteRequest(q) PROVE Removed(n, q)'
      <4>1. DropNote(q)
        <5>1. ~InsertNote(q)
          BY <1>0, <2>1, <2>7, NotesAssumption, FoldersAssumption
             DEF InsertNote, NoteExists, NoteTypeInv, NotesTypeOK, NoNote,
             NoteStageOfCall, N!At, CreateNote, UpdateNote
        <5>2. ~WriteNote(q)
          BY <1>0, <2>1, <2>7, NoteWritten DEF NoteExists
        <5> QED BY <1>0, <2>7, <3>3, <5>1, <5>2, OneNoteMoves DEF NoteExists
      <4>2. n = noteCall[q].note /\ noteCall[q].op = "delete"
        BY <1>0, <2>1, <2>7, <4>1 DEF DropNote, N!At, NoteExists, NoteTypeInv,
           NotesTypeOK, NoteStageOfCall
      <4>3. noteCall[q].user = noteCall[n].user
        BY <2>7, <3>1, <4>1, <4>2 DEF DropNote, N!At, NoteInv, NoteTargetChecked,
           NoteChecked
      <4>4. noteStatus'[q] = "204" /\ noteCall' = noteCall
        BY <1>0, <4>1 DEF DropNote, N!Respond, NoteTypeInv, NotesTypeOK
      <4> QED BY <4>2, <4>3, <4>4
    <3> QED BY <1>2, <3>2, <3>3 DEF NotesNext
  <2> QED BY <2>6, <2>7
<1> QED BY <1>1, <1>2

(* An acknowledged note stays until its owner deletes it or a folder.      *)
THEOREM CreatedNotesStay == NotesSpec => []NoteKept
<1>1. NotesInit => Final /\ NoteRemains
  BY DEF NotesInit, Init, SessionsInit, N!SessionsInit, Final, NoteRemains
<1>2. NoteRemains => NoteKept
  BY DEF NoteRemains, NoteKept
<1> QED BY <1>1, <1>2, FinalStep, KeptStep, OwnerInvOfNotes, NoteInvHolds, PlacedOfNotes, PTL
        DEF NotesSpec

-----------------------------------------------------------------------------
Columns == {"folder", "title"}

(* A committed update is of a note that has been written.                  *)
SettersChecked ==
    \A q \in NoteRequests, n \in NoteIds, column \in Columns :
        SetsColumn(q, n, column) => NoteChecked(n, noteCall[q].user)

(* What an update has loaded is still in the row, or has been overtaken by *)
(* an update that has committed.                                           *)
LoadedOrOvertaken ==
    \A q \in NoteRequests, n \in NoteIds, column \in Columns :
        /\ notePc[q] \in {"folder", "write"}
        /\ noteCall[q].op = "update" /\ noteCall[q].note = n
        /\ NoteExists(n)
        => \/ noteSeen[q][column] = notes[n][column]
           \/ \E p \in NoteRequests : SetsColumn(p, n, column)

EffectInv == Final /\ SettersChecked /\ LoadedOrOvertaken /\ UpdateTakesEffect

(* The table changes at a column of a row that stays only in an update     *)
(* that sets the column.                                                   *)
LEMMA ColumnChanges ==
    ASSUME NoteInv, NotesNext, NEW n \in NoteIds, NEW column \in Columns,
           notes[n] # NoNote, notes'[n] # NoNote, notes'[n][column] # notes[n][column]
    PROVE  \E q \in NoteRequests :
              /\ WriteNote(q) /\ noteCall[q].note = n /\ Sets(q, column)
              /\ notes'[n][column] = noteCall[q][column]
<1>0. NoteTypeInv
  BY DEF NoteInv
<1>1. ASSUME NEW r \in Requests, FolderRequest(r) PROVE notes'[n] = notes[n]
  BY <1>0, <1>1 DEF FolderRequest, FolderMove, ReadNotes, AllRead, DropTreeAndNotes,
     NoteTypeInv, NotesTypeOK
<1>2. PICK q \in NoteRequests : NoteRequest(q)
  BY <1>1 DEF NotesNext
<1>3. ~InsertNote(q)
  BY <1>0 DEF InsertNote, N!At, NoteInv, NoteRowsWritten, NoteExists, NoteTypeInv,
     NotesTypeOK
<1>4. ~DropNote(q)
  BY <1>0 DEF DropNote, NoteTypeInv, NotesTypeOK
<1>5. WriteNote(q) /\ noteCall[q].note = n
  BY <1>0, <1>2, <1>3, <1>4, NoteWritten, OneNoteMoves
<1>6. notes'[n][column] = NewColumn(q, column)
  BY <1>0, <1>5, NoteWritten DEF Columns
<1> QED BY <1>5, <1>6 DEF NewColumn

(* Updates of different columns merge: a column only takes the value of a  *)
(* payload that sets it.                                                   *)
THEOREM UpdatesDoMerge == NotesSpec => UpdatesMerge
<1> DEFINE Merge ==
      \A n \in NoteIds, column \in {"folder", "title"} :
          /\ NoteExists(n)
          /\ notes'[n] # NoNote
          /\ notes'[n][column] # notes[n][column]
          => \E q \in NoteRequests :
                /\ notePc[q] = "write" /\ notePc'[q] = "refresh"
                /\ noteCall[q].note = n
                /\ noteCall[q][column] = notes'[n][column]
<1>1. NoteInv /\ [NotesNext]_noteVars => [Merge]_noteVars
  <2> SUFFICES ASSUME NoteInv, NotesNext, NEW n \in NoteIds, NEW column \in Columns,
                      notes[n] # NoNote, notes'[n] # NoNote,
                      notes'[n][column] # notes[n][column]
               PROVE  \E q \in NoteRequests :
                         /\ notePc[q] = "write" /\ notePc'[q] = "refresh"
                         /\ noteCall[q].note = n
                         /\ noteCall[q][column] = notes'[n][column]
    BY DEF Columns, NoteExists
  <2>1. PICK q \in NoteRequests :
          /\ WriteNote(q) /\ noteCall[q].note = n
          /\ notes'[n][column] = noteCall[q][column]
    BY ColumnChanges
  <2>2. notePc[q] = "write" /\ notePc'[q] = "refresh"
    BY <2>1 DEF WriteNote, N!At, N!Goto, NoteInv, NoteTypeInv, NotesTypeOK
  <2> QED BY <2>1, <2>2
<1> QED BY NoteInvHolds, <1>1, PTL DEF NotesSpec, UpdatesMerge

(* A committed update stays committed while its note is there.             *)
LEMMA SetterStays ==
    ASSUME OwnerInv, NoteInv, Final, NotesNext, NEW q \in NoteRequests, NEW n \in NoteIds,
           NEW column \in Columns, SetsColumn(q, n, column), notes'[n] # NoNote
    PROVE  SetsColumn(q, n, column)'
<1>0. TypeInv /\ NoteTypeInv
  BY DEF OwnerInv, NoteInv
<1>1. noteCall'[q] = noteCall[q] /\ notePc'[q] \in {"refresh", "done"}
  BY <1>0, NoteCommitted DEF SetsColumn
<1>2. noteStatus'[q] \in {"none", "200"}
  <2>1. ASSUME NEW r \in Requests, FolderRequest(r) PROVE noteStatus' = noteStatus
    BY <2>1 DEF FolderRequest, FolderMove, ReadNotes, AllRead, DropTreeAndNotes,
       noteSessions
  <2>2. ASSUME NEW p \in NoteRequests, NoteRequest(p), p # q
        PROVE  noteStatus'[q] = noteStatus[q]
    BY <1>0, <2>2, NoteAnswers
  <2>3. ASSUME NoteRequest(q) PROVE noteStatus'[q] = "200"
    <3>1. RefreshNote(q)
      <4>1. notePc[q] = "refresh"
        BY <1>0, <2>3, NoteAnswers DEF SetsColumn
      <4> QED BY <2>3, <4>1 DEF NoteRequest, NoteArrive, RefuseNote, NoteStep,
              NoteMissing, GetNote, LoadNote, FolderMissing, FolderFound, RejectNote,
              InsertNote, WriteNote, DropNote, N!At
    <3>2. NoteExists(n) /\ WrittenNote(q) = n
      BY <3>1 DEF RefreshNote, NoteExists, SetsColumn, WrittenNote
    <3> QED BY <1>0, <3>1, <3>2 DEF RefreshNote, N!Respond, SetsColumn, NoteTypeInv,
            NotesTypeOK
  <2> QED BY <2>1, <2>2, <2>3 DEF NotesNext, SetsColumn
<1> QED BY <1>1, <1>2 DEF SetsColumn

(* An update becomes a committed one by its write.                         *)
LEMMA BecomesSetter ==
    ASSUME OwnerInv, NoteInv, Final, NotesNext, NEW q \in NoteRequests, NEW n \in NoteIds,
           NEW column \in Columns, SetsColumn(q, n, column)', ~SetsColumn(q, n, column)
    PROVE  WriteNote(q) /\ noteCall' = noteCall /\ noteCall[q].note = n
<1>0. NoteTypeInv
  BY DEF NoteInv
<1>1. ASSUME NEW r \in Requests, FolderRequest(r) PROVE FALSE
  BY <1>1 DEF FolderRequest, FolderMove, ReadNotes, AllRead, DropTreeAndNotes,
     noteSessions, SetsColumn
<1>2. ASSUME NEW p \in NoteRequests, NoteRequest(p), p # q PROVE FALSE
  BY <1>0, <1>2, NoteAnswers, OneNoteMoves DEF SetsColumn
<1>3. NoteRequest(q)
  BY <1>1, <1>2 DEF NotesNext
<1> USE DEF NoteTypeInv, NotesTypeOK, N!At, N!Goto, N!Respond
<1>4. ~NoteArrive(q) /\ ~RefuseNote(q)
  <2>1. ~NoteArrive(q)
    BY <1>0 DEF NoteArrive, N!Enter, FirstNoteStage, SetsColumn
  <2>2. ~RefuseNote(q)
    BY <1>0 DEF RefuseNote, SetsColumn, StatusOf
  <2> QED BY <2>1, <2>2
<1>5. notePc[q] # "done" /\ notePc[q] # "idle" /\ noteCall'[q] = noteCall[q]
  BY <1>0, <1>3, <1>4, NoteAnswers, OneNoteMoves
     DEF NoteRequest, NoteStep, NoteMissing, GetNote, LoadNote, FolderMissing,
     FolderFound, RejectNote, InsertNote, WriteNote, RefreshNote, DropNote
<1>6. noteStatus[q] = "none"
  BY <1>5 DEF Final
<1>7. notePc[q] # "refresh"
  BY <1>5, <1>6 DEF SetsColumn
<1>8. ~GetNote(q) /\ ~NoteMissing(q) /\ ~FolderMissing(q) /\ ~RejectNote(q)
      /\ ~LoadNote(q) /\ ~FolderFound(q) /\ ~DropNote(q) /\ ~InsertNote(q)
  BY <1>0, <1>5 DEF GetNote, NoteMissing, FolderMissing, RejectNote, LoadNote,
     FolderFound, DropNote, InsertNote, SetsColumn, StatusOf
<1>9. WriteNote(q)
  BY <1>3, <1>4, <1>7, <1>8 DEF NoteRequest, NoteStep, RefreshNote
<1> QED BY <1>9 DEF WriteNote, SetsColumn

LEMMA EffectStep ==
    OwnerInv /\ NoteInv /\ EffectInv /\ [NotesNext]_noteVars => EffectInv'
<1> SUFFICES ASSUME OwnerInv, NoteInv, EffectInv, [NotesNext]_noteVars
             PROVE  EffectInv'
  OBVIOUS
<1>0. NoteTypeInv /\ Final /\ Final'
  BY FinalStep DEF NoteInv, EffectInv
<1>1. CASE UNCHANGED noteVars
  BY <1>0, <1>1 DEF noteVars, noteSessions, EffectInv, SettersChecked,
     LoadedOrOvertaken, UpdateTakesEffect, SetsColumn, NoteChecked, NoteExists
<1>2. CASE NotesNext
  <2>1. \A n, u : NoteChecked(n, u) => StaysNoteChecked(n, u)
    BY <1>0, <1>2, NoteCheckedAfter
  <2>2. ASSUME NEW n \in NoteIds, notes'[n] # NoNote, ~NoteExists(n)
        PROVE  n \in NoteRequests /\ InsertNote(n) /\ ~ \E u : NoteChecked(n, u)
    BY <1>0, <1>2, <2>2, NoteOwnersStay DEF InsertNote, N!At, NoteChecked
  <2>3. ASSUME NEW q \in NoteRequests, NEW n \in NoteIds, NEW column \in Columns,
               SetsColumn(q, n, column)', ~SetsColumn(q, n, column)
        PROVE  /\ WriteNote(q) /\ noteCall' = noteCall /\ noteCall[q].note = n
               /\ NoteChecked(n, noteCall[q].user)
    <3>1. WriteNote(q) /\ noteCall' = noteCall /\ noteCall[q].note = n
      BY <1>0, <1>2, <2>3, BecomesSetter
    <3> QED BY <3>1 DEF WriteNote, N!At, NoteInv, NoteTargetChecked
  <2>4. SettersChecked'
    <3> SUFFICES ASSUME NEW q \in NoteRequests, NEW n \in NoteIds,
                        NEW column \in Columns, SetsColumn(q, n, column)'
                 PROVE  StaysNoteChecked(n, noteCall'[q].user)
      BY DEF SettersChecked, NoteChecked, StaysNoteChecked, NoteExists
    <3>1. CASE SetsColumn(q, n, column)
      <4>1. noteCall'[q] = noteCall[q]
        BY <1>0, <1>2, <3>1, NoteCommitted DEF SetsColumn
      <4> QED BY <2>1, <3>1, <4>1 DEF EffectInv, SettersChecked
    <3> QED BY <2>1, <2>3, <3>1
  <2>5. LoadedOrOvertaken'
    <3> SUFFICES ASSUME NEW q \in NoteRequests, NEW n \in NoteIds,
                        NEW column \in Columns, notePc'[q] \in {"folder", "write"},
                        noteCall'[q].op = "update", noteCall'[q].note = n,
                        notes'[n] # NoNote
                 PROVE  \/ noteSeen'[q][column] = notes'[n][column]
                        \/ \E p \in NoteRequests : SetsColumn(p, n, column)'
      BY DEF LoadedOrOvertaken, NoteExists
    <3>1. CASE LoadNote(q)
      <4>1. noteCall' = noteCall /\ notes' = notes
        BY <3>1 DEF LoadNote, N!Goto
      <4>2. noteSeen'[q] = notes[n]
        BY <1>0, <3>1, <4>1 DEF LoadNote, NoteTypeInv, NotesTypeOK
      <4> QED BY <4>1, <4>2
    <3>2. CASE ~LoadNote(q)
      <4>1. /\ notePc[q] \in {"folder", "write"}
            /\ noteCall'[q] = noteCall[q]
            /\ noteSeen'[q] = noteSeen[q]
        <5>1. ASSUME NEW r \in Requests, FolderRequest(r)
              PROVE  UNCHANGED noteSessions
          BY <5>1 DEF FolderRequest, FolderMove, ReadNotes, AllRead, DropTreeAndNotes
        <5>2. ASSUME NEW p \in NoteRequests, NoteRequest(p), p # q
              PROVE  /\ notePc'[q] = notePc[q] /\ noteCall'[q] = noteCall[q]
                     /\ noteSeen'[q] = noteSeen[q]
          <6>1. notePc'[q] = notePc[q] /\ noteCall'[q] = noteCall[q]
            BY <1>0, <5>2, OneNoteMoves
          <6>2. noteSeen'[q] = noteSeen[q]
            BY <1>0, <5>2 DEF NoteRequest, NoteArrive, RefuseNote, NoteStep,
               NoteMissing, GetNote, LoadNote, FolderMissing, FolderFound, RejectNote,
               InsertNote, WriteNote, RefreshNote, DropNote, NoteTypeInv, NotesTypeOK
          <6> QED BY <6>1, <6>2
        <5>3. ASSUME NoteRequest(q)
              PROVE  /\ notePc[q] \in {"folder", "write"}
                     /\ noteCall'[q] = noteCall[q]
                     /\ noteSeen'[q] = noteSeen[q]
          <6>1. ~NoteArrive(q)
            BY <1>0 DEF NoteArrive, N!Enter, FirstNoteStage, NoteTypeInv, NotesTypeOK
          <6>2. FolderFound(q)
            BY <1>0, <3>2, <5>3, <6>1 DEF NoteRequest, NoteStep, RefuseNote,
               NoteMissing, GetNote, FolderMissing, RejectNote, InsertNote,
               WriteNote, RefreshNote, DropNote, N!Respond, N!Goto, NoteTypeInv,
               NotesTypeOK
          <6> QED BY <6>2 DEF FolderFound, N!At, N!Goto
        <5> QED BY <1>2, <5>1, <5>2, <5>3 DEF NotesNext, noteSessions
      <4>2. NoteChecked(n, noteCall[q].user) /\ NoteExists(n)
        <5>1. NoteChecked(n, noteCall[q].user)
          BY <4>1 DEF NoteInv, NoteTargetChecked
        <5> QED BY <2>2, <5>1
      <4>3. \/ noteSeen[q][column] = notes[n][column]
            \/ \E p \in NoteRequests : SetsColumn(p, n, column)
        BY <4>1, <4>2 DEF EffectInv, LoadedOrOvertaken
      <4>4. CASE \E p \in NoteRequests : SetsColumn(p, n, column)
        BY <1>0, <1>2, <4>4, SetterStays
      <4>5. CASE notes'[n][column] = notes[n][column]
        BY <1>0, <1>2, <4>1, <4>3, <4>5, SetterStays
      <4>6. CASE notes'[n][column] # notes[n][column]
        <5>1. PICK p \in NoteRequests : /\ WriteNote(p) /\ noteCall[p].note = n
                                        /\ Sets(p, column)
          BY <1>2, <4>2, <4>6, ColumnChanges DEF NoteExists
        <5>2. noteCall' = noteCall /\ notePc'[p] = "refresh" /\ noteStatus'[p] = "none"
          BY <1>0, <5>1 DEF WriteNote, N!Goto, N!At, Final, NoteTypeInv, NotesTypeOK
        <5> QED BY <5>1, <5>2 DEF SetsColumn, Sets, WriteNote
      <4> QED BY <4>5, <4>6
    <3> QED BY <3>1, <3>2
  <2>6. UpdateTakesEffect'
    <3> SUFFICES ASSUME NEW q \in NoteRequests, NEW n \in NoteIds,
                        NEW column \in Columns,
                        SetsColumn(q, n, column)', notes'[n] # NoNote
                 PROVE  \/ notes'[n][column] = noteCall'[q][column]
                        \/ \E p \in NoteRequests \ {q} : SetsColumn(p, n, column)'
      BY DEF UpdateTakesEffect, NoteExists, Columns
    <3>1. NoteExists(n) /\ noteCall'[q] = noteCall[q]
      <4>1. CASE SetsColumn(q, n, column)
        BY <1>0, <1>2, <2>2, <4>1, NoteCommitted DEF SetsColumn, EffectInv,
           SettersChecked
      <4> QED BY <2>2, <2>3, <4>1
    <3>2. CASE ~SetsColumn(q, n, column)
      <4>1. /\ WriteNote(q) /\ noteCall' = noteCall /\ noteCall[q].note = n
            /\ noteCall[q].op = "update" /\ noteCall[q][column] # Unset
        BY <2>3, <3>2 DEF SetsColumn
      <4>2. notes'[n][column] = NewColumn(q, column)
        BY <1>0, <3>1, <4>1, NoteWritten DEF NoteExists, Columns
      <4>3. CASE Sets(q, column)
        BY <4>1, <4>2, <4>3 DEF NewColumn
      <4>4. CASE ~Sets(q, column) /\ noteSeen[q][column] = notes[n][column]
        BY <4>1, <4>2, <4>4 DEF NewColumn, Sets
      <4>5. CASE \E p \in NoteRequests : SetsColumn(p, n, column)
        BY <1>0, <1>2, <3>2, <4>5, SetterStays
      <4> QED BY <3>1, <4>1, <4>3, <4>4, <4>5
              DEF WriteNote, N!At, EffectInv, LoadedOrOvertaken
    <3>3. CASE SetsColumn(q, n, column) /\ notes'[n][column] = notes[n][column]
      BY <1>0, <1>2, <3>1, <3>3, SetterStays
         DEF EffectInv, UpdateTakesEffect, Columns
    <3>4. CASE SetsColumn(q, n, column) /\ notes'[n][column] # notes[n][column]
      <4>1. PICK p \in NoteRequests : /\ WriteNote(p) /\ noteCall[p].note = n
                                      /\ Sets(p, column)
        BY <1>2, <3>1, <3>4, ColumnChanges DEF NoteExists
      <4>2. noteCall' = noteCall /\ notePc'[p] = "refresh" /\ noteStatus'[p] = "none"
        BY <1>0, <4>1 DEF WriteNote, N!Goto, N!At, Final, NoteTypeInv, NotesTypeOK
      <4>3. SetsColumn(p, n, column)' /\ p # q
        BY <3>4, <4>1, <4>2 DEF SetsColumn, Sets, WriteNote, N!At
      <4> QED BY <4>3
    <3> QED BY <3>2, <3>3, <3>4
  <2> QED BY <1>0, <2>4, <2>5, <2>6 DEF EffectInv
<1> QED BY <1>1, <1>2

(* A committed update is in the row until another update of the same       *)
(* column is: none is lost to what a request has loaded before it.         *)
THEOREM NoUpdateIsLost == NotesSpec => []UpdateTakesEffect
<1>1. NotesInit => EffectInv
  BY DEF NotesInit, Init, SessionsInit, N!SessionsInit, EffectInv, Final,
     SettersChecked, LoadedOrOvertaken, UpdateTakesEffect, SetsColumn
<1>2. EffectInv => UpdateTakesEffect
  BY DEF EffectInv
<1> QED BY <1>1, <1>2, EffectStep, OwnerInvOfNotes, NoteInvHolds, PTL DEF NotesSpec
=============================================================================
