------------------------------- MODULE Notes -------------------------------
(***************************************************************************)
(* NoteService composed with FolderService: create, get, update and delete *)
(* of notes (app/services/note.py, app/repositories/note.py) beside the    *)
(* folder requests of Folders, whose deletes take notes with them.         *)
(*                                                                         *)
(* A note is validated against its folder in one statement and written in  *)
(* another; a folder delete loads the notes of each folder it has loaded   *)
(* and deletes them by primary key later, and the foreign key cascades to  *)
(* the notes that lie in those folders by then.                            *)
(*                                                                         *)
(* A created note is named by the request that creates it.  Its title      *)
(* stands for the columns of a note that only its updates touch.           *)
(***************************************************************************)
EXTENDS Folders

CONSTANTS
    NoteRequests,    \* the requests for notes, beside those for folders
    Titles,
    NoteSeeds,       \* the notes there are at the start
    InitialNotes,    \* their rows
    NoteWorkload     \* the calls each of their requests may make

NoteIds == NoteSeeds \cup NoteRequests

NoteRow == [owner : Users, folder : Parents, title : Titles]
NoNote  == [owner |-> Null, folder |-> Null, title |-> Null]

CreateNote == [op : {"create"}, user : Users, folder : Parents, title : Titles]
UpdateNote == [op : {"update"}, user : Users, note : NoteIds,
               folder : Parents \cup {Unset},
               title : Titles \cup {Null, Unset}]
NoteById   == [op : {"get", "delete"}, user : Users, note : NoteIds]
NoteCalls  == CreateNote \cup UpdateNote \cup NoteById

ASSUME NotesAssumption ==
    /\ NoteSeeds \cap NoteRequests = {}
    /\ Null \notin Titles /\ Unset \notin Titles
    /\ InitialNotes \in [NoteSeeds -> NoteRow]
    /\ \A n \in NoteSeeds : InitialNotes[n].folder # Null =>
          /\ InitialNotes[n].folder \in Seeds
          /\ InitialFolders[InitialNotes[n].folder].owner = InitialNotes[n].owner
    /\ NoteWorkload \in [NoteRequests -> SUBSET NoteCalls]

VARIABLES
    notes,        \* the table: a row or NoNote for every identifier
    noteSeen,     \* the row each note request has loaded
    asked, held,  \* folders whose notes a folder delete asked for; those notes
    noteCall, notePc, noteStatus

noteSessions == <<noteSeen, noteCall, notePc, noteStatus>>
noteVars == <<vars, notes, asked, held, noteSessions>>

N == INSTANCE Sessions WITH Requests <- NoteRequests,
        call <- noteCall, pc <- notePc, status <- noteStatus

(* Variant: the commit keeps the connection while refresh asks for one.    *)
NoteHoldingThroughCommit == {"load", "folder", "write", "drop", "refresh"}

(* A commit gives the connection back to the pool.                         *)
NoteHolding == {"load", "folder", "write", "drop"}
NoteStages  == NoteHolding \cup {"idle", "refresh", "done"}

(* Both kinds of request draw on one pool.                                 *)
ConnectionLeft ==
    Cardinality({r \in Requests : pc[r] \in Holding})
        + Cardinality({q \in NoteRequests : notePc[q] \in NoteHolding}) < PoolLimit

NotesInit ==
    /\ Init
    /\ notes = [n \in NoteIds |-> IF n \in NoteSeeds THEN InitialNotes[n] ELSE NoNote]
    /\ noteSeen = [q \in NoteRequests |-> NoNote]
    /\ asked = [r \in Requests |-> {}]
    /\ held = [r \in Requests |-> {}]
    /\ N!SessionsInit

NoteExists(n) == notes[n] # NoNote
NotesOf(S)    == {n \in NoteIds : NoteExists(n) /\ notes[n].folder \in S}

(* Variant: the note of any user.                                          *)
NoteVisibleToAll(q) == NoteExists(noteCall[q].note)

(* NoteRepository.get_by_id selects by id and owner.                       *)
NoteVisible(q) ==
    NoteExists(noteCall[q].note) /\ notes[noteCall[q].note].owner = noteCall[q].user

-----------------------------------------------------------------------------
(* NoteUpdate refuses a payload without any field; null counts as one.     *)
NothingToUpdate(c) == c.op = "update" /\ c.folder = Unset /\ c.title = Unset

FirstNoteStage(c) ==
    CASE c.op # "create" -> "load"
      [] c.op = "create" /\ c.folder = Null -> "write"
      [] OTHER -> "folder"

NoteArrive(q) ==
    /\ N!At(q, "idle")
    /\ ConnectionLeft
    /\ \E c \in NoteWorkload[q] :
          ~NothingToUpdate(c) /\ N!Enter(q, c, FirstNoteStage(c))
    /\ UNCHANGED <<vars, notes, asked, held, noteSeen>>

RefuseNote(q) ==
    /\ N!At(q, "idle")
    /\ ConnectionLeft
    /\ \E c \in NoteWorkload[q] :
          NothingToUpdate(c) /\ noteCall' = [noteCall EXCEPT ![q] = c]
    /\ notePc' = [notePc EXCEPT ![q] = "done"]
    /\ noteStatus' = [noteStatus EXCEPT ![q] = StatusOf.Validation]
    /\ UNCHANGED <<vars, notes, asked, held, noteSeen>>

NoteMissing(q) ==
    /\ N!At(q, "load")
    /\ ~NoteVisible(q)
    /\ N!Respond(q, StatusOf.NoteNotFound)
    /\ UNCHANGED <<vars, notes, asked, held, noteSeen>>

GetNote(q) ==
    /\ N!At(q, "load")
    /\ NoteVisible(q)
    /\ noteCall[q].op = "get"
    /\ N!Respond(q, "200")
    /\ UNCHANGED <<vars, notes, asked, held, noteSeen>>

(* validate_folder returns at once when the folder is set to null.         *)
LoadNote(q) ==
    /\ N!At(q, "load")
    /\ NoteVisible(q)
    /\ noteCall[q].op # "get"
    /\ noteSeen' = [noteSeen EXCEPT ![q] = notes[noteCall[q].note]]
    /\ N!Goto(q, CASE noteCall[q].op = "delete" -> "drop"
                   [] noteCall[q].op = "update"
                        /\ noteCall[q].folder \notin {Null, Unset} -> "folder"
                   [] OTHER -> "write")
    /\ UNCHANGED <<vars, notes, asked, held>>

(* Variant: the folder of any user will do.                                *)
FolderOfAnyone(q) == Exists(noteCall[q].folder)

FolderValid(q) == Visible(noteCall[q].folder, noteCall[q].user)

FolderMissing(q) ==
    /\ N!At(q, "folder")
    /\ ~FolderValid(q)
    /\ N!Respond(q, StatusOf.FolderNotFound)
    /\ UNCHANGED <<vars, notes, asked, held, noteSeen>>

FolderFound(q) ==
    /\ N!At(q, "folder")
    /\ FolderValid(q)
    /\ N!Goto(q, "write")
    /\ UNCHANGED <<vars, notes, asked, held, noteSeen>>

-----------------------------------------------------------------------------
(* The flush and its commit.  An update writes the columns whose value     *)
(* differs from the loaded one.                                            *)
Sets(q, column) == noteCall[q][column] \notin {Unset, noteSeen[q][column]}

FolderVanished(q) == noteCall[q].folder # Null /\ ~Exists(noteCall[q].folder)

(* Variant: only the foreign key refuses.                                  *)
NoteRefusedByKey(q) ==
    (noteCall[q].op = "create" \/ Sets(q, "folder")) /\ FolderVanished(q)

(* The foreign key, NOT NULL and an UPDATE that matches no row: 500.       *)
NoteRefused(q) ==
    CASE noteCall[q].op = "create" -> FolderVanished(q)
      [] noteCall[q].op = "update" ->
            \/ Sets(q, "title") /\ noteCall[q].title = Null
            \/ Sets(q, "folder") /\ FolderVanished(q)
            \/ /\ Sets(q, "title") \/ Sets(q, "folder")
               /\ ~NoteExists(noteCall[q].note)

RejectNote(q) ==
    /\ N!At(q, "write")
    /\ NoteRefused(q)
    /\ N!Respond(q, StatusOf.Unhandled)
    /\ UNCHANGED <<vars, notes, asked, held, noteSeen>>

InsertNote(q) ==
    /\ N!At(q, "write")
    /\ noteCall[q].op = "create"
    /\ ~NoteRefused(q)
    /\ notes' = [notes EXCEPT ![q] = [owner  |-> noteCall[q].user,
                                      folder |-> noteCall[q].folder,
                                      title  |-> noteCall[q].title]]
    /\ N!Goto(q, "refresh")
    /\ UNCHANGED <<vars, asked, held, noteSeen>>

(* Variants: the loaded row is written back; the changes are not flushed.  *)
ColumnWrittenBack(q, column) ==
    IF noteCall[q][column] # Unset THEN noteCall[q][column] ELSE noteSeen[q][column]
ColumnKept(q, column) == notes[noteCall[q].note][column]

NewColumn(q, column) ==
    IF Sets(q, column) THEN noteCall[q][column] ELSE notes[noteCall[q].note][column]

WriteNote(q) ==
    /\ N!At(q, "write")
    /\ noteCall[q].op = "update"
    /\ ~NoteRefused(q)
    /\ notes' = [notes EXCEPT ![noteCall[q].note].folder = NewColumn(q, "folder"),
                              ![noteCall[q].note].title  = NewColumn(q, "title")]
    /\ N!Goto(q, "refresh")
    /\ UNCHANGED <<vars, asked, held, noteSeen>>

WrittenNote(q) == IF noteCall[q].op = "create" THEN q ELSE noteCall[q].note

(* refresh selects the row again, on a new connection.                     *)
RefreshNote(q) ==
    /\ N!At(q, "refresh")
    /\ ConnectionLeft
    /\ N!Respond(q, IF NoteExists(WrittenNote(q))
                      THEN IF noteCall[q].op = "create" THEN "201" ELSE "200"
                      ELSE StatusOf.Unhandled)
    /\ UNCHANGED <<vars, notes, asked, held, noteSeen>>

(* Deleting a row that another request has deleted only warns.             *)
DropNote(q) ==
    /\ N!At(q, "drop")
    /\ notes' = [notes EXCEPT ![noteCall[q].note] = NoNote]
    /\ N!Respond(q, "204")
    /\ UNCHANGED <<vars, asked, held, noteSeen>>

NoteStep(q) ==
    \/ NoteMissing(q) \/ GetNote(q) \/ LoadNote(q) \/ FolderMissing(q) \/ FolderFound(q)
    \/ RejectNote(q) \/ InsertNote(q) \/ WriteNote(q) \/ RefreshNote(q) \/ DropNote(q)

-----------------------------------------------------------------------------
(* Variant: every note of the user is loaded.                              *)
LoadedNotesOfUser(r, f) == {n \in NoteIds : notes[n].owner = call[r].user}

LoadedNotes(r, f) == NotesOf({f})

(* session.delete(folder) loads Folder.notes beside Folder.subfolders.     *)
ReadNotes(r) ==
    /\ At(r, "expand")
    /\ \E f \in Loaded(r) \ asked[r] :
          /\ asked' = [asked EXCEPT ![r] = @ \cup {f}]
          /\ held' = [held EXCEPT ![r] = @ \cup LoadedNotes(r, f)]
    /\ UNCHANGED <<vars, notes, noteSessions>>

AllRead(r) ==
    /\ TreeRead(r)
    /\ Loaded(r) = asked[r]
    /\ UNCHANGED <<notes, asked, held, noteSessions>>

(* What was loaded goes by primary key, wherever it is by now; the notes   *)
(* that are in the doomed folders go with them.                            *)
Taken(r) == held[r] \cup NotesOf(Cascade(Loaded(r)))

DropTreeAndNotes(r) ==
    /\ DropTree(r)
    /\ LET taken == Taken(r)
       IN  notes' = [n \in NoteIds |-> IF n \in taken THEN NoNote ELSE notes[n]]
    /\ asked' = [asked EXCEPT ![r] = {}]
    /\ held' = [held EXCEPT ![r] = {}]
    /\ UNCHANGED noteSessions

FolderMove(r) ==
    /\ \/ Arrive(r) \/ RefusePayload(r) \/ TargetNotFound(r) \/ LoadTarget(r)
       \/ CheckName(r) \/ CheckParent(r) \/ WriteRow(r) \/ ReadChildren(r)
       \/ DropCircular(r)
    /\ pc[r] \in {"idle", "refresh"} => ConnectionLeft
    /\ UNCHANGED <<notes, asked, held, noteSessions>>

FolderRequest(r) ==
    FolderMove(r) \/ ReadNotes(r) \/ AllRead(r) \/ DropTreeAndNotes(r)

NoteRequest(q) == NoteArrive(q) \/ RefuseNote(q) \/ NoteStep(q)

NotesNext ==
    \/ \E r \in Requests : FolderRequest(r)
    \/ \E q \in NoteRequests : NoteRequest(q)

NotesSpec == NotesInit /\ [][NotesNext]_noteVars

(* The event loop runs ready tasks of either kind.                         *)
NotesFairness ==
    /\ WF_noteVars(\E r \in Requests : pc[r] # "idle" /\ FolderRequest(r))
    /\ WF_noteVars(\E q \in NoteRequests : NoteStep(q))

NotesFairSpec == NotesSpec /\ NotesFairness

-----------------------------------------------------------------------------
(* The table of notes and the sessions of their requests keep their types. *)
NotesTypeOK ==
    /\ notes \in [NoteIds -> NoteRow \cup {NoNote}]
    /\ noteSeen \in [NoteRequests -> NoteRow \cup {NoNote}]
    /\ asked \in [Requests -> SUBSET FolderIds]
    /\ held \in [Requests -> SUBSET NoteIds]
    /\ noteCall \in [NoteRequests -> NoteCalls \cup {NoCall}]
    /\ notePc \in [NoteRequests -> NoteStages]
    /\ noteStatus \in [NoteRequests -> Statuses]

(* A note lies in a folder that exists and belongs to the note's owner,    *)
(* although the folder is validated before the write and may be moved,     *)
(* deleted or taken down with its parents in between (validate_folder).    *)
NotesInOwnFolder ==
    \A n \in NoteIds :
        NoteExists(n) /\ notes[n].folder # Null =>
            /\ Exists(notes[n].folder)
            /\ folders[notes[n].folder].owner = notes[n].owner

(* A note is created, changed or removed only by a step of a request of    *)
(* its owner, the folder deletes that reach it through either cascade      *)
(* included.                                                               *)
NotesOnlyByOwner ==
    [][\A n \in NoteIds : notes'[n] # notes[n] =>
          \/ \E q \in NoteRequests :
                /\ notePc'[q] # notePc[q]
                /\ noteCall[q].user \in {notes[n].owner, notes'[n].owner}
          \/ \E r \in Requests :
                /\ pc'[r] # pc[r]
                /\ call[r].user = notes[n].owner]_noteVars

MovesNote(q, n) ==
    /\ noteCall[q].op = "update"
    /\ noteCall[q].note = n
    /\ noteCall[q].folder # Unset

(* What a folder delete is about to remove by primary key lies in its      *)
(* tree, or lay there when the delete read it and was moved since by a     *)
(* request that has committed: nothing else goes with a folder.            *)
TakenFromTree ==
    \A r \in Requests : pc[r] \in {"expand", "drop"} =>
        \A n \in held[r] : NoteExists(n) =>
            \/ notes[n].folder \in Loaded(r)
            \/ \E q \in NoteRequests :
                  MovesNote(q, n) /\ notePc[q] \in {"refresh", "done"}

HasMovedNote(q, n) ==
    /\ MovesNote(q, n)
    /\ \/ N!At(q, "refresh")
       \/ N!At(q, "done") /\ noteStatus[q] \in {"200", "500"}

(* Where n has been: at the start, at its creation, or moved to by then.   *)
NotePutIn(n) ==
    {InitialNotes[s].folder : s \in NoteSeeds \cap {n}}
        \cup {noteCall[q].folder : q \in
                 {p \in NoteRequests :
                     HasMovedNote(p, n) \/ (p = n /\ noteCall[p].op = "create")}}

(* A created note does not vanish: it is there until its owner deletes it, *)
(* or a folder it has been in, or one above that, at whatever times the    *)
(* note and the folders in between were moved.                             *)
NoteKept ==
    \A n \in NoteRequests :
        noteCall[n].op = "create" /\ noteStatus[n] = "201" =>
            \/ NoteExists(n)
            \/ \E q \in NoteRequests :
                  /\ noteCall[q].op = "delete"
                  /\ noteCall[q].note = n
                  /\ noteCall[q].user = noteCall[n].user
                  /\ noteStatus[q] = "204"
            \/ \E r \in Requests :
                  /\ call[r].op = "delete"
                  /\ call[r].user = noteCall[n].user
                  /\ status[r] = "204"
                  /\ NotePutIn(n) \cap EverBelow(call[r].target) # {}

(* Updates of different columns merge: a column of a note that stays only  *)
(* takes the value of a payload that sets it, never one that was loaded    *)
(* before a concurrent update (update_note writes what it has changed).    *)
UpdatesMerge ==
    [][\A n \in NoteIds, column \in {"folder", "title"} :
          /\ NoteExists(n)
          /\ notes'[n] # NoNote
          /\ notes'[n][column] # notes[n][column]
          => \E q \in NoteRequests :
                /\ notePc[q] = "write" /\ notePc'[q] = "refresh"
                /\ noteCall[q].note = n
                /\ noteCall[q][column] = notes'[n][column]]_noteVars

SetsColumn(q, n, column) ==
    /\ noteCall[q].op = "update"
    /\ noteCall[q].note = n
    /\ noteCall[q][column] # Unset
    /\ notePc[q] \in {"refresh", "done"}
    /\ noteStatus[q] \in {"none", "200"}

(* An update that has committed is in the row, unless another request that *)
(* sets the same column has committed too.                                 *)
UpdateTakesEffect ==
    \A q \in NoteRequests, n \in NoteIds, column \in {"folder", "title"} :
        SetsColumn(q, n, column) /\ NoteExists(n) =>
            \/ notes[n][column] = noteCall[q][column]
            \/ \E p \in NoteRequests \ {q} : SetsColumn(p, n, column)

(* Every request for a note is answered, though folder requests compete    *)
(* for its connections and remove what it waits to read.                   *)
AllNotesAnswered == \A q \in NoteRequests : N!InFlight(q) ~> N!Answered(q)
=============================================================================
