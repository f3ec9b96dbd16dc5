------------------------------ MODULE Folders ------------------------------
(***************************************************************************)
(* FolderService over the folders table: create, update (rename and move)  *)
(* and delete, each a sequence of SELECTs, one write and a commit at READ  *)
(* COMMITTED (app/services/folder.py, app/repositories/folder.py,          *)
(* app/models/folder.py).  Nothing is locked between the checks and the    *)
(* write, and the table has no constraint on names or on cycles: what the  *)
(* checks read may have changed when the write is made.                    *)
(*                                                                         *)
(* A created folder is named by the request that creates it.               *)
(***************************************************************************)
EXTENDS Sessions

CONSTANTS
    Users, Names,
    LongNames,        \* the names that exceed the column's 100 characters
    Seeds,            \* the folders there are at the start
    InitialFolders,   \* their rows
    Null,             \* SQL NULL and JSON null
    Unset,            \* a field the payload of an update does not hold
    Workload          \* the calls each request may make

FolderIds == Seeds \cup Requests
Parents   == FolderIds \cup {Null}

(* FolderCreate and FolderUpdate let 128 characters through, the column    *)
(* holds 100.                                                              *)
Row   == [owner : Users, parent : Parents, name : Names \ LongNames]
NoRow == [owner |-> Null, parent |-> Null, name |-> Null]

CreateCall == [op : {"create"}, user : Users, name : Names, parent : Parents]
UpdateCall == [op : {"update"}, user : Users, target : FolderIds,
               name : Names \cup {Null, Unset},
               parent : Parents \cup {Unset}]
DeleteCall == [op : {"delete"}, user : Users, target : FolderIds]
Calls      == CreateCall \cup UpdateCall \cup DeleteCall

ASSUME FoldersAssumption ==
    /\ Seeds \cap Requests = {}
    /\ Null \notin FolderIds \cup Names \cup Users
    /\ Unset \notin Parents \cup Names
    /\ InitialFolders \in [Seeds -> Row]
    /\ \A f \in Seeds : InitialFolders[f].parent # Null =>
          /\ InitialFolders[f].parent \in Seeds
          /\ InitialFolders[InitialFolders[f].parent].owner
                = InitialFolders[f].owner
    /\ Workload \in [Requests -> SUBSET Calls]

VARIABLES
    folders,   \* the table: a row or NoRow for every identifier
    seen       \* what the session of each request holds of it

vars == <<folders, seen, call, pc, status>>

(* target, parent: the rows update_folder and validate_parent keep; up:    *)
(* current.parent_id of the walk; tree, read: the edges a delete has       *)
(* loaded and the folders whose children it has asked for.                 *)
Memory == [target : Row \cup {NoRow}, parent : Row \cup {NoRow}, up : Parents,
           tree : SUBSET (FolderIds \X FolderIds), read : SUBSET FolderIds]

NothingSeen == [target |-> NoRow, parent |-> NoRow, up |-> Null,
                tree |-> {}, read |-> {}]

KeepTarget(m, row) == [m EXCEPT !.target = row]
KeepParent(m, row) == [m EXCEPT !.parent = row, !.up = row.parent]
KeepUp(m, up)      == [m EXCEPT !.up = up]
KeepChildren(m, f, S) ==
    [m EXCEPT !.read = m.read \cup {f}, !.tree = m.tree \cup ({f} \X S)]

Holding == {"load", "name", "parent", "walk", "write", "expand", "drop"}
Stages  == Holding \cup {"idle", "refresh", "done"}

Init ==
    /\ folders = [f \in FolderIds |->
                    IF f \in Seeds THEN InitialFolders[f] ELSE NoRow]
    /\ seen = [r \in Requests |-> NothingSeen]
    /\ SessionsInit

Exists(f) == folders[f] # NoRow

(* Variant: the folder of any user.                                        *)
VisibleToAll(f, u) == Exists(f)

(* FolderRepository.get_by_id selects by id and owner.                     *)
Visible(f, u) == Exists(f) /\ folders[f].owner = u

(* The answer closes the session and what it holds is forgotten.           *)
Close(r, code) ==
    /\ Respond(r, code)
    /\ seen' = [seen EXCEPT ![r] = NothingSeen]

(* The values an update would write: the payload's, or the loaded row's.   *)
NewName(r)   == IF call[r].name = Unset THEN seen[r].target.name
                                        ELSE call[r].name
NewParent(r) == IF call[r].parent = Unset THEN seen[r].target.parent
                                          ELSE call[r].parent

-----------------------------------------------------------------------------
(* FolderUpdate refuses a payload that sets neither field to a value.      *)
EmptyPayload(c) ==
    /\ c.op = "update"
    /\ c.name \in {Null, Unset}
    /\ c.parent \in {Null, Unset}

FirstStage == [create |-> "name", update |-> "load", delete |-> "load"]

Arrive(r) ==
    /\ At(r, "idle")
    /\ ConnectionFree(Holding)
    /\ \E c \in Workload[r] : ~EmptyPayload(c) /\ Enter(r, c, FirstStage[c.op])
    /\ UNCHANGED <<folders, seen>>

RefusePayload(r) ==
    /\ At(r, "idle")
    /\ ConnectionFree(Holding)
    /\ \E c \in Workload[r] : EmptyPayload(c) /\ call' = [call EXCEPT ![r] = c]
    /\ pc' = [pc EXCEPT ![r] = "done"]
    /\ status' = [status EXCEPT ![r] = StatusOf.Validation]
    /\ UNCHANGED <<folders, seen>>

(* update_folder and delete_folder load their folder first.                *)
TargetNotFound(r) ==
    /\ At(r, "load")
    /\ ~Visible(call[r].target, call[r].user)
    /\ Close(r, StatusOf.FolderNotFound)
    /\ UNCHANGED folders

LoadTarget(r) ==
    LET row == folders[call[r].target]
        Changes(field) == call[r][field] \notin {Unset, row[field]}
    IN  /\ At(r, "load")
        /\ Visible(call[r].target, call[r].user)
        /\ seen' = [seen EXCEPT ![r] = KeepTarget(seen[r], row)]
        /\ Goto(r, CASE call[r].op = "delete" -> "expand"
                     [] call[r].op = "update" /\ (Changes("name") \/ Changes("parent"))
                          -> "name"
                     [] OTHER -> "write")
        /\ UNCHANGED folders

-----------------------------------------------------------------------------
(* Variant: compared with the payload's parent, set or not.                *)
NamesakesInPayload(r) ==
    {f \in FolderIds :
        /\ Visible(f, call[r].user)
        /\ folders[f].name = NewName(r)
        /\ folders[f].parent = call[r].parent}

(* get_by_name_and_parent: SQL matches no row on a NULL name, and more     *)
(* than one match is an error of scalar_one_or_none.                       *)
Namesakes(r) ==
    {f \in FolderIds :
        /\ Visible(f, call[r].user)
        /\ folders[f].name = NewName(r)
        /\ folders[f].parent = NewParent(r)}

(* Variant: the walk is not told which folder moves.                       *)
ItselfUnknown(r) == {}

Itself(r) == IF call[r].op = "update" THEN {call[r].target} ELSE {}

NameAmbiguous(r) ==
    /\ At(r, "name")
    /\ Cardinality(Namesakes(r)) > 1
    /\ Close(r, StatusOf.Unhandled)
    /\ UNCHANGED folders

NameTaken(r) ==
    /\ At(r, "name")
    /\ Cardinality(Namesakes(r)) = 1
    /\ Namesakes(r) # Itself(r)
    /\ Close(r, StatusOf.FolderAlreadyExists)
    /\ UNCHANGED folders

(* validate_parent is called when the parent is set and differs from the   *)
(* loaded one, and returns at once for a top-level folder.                 *)
SetsParent(r) == call[r].op = "create"
                    \/ call[r].parent \notin {Unset, seen[r].target.parent}

NameFree(r) ==
    /\ At(r, "name")
    /\ Namesakes(r) \subseteq Itself(r)
    /\ Goto(r, IF SetsParent(r) /\ call[r].parent # Null THEN "parent"
                                                         ELSE "write")
    /\ UNCHANGED <<folders, seen>>

-----------------------------------------------------------------------------
(* validate_parent: load the parent, refuse the folder itself, then follow *)
(* parent_id upwards until the top or the folder itself is met.            *)
ParentNotFound(r) ==
    /\ At(r, "parent")
    /\ ~Visible(call[r].parent, call[r].user)
    /\ Close(r, StatusOf.FolderNotFound)
    /\ UNCHANGED folders

ParentIsItself(r) ==
    /\ At(r, "parent")
    /\ Visible(call[r].parent, call[r].user)
    /\ call[r].parent \in Itself(r)
    /\ Close(r, StatusOf.InvalidHierarchy)
    /\ UNCHANGED folders

(* Variant: only the parent itself is looked at.                           *)
ClimbNone(r, next) == Goto(r, "write")

Climb(r, next) == Goto(r, IF next = Null THEN "write" ELSE "walk")

LoadParent(r) ==
    LET row == folders[call[r].parent]
    IN  /\ At(r, "parent")
        /\ Visible(call[r].parent, call[r].user)
        /\ call[r].parent \notin Itself(r)
        /\ seen' = [seen EXCEPT ![r] = KeepParent(seen[r], row)]
        /\ Climb(r, row.parent)
        /\ UNCHANGED folders

AncestorIsItself(r) ==
    /\ At(r, "walk")
    /\ seen[r].up \in Itself(r)
    /\ Close(r, StatusOf.InvalidHierarchy)
    /\ UNCHANGED folders

AncestorNotFound(r) ==
    /\ At(r, "walk")
    /\ seen[r].up \notin Itself(r)
    /\ ~Visible(seen[r].up, call[r].user)
    /\ Close(r, StatusOf.FolderNotFound)
    /\ UNCHANGED folders

(* The session holds the parent's object to the end: loading that folder   *)
(* again returns it with the parent_id first read, not the row's.          *)
LoadAncestor(r) ==
    LET up   == seen[r].up
        next == IF up = call[r].parent THEN seen[r].parent.parent
                                       ELSE folders[up].parent
    IN  /\ At(r, "walk")
        /\ up \notin Itself(r)
        /\ Visible(up, call[r].user)
        /\ seen' = [seen EXCEPT ![r] = KeepUp(seen[r], next)]
        /\ Climb(r, next)
        /\ UNCHANGED folders

-----------------------------------------------------------------------------
(* The write and its commit.  An update writes the columns whose value     *)
(* differs from the loaded one, and none at all when none does.            *)
Renames(r) == call[r].name \notin {Unset, seen[r].target.name}
Moves(r)   == call[r].parent \notin {Unset, seen[r].target.parent}

(* The foreign key to a vanished parent; a name the column refuses.        *)
BadParent(r) == call[r].parent # Null /\ ~Exists(call[r].parent)

(* Variant: only NULL is refused.                                          *)
BadNameOnlyNull(r) == call[r].name = Null

BadName(r) == call[r].name \in LongNames \cup {Null}

(* Neither that, nor a row that is gone, is caught by the service.         *)
WriteFails(r) ==
    CASE call[r].op = "create" -> BadName(r) \/ BadParent(r)
      [] call[r].op = "update" ->
            \/ Renames(r) /\ BadName(r)
            \/ Moves(r) /\ BadParent(r)
            \/ (Renames(r) \/ Moves(r)) /\ ~Exists(call[r].target)

RejectWrite(r) ==
    /\ At(r, "write")
    /\ WriteFails(r)
    /\ Close(r, StatusOf.Unhandled)
    /\ UNCHANGED folders

InsertFolder(r) ==
    /\ At(r, "write")
    /\ call[r].op = "create"
    /\ ~WriteFails(r)
    /\ folders' = [folders EXCEPT ![r] = [owner  |-> call[r].user,
                                          parent |-> call[r].parent,
                                          name   |-> call[r].name]]
    /\ Goto(r, "refresh")
    /\ UNCHANGED seen

UpdateFolder(r) ==
    /\ At(r, "write")
    /\ call[r].op = "update"
    /\ ~WriteFails(r)
    /\ folders' = [folders EXCEPT
          ![call[r].target].name   = IF Renames(r) THEN call[r].name ELSE @,
          ![call[r].target].parent = IF Moves(r) THEN call[r].parent ELSE @]
    /\ Goto(r, "refresh")
    /\ UNCHANGED seen

Written(r) == IF call[r].op = "create" THEN r ELSE call[r].target

(* refresh selects the row again, on a new connection.                     *)
RefreshFolder(r) ==
    /\ At(r, "refresh")
    /\ ConnectionFree(Holding)
    /\ Close(r, IF Exists(Written(r))
                  THEN IF call[r].op = "create" THEN "201" ELSE "200"
                  ELSE StatusOf.Unhandled)
    /\ UNCHANGED folders

-----------------------------------------------------------------------------
(* session.delete loads the subtree one folder's children at a time, then  *)
(* the flush deletes what was loaded by primary key, children first; the   *)
(* foreign key cascades to what is below those rows by then.               *)
Loaded(r) == {call[r].target} \cup {edge[2] : edge \in seen[r].tree}

ChildrenOf(S) == {f \in FolderIds : Exists(f) /\ folders[f].parent \in S}

ReadChildren(r) ==
    /\ At(r, "expand")
    /\ \E f \in Loaded(r) \ seen[r].read :
          seen' = [seen EXCEPT ![r] = KeepChildren(seen[r], f, ChildrenOf({f}))]
    /\ UNCHANGED <<folders, call, pc, status>>

TreeRead(r) ==
    /\ At(r, "expand")
    /\ Loaded(r) = seen[r].read
    /\ Goto(r, "drop")
    /\ UNCHANGED <<folders, seen>>

(* Children first is impossible when the loaded edges make a cycle.        *)
LoadedCycle(r) ==
    \E S \in SUBSET Loaded(r) :
        /\ S # {}
        /\ \A f \in S : \E g \in S : <<g, f>> \in seen[r].tree

DropCircular(r) ==
    /\ At(r, "drop")
    /\ LoadedCycle(r)
    /\ Close(r, StatusOf.Unhandled)
    /\ UNCHANGED folders

(* ON DELETE CASCADE: the least set with S and the children of its own.    *)
Cascade(S) ==
    {f \in FolderIds :
        \A T \in SUBSET FolderIds :
            S \subseteq T /\ ChildrenOf(T) \subseteq T => f \in T}

(* Variant: only what was loaded goes.                                     *)
DropTreeLoadedOnly(r) ==
    /\ At(r, "drop")
    /\ ~LoadedCycle(r)
    /\ folders' = [f \in FolderIds |-> IF f \in Loaded(r) THEN NoRow ELSE folders[f]]
    /\ Close(r, "204")

(* Variant: the folder's parent is in reach of the cascade.                *)
DropTreeBothWays(r) ==
    /\ At(r, "drop")
    /\ ~LoadedCycle(r)
    /\ LET doomed == Cascade(Loaded(r) \cup ({seen[r].target.parent} \ {Null}))
       IN  folders' = [f \in FolderIds |->
                         IF f \in doomed THEN NoRow ELSE folders[f]]
    /\ Close(r, "204")

DropTree(r) ==
    /\ At(r, "drop")
    /\ ~LoadedCycle(r)
    /\ LET doomed == Cascade(Loaded(r))
       IN  folders' = [f \in FolderIds |->
                         IF f \in doomed THEN NoRow ELSE folders[f]]
    /\ Close(r, "204")

-----------------------------------------------------------------------------
CheckName(r)   == NameAmbiguous(r) \/ NameTaken(r) \/ NameFree(r)
CheckParent(r) == \/ ParentNotFound(r) \/ ParentIsItself(r) \/ LoadParent(r)
                  \/ AncestorIsItself(r) \/ AncestorNotFound(r) \/ LoadAncestor(r)
WriteRow(r)    == \/ RejectWrite(r) \/ InsertFolder(r) \/ UpdateFolder(r)
                  \/ RefreshFolder(r)
DeleteRows(r)  == ReadChildren(r) \/ TreeRead(r) \/ DropCircular(r) \/ DropTree(r)

Step(r) == \/ TargetNotFound(r) \/ LoadTarget(r) \/ CheckName(r)
           \/ CheckParent(r) \/ WriteRow(r) \/ DeleteRows(r)

Next == \E r \in Requests : Arrive(r) \/ RefusePayload(r) \/ Step(r)

Spec == Init /\ [][Next]_vars

(* The event loop runs every ready task and the database answers.          *)
Fairness == WF_vars(\E r \in Requests : Step(r))

FairSpec == Spec /\ Fairness

-----------------------------------------------------------------------------
(* Rows and sessions have the types of their columns and variables.        *)
FoldersTypeOK ==
    /\ folders \in [FolderIds -> Row \cup {NoRow}]
    /\ seen \in [Requests -> Memory]
    /\ call \in [Requests -> Calls \cup {NoCall}]
    /\ pc \in [Requests -> Stages]
    /\ status \in [Requests -> Statuses]

ParentOf(f) == folders[f].parent

(* "Folder operations validate ownership": the folder a folder lies in     *)
(* exists and has the same owner, although ownership is checked several    *)
(* statements before the row is written.                                   *)
ParentSameOwner ==
    \A f \in FolderIds :
        Exists(f) /\ ParentOf(f) # Null =>
            /\ Exists(ParentOf(f))
            /\ folders[ParentOf(f)].owner = folders[f].owner

(* A folder is created, changed or removed only by a step of a request of  *)
(* its owner: a delete loads children, and the foreign key cascades,       *)
(* without looking at owners.                                              *)
OnlyOwnerChanges ==
    [][\A f \in FolderIds : folders'[f] # folders[f] =>
          \E r \in Requests :
              /\ pc[r] # pc'[r]
              /\ call[r].user \in {folders[f].owner, folders'[f].owner}]_vars

(* "... and prevent invalid or circular parent relationships": no set of   *)
(* folders has all its parents within itself.                              *)
Acyclic ==
    \A S \in SUBSET {f \in FolderIds : Exists(f)} :
        S # {} => \E f \in S : ParentOf(f) \notin S

(* "A folder with this name already exists in the same parent folder" is   *)
(* refused: one owner has no two folders of one name in one place.         *)
UniqueSiblings ==
    \A f, g \in FolderIds :
        Exists(f) /\ Exists(g) /\ folders[f] = folders[g] => f = g

(* An update or a create between the row it loaded, or its check of the    *)
(* name, and its write.                                                    *)
Writing(r) == pc[r] \in {"name", "parent", "walk", "write"}

(* No user has two creates or updates there at once.                       *)
WritesApart ==
    \A q, r \in Requests :
        Writing(q) /\ Writing(r) /\ call[q].user = call[r].user => q = r

(* The look-up of the name before the write is enough as long as a user's  *)
(* creates and updates do not overlap, whatever deletes and other users do *)
(* in between.                                                             *)
UniqueUnlessRaced == []WritesApart => []UniqueSiblings

(* A delete removes the folder and everything below it, and nothing that   *)
(* is elsewhere when its rows are deleted.                                 *)
DeletesItsSubtree ==
    [][\A r \in Requests :
          At(r, "drop") /\ status'[r] = "204" =>
              {f \in FolderIds : Exists(f) /\ folders'[f] = NoRow}
                  = {f \in Cascade({call[r].target}) : Exists(f)}]_vars

(* Whatever runs beside it, a delete that is answered leaves nothing below *)
(* its folder: what was created or moved there after the tree was loaded   *)
(* goes with the foreign key.                                              *)
DeleteLeavesNothing ==
    [][\A r \in Requests :
          At(r, "drop") /\ status'[r] = "204" =>
              \A f \in Cascade({call[r].target}) : folders'[f] = NoRow]_vars

HasMoved(q, f) ==
    /\ call[q].op = "update" /\ call[q].target = f
    /\ \/ At(q, "refresh")
       \/ At(q, "done") /\ status[q] \in {"200", "500"}

(* Where f has been: at the start, at its creation, or moved to by then.   *)
PutIn(f) ==
    {InitialFolders[s].parent : s \in Seeds \cap {f}}
        \cup {call[q].parent : q \in
                 {p \in Requests : HasMoved(p, f) \/ (p = f /\ call[p].op = "create")}}

(* t and what a chain of folders, each put in the next, leads to it from:  *)
(* of the sets with t and without f, each has one put in it from outside.  *)
EverBelow(t) ==
    {f \in FolderIds :
        \A T \in SUBSET (FolderIds \ {f}) :
            t \in T => \E g \in FolderIds \ T : PutIn(g) \cap T # {}}

(* A delete, which reads its tree level by level while folders move,       *)
(* removes only folders whose way up led to its folder at some time, be it *)
(* step by step at different times.                                        *)
RemovedWasBelow ==
    [][\A f \in FolderIds : Exists(f) /\ folders'[f] = NoRow =>
          \E r \in Requests :
              /\ At(r, "drop") /\ pc'[r] = "done"
              /\ f \in EverBelow(call[r].target)]_vars

(* Every request is answered: the walk to the top ends although folders    *)
(* are created, moved and deleted under it.                                *)
AllAnswered == \A r \in Requests : InFlight(r) ~> Answered(r)

(* "Update the name or parent of a folder": as long as the folders form a   *)
(* forest, validate_parent meets a top-level folder in the end, although   *)
(* its session goes on with the parent_id it has read first.               *)
ForestIsClimbed == []Acyclic => AllAnswered
=============================================================================
