---------------------------- MODULE FoldersProofs ----------------------------
(* Theorems of Folders, for every set of requests however they interleave, *)
(* every initial forest and every workload.                                *)
EXTENDS Folders, TLAPS

(* Each stage belongs to some kinds of call, and the walk has a folder to  *)
(* load next.                                                              *)
StageOfCall ==
    \A r \in Requests :
        /\ pc[r] = "load" => call[r] \in UpdateCall \cup DeleteCall
        /\ pc[r] \in {"name", "parent", "walk", "write", "refresh"} =>
              call[r] \in CreateCall \cup UpdateCall
        /\ pc[r] \in {"parent", "walk"} => call[r].parent \in FolderIds
        /\ pc[r] = "walk" => seen[r].up \in FolderIds
        /\ pc[r] \in {"expand", "drop"} => call[r] \in DeleteCall

TypeInv == FoldersTypeOK /\ StageOfCall

LEMMA CallKinds ==
    ASSUME NEW c \in Calls
    PROVE  /\ c.op = "create" => c \in CreateCall
           /\ c.op = "update" => c \in UpdateCall
           /\ c.op = "delete" => c \in DeleteCall
           /\ c.op \in {"create", "update", "delete"}
  BY DEF Calls, CreateCall, UpdateCall, DeleteCall

LEMMA RowParent == ASSUME NEW row \in Row \cup {NoRow} PROVE row.parent \in Parents
  BY DEF Row, NoRow, Parents

(* What a session keeps stays typed when one part of it is replaced.       *)
LEMMA MemoryTypes ==
    ASSUME NEW m \in Memory
    PROVE  /\ NothingSeen \in Memory
           /\ \A row \in Row \cup {NoRow} : KeepTarget(m, row) \in Memory
           /\ \A row \in Row \cup {NoRow} :
                 /\ KeepParent(m, row) \in Memory
                 /\ KeepParent(m, row).up = row.parent
           /\ \A up \in Parents :
                 KeepUp(m, up) \in Memory /\ KeepUp(m, up).up = up
<1> USE DEF Memory
<1>1. NothingSeen \in Memory
  BY DEF NothingSeen, Parents
<1>2. ASSUME NEW row \in Row \cup {NoRow} PROVE KeepTarget(m, row) \in Memory
  BY DEF KeepTarget
<1>3. ASSUME NEW row \in Row \cup {NoRow}
      PROVE  KeepParent(m, row) \in Memory /\ KeepParent(m, row).up = row.parent
  BY RowParent DEF KeepParent
<1>4. ASSUME NEW up \in Parents
      PROVE  KeepUp(m, up) \in Memory /\ KeepUp(m, up).up = up
  BY DEF KeepUp
<1> QED BY <1>1, <1>2, <1>3, <1>4

LEMMA ChildrenTypes ==
    ASSUME NEW m \in Memory, NEW f \in FolderIds, NEW S, S \subseteq FolderIds
    PROVE  KeepChildren(m, f, S) \in Memory /\ KeepChildren(m, f, S).up = m.up
  BY DEF Memory, KeepChildren

LEMMA TypeInit == Init => TypeInv
  BY FoldersAssumption DEF Init, SessionsInit, NothingSeen, NoRow, Row, Parents,
     FolderIds, Memory, TypeInv, FoldersTypeOK, StageOfCall, Stages, Statuses

LEMMA TypeStep == TypeInv /\ [Next]_vars => TypeInv'
<1> SUFFICES ASSUME TypeInv, [Next]_vars PROVE TypeInv'
  OBVIOUS
<1> USE FoldersAssumption
<1> USE DEF TypeInv, FoldersTypeOK, StageOfCall, At, Stages, Holding
<1>1. CASE UNCHANGED vars
  BY <1>1 DEF vars
<1>2. ASSUME NEW r \in Requests, Arrive(r) PROVE TypeInv'
  <2>1. PICK c \in Calls : Enter(r, c, FirstStage[c.op])
    BY <1>2 DEF Arrive
  <2> QED BY <1>2, <2>1, CallKinds DEF Arrive, Enter, FirstStage
<1>3. ASSUME NEW r \in Requests, RefusePayload(r) PROVE TypeInv'
  <2>1. PICK c \in Calls : call' = [call EXCEPT ![r] = c]
    BY <1>3 DEF RefusePayload
  <2> QED BY <1>3, <2>1 DEF RefusePayload, StatusOf, Statuses
<1>4. ASSUME NEW r \in Requests, NEW code \in Statuses,
             Close(r, code), UNCHANGED folders
      PROVE  TypeInv'
  BY <1>4, MemoryTypes DEF Close, Respond
<1>5. ASSUME NEW r \in Requests, LoadTarget(r) PROVE TypeInv'
  <2> DEFINE row == folders[call[r].target]
  <2>1. pc[r] = "load" /\ call[r] \in UpdateCall \cup DeleteCall
    BY <1>5 DEF LoadTarget
  <2>2. row \in Row \cup {NoRow}
    BY <2>1 DEF UpdateCall, DeleteCall
  <2>3. seen' \in [Requests -> Memory]
    BY <1>5, <2>2, MemoryTypes DEF LoadTarget
  <2>4. PICK stage \in {"expand", "name", "write"} :
          /\ Goto(r, stage)
          /\ stage = "expand" <=> call[r].op = "delete"
    BY <1>5, <2>1 DEF LoadTarget, UpdateCall, DeleteCall
  <2>5. IF stage = "expand" THEN call[r] \in DeleteCall ELSE call[r] \in UpdateCall
    BY <2>1, <2>4 DEF UpdateCall, DeleteCall
  <2>6. folders' = folders /\ \A q \in Requests \ {r} : seen'[q] = seen[q]
    BY <1>5 DEF LoadTarget
  <2> QED BY <2>1, <2>3, <2>4, <2>5, <2>6 DEF Goto
<1>6. ASSUME NEW r \in Requests, NameFree(r) PROVE TypeInv'
  BY <1>6 DEF NameFree, SetsParent, Goto, UpdateCall, CreateCall, Parents
<1>7. ASSUME NEW r \in Requests, LoadParent(r) PROVE TypeInv'
  <2> DEFINE row == folders[call[r].parent]
  <2>1. row \in Row \cup {NoRow} /\ row.parent \in Parents
    BY <1>7, RowParent DEF LoadParent
  <2>2. seen' = [seen EXCEPT ![r] = KeepParent(seen[r], row)]
    BY <1>7 DEF LoadParent
  <2>3. seen' \in [Requests -> Memory] /\ seen'[r].up = row.parent
    BY <2>1, <2>2, MemoryTypes
  <2> QED BY <1>7, <2>1, <2>2, <2>3 DEF LoadParent, Climb, Goto, Parents
<1>8. ASSUME NEW r \in Requests, LoadAncestor(r) PROVE TypeInv'
  <2> DEFINE next == IF seen[r].up = call[r].parent THEN seen[r].parent.parent
                                                  ELSE folders[seen[r].up].parent
  <2>1. next \in Parents
    BY <1>8, RowParent DEF LoadAncestor, Memory
  <2>2. seen' = [seen EXCEPT ![r] = KeepUp(seen[r], next)]
    BY <1>8 DEF LoadAncestor
  <2>3. seen' \in [Requests -> Memory] /\ seen'[r].up = next
    BY <2>1, <2>2, MemoryTypes
  <2>4. Climb(r, next) /\ folders' = folders /\ pc[r] = "walk"
    BY <1>8 DEF LoadAncestor
  <2> QED BY <2>1, <2>2, <2>3, <2>4 DEF Climb, Goto, Parents
<1>9. ASSUME NEW r \in Requests, InsertFolder(r) PROVE TypeInv'
  BY <1>9 DEF InsertFolder, WriteFails, BadName, Goto, Row, CreateCall,
     FolderIds, UpdateCall
<1>10. ASSUME NEW r \in Requests, UpdateFolder(r) PROVE TypeInv'
  BY <1>10 DEF UpdateFolder, WriteFails, BadName, Renames, Moves, Goto, Row, NoRow,
     CreateCall, UpdateCall, Exists
<1>11. ASSUME NEW r \in Requests, ReadChildren(r) PROVE TypeInv'
  <2>1. PICK f \in Loaded(r) :
          seen' = [seen EXCEPT ![r] = KeepChildren(seen[r], f, ChildrenOf({f}))]
    BY <1>11 DEF ReadChildren
  <2>2. f \in FolderIds
    BY <1>11 DEF ReadChildren, Loaded, DeleteCall, Memory
  <2>3. ChildrenOf({f}) \subseteq FolderIds
    BY DEF ChildrenOf
  <2> DEFINE m == KeepChildren(seen[r], f, ChildrenOf({f}))
  <2>4. m \in Memory /\ m.up = seen[r].up
    <3>1. seen[r] \in Memory
      OBVIOUS
    <3> QED BY <3>1, <2>2, <2>3, ChildrenTypes
  <2>5. seen' \in [Requests -> Memory] /\ seen'[r].up = seen[r].up
    BY <2>1, <2>4
  <2> QED BY <1>11, <2>1, <2>5 DEF ReadChildren
<1>12. ASSUME NEW r \in Requests, TreeRead(r) PROVE TypeInv'
  BY <1>12 DEF TreeRead, Goto
<1>13. ASSUME NEW r \in Requests, DropTree(r) PROVE TypeInv'
  <2>1. folders' \in [FolderIds -> Row \cup {NoRow}]
    BY <1>13 DEF DropTree
  <2>2. seen' \in [Requests -> Memory]
    BY <1>13, MemoryTypes DEF DropTree, Close
  <2> QED BY <1>13, <2>1, <2>2 DEF DropTree, Close, Respond, Statuses
<1>14. ASSUME NEW r \in Requests,
              \/ TargetNotFound(r) \/ NameAmbiguous(r) \/ NameTaken(r)
              \/ ParentNotFound(r) \/ ParentIsItself(r) \/ AncestorIsItself(r)
              \/ AncestorNotFound(r) \/ RejectWrite(r) \/ RefreshFolder(r)
              \/ DropCircular(r)
       PROVE  TypeInv'
  <2>1. \E code \in Statuses : Close(r, code) /\ UNCHANGED folders
    BY <1>14 DEF TargetNotFound, NameAmbiguous, NameTaken, ParentNotFound,
       ParentIsItself, AncestorIsItself, AncestorNotFound, RejectWrite,
       RefreshFolder, DropCircular, StatusOf, Statuses
  <2> QED BY <2>1, <1>4
<1> QED
  BY <1>1, <1>2, <1>3, <1>5, <1>6, <1>7, <1>8, <1>9, <1>10, <1>11, <1>12, <1>13,
     <1>14
     DEF Next, Step, CheckName, CheckParent, WriteRow, DeleteRows

(* The table and the sessions keep their types.                            *)
THEOREM TypeCorrect == Spec => []FoldersTypeOK
<1>1. TypeInv => FoldersTypeOK
  BY DEF TypeInv
<1> QED BY TypeInit, TypeStep, <1>1, PTL DEF Spec

-----------------------------------------------------------------------------
(* The row of a create request exists only once the request has written it.*)
RowsWritten ==
    \A r \in Requests : Exists(r) => pc[r] \in {"refresh", "done"}

(* f was read as a folder of u: its identifier is in use or used up, so it *)
(* stays a folder of u for as long as it exists.                           *)
Checked(f, u) ==
    /\ f \in FolderIds
    /\ f \in Requests => pc[f] \in {"refresh", "done"}
    /\ Exists(f) => folders[f].owner = u

TargetChecked ==
    \A r \in Requests :
        /\ pc[r] \in {"name", "parent", "walk", "write", "expand", "drop"}
        /\ call[r].op \in {"update", "delete"}
        => Checked(call[r].target, call[r].user)

(* At the write, a parent that is about to be set has been checked.        *)
ParentChecked ==
    \A r \in Requests :
        /\ \/ pc[r] = "walk"
           \/ pc[r] = "write" /\ SetsParent(r) /\ call[r].parent # Null
        => Checked(call[r].parent, call[r].user)

TreeChecked ==
    \A r \in Requests : pc[r] \in {"expand", "drop"} =>
        \A f \in Loaded(r) : Checked(f, call[r].user)

SessionsFresh ==
    \A r \in Requests : pc[r] \in {"idle", "load"} => seen[r] = NothingSeen

OwnerInv == /\ TypeInv
            /\ SessionsFresh
            /\ RowsWritten
            /\ TargetChecked
            /\ ParentChecked
            /\ TreeChecked
            /\ ParentSameOwner

LEMMA RowNotEmpty == ASSUME NEW row \in Row PROVE row # NoRow
  BY FoldersAssumption DEF Row, NoRow

LEMMA OwnerInit == Init => OwnerInv
<1>1. Init => TypeInv
  BY TypeInit
<1>2. ASSUME Init PROVE RowsWritten
  BY <1>2, FoldersAssumption DEF Init, RowsWritten, Exists, FolderIds
<1>3. ASSUME Init PROVE ParentSameOwner
  <2>1. \A f \in Seeds : InitialFolders[f] # NoRow
    BY FoldersAssumption, RowNotEmpty
  <2> QED BY <1>3, <2>1, FoldersAssumption
          DEF Init, ParentSameOwner, Exists, ParentOf, FolderIds
<1>4. ASSUME Init
      PROVE  TargetChecked /\ ParentChecked /\ TreeChecked /\ SessionsFresh
  BY <1>4 DEF Init, SessionsInit, TargetChecked, ParentChecked, TreeChecked,
     SessionsFresh
<1> QED BY <1>1, <1>2, <1>3, <1>4 DEF OwnerInv

(* The rows below a set of rows of u are rows of u.                        *)
LEMMA CascadeOwned ==
    ASSUME FoldersTypeOK, ParentSameOwner, NEW u, NEW S \in SUBSET FolderIds,
           \A f \in S : Exists(f) => folders[f].owner = u
    PROVE  /\ S \subseteq Cascade(S)
           /\ ChildrenOf(Cascade(S)) \subseteq Cascade(S)
           /\ \A f \in Cascade(S) : Exists(f) => folders[f].owner = u
<1>1. S \subseteq Cascade(S) /\ ChildrenOf(Cascade(S)) \subseteq Cascade(S)
  BY DEF Cascade, ChildrenOf
<1>2. DEFINE T == {f \in FolderIds : Exists(f) => folders[f].owner = u}
<1>3. S \subseteq T
  OBVIOUS
<1>4. ChildrenOf(T) \subseteq T
  BY FoldersAssumption DEF ChildrenOf, ParentSameOwner, ParentOf
<1>5. Cascade(S) \subseteq T
  BY <1>3, <1>4 DEF Cascade
<1> QED BY <1>1, <1>5

Moved(r) == Arrive(r) \/ RefusePayload(r) \/ Step(r)

(* A step is a step of one request, which moves forward; the rows change   *)
(* only at its write or its drop.                                          *)
LEMMA OneMoves ==
    ASSUME TypeInv, NEW r \in Requests, Moved(r)
    PROVE  /\ \A q \in Requests \ {r} :
                 pc'[q] = pc[q] /\ call'[q] = call[q] /\ seen'[q] = seen[q]
           /\ pc[r] # "idle" => call'[r] = call[r]
           /\ pc[r] \in {"refresh", "done"} => pc'[r] = "done"
           /\ folders' = folders
                 \/ InsertFolder(r) \/ UpdateFolder(r) \/ DropTree(r)
<1> USE DEF TypeInv, FoldersTypeOK, At, Goto, Close, Respond
<1>1. CASE Arrive(r) \/ RefusePayload(r)
  BY <1>1 DEF Arrive, RefusePayload, Enter
<1>2. CASE TargetNotFound(r) \/ LoadTarget(r) \/ CheckName(r)
  BY <1>2 DEF TargetNotFound, LoadTarget, CheckName, NameAmbiguous, NameTaken,
     NameFree
<1>3. CASE CheckParent(r)
  BY <1>3 DEF CheckParent, ParentNotFound, ParentIsItself, LoadParent,
     AncestorIsItself, AncestorNotFound, LoadAncestor, Climb
<1>4. CASE WriteRow(r)
  BY <1>4 DEF WriteRow, RejectWrite, InsertFolder, UpdateFolder, RefreshFolder
<1>5. CASE DeleteRows(r)
  BY <1>5 DEF DeleteRows, ReadChildren, TreeRead, DropCircular, DropTree
<1> QED BY <1>1, <1>2, <1>3, <1>4, <1>5 DEF Moved, Step

(* No step changes the owner of a row that stays, or reuses an identifier. *)
LEMMA OwnersStay ==
    ASSUME TypeInv, NEW r \in Requests, Moved(r), NEW g \in FolderIds, Exists(g)'
    PROVE  \/ Exists(g) /\ folders'[g].owner = folders[g].owner
           \/ g = r /\ InsertFolder(r)
<1>1. CASE folders' = folders
  BY <1>1 DEF Exists
<1>2. CASE InsertFolder(r)
  BY <1>2 DEF InsertFolder, Exists, TypeInv, FoldersTypeOK
<1>3. CASE UpdateFolder(r)
  <2>1. pc[r] = "write" /\ call[r] \in CreateCall \cup UpdateCall
    BY <1>3 DEF UpdateFolder, At, TypeInv, StageOfCall
  <2>2. call[r].target \in FolderIds
    BY <1>3, <2>1 DEF UpdateFolder, CreateCall, UpdateCall
  <2>3. folders[g] = NoRow => folders'[g] = NoRow
    BY <1>3, <2>2 DEF UpdateFolder, WriteFails, Exists, TypeInv, FoldersTypeOK, NoRow
  <2>4. folders'[g].owner = folders[g].owner
    BY <1>3, <2>2 DEF UpdateFolder, TypeInv, FoldersTypeOK, Row, NoRow
  <2> QED BY <2>3, <2>4 DEF Exists
<1>4. CASE DropTree(r)
  BY <1>4 DEF DropTree, Exists, TypeInv, FoldersTypeOK
<1> QED BY <1>1, <1>2, <1>3, <1>4, OneMoves

(* Checked(f, u) of the next state, f and u being those of this one.       *)
StaysChecked(f, u) ==
    /\ f \in FolderIds
    /\ f \in Requests => pc'[f] \in {"refresh", "done"}
    /\ folders'[f] # NoRow => folders'[f].owner = u

LEMMA CheckedAfter ==
    ASSUME TypeInv, TypeInv', NEW r \in Requests, Moved(r), NEW f, NEW u, Checked(f, u)
    PROVE  StaysChecked(f, u)
<1>1. \A q \in Requests \ {r} : pc'[q] = pc[q]
  BY OneMoves
<1>2. pc[r] \in {"refresh", "done"} => pc'[r] \in {"refresh", "done"}
  BY OneMoves
<1>3. \A g \in FolderIds : folders'[g] # NoRow =>
         \/ folders[g] # NoRow /\ folders'[g].owner = folders[g].owner
         \/ g = r /\ pc[r] = "write"
  BY OwnersStay DEF InsertFolder, At, Exists
<1> QED BY <1>1, <1>2, <1>3 DEF TypeInv, FoldersTypeOK, Checked, StaysChecked, Exists

(* What get_by_id returns to a user has been checked.                      *)
LEMMA VisibleChecked ==
    ASSUME RowsWritten, NEW f \in FolderIds, NEW u, Visible(f, u)
    PROVE  Checked(f, u)
  BY DEF RowsWritten, Visible, Checked

(* Which actions lead to the stages the invariant is about.                *)
LEMMA StageMoves ==
    ASSUME TypeInv, NEW r \in Requests, Moved(r)
    PROVE  /\ pc'[r] \in {"idle", "load"} => pc[r] = "idle" /\ seen'[r] = seen[r]
           /\ /\ pc'[r] \in {"name", "parent", "walk", "write", "expand", "drop"}
              /\ call'[r].op \in {"update", "delete"}
              => \/ LoadTarget(r)
                 \/ pc[r] \in {"name", "parent", "walk", "write", "expand", "drop"}
           /\ pc'[r] = "walk" => LoadParent(r) \/ pc[r] = "walk"
           /\ pc'[r] = "write" =>
                 LoadParent(r) \/ pc[r] = "walk" \/ LoadTarget(r) \/ NameFree(r)
           /\ pc'[r] \in {"expand", "drop"} =>
                 LoadTarget(r) \/ ReadChildren(r) \/ TreeRead(r)
<1> USE DEF TypeInv, FoldersTypeOK, At, Goto, Close, Respond
<1>1. CASE Arrive(r)
  <2>1. PICK c \in Calls : Enter(r, c, FirstStage[c.op])
    BY <1>1, FoldersAssumption DEF Arrive
  <2> QED BY <1>1, <2>1, CallKinds DEF Arrive, Enter, FirstStage
<1>2. CASE RefusePayload(r)
  BY <1>2 DEF RefusePayload
<1>3. CASE TargetNotFound(r) \/ LoadTarget(r) \/ CheckName(r)
  BY <1>3 DEF TargetNotFound, LoadTarget, CheckName, NameAmbiguous, NameTaken,
     NameFree
<1>4. CASE CheckParent(r)
  BY <1>4 DEF CheckParent, ParentNotFound, ParentIsItself, LoadParent,
     AncestorIsItself, AncestorNotFound, LoadAncestor, Climb
<1>5. CASE WriteRow(r)
  BY <1>5 DEF WriteRow, RejectWrite, InsertFolder, UpdateFolder, RefreshFolder
<1>6. CASE DeleteRows(r)
  BY <1>6 DEF DeleteRows, ReadChildren, TreeRead, DropCircular, DropTree
<1> QED BY <1>1, <1>2, <1>3, <1>4, <1>5, <1>6 DEF Moved, Step

LEMMA OwnerStep == OwnerInv /\ [Next]_vars => OwnerInv'
<1> SUFFICES ASSUME OwnerInv, [Next]_vars PROVE OwnerInv'
  OBVIOUS
<1>1. CASE UNCHANGED vars
  <2>1. TypeInv'
    BY TypeStep DEF OwnerInv
  <2> QED BY <2>1, <1>1 DEF vars, OwnerInv, SessionsFresh, RowsWritten,
          TargetChecked, ParentChecked, TreeChecked, ParentSameOwner, Checked,
          Exists, ParentOf, SetsParent, Loaded
<1>2. ASSUME NEW r \in Requests, Moved(r) PROVE OwnerInv'
  <2>1. TypeInv /\ TypeInv'
    BY TypeStep DEF OwnerInv
  <2>2. \A f, u : Checked(f, u) => StaysChecked(f, u)
    BY <1>2, <2>1, CheckedAfter
  <2>3. \A f \in FolderIds : \A u : Visible(f, u) => StaysChecked(f, u)
    BY <2>2, VisibleChecked DEF OwnerInv
  <2>4. /\ \A q \in Requests \ {r} :
              pc'[q] = pc[q] /\ call'[q] = call[q] /\ seen'[q] = seen[q]
        /\ pc[r] # "idle" => call'[r] = call[r]
    BY <1>2, <2>1, OneMoves
  <2>5. SessionsFresh'
    BY <1>2, <2>1, <2>4, StageMoves DEF OwnerInv, SessionsFresh
  <2>6. RowsWritten'
    <3> SUFFICES ASSUME NEW q \in Requests, Exists(q)'
                 PROVE  pc'[q] \in {"refresh", "done"}
      BY DEF RowsWritten
    <3>1. CASE InsertFolder(r) /\ q = r
      BY <3>1, <2>1 DEF InsertFolder, Goto, TypeInv, FoldersTypeOK
    <3>2. CASE Exists(q)
      BY <3>2, <1>2, <2>1, <2>4, OneMoves DEF OwnerInv, RowsWritten
    <3> QED BY <3>1, <3>2, <1>2, <2>1, OwnersStay DEF FolderIds
  <2>7. TargetChecked'
    <3> SUFFICES ASSUME NEW q \in Requests, call'[q].op \in {"update", "delete"},
                        pc'[q] \in {"name", "parent", "walk", "write", "expand",
                                    "drop"}
                 PROVE  StaysChecked(call'[q].target, call'[q].user)
      BY DEF TargetChecked, Checked, StaysChecked, Exists
    <3>1. CASE LoadTarget(r) /\ q = r
      <4>1. call[r].target \in FolderIds
        BY <3>1, <2>1 DEF LoadTarget, At, TypeInv, StageOfCall, UpdateCall, DeleteCall
      <4> QED BY <3>1, <4>1, <2>3, <2>4 DEF LoadTarget, At
    <3>2. CASE /\ pc[q] \in {"name", "parent", "walk", "write", "expand", "drop"}
               /\ call'[q] = call[q]
      BY <3>2, <2>2 DEF OwnerInv, TargetChecked
    <3> QED BY <3>1, <3>2, <1>2, <2>1, <2>4, StageMoves
  <2>8. ParentChecked'
    <3> SUFFICES ASSUME NEW q \in Requests,
                        \/ pc'[q] = "walk"
                        \/ /\ pc'[q] = "write"
                           /\ SetsParent(q)'
                           /\ call'[q].parent # Null
                 PROVE  StaysChecked(call'[q].parent, call'[q].user)
      BY DEF ParentChecked, Checked, StaysChecked, Exists
    <3>1. CASE LoadParent(r) /\ q = r
      <4>1. call[r].parent \in FolderIds
        BY <3>1, <2>1 DEF LoadParent, At, TypeInv, StageOfCall
      <4> QED BY <3>1, <4>1, <2>3, <2>4 DEF LoadParent, At
    <3>2. CASE pc[q] = "walk" /\ call'[q] = call[q]
      BY <3>2, <2>2 DEF OwnerInv, ParentChecked
    <3>3. CASE q # r
      BY <3>3, <2>2, <2>4 DEF OwnerInv, ParentChecked, SetsParent
    <3>4. CASE LoadTarget(r) /\ q = r
      <4>1. pc[r] = "load" /\ call[r] \in UpdateCall \cup DeleteCall
        BY <3>4, <2>1 DEF LoadTarget, At, TypeInv, StageOfCall
      <4>2. seen'[r].target = folders[call[r].target]
        BY <3>4, <2>1 DEF LoadTarget, KeepTarget, TypeInv, FoldersTypeOK, Memory
      <4>3. ~ (pc'[r] = "write" /\ SetsParent(r)') /\ pc'[r] # "walk"
        BY <3>4, <4>1, <4>2, <2>1, <2>4 DEF LoadTarget, SetsParent, Goto, TypeInv,
           FoldersTypeOK, UpdateCall, DeleteCall
      <4> QED BY <3>4, <4>3
    <3>5. CASE NameFree(r) /\ q = r
      <4>1. ~ (pc'[r] = "write" /\ SetsParent(r)' /\ call'[r].parent # Null)
            /\ pc'[r] # "walk"
        BY <3>5, <2>1, <2>4 DEF NameFree, SetsParent, Goto, At, TypeInv, FoldersTypeOK
      <4> QED BY <3>5, <4>1
    <3> QED BY <3>1, <3>2, <3>3, <3>4, <3>5, <1>2, <2>1, <2>4, StageMoves
  <2>9. TreeChecked'
    <3> SUFFICES ASSUME NEW q \in Requests, pc'[q] \in {"expand", "drop"},
                        NEW f \in Loaded(q)'
                 PROVE  StaysChecked(f, call'[q].user)
      BY DEF TreeChecked, Checked, StaysChecked, Exists
    <3>1. CASE q # r
      BY <3>1, <2>2, <2>4 DEF OwnerInv, TreeChecked, Loaded
    <3>2. CASE LoadTarget(r) /\ q = r
      <4>1. seen'[r].tree = {}
        BY <3>2, <2>1 DEF LoadTarget, KeepTarget, At, OwnerInv, SessionsFresh,
           NothingSeen, TypeInv, FoldersTypeOK
      <4>2. f = call'[r].target
        BY <3>2, <4>1 DEF Loaded
      <4>3. call[r].target \in FolderIds
        BY <3>2, <2>1 DEF LoadTarget, At, TypeInv, StageOfCall, UpdateCall, DeleteCall
      <4> QED BY <3>2, <4>2, <4>3, <2>3, <2>4 DEF LoadTarget, At
    <3>3. CASE ReadChildren(r) /\ q = r
      <4>1. PICK g \in Loaded(r) :
              seen' = [seen EXCEPT ![r] = KeepChildren(seen[r], g, ChildrenOf({g}))]
        BY <3>3 DEF ReadChildren
      <4>2. \A h \in Loaded(r)' : h \in Loaded(r) \/ h \in ChildrenOf({g})
        <5> SUFFICES ASSUME NEW h \in Loaded(r)'
                     PROVE  h \in Loaded(r) \/ h \in ChildrenOf({g})
          OBVIOUS
        <5>1. seen'[r].tree = seen[r].tree \cup ({g} \X ChildrenOf({g}))
          BY <4>1, <2>1 DEF KeepChildren, TypeInv, FoldersTypeOK, Memory
        <5>2. call' = call
          BY <3>3 DEF ReadChildren
        <5>3. CASE h = call[r].target
          BY <5>3 DEF Loaded
        <5>4. ASSUME h # call[r].target
              PROVE  \E edge \in seen'[r].tree : h = edge[2]
          BY <5>2, <5>4 DEF Loaded
        <5>5. CASE h # call[r].target
          <6>1. PICK edge \in seen'[r].tree : h = edge[2]
            BY <5>4, <5>5
          <6>2. CASE edge \in seen[r].tree
            BY <6>1, <6>2 DEF Loaded
          <6>3. CASE edge \in {g} \X ChildrenOf({g})
            BY <6>1, <6>3
          <6> QED BY <5>1, <6>1, <6>2, <6>3
        <5> QED BY <5>3, <5>5
      <4>3. Checked(g, call[r].user)
        BY <3>3 DEF ReadChildren, At, OwnerInv, TreeChecked
      <4>4. ASSUME NEW h \in ChildrenOf({g}) PROVE Visible(h, call[r].user)
        BY <4>3, FoldersAssumption DEF ChildrenOf, Visible, Checked, OwnerInv,
           ParentSameOwner, ParentOf
      <4> QED BY <3>3, <4>2, <4>4, <2>2, <2>3, <2>4
              DEF ReadChildren, At, OwnerInv, TreeChecked, ChildrenOf
    <3>4. CASE TreeRead(r) /\ q = r
      BY <3>4, <2>2, <2>4 DEF TreeRead, At, OwnerInv, TreeChecked, Loaded
    <3> QED BY <3>1, <3>2, <3>3, <3>4, <1>2, <2>1, StageMoves
  <2>10. ParentSameOwner'
    <3> SUFFICES ASSUME NEW f \in FolderIds,
                        folders'[f] # NoRow, folders'[f].parent # Null
                 PROVE  /\ folders'[folders'[f].parent] # NoRow
                        /\ folders'[folders'[f].parent].owner = folders'[f].owner
      BY DEF ParentSameOwner, Exists, ParentOf
    <3>0. /\ folders'[f].parent \in FolderIds
          /\ folders[f] # NoRow /\ folders[f].parent # Null =>
                /\ folders[f].parent \in FolderIds
                /\ folders[folders[f].parent] # NoRow
                /\ folders[folders[f].parent].owner = folders[f].owner
      <4>1. folders'[f].parent \in Parents /\ folders[f].parent \in Parents
        BY <2>1, RowParent DEF TypeInv, FoldersTypeOK
      <4> QED BY <4>1 DEF Parents, OwnerInv, ParentSameOwner, Exists, ParentOf
    <3>1. CASE folders' = folders
      BY <3>0, <3>1
    <3>2. CASE InsertFolder(r)
      <4>1. ~Exists(r) /\ call[r] \in CreateCall
        BY <3>2, <2>1 DEF InsertFolder, At, OwnerInv, RowsWritten, TypeInv,
           StageOfCall, UpdateCall
      <4>2. call[r].parent # Null =>
               Exists(call[r].parent) /\ folders[call[r].parent].owner = call[r].user
        BY <3>2 DEF InsertFolder, WriteFails, BadParent, At, OwnerInv, ParentChecked,
           SetsParent, Checked
      <4>3. r \in FolderIds /\ folders'[r] = [owner  |-> call[r].user,
                                             parent |-> call[r].parent,
                                             name   |-> call[r].name]
        BY <3>2, <2>1 DEF InsertFolder, FolderIds, TypeInv, FoldersTypeOK
      <4>4. \A g \in FolderIds \ {r} : folders'[g] = folders[g]
        BY <3>2, <2>1 DEF InsertFolder, TypeInv, FoldersTypeOK
      <4>5. CASE f = r
        BY <4>1, <4>2, <4>3, <4>4, <4>5, <3>0 DEF Exists
      <4>6. CASE f # r
        BY <4>1, <4>4, <4>6, <3>0 DEF Exists
      <4> QED BY <4>5, <4>6
    <3>3. CASE UpdateFolder(r)
      <4> DEFINE t == call[r].target
      <4>1. call[r] \in UpdateCall /\ t \in FolderIds
        BY <3>3, <2>1 DEF UpdateFolder, At, TypeInv, StageOfCall, CreateCall, UpdateCall
      <4>2. \A g \in FolderIds : g # t => folders'[g] = folders[g]
        BY <3>3, <2>1 DEF UpdateFolder, TypeInv, FoldersTypeOK
      <4>3. /\ folders'[t].owner = folders[t].owner
            /\ folders'[t].parent
                  = IF Moves(r) THEN call[r].parent ELSE folders[t].parent
        BY <3>3, <4>1, <2>1 DEF UpdateFolder, TypeInv, FoldersTypeOK, Row, NoRow
      <4>4. folders[t] # NoRow <=> folders'[t] # NoRow
        <5>1. CASE folders[t] = NoRow
          BY <3>3, <4>1, <5>1, <2>1 DEF UpdateFolder, WriteFails, Exists, TypeInv,
             FoldersTypeOK, NoRow
        <5>2. CASE folders[t] # NoRow
          BY <4>3, <5>2, <2>1, FoldersAssumption, <4>1 DEF TypeInv, FoldersTypeOK, Row, NoRow
        <5> QED BY <5>1, <5>2
      <4>5. Moves(r) /\ call[r].parent # Null /\ folders[t] # NoRow =>
               /\ call[r].parent \in FolderIds
               /\ folders[call[r].parent] # NoRow
               /\ folders[call[r].parent].owner = folders[t].owner
        BY <3>3 DEF UpdateFolder, WriteFails, BadParent, At, OwnerInv, ParentChecked,
           TargetChecked, SetsParent, Moves, Checked, Exists
      <4>6. \A g \in FolderIds : /\ folders[g] # NoRow <=> folders'[g] # NoRow
                                 /\ folders'[g].owner = folders[g].owner
        BY <4>2, <4>3, <4>4
      <4>7. CASE f = t
        BY <4>1, <4>3, <4>4, <4>5, <4>6, <4>7, <3>0
      <4>8. CASE f # t
        BY <4>2, <4>6, <4>8, <3>0
      <4> QED BY <4>7, <4>8
    <3>4. CASE DropTree(r)
      <4>1. \A g \in FolderIds :
               folders'[g] = IF g \in Cascade(Loaded(r)) THEN NoRow ELSE folders[g]
        BY <3>4 DEF DropTree
      <4>2. ChildrenOf(Cascade(Loaded(r))) \subseteq Cascade(Loaded(r))
        BY DEF Cascade, ChildrenOf
      <4>3. folders[f].parent \notin Cascade(Loaded(r))
        BY <4>1, <4>2 DEF ChildrenOf, Exists
      <4> QED BY <4>1, <4>3, <3>0
    <3> QED BY <3>1, <3>2, <3>3, <3>4, <1>2, <2>1, OneMoves
  <2> QED BY <2>1, <2>5, <2>6, <2>7, <2>8, <2>9, <2>10 DEF OwnerInv
<1> QED BY <1>1, <1>2 DEF Next, Moved

(* Every folder lies in a folder of the same owner, or at the top.         *)
THEOREM ParentOwnerSafe == Spec => []ParentSameOwner
<1>1. OwnerInv => ParentSameOwner
  BY DEF OwnerInv
<1> QED BY OwnerInit, OwnerStep, <1>1, PTL DEF Spec

-----------------------------------------------------------------------------
(* A step of r that writes rows changes its session's stage, and the rows  *)
(* it changes are of its user.                                             *)
RowsOfUser(r) ==
    \A f \in FolderIds : folders'[f] # folders[f] =>
        /\ pc[r] # pc'[r]
        /\ call[r].user \in {folders[f].owner, folders'[f].owner}

LEMMA WriterOwns ==
    ASSUME OwnerInv, NEW r \in Requests, Moved(r)
    PROVE  RowsOfUser(r)
<1> USE DEF OwnerInv, TypeInv, FoldersTypeOK, At
<1>1. CASE folders' = folders
  BY <1>1 DEF RowsOfUser
<1>2. CASE InsertFolder(r)
  <2>1. pc[r] # pc'[r]
    BY <1>2 DEF InsertFolder, Goto
  <2>2. ASSUME NEW f \in FolderIds, folders'[f] # folders[f]
        PROVE  folders'[f].owner = call[r].user
    BY <1>2, <2>2 DEF InsertFolder
  <2> QED BY <2>1, <2>2 DEF RowsOfUser
<1>3. CASE UpdateFolder(r)
  <2>1. pc[r] # pc'[r]
    BY <1>3 DEF UpdateFolder, Goto
  <2>2. Checked(call[r].target, call[r].user)
    BY <1>3 DEF UpdateFolder, TargetChecked
  <2>3. ASSUME NEW f \in FolderIds, folders'[f] # folders[f]
        PROVE  f = call[r].target /\ Exists(f)
    <3>1. call[r] \in UpdateCall
      BY <1>3 DEF UpdateFolder, StageOfCall, CreateCall
    <3>2. f = call[r].target
      BY <1>3, <2>3, <3>1 DEF UpdateFolder, UpdateCall
    <3>3. Renames(r) \/ Moves(r) \/ folders'[f] = folders[f]
      BY <1>3, <3>1, <3>2 DEF UpdateFolder, UpdateCall, Row, NoRow
    <3> QED BY <1>3, <2>3, <3>2, <3>3 DEF UpdateFolder, WriteFails
  <2> QED BY <2>1, <2>2, <2>3 DEF RowsOfUser, Checked
<1>4. CASE DropTree(r)
  <2>1. pc[r] # pc'[r]
    BY <1>4 DEF DropTree, Close, Respond
  <2>2. \A f \in Loaded(r) : Checked(f, call[r].user)
    BY <1>4 DEF DropTree, TreeChecked
  <2>3. \A f \in Cascade(Loaded(r)) : Exists(f) => folders[f].owner = call[r].user
    <3>1. Loaded(r) \in SUBSET FolderIds
      BY <2>2 DEF Checked
    <3>2. \A f \in Loaded(r) : Exists(f) => folders[f].owner = call[r].user
      BY <2>2 DEF Checked
    <3>3. FoldersTypeOK /\ ParentSameOwner
      OBVIOUS
    <3> HIDE DEF FoldersTypeOK, Loaded
    <3> QED BY ONLY <3>1, <3>2, <3>3, CascadeOwned
  <2>4. ASSUME NEW f \in FolderIds, folders'[f] # folders[f]
        PROVE  f \in Cascade(Loaded(r)) /\ Exists(f)
    BY <1>4, <2>4 DEF DropTree, Exists
  <2> QED BY <2>1, <2>3, <2>4 DEF RowsOfUser
<1> QED BY <1>1, <1>2, <1>3, <1>4, OneMoves

(* A row is written or removed only by a step of a request of its owner,   *)
(* the rows a delete reaches through the foreign key included.             *)
THEOREM OnlyOwnerWrites == Spec => OnlyOwnerChanges
<1> DEFINE Owned ==
      \A f \in FolderIds : folders'[f] # folders[f] =>
          \E r \in Requests :
              /\ pc[r] # pc'[r]
              /\ call[r].user \in {folders[f].owner, folders'[f].owner}
<1>1. OwnerInv /\ [Next]_vars => [Owned]_vars
  <2> SUFFICES ASSUME OwnerInv, Next PROVE Owned
    OBVIOUS
  <2>1. PICK r \in Requests : Moved(r)
    BY DEF Next, Moved
  <2> QED BY <2>1, WriterOwns DEF RowsOfUser
<1> QED BY OwnerInit, OwnerStep, <1>1, PTL DEF Spec, OnlyOwnerChanges

-----------------------------------------------------------------------------
(* A step answers its own request only, and nothing moves once answered.   *)
LEMMA FolderAnswers ==
    ASSUME TypeInv, NEW r \in Requests, Moved(r)
    PROVE  /\ pc[r] # "done"
           /\ pc[r] = "refresh" => RefreshFolder(r)
           /\ status'[r] = status[r] \/ pc'[r] = "done"
           /\ \A q \in Requests \ {r} :
                 status'[q] = status[q] /\ call'[q] = call[q] /\ pc'[q] = pc[q]
<1> USE DEF TypeInv, FoldersTypeOK, At, Goto, Close, Respond
<1>1. CASE Arrive(r) \/ RefusePayload(r)
  BY <1>1 DEF Arrive, RefusePayload, Enter
<1>2. CASE TargetNotFound(r) \/ LoadTarget(r) \/ CheckName(r)
  BY <1>2 DEF TargetNotFound, LoadTarget, CheckName, NameAmbiguous, NameTaken,
     NameFree
<1>3. CASE CheckParent(r)
  BY <1>3 DEF CheckParent, ParentNotFound, ParentIsItself, LoadParent,
     AncestorIsItself, AncestorNotFound, LoadAncestor, Climb
<1>4. CASE WriteRow(r)
  BY <1>4 DEF WriteRow, RejectWrite, InsertFolder, UpdateFolder, RefreshFolder
<1>5. CASE DeleteRows(r)
  BY <1>5 DEF DeleteRows, ReadChildren, TreeRead, DropCircular, DropTree
<1> QED BY <1>1, <1>2, <1>3, <1>4, <1>5 DEF Moved, Step

LEMMA NeverIdleAgain == ASSUME TypeInv, NEW r \in Requests, Moved(r) PROVE pc'[r] # "idle"
<1> USE DEF TypeInv, FoldersTypeOK, At, Goto, Close, Respond
<1>1. CASE Arrive(r)
  <2>1. PICK c \in Calls : Enter(r, c, FirstStage[c.op])
    BY <1>1, FoldersAssumption DEF Arrive
  <2> QED BY <2>1, CallKinds DEF Enter, FirstStage
<1>2. CASE RefusePayload(r) \/ TargetNotFound(r) \/ LoadTarget(r) \/ CheckName(r)
  BY <1>2 DEF RefusePayload, TargetNotFound, LoadTarget, CheckName, NameAmbiguous,
     NameTaken, NameFree
<1>3. CASE CheckParent(r)
  BY <1>3 DEF CheckParent, ParentNotFound, ParentIsItself, LoadParent,
     AncestorIsItself, AncestorNotFound, LoadAncestor, Climb
<1>4. CASE WriteRow(r)
  BY <1>4 DEF WriteRow, RejectWrite, InsertFolder, UpdateFolder, RefreshFolder
<1>5. CASE DeleteRows(r)
  BY <1>5 DEF DeleteRows, ReadChildren, TreeRead, DropCircular, DropTree
<1> QED BY <1>1, <1>2, <1>3, <1>4, <1>5 DEF Moved, Step

(* A folder lies where it has been put, and what a delete has loaded has   *)
(* been below its folder.                                                  *)
PlacedInv ==
    /\ \A r \in Requests : pc[r] = "idle" => call[r] = NoCall
    /\ \A f \in FolderIds :
          Exists(f) /\ ParentOf(f) # Null => ParentOf(f) \in PutIn(f)
    /\ \A r \in Requests : pc[r] \in {"expand", "drop"} =>
          Loaded(r) \subseteq EverBelow(call[r].target)

(* PutIn(f) and EverBelow(t) of the next state, f and t being those of     *)
(* this one.                                                               *)
PutInNext(f) ==
    {InitialFolders[s].parent : s \in Seeds \cap {f}}
        \cup {call'[q].parent : q \in
                 {p \in Requests :
                    \/ /\ call'[p].op = "update" /\ call'[p].target = f
                       /\ \/ pc'[p] = "refresh"
                          \/ pc'[p] = "done" /\ status'[p] \in {"200", "500"}
                    \/ (p = f /\ call'[p].op = "create")}}
BelowNext(t) ==
    {f \in FolderIds :
        \A T \in SUBSET (FolderIds \ {f}) :
            t \in T => \E g \in FolderIds \ T : PutInNext(g) \cap T # {}}

LEMMA PlacedInit == Init => PlacedInv
<1> SUFFICES ASSUME Init PROVE PlacedInv
  OBVIOUS
<1>1. ASSUME NEW f \in FolderIds, Exists(f) PROVE ParentOf(f) \in PutIn(f)
  <2>1. f \in Seeds /\ ParentOf(f) = InitialFolders[f].parent
    BY <1>1 DEF Init, Exists, ParentOf
  <2> QED BY <2>1 DEF PutIn
<1>2. \A r \in Requests : pc[r] = "idle" /\ call[r] = NoCall
  BY DEF Init, SessionsInit
<1> QED BY <1>1, <1>2 DEF PlacedInv

(* Where a folder has been it has been for good.                           *)
LEMMA PutInGrows ==
    ASSUME TypeInv, PlacedInv, NEW r \in Requests, Moved(r), NEW f \in FolderIds
    PROVE  PutIn(f) \subseteq PutInNext(f)
<1>1. \A q \in Requests : pc[q] # "idle" => call'[q] = call[q]
  BY OneMoves
<1>2. ASSUME NEW q \in Requests, q = f, call[q].op = "create"
      PROVE  call'[q] = call[q]
  BY <1>1, <1>2 DEF PlacedInv, NoCall
<1>3. ASSUME NEW q \in Requests, HasMoved(q, f)
      PROVE  /\ call'[q] = call[q]
             /\ \/ pc'[q] = "refresh"
                \/ pc'[q] = "done" /\ status'[q] \in {"200", "500"}
  <2>1. CASE q # r
    BY <1>3, <2>1, FolderAnswers DEF HasMoved, At
  <2>2. CASE q = r
    <3>1. RefreshFolder(r) /\ call[r].op = "update"
      BY <1>3, <2>2, FolderAnswers DEF HasMoved, At
    <3>2. pc'[r] = "done" /\ status'[r] \in {"200", "500"}
      BY <3>1 DEF RefreshFolder, Close, Respond, StatusOf, TypeInv, FoldersTypeOK
    <3> QED BY <1>1, <1>3, <2>2, <3>2 DEF HasMoved, At
  <2> QED BY <2>1, <2>2
<1>4. ASSUME NEW p \in PutIn(f),
             p \notin {InitialFolders[s].parent : s \in Seeds \cap {f}}
      PROVE  p \in PutInNext(f)
  <2>1. PICK q \in Requests : /\ p = call[q].parent
                              /\ HasMoved(q, f) \/ (q = f /\ call[q].op = "create")
    BY <1>4 DEF PutIn
  <2>2. call'[q] = call[q]
    BY <2>1, <1>2, <1>3
  <2>3. \/ /\ call'[q].op = "update" /\ call'[q].target = f
           /\ \/ pc'[q] = "refresh"
              \/ pc'[q] = "done" /\ status'[q] \in {"200", "500"}
        \/ (q = f /\ call'[q].op = "create")
    BY <2>1, <2>2, <1>3 DEF HasMoved
  <2> QED BY <2>1, <2>2, <2>3 DEF PutInNext
<1> QED BY <1>4 DEF PutInNext

LEMMA BelowGrows ==
    ASSUME TypeInv, PlacedInv, NEW r \in Requests, Moved(r), NEW t
    PROVE  EverBelow(t) \subseteq BelowNext(t)
<1>1. \A f \in FolderIds : PutIn(f) \subseteq PutInNext(f)
  BY PutInGrows
<1> QED BY <1>1 DEF EverBelow, BelowNext

(* The folders that have been below t are closed under being put in one.   *)
LEMMA BelowClosed ==
    ASSUME NEW t \in FolderIds, NEW f \in FolderIds, NEW p \in EverBelow(t), p \in PutIn(f)
    PROVE  f \in EverBelow(t)
<1> SUFFICES ASSUME NEW T \in SUBSET (FolderIds \ {f}), t \in T
             PROVE  \E g \in FolderIds \ T : PutIn(g) \cap T # {}
  BY DEF EverBelow
<1>1. CASE p \in T
  BY <1>1
<1>2. CASE p \notin T
  BY <1>2 DEF EverBelow
<1> QED BY <1>1, <1>2

LEMMA BelowChildren ==
    ASSUME PlacedInv, NEW t \in FolderIds, NEW S, S \subseteq EverBelow(t)
    PROVE  ChildrenOf(S) \subseteq EverBelow(t) /\ Cascade(S) \subseteq EverBelow(t)
<1>1. \A f \in FolderIds : Exists(f) /\ folders[f].parent \in EverBelow(t) => f \in EverBelow(t)
  <2>1. Null \notin EverBelow(t)
    BY FoldersAssumption DEF EverBelow
  <2> QED BY <2>1, BelowClosed DEF PlacedInv, ParentOf
<1>2. EverBelow(t) \in SUBSET FolderIds
  BY DEF EverBelow
<1> HIDE DEF EverBelow
<1> QED BY <1>1, <1>2 DEF ChildrenOf, Cascade

(* One level of the tree more.                                             *)
LEMMA LoadedByRead ==
    ASSUME TypeInv, NEW r \in Requests, ReadChildren(r)
    PROVE  \A h \in Loaded(r)' : h \in Loaded(r) \/ h \in ChildrenOf(Loaded(r))
<1>1. PICK g \in Loaded(r) :
        seen' = [seen EXCEPT ![r] = KeepChildren(seen[r], g, ChildrenOf({g}))]
  BY DEF ReadChildren
<1>2. call' = call
  BY DEF ReadChildren
<1>3. seen'[r].tree = seen[r].tree \cup ({g} \X ChildrenOf({g}))
  BY <1>1 DEF KeepChildren, TypeInv, FoldersTypeOK, Memory
<1> SUFFICES ASSUME NEW h \in Loaded(r)' PROVE h \in Loaded(r) \/ h \in ChildrenOf({g})
  BY <1>1 DEF ChildrenOf
<1>4. CASE h = call[r].target
  BY <1>4 DEF Loaded
<1>5. CASE h # call[r].target
  <2>1. PICK edge \in seen'[r].tree : h = edge[2]
    BY <1>2, <1>5 DEF Loaded
  <2>2. CASE edge \in seen[r].tree
    BY <2>1, <2>2 DEF Loaded
  <2>3. CASE edge \in {g} \X ChildrenOf({g})
    BY <2>1, <2>3
  <2> QED BY <1>3, <2>1, <2>2, <2>3
<1> QED BY <1>4, <1>5

LEMMA PlacedStep == OwnerInv /\ OwnerInv' /\ PlacedInv /\ [Next]_vars => PlacedInv'
<1> SUFFICES ASSUME OwnerInv, OwnerInv', PlacedInv, [Next]_vars PROVE PlacedInv'
  OBVIOUS
<1>1. CASE UNCHANGED vars
  BY <1>1 DEF vars, PlacedInv, Exists, ParentOf, PutIn, EverBelow, HasMoved, At, Loaded
<1>2. ASSUME NEW r \in Requests, Moved(r) PROVE PlacedInv'
  <2>0. TypeInv /\ TypeInv'
    BY DEF OwnerInv
  <2>1. /\ \A q \in Requests \ {r} :
              pc'[q] = pc[q] /\ call'[q] = call[q] /\ seen'[q] = seen[q]
        /\ pc[r] # "idle" => call'[r] = call[r]
        /\ folders' = folders \/ InsertFolder(r) \/ UpdateFolder(r) \/ DropTree(r)
    BY <1>2, <2>0, OneMoves
  <2>2. \A f \in FolderIds : \A p \in PutIn(f) : p \in PutInNext(f)
    BY <1>2, <2>0, PutInGrows
  <2>3. \A t : EverBelow(t) \subseteq BelowNext(t)
    BY <1>2, <2>0, BelowGrows
  <2>4. ASSUME NEW q \in Requests, pc'[q] = "idle" PROVE call'[q] = NoCall
    <3>1. q # r
      BY <1>2, <2>4, <2>0, NeverIdleAgain
    <3> QED BY <2>1, <2>4, <3>1 DEF PlacedInv
  <2>5. ASSUME NEW f \in FolderIds, folders'[f] # NoRow, folders'[f].parent # Null
        PROVE  folders'[f].parent \in PutInNext(f)
    <3>1. CASE folders[f] # NoRow /\ folders'[f].parent = folders[f].parent
      BY <2>2, <2>5, <3>1 DEF PlacedInv, Exists, ParentOf
    <3>2. CASE InsertFolder(r) /\ f = r
      <4>1. folders'[f].parent = call'[r].parent /\ call'[r].op = "create"
        BY <2>0, <3>2 DEF InsertFolder, Goto, TypeInv, FoldersTypeOK
      <4> QED BY <3>2, <4>1 DEF PutInNext
    <3>3. CASE UpdateFolder(r) /\ f = call[r].target /\ Moves(r)
      <4>1. call[r] \in UpdateCall
        BY <2>0, <3>3 DEF UpdateFolder, At, TypeInv, StageOfCall, CreateCall
      <4>2. folders'[f].parent = call[r].parent
        BY <2>0, <3>3, <4>1 DEF UpdateFolder, TypeInv, FoldersTypeOK, Row, NoRow
      <4>3. /\ call'[r] = call[r] /\ call'[r].op = "update"
            /\ call'[r].target = f /\ pc'[r] = "refresh"
        BY <2>0, <3>3 DEF UpdateFolder, Goto, TypeInv, FoldersTypeOK
      <4> QED BY <4>2, <4>3 DEF PutInNext
    <3>4. CASE InsertFolder(r) /\ f # r
      <4>1. folders'[f] = folders[f]
        BY <2>0, <3>4 DEF InsertFolder, TypeInv, FoldersTypeOK
      <4> QED BY <2>5, <3>1, <4>1
    <3>5. CASE UpdateFolder(r) /\ ~(f = call[r].target /\ Moves(r))
      <4>1. call[r] \in UpdateCall
        BY <2>0, <3>5 DEF UpdateFolder, At, TypeInv, StageOfCall, CreateCall
      <4>2. folders'[f].parent = folders[f].parent
        BY <2>0, <3>5, <4>1 DEF UpdateFolder, TypeInv, FoldersTypeOK, Row, NoRow
      <4>3. Exists(f)
        BY <1>2, <2>0, <2>5, <3>5, OwnersStay DEF Exists, InsertFolder, UpdateFolder
      <4> QED BY <3>1, <4>2, <4>3 DEF Exists
    <3>6. CASE DropTree(r)
      <4>1. folders'[f] = folders[f]
        BY <2>5, <3>6 DEF DropTree
      <4> QED BY <2>5, <3>1, <4>1
    <3>7. CASE folders' = folders
      BY <2>5, <3>1, <3>7
    <3> QED BY <2>1, <3>2, <3>3, <3>4, <3>5, <3>6, <3>7
  <2>6. ASSUME NEW q \in Requests, pc'[q] \in {"expand", "drop"}, NEW h \in Loaded(q)'
        PROVE  h \in BelowNext(call'[q].target)
    <3>1. CASE q # r
      BY <2>1, <2>3, <2>6, <3>1 DEF PlacedInv, Loaded
    <3>2. CASE LoadTarget(r) /\ q = r
      <4>1. seen'[r].tree = {}
        BY <3>2, <2>0 DEF LoadTarget, KeepTarget, At, OwnerInv, SessionsFresh,
           NothingSeen, TypeInv, FoldersTypeOK
      <4>2. h = call'[r].target
        BY <2>6, <3>2, <4>1 DEF Loaded
      <4>3. h \in FolderIds
        BY <2>6 DEF OwnerInv, TreeChecked, Checked
      <4> QED BY <3>2, <4>2, <4>3 DEF BelowNext
    <3>3. CASE ReadChildren(r) /\ q = r
      <4>1. pc[r] = "expand" /\ call'[r] = call[r]
        BY <3>3 DEF ReadChildren, At
      <4>2. call[r].target \in FolderIds
        BY <2>0, <4>1 DEF TypeInv, StageOfCall, DeleteCall
      <4>3. Loaded(r) \subseteq EverBelow(call[r].target)
        BY <4>1 DEF PlacedInv
      <4>4. h \in Loaded(r) \/ h \in ChildrenOf(Loaded(r))
        BY <2>0, <2>6, <3>3, LoadedByRead
      <4>5. h \in EverBelow(call[r].target)
        BY <4>2, <4>3, <4>4, BelowChildren
      <4> QED BY <2>3, <3>3, <4>1, <4>5
    <3>4. CASE TreeRead(r) /\ q = r
      BY <2>1, <2>3, <2>6, <3>4 DEF TreeRead, At, PlacedInv, Loaded
    <3> QED BY <1>2, <2>0, <2>1, <2>6, <3>1, <3>2, <3>3, <3>4, StageMoves
  <2> QED BY <2>4, <2>5, <2>6 DEF PlacedInv, Exists, ParentOf, PutIn, EverBelow,
          HasMoved, At, PutInNext, BelowNext
<1> QED BY <1>1, <1>2 DEF Next, Moved

LEMMA PlacedHolds == Spec => [](OwnerInv /\ PlacedInv)
  BY OwnerInit, OwnerStep, PlacedInit, PlacedStep, PTL DEF Spec

(* What a delete removes has been below its folder, by a chain of folders  *)
(* each of which has been put in the next at some time.                    *)
THEOREM OnlyWhatWasBelowGoes == Spec => RemovedWasBelow
<1> DEFINE Below ==
      \A f \in FolderIds : Exists(f) /\ folders'[f] = NoRow =>
          \E r \in Requests :
              /\ At(r, "drop") /\ pc'[r] = "done"
              /\ f \in EverBelow(call[r].target)
<1>1. OwnerInv /\ PlacedInv /\ [Next]_vars => [Below]_vars
  <2> SUFFICES ASSUME OwnerInv, PlacedInv, Next,
                      NEW f \in FolderIds, Exists(f), folders'[f] = NoRow
               PROVE  \E r \in Requests :
                         /\ At(r, "drop") /\ pc'[r] = "done"
                         /\ f \in EverBelow(call[r].target)
    OBVIOUS
  <2>0. TypeInv
    BY DEF OwnerInv
  <2>1. PICK r \in Requests : Moved(r)
    BY DEF Next, Moved
  <2>2. DropTree(r)
    <3>1. ~InsertFolder(r)
      BY <2>0, FoldersAssumption DEF InsertFolder, Exists, TypeInv, FoldersTypeOK,
         StageOfCall, At, CreateCall, UpdateCall, NoRow
    <3>2. ~UpdateFolder(r)
      BY <2>0, FoldersAssumption DEF UpdateFolder, Exists, TypeInv, FoldersTypeOK,
         StageOfCall, At, CreateCall, UpdateCall, NoRow, Row
    <3>3. folders' # folders
      BY DEF Exists
    <3> QED BY <2>0, <2>1, <3>1, <3>2, <3>3, OneMoves
  <2>3. pc[r] = "drop" /\ pc'[r] = "done" /\ f \in Cascade(Loaded(r))
    BY <2>0, <2>2 DEF DropTree, At, Close, Respond, Exists, TypeInv, FoldersTypeOK
  <2>4. call[r].target \in FolderIds /\ Loaded(r) \subseteq EverBelow(call[r].target)
    BY <2>0, <2>3 DEF TypeInv, StageOfCall, DeleteCall, PlacedInv
  <2>5. f \in EverBelow(call[r].target)
    BY <2>3, <2>4, BelowChildren
  <2> QED BY <2>3, <2>5 DEF At
<1> QED BY <1>1, PlacedHolds, PTL DEF Spec, RemovedWasBelow
=============================================================================
