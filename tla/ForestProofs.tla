---------------------------- MODULE ForestProofs ----------------------------
(* What the checks of FolderService achieve when the writes that could     *)
(* invalidate them stay apart: the forest, the names and the deletes that  *)
(* only hold for such behaviours (see folders_cycle, folders_duplicate).   *)
EXTENDS FoldersProofs, SumLemmas

(* An update that has read the parent it is about to set.                  *)
Moving(r) ==
    /\ call[r].op = "update"
    /\ call[r].parent \in FolderIds
    /\ \/ pc[r] = "walk"
       \/ pc[r] = "write" /\ Moves(r)

(* No two moves are between their validation and their write.              *)
MovesApart == \A q, r \in Requests : Moving(q) /\ Moving(r) => q = r

(* No user moves a folder while one of the user's deletes loads its tree.  *)
DeletesApart ==
    \A q, r \in Requests :
        /\ pc[q] = "write" /\ call[q].op = "update" /\ Moves(q)
        /\ pc[r] \in {"expand", "drop"}
        => call[q].user # call[r].user

-----------------------------------------------------------------------------
(* The folders a move has looked at, the new parent and what is above it:  *)
(* the walk has still to look above up.                                    *)
Above(r, C) ==
    /\ call[r].parent \in C
    /\ call[r].target \notin C
    /\ \A f \in C :
          /\ f \in Requests => pc[f] \in {"refresh", "done"}
          /\ Exists(f) => \/ ParentOf(f) \in C \cup {Null}
                          \/ pc[r] = "walk" /\ ParentOf(f) = seen[r].up

ChainKept ==
    \A r \in Requests : Moving(r) => \E C \in SUBSET FolderIds : Above(r, C)

(* The row an update has loaded is the row it will write to.               *)
TargetKept ==
    \A r \in Requests :
        Writing(r) /\ call[r].op = "update" /\ Exists(call[r].target) =>
            folders[call[r].target] = seen[r].target

(* The name has been checked, and the write will give it.                  *)
NameSettled(r) ==
    \/ pc[r] \in {"parent", "walk"}
    \/ pc[r] = "write" /\ (call[r].op = "create" \/ Renames(r) \/ Moves(r))

(* No other folder has the name and the place that a write will give.      *)
NameKept ==
    \A r \in Requests : NameSettled(r) => Namesakes(r) \subseteq Itself(r)

(* What a delete has loaded is still below its folder.                     *)
TreeKept ==
    \A r \in Requests : pc[r] \in {"expand", "drop"} =>
        \A f \in Loaded(r) : Exists(f) => f \in Cascade({call[r].target})

-----------------------------------------------------------------------------
(* What the write of an update does to the table.                          *)
UpdateEffect(r) ==
    LET t == call[r].target
    IN  /\ t \in FolderIds
        /\ call[r] \in UpdateCall
        /\ \A f \in FolderIds \ {t} : folders'[f] = folders[f]
        /\ folders'[t] = NoRow <=> folders[t] = NoRow
        /\ folders'[t].owner = folders[t].owner
        /\ folders'[t].name = IF Renames(r) THEN call[r].name ELSE folders[t].name
        /\ folders'[t].parent = IF Moves(r) THEN call[r].parent ELSE folders[t].parent
        /\ Renames(r) \/ Moves(r) => Exists(t)
        /\ ~Renames(r) /\ ~Moves(r) => folders'[t] = folders[t]

LEMMA UpdateEffects ==
    ASSUME TypeInv, FoldersTypeOK', NEW r \in Requests, UpdateFolder(r)
    PROVE  UpdateEffect(r)
<1> DEFINE t == call[r].target
<1>1. pc[r] = "write" /\ call[r] \in CreateCall \cup UpdateCall /\ call[r].op = "update"
  BY DEF UpdateFolder, At, TypeInv, StageOfCall
<1>2. call[r] \in UpdateCall /\ t \in FolderIds
  BY <1>1 DEF CreateCall, UpdateCall
<1>3. /\ folders \in [FolderIds -> Row \cup {NoRow}]
      /\ folders' = [folders EXCEPT
            ![t].name   = IF Renames(r) THEN call[r].name ELSE @,
            ![t].parent = IF Moves(r) THEN call[r].parent ELSE @]
  BY DEF UpdateFolder, TypeInv, FoldersTypeOK
<1>4. folders[t] \in Row \cup {NoRow}
  BY <1>2, <1>3
<1>5. /\ folders'[t].owner = folders[t].owner
      /\ folders'[t].name = IF Renames(r) THEN call[r].name ELSE folders[t].name
      /\ folders'[t].parent = IF Moves(r) THEN call[r].parent ELSE folders[t].parent
  <2>1. CASE folders[t] \in Row
    BY <1>2, <1>3, <2>1 DEF Row
  <2>2. CASE folders[t] = NoRow
    BY <1>2, <1>3, <2>2 DEF NoRow
  <2> QED BY <1>4, <2>1, <2>2
<1>6. ~Renames(r) /\ ~Moves(r) => folders'[t] = folders[t]
  <2>1. folders'[t] \in Row \cup {NoRow}
    BY <1>2 DEF FoldersTypeOK
  <2>2. \A u, v \in Row \cup {NoRow} :
          u.owner = v.owner /\ u.name = v.name /\ u.parent = v.parent => u = v
    BY FoldersAssumption DEF Row, NoRow
  <2> QED BY <1>4, <1>5, <2>1, <2>2
<1>7. \A f \in FolderIds \ {t} : folders'[f] = folders[f]
  BY <1>2, <1>3
<1>8. Renames(r) \/ Moves(r) => Exists(t)
  BY <1>1 DEF UpdateFolder, WriteFails
<1>9. folders[t] = NoRow <=> folders[t].owner = Null
  BY <1>4, FoldersAssumption DEF Row, NoRow
<1>10. folders'[t] = NoRow => folders'[t].owner = Null
  BY DEF NoRow
<1>11. folders[t] = NoRow => folders'[t] = NoRow
  BY <1>6, <1>8 DEF Exists
<1> QED BY <1>2, <1>5, <1>6, <1>7, <1>8, <1>9, <1>10, <1>11 DEF UpdateEffect

(* No folder lies in one that is not there.                                *)
LEMMA NothingInside ==
    ASSUME FoldersTypeOK, ParentSameOwner, NEW f \in FolderIds, ~Exists(f)
    PROVE  \A g \in FolderIds : Exists(g) => ParentOf(g) # f
  BY FoldersAssumption DEF ParentSameOwner, ParentOf, FoldersTypeOK

(* A step that is not an update moves no folder: it may add one in which   *)
(* nothing lies, or remove some.                                           *)
LEMMA NothingMoves ==
    ASSUME TypeInv, NEW r \in Requests, Moved(r), NEW f \in FolderIds, Exists(f)',
           ~UpdateFolder(r)
    PROVE  \/ Exists(f) /\ folders'[f] = folders[f]
           \/ InsertFolder(r) /\ f = r
<1>1. CASE folders' = folders
  BY <1>1 DEF Exists
<1>2. CASE InsertFolder(r)
  BY <1>2 DEF InsertFolder, Exists, TypeInv, FoldersTypeOK
<1>3. CASE DropTree(r)
  BY <1>3 DEF DropTree, Exists
<1> QED BY <1>1, <1>2, <1>3, OneMoves

LEMMA InsertEffect ==
    ASSUME TypeInv, RowsWritten, NEW r \in Requests, InsertFolder(r)
    PROVE  /\ pc[r] = "write"
           /\ call[r] \in CreateCall
           /\ ~Exists(r)
           /\ r \in FolderIds
           /\ \A f \in FolderIds \ {r} : folders'[f] = folders[f]
           /\ folders'[r].owner = call[r].user
           /\ folders'[r].parent = call[r].parent
           /\ folders'[r].name = call[r].name
           /\ call[r].parent # Null => Exists(call[r].parent)
<1>1. pc[r] = "write" /\ call[r] \in CreateCall
  BY DEF InsertFolder, At, TypeInv, StageOfCall, CreateCall, UpdateCall
<1>2. ~Exists(r)
  BY <1>1 DEF RowsWritten
<1>3. r \in FolderIds
  BY DEF FolderIds
<1> QED BY <1>1, <1>2, <1>3 DEF InsertFolder, WriteFails, BadParent, TypeInv, FoldersTypeOK

-----------------------------------------------------------------------------
(* A set of folders in which every one has its parent.                     *)
Closed(S) ==
    /\ S \in SUBSET FolderIds
    /\ S # {}
    /\ \A f \in S : Exists(f) /\ ParentOf(f) \in S

LEMMA AcyclicClosed == Acyclic <=> \A S : ~Closed(S)
  BY DEF Acyclic, Closed

(* A move that has seen the whole of what is above its new parent makes no *)
(* cycle: the part of one that is above the parent would be one already.   *)
LEMMA AcyclicStep ==
    ASSUME OwnerInv, FoldersTypeOK', ChainKept, Acyclic, NEW r \in Requests, Moved(r)
    PROVE  Acyclic'
<1> SUFFICES ASSUME NEW S \in SUBSET FolderIds, S # {},
                    \A f \in S : Exists(f)' /\ folders'[f].parent \in S
             PROVE  \E T : Closed(T)
  BY AcyclicClosed DEF Acyclic, ParentOf
<1> USE DEF OwnerInv
<1>0. Null \notin S
  BY FoldersAssumption
<1>1. CASE ~UpdateFolder(r) /\ ~InsertFolder(r)
  <2>1. \A f \in S : Exists(f) /\ folders'[f] = folders[f]
    BY <1>1, NothingMoves
  <2>2. Closed(S)
    BY <2>1 DEF Closed, ParentOf
  <2> QED BY <2>2
<1>2. CASE InsertFolder(r)
  <2> DEFINE T == S \ {r}
  <2>1. /\ ~Exists(r) /\ r \in FolderIds
        /\ \A f \in FolderIds \ {r} : folders'[f] = folders[f]
        /\ folders'[r].parent = call[r].parent
        /\ call[r].parent # Null => Exists(call[r].parent)
    BY <1>2, InsertEffect
  <2>2. \A f \in T : Exists(f) /\ ParentOf(f) = folders'[f].parent
    BY <2>1 DEF Exists, ParentOf
  <2>3. \A f \in T : ParentOf(f) # r
    BY <2>1, <2>2, NothingInside DEF TypeInv
  <2>4. T # {}
    BY <1>0, <2>1
  <2>5. Closed(T)
    BY <2>2, <2>3, <2>4 DEF Closed
  <2> QED BY <2>5
<1>3. CASE UpdateFolder(r)
  <2> DEFINE t == call[r].target
  <2>1. UpdateEffect(r)
    BY <1>3, UpdateEffects
  <2>2. \A f \in FolderIds \ {t} : folders'[f] = folders[f]
    BY <2>1 DEF UpdateEffect
  <2>3. /\ t \in FolderIds
        /\ folders'[t] = NoRow <=> folders[t] = NoRow
        /\ folders'[t].parent = IF Moves(r) THEN call[r].parent ELSE folders[t].parent
    BY <2>1 DEF UpdateEffect
  <2>4. \A f \in S : Exists(f)
    BY <2>2, <2>3 DEF Exists
  <2>5. CASE t \notin S \/ ~Moves(r)
    <3>1. \A f \in S : folders'[f].parent = ParentOf(f)
      BY <2>2, <2>3, <2>5 DEF ParentOf
    <3>2. Closed(S)
      BY <2>4, <3>1 DEF Closed
    <3> QED BY <3>2
  <2>6. CASE t \in S /\ Moves(r)
    <3>1. call[r].parent \in S
      BY <2>3, <2>6
    <3>2. Moving(r)
      BY <1>3, <2>6, <3>1 DEF Moving, UpdateFolder, At
    <3>3. PICK C \in SUBSET FolderIds : Above(r, C)
      BY <3>2 DEF ChainKept
    <3> DEFINE T == S \cap C
    <3>4. pc[r] = "write"
      BY <1>3 DEF UpdateFolder, At
    <3>5. ASSUME NEW f \in T PROVE Exists(f) /\ ParentOf(f) \in T
      <4>1. f # t /\ Exists(f)
        BY <2>4, <3>3 DEF Above
      <4>2. ParentOf(f) \in S
        BY <2>2, <4>1 DEF ParentOf
      <4>3. ParentOf(f) \in C \cup {Null}
        BY <3>3, <3>4, <4>1 DEF Above
      <4> QED BY <1>0, <4>1, <4>2, <4>3
    <3>6. Closed(T)
      BY <3>1, <3>3, <3>5 DEF Closed, Above
    <3> QED BY <3>6
  <2> QED BY <2>5, <2>6
<1> QED BY <1>1, <1>2, <1>3

(* What another request does leaves the ancestors a move has seen below    *)
(* each other, unless it moves one of them.                                *)
LEMMA AboveStays ==
    ASSUME OwnerInv, FoldersTypeOK', MovesApart, NEW r \in Requests, Moved(r),
           NEW q \in Requests, q # r, Moving(q),
           NEW C \in SUBSET FolderIds, Above(q, C)
    PROVE  Above(q, C)'
<1> USE DEF OwnerInv
<1>1. pc'[q] = pc[q] /\ call'[q] = call[q] /\ seen'[q] = seen[q]
  BY OneMoves
<1>2. ASSUME NEW f \in C, f \in Requests PROVE pc'[f] \in {"refresh", "done"}
  BY <1>2, OneMoves DEF Above
<1>3. ASSUME NEW f \in C, Exists(f)'
      PROVE  \/ folders'[f].parent \in C \cup {Null}
             \/ pc[q] = "walk" /\ folders'[f].parent = seen[q].up
  <2>1. CASE ~UpdateFolder(r)
    <3>1. f = r => ~InsertFolder(r)
      <4>1. InsertFolder(r) => pc[r] = "write"
        BY InsertEffect
      <4>2. f \in Requests => pc[f] # "write"
        BY DEF Above
      <4> QED BY <4>1, <4>2
    <3>2. Exists(f) /\ folders'[f] = folders[f]
      BY <1>3, <2>1, <3>1, NothingMoves
    <3> QED BY <3>2 DEF Above, ParentOf
  <2>2. CASE UpdateFolder(r)
    <3>1. UpdateEffect(r)
      BY <2>2, UpdateEffects
    <3>2. CASE f # call[r].target \/ ~Moves(r)
      <4>1. folders'[f].parent = folders[f].parent /\ Exists(f)
        BY <1>3, <3>1, <3>2 DEF UpdateEffect, Exists
      <4> QED BY <4>1 DEF Above, ParentOf
    <3>3. CASE f = call[r].target /\ Moves(r)
      <4>1. call[r] \in UpdateCall /\ folders'[f].parent = call[r].parent
        BY <3>1, <3>3 DEF UpdateEffect
      <4>2. ~Moving(r)
        BY DEF MovesApart
      <4>3. call[r].parent \notin FolderIds
        BY <2>2, <3>3, <4>1, <4>2 DEF Moving, UpdateFolder, At
      <4>4. call[r].parent = Null
        BY <3>3, <4>1, <4>3 DEF UpdateCall, Parents, Moves
      <4> QED BY <4>1, <4>4
    <3> QED BY <3>2, <3>3
  <2> QED BY <2>1, <2>2
<1> QED BY <1>1, <1>2, <1>3 DEF Above, ParentOf

(* How a move comes to its walk or its write.                              *)
LEMMA WalkMoves ==
    ASSUME TypeInv, NEW r \in Requests, Moved(r), Moving(r)'
    PROVE  /\ call'[r] = call[r]
           /\ folders' = folders
           /\ pc[r] \in {"parent", "walk"}
           /\ LoadParent(r) \/ LoadAncestor(r)
<1> USE DEF TypeInv, FoldersTypeOK, At, Goto, Close, Respond, Moving, Moves
<1>1. CASE Arrive(r)
  <2>1. PICK c \in Calls : Enter(r, c, FirstStage[c.op])
    BY <1>1, FoldersAssumption DEF Arrive
  <2> QED BY <1>1, <2>1, CallKinds DEF Arrive, Enter, FirstStage
<1>2. CASE RefusePayload(r)
  BY <1>2 DEF RefusePayload
<1>3. CASE LoadTarget(r)
  <2>1. pc[r] = "load" /\ call[r] \in UpdateCall \cup DeleteCall
    BY <1>3 DEF LoadTarget, StageOfCall
  <2>2. call[r].target \in FolderIds
    BY <2>1 DEF UpdateCall, DeleteCall
  <2>3. seen'[r].target = folders[call[r].target]
    BY <1>3, <2>2 DEF LoadTarget, KeepTarget, Memory
  <2> QED BY <1>3, <2>3 DEF LoadTarget
<1>4. CASE TargetNotFound(r) \/ NameAmbiguous(r) \/ NameTaken(r)
  BY <1>4 DEF TargetNotFound, NameAmbiguous, NameTaken
<1>5. CASE NameFree(r)
  BY <1>5, FoldersAssumption DEF NameFree, SetsParent
<1>6. CASE CheckParent(r)
  BY <1>6 DEF CheckParent, ParentNotFound, ParentIsItself, LoadParent,
     AncestorIsItself, AncestorNotFound, LoadAncestor, Climb
<1>7. CASE WriteRow(r)
  BY <1>7 DEF WriteRow, RejectWrite, InsertFolder, UpdateFolder, RefreshFolder
<1>8. CASE DeleteRows(r)
  BY <1>8 DEF DeleteRows, ReadChildren, TreeRead, DropCircular, DropTree
<1> QED BY <1>1, <1>2, <1>3, <1>4, <1>5, <1>6, <1>7, <1>8 DEF Moved, Step, CheckName

(* The walk of a move: the new parent first, then one ancestor at a time.  *)
LEMMA AboveGrows ==
    ASSUME OwnerInv, ChainKept, NEW r \in Requests, Moved(r), Moving(r)'
    PROVE  \E C \in SUBSET FolderIds : Above(r, C)'
<1> USE DEF OwnerInv
<1> DEFINE P == call[r].parent
<1>1. call'[r] = call[r] /\ folders' = folders /\ pc[r] \in {"parent", "walk"}
  BY WalkMoves
<1>2. call[r].op = "update" /\ P \in FolderIds /\ pc'[r] \in {"walk", "write"}
  BY <1>1 DEF Moving
<1>3. \A q \in Requests \ {r} : pc'[q] = pc[q]
  BY OneMoves
<1>4. ASSUME NEW f \in FolderIds, Visible(f, call[r].user), f \in Requests
      PROVE  pc'[f] \in {"refresh", "done"}
  BY <1>1, <1>3, <1>4 DEF Visible, RowsWritten
<1>5. ASSUME NEW C \in SUBSET FolderIds, P \in C, call[r].target \notin C,
             \A f \in C : f \in Requests => pc'[f] \in {"refresh", "done"},
             \A f \in C : Exists(f) =>
                 \/ ParentOf(f) \in C \cup {Null}
                 \/ pc'[r] = "walk" /\ ParentOf(f) = seen'[r].up
      PROVE  Above(r, C)'
  BY <1>1, <1>5 DEF Above, Exists, ParentOf
<1>6. CASE LoadParent(r)
  <2> DEFINE row == folders[P]
  <2>1. Visible(P, call[r].user) /\ P # call[r].target
    BY <1>2, <1>6 DEF LoadParent, Itself
  <2>2. seen'[r].up = row.parent
    BY <1>6 DEF LoadParent, KeepParent, TypeInv, FoldersTypeOK, Memory
  <2>3. row.parent = Null \/ pc'[r] = "walk"
    BY <1>6 DEF LoadParent, Climb, Goto, TypeInv, FoldersTypeOK
  <2>4. P \in Requests => pc'[P] \in {"refresh", "done"}
    BY <1>2, <1>4, <2>1
  <2>5. PICK C \in SUBSET FolderIds : C = {P}
    BY <1>2
  <2>6. Above(r, C)'
    BY <1>2, <1>5, <2>1, <2>2, <2>3, <2>4, <2>5 DEF ParentOf
  <2> QED BY <2>6
<1>7. CASE LoadAncestor(r)
  <2> DEFINE up == seen[r].up
             next == IF up = P THEN seen[r].parent.parent ELSE folders[up].parent
  <2>1. pc[r] = "walk" /\ up \in FolderIds
    BY <1>7 DEF LoadAncestor, At, TypeInv, StageOfCall
  <2>2. Visible(up, call[r].user) /\ up # call[r].target
    BY <1>2, <1>7 DEF LoadAncestor, Itself
  <2>3. seen'[r].up = next
    BY <1>7 DEF LoadAncestor, KeepUp, TypeInv, FoldersTypeOK, Memory
  <2>4. next = Null \/ pc'[r] = "walk"
    BY <1>7 DEF LoadAncestor, Climb, Goto, TypeInv, FoldersTypeOK
  <2>5. Moving(r)
    BY <1>2, <2>1 DEF Moving
  <2>6. PICK C \in SUBSET FolderIds : Above(r, C)
    BY <2>5 DEF ChainKept
  <2> PICK D \in SUBSET FolderIds : D = C \cup {up}
    BY <2>1
  <2>7. P \in D /\ call[r].target \notin D
    BY <2>1, <2>2, <2>6 DEF Above
  <2>8. ASSUME NEW f \in D, f \in Requests PROVE pc'[f] \in {"refresh", "done"}
    <3>1. CASE f = up
      BY <1>4, <2>1, <2>2, <2>8, <3>1
    <3>2. CASE f \in C
      <4>1. pc[f] \in {"refresh", "done"}
        BY <2>6, <2>8, <3>2 DEF Above
      <4> QED BY <1>3, <2>1, <2>8, <4>1
    <3> QED BY <3>1, <3>2
  <2>9. ASSUME NEW f \in D, Exists(f)
        PROVE  \/ ParentOf(f) \in D \cup {Null}
               \/ pc'[r] = "walk" /\ ParentOf(f) = seen'[r].up
    <3>1. CASE f \in C
      BY <2>6, <2>9, <3>1 DEF Above
    <3>2. CASE f \notin C
      <4>1. f = up /\ up # P
        BY <2>6, <3>2 DEF Above
      <4>2. ParentOf(f) = next
        BY <4>1 DEF ParentOf
      <4> HIDE DEF next
      <4> QED BY <2>3, <2>4, <4>2
    <3> QED BY <3>1, <3>2
  <2>10. Above(r, D)'
    BY <1>5, <2>7, <2>8, <2>9
  <2> QED BY <2>10
<1> QED BY <1>6, <1>7, WalkMoves

LEMMA ChainStep ==
    ASSUME OwnerInv, FoldersTypeOK', ChainKept, MovesApart, NEW r \in Requests, Moved(r)
    PROVE  ChainKept'
<1> SUFFICES ASSUME NEW q \in Requests, Moving(q)'
             PROVE  \E C \in SUBSET FolderIds : Above(q, C)'
  BY DEF ChainKept
<1>1. CASE q = r
  BY <1>1, AboveGrows
<1>2. CASE q # r
  <2>1. pc'[q] = pc[q] /\ call'[q] = call[q] /\ seen'[q] = seen[q]
    BY <1>2, OneMoves DEF OwnerInv
  <2>2. Moving(q)
    BY <2>1 DEF Moving, Moves
  <2>3. PICK C \in SUBSET FolderIds : Above(q, C)
    BY <2>2 DEF ChainKept
  <2>4. Above(q, C)'
    BY <1>2, <2>2, <2>3, AboveStays
  <2> QED BY <2>4
<1> QED BY <1>1, <1>2

(* The folders there are at first are a forest.                            *)
InitiallyAcyclic ==
    \A S \in SUBSET Seeds : S # {} => \E f \in S : InitialFolders[f].parent \notin S

LEMMA ForestInit == ASSUME InitiallyAcyclic PROVE Init => ChainKept /\ Acyclic
<1> SUFFICES ASSUME Init PROVE ChainKept /\ Acyclic
  OBVIOUS
<1>1. ChainKept
  BY DEF Init, SessionsInit, ChainKept, Moving
<1>2. \A f \in FolderIds : Exists(f) => f \in Seeds /\ ParentOf(f) = InitialFolders[f].parent
  BY DEF Init, Exists, ParentOf
<1>3. Acyclic
  BY <1>2 DEF Acyclic, InitiallyAcyclic
<1> QED BY <1>1, <1>3

LEMMA ForestStep ==
    OwnerInv /\ OwnerInv' /\ MovesApart /\ ChainKept /\ Acyclic /\ [Next]_vars
        => (ChainKept /\ Acyclic)'
<1> SUFFICES ASSUME OwnerInv, OwnerInv', MovesApart, ChainKept, Acyclic, [Next]_vars
             PROVE  (ChainKept /\ Acyclic)'
  OBVIOUS
<1>1. CASE UNCHANGED vars
  BY <1>1 DEF vars, ChainKept, Moving, Moves, Above, Acyclic, Exists, ParentOf
<1>2. ASSUME NEW r \in Requests, Moved(r) PROVE (ChainKept /\ Acyclic)'
  <2>1. FoldersTypeOK'
    BY DEF OwnerInv, TypeInv
  <2> QED BY <1>2, <2>1, ChainStep, AcyclicStep
<1> QED BY <1>1, <1>2 DEF Next, Moved

(* The folders stay a forest in every behaviour in which no two moves are  *)
(* between their validation and their write at once: whatever is created,  *)
(* renamed, moved to the top or deleted meanwhile cannot make a cycle.     *)
THEOREM CycleNeedsTwoMoves ==
    ASSUME InitiallyAcyclic
    PROVE  Spec /\ []MovesApart => []Acyclic
<1>1. Init => ChainKept /\ Acyclic
  BY ForestInit
<1> QED BY OwnerInit, OwnerStep, <1>1, ForestStep, PTL DEF Spec

-----------------------------------------------------------------------------
(* Instances in which the writes stay apart: one request may move folders, *)
(* or the pool has one connection, which a request keeps to its commit.    *)
MayMove(r) == \E c \in Workload[r] : c.op = "update" /\ c.parent \in FolderIds

OneMover == \A q, r \in Requests : MayMove(q) /\ MayMove(r) => q = r

(* A request is one of those it may be.                                    *)
CalledFor == \A r \in Requests : pc[r] # "idle" => call[r] \in Workload[r]

LEMMA CalledInit == Init => CalledFor
  BY DEF Init, SessionsInit, CalledFor

LEMMA CalledStep == TypeInv /\ CalledFor /\ [Next]_vars => CalledFor'
<1> SUFFICES ASSUME TypeInv, CalledFor, [Next]_vars PROVE CalledFor'
  OBVIOUS
<1>1. CASE UNCHANGED vars
  BY <1>1 DEF vars, CalledFor
<1>2. ASSUME NEW r \in Requests, Moved(r) PROVE CalledFor'
  <2>1. \A q \in Requests \ {r} : pc'[q] = pc[q] /\ call'[q] = call[q]
    BY <1>2, OneMoves
  <2>2. CASE pc[r] # "idle"
    BY <1>2, <2>1, <2>2, OneMoves DEF CalledFor
  <2>3. CASE pc[r] = "idle"
    <3>1. Arrive(r) \/ RefusePayload(r)
      BY <1>2, <2>3 DEF Moved, Step, TargetNotFound, LoadTarget, CheckName,
         NameAmbiguous, NameTaken, NameFree, CheckParent, ParentNotFound,
         ParentIsItself, LoadParent, AncestorIsItself, AncestorNotFound,
         LoadAncestor, WriteRow, RejectWrite, InsertFolder, UpdateFolder,
         RefreshFolder, DeleteRows, ReadChildren, TreeRead, DropCircular,
         DropTree, At
    <3>2. call'[r] \in Workload[r]
      BY <3>1 DEF Arrive, Enter, RefusePayload, TypeInv, FoldersTypeOK
    <3> QED BY <2>1, <3>2 DEF CalledFor
  <2> QED BY <2>2, <2>3
<1> QED BY <1>1, <1>2 DEF Next, Moved

LEMMA OneMoverApart == ASSUME OneMover, CalledFor PROVE MovesApart
<1>1. \A r \in Requests : Moving(r) => MayMove(r)
  BY DEF Moving, MayMove, CalledFor
<1> QED BY <1>1 DEF OneMover, MovesApart

(* The requests that hold a connection: never more than the pool has.      *)
Holders == {r \in Requests : pc[r] \in Holding}

PoolKept == IsFiniteSet(Holders) /\ Cardinality(Holders) =< PoolLimit

LEMMA PoolInit == Init => PoolKept
<1> SUFFICES ASSUME Init PROVE PoolKept
  OBVIOUS
<1>1. Holders = {}
  BY DEF Init, SessionsInit, Holders, Holding
<1>2. IsFiniteSet(Holders) /\ Cardinality(Holders) = 0
  BY <1>1, FS_EmptySet
<1> QED BY <1>2, PoolAssumption DEF PoolKept

(* A connection is taken only when one is free.                            *)
LEMMA PoolStep == TypeInv /\ PoolKept /\ [Next]_vars => PoolKept'
<1> SUFFICES ASSUME TypeInv, PoolKept, [Next]_vars PROVE PoolKept'
  OBVIOUS
<1>1. CASE UNCHANGED vars
  BY <1>1 DEF vars, PoolKept, Holders
<1>2. ASSUME NEW r \in Requests, Moved(r) PROVE PoolKept'
  <2>1. pc'[r] \in Holding => pc[r] \in Holding \/ ConnectionFree(Holding)
    <3> USE DEF At, Holding, Goto, Close, Respond, TypeInv, FoldersTypeOK
    <3>1. CASE Arrive(r) \/ RefusePayload(r)
      BY <3>1 DEF Arrive, RefusePayload
    <3>2. CASE TargetNotFound(r) \/ LoadTarget(r) \/ CheckName(r)
      BY <3>2 DEF TargetNotFound, LoadTarget, CheckName, NameAmbiguous, NameTaken,
         NameFree
    <3>3. CASE CheckParent(r)
      BY <3>3 DEF CheckParent, ParentNotFound, ParentIsItself, LoadParent,
         AncestorIsItself, AncestorNotFound, LoadAncestor, Climb
    <3>4. CASE WriteRow(r)
      BY <3>4 DEF WriteRow, RejectWrite, InsertFolder, UpdateFolder, RefreshFolder
    <3>5. CASE DeleteRows(r)
      BY <3>5 DEF DeleteRows, ReadChildren, TreeRead, DropCircular, DropTree
    <3> QED BY <1>2, <3>1, <3>2, <3>3, <3>4, <3>5 DEF Moved, Step
  <2>2. \A q \in Requests \ {r} : pc'[q] = pc[q]
    BY <1>2, OneMoves
  <2>3. Holders' \subseteq Holders \cup {r}
    BY <2>2 DEF Holders
  <2>4. Cardinality(Holders) < PoolLimit \/ Holders' \subseteq Holders
    BY <2>1, <2>2 DEF Holders, ConnectionFree
  <2>5. IsFiniteSet(Holders') /\ Cardinality(Holders') =< PoolLimit
    BY <2>3, <2>4, PoolAssumption, LimitKept DEF PoolKept
  <2> QED BY <2>5 DEF PoolKept
<1> QED BY <1>1, <1>2 DEF Next, Moved

LEMMA OneHolder ==
    ASSUME PoolLimit = 1, PoolKept, NEW q \in Holders, NEW r \in Holders
    PROVE  q = r
  BY AtMostOne DEF PoolKept

LEMMA OneConnectionApart ==
    ASSUME PoolLimit = 1, TypeInv, PoolKept
    PROVE  MovesApart /\ WritesApart /\ DeletesApart
<1>1. \A r \in Requests :
        Moving(r) \/ Writing(r) \/ pc[r] \in {"write", "expand", "drop"} => r \in Holders
  BY DEF Moving, Writing, Holders, Holding
<1>2. MovesApart /\ WritesApart
  BY <1>1, OneHolder DEF MovesApart, WritesApart
<1>3. DeletesApart
  BY <1>1, OneHolder DEF DeletesApart
<1> QED BY <1>2, <1>3

(* The forest stays one in every instance in which one request moves       *)
(* folders, whatever the others create, rename and delete meanwhile.       *)
THEOREM OneMoverKeepsForest ==
    ASSUME InitiallyAcyclic, OneMover
    PROVE  Spec => []Acyclic
<1>1. CalledFor => MovesApart
  BY OneMoverApart
<1>2. Spec => []CalledFor
  BY CalledInit, CalledStep, TypeInit, TypeStep, PTL DEF Spec
<1> QED BY <1>1, <1>2, CycleNeedsTwoMoves, PTL

(* With one connection a request keeps it from its arrival to its commit:  *)
(* the checks of validate_parent are then enough to keep the forest one.   *)
THEOREM SerialKeepsForest ==
    ASSUME InitiallyAcyclic, PoolLimit = 1
    PROVE  Spec => []Acyclic
<1>1. TypeInv /\ PoolKept => MovesApart
  BY OneConnectionApart
<1>2. Spec => [](TypeInv /\ PoolKept)
  BY PoolInit, PoolStep, TypeInit, TypeStep, PTL DEF Spec
<1> QED BY <1>1, <1>2, CycleNeedsTwoMoves, PTL

-----------------------------------------------------------------------------
(* How a request comes to its checks and its write: it has loaded its      *)
(* folder, or it keeps what it has loaded; nothing is written on the way.  *)
LEMMA CheckMoves ==
    ASSUME TypeInv, NEW r \in Requests, Moved(r), Writing(r)'
    PROVE  /\ folders' = folders
           /\ \/ call'[r].op = "create"
              \/ call'[r] = call[r] /\ seen'[r].target = folders[call[r].target]
              \/ call'[r] = call[r] /\ seen'[r].target = seen[r].target /\ Writing(r)
           /\ NameSettled(r)' =>
                 /\ call'[r] = call[r]
                 /\ seen'[r].target = seen[r].target
                 /\ NameSettled(r) \/ Namesakes(r) \subseteq Itself(r)
<1> USE DEF TypeInv, FoldersTypeOK, At, Goto, Close, Respond, Writing
<1>1. CASE Arrive(r)
  <2>1. PICK c \in Calls : Enter(r, c, FirstStage[c.op])
    BY <1>1, FoldersAssumption DEF Arrive
  <2>2. c.op = "create" /\ call'[r] = c /\ pc'[r] = "name"
    BY <2>1, CallKinds DEF Enter, FirstStage
  <2> QED BY <1>1, <2>2 DEF Arrive, NameSettled
<1>2. CASE LoadTarget(r)
  <2>1. pc[r] = "load" /\ call[r] \in UpdateCall \cup DeleteCall
    BY <1>2 DEF LoadTarget, StageOfCall
  <2>2. call[r].target \in FolderIds
    BY <2>1 DEF UpdateCall, DeleteCall
  <2>3. seen'[r].target = folders[call[r].target] /\ call' = call /\ folders' = folders
    BY <1>2, <2>2 DEF LoadTarget, KeepTarget, Memory
  <2>4. ~NameSettled(r)'
    BY <1>2, <2>1, <2>3 DEF LoadTarget, NameSettled, Renames, Moves, UpdateCall,
       DeleteCall
  <2> QED BY <2>3, <2>4
<1>3. CASE NameFree(r)
  BY <1>3 DEF NameFree
<1>4. CASE CheckParent(r)
  <2>1. pc[r] \in {"parent", "walk"} /\ call' = call /\ folders' = folders
    BY <1>4 DEF CheckParent, ParentNotFound, ParentIsItself, LoadParent,
       AncestorIsItself, AncestorNotFound, LoadAncestor, Climb
  <2>2. LoadParent(r) \/ LoadAncestor(r)
    BY <1>4 DEF CheckParent, ParentNotFound, ParentIsItself, AncestorIsItself,
       AncestorNotFound
  <2>3. \A m \in Memory : \A row, up :
          KeepParent(m, row).target = m.target /\ KeepUp(m, up).target = m.target
    BY DEF Memory, KeepParent, KeepUp
  <2>4. seen'[r].target = seen[r].target
    BY <2>2, <2>3 DEF LoadParent, LoadAncestor
  <2> QED BY <2>1, <2>4 DEF NameSettled
<1>5. CASE RefusePayload(r) \/ TargetNotFound(r) \/ NameAmbiguous(r) \/ NameTaken(r)
  BY <1>5 DEF RefusePayload, TargetNotFound, NameAmbiguous, NameTaken
<1>6. CASE WriteRow(r)
  BY <1>6 DEF WriteRow, RejectWrite, InsertFolder, UpdateFolder, RefreshFolder
<1>7. CASE DeleteRows(r)
  BY <1>7 DEF DeleteRows, ReadChildren, TreeRead, DropCircular, DropTree
<1> QED BY <1>1, <1>2, <1>3, <1>4, <1>5, <1>6, <1>7 DEF Moved, Step, CheckName

(* While a user's write is under way, the rows of that user change only by *)
(* deletes: what exists after a step of another request was there before.  *)
LEMMA RowsStay ==
    ASSUME OwnerInv, FoldersTypeOK', WritesApart,
           NEW q \in Requests, Writing(q), NEW r \in Requests, r # q, Moved(r),
           NEW f \in FolderIds, Exists(f)', folders'[f].owner = call[q].user
    PROVE  Exists(f) /\ folders'[f] = folders[f]
<1> USE DEF OwnerInv
<1>1. CASE ~UpdateFolder(r)
  <2>1. ~(InsertFolder(r) /\ f = r)
    <3>1. InsertFolder(r) => Writing(r) /\ folders'[r].owner = call[r].user
      BY InsertEffect DEF Writing
    <3> QED BY <3>1 DEF WritesApart
  <2> QED BY <1>1, <2>1, NothingMoves
<1>2. CASE UpdateFolder(r)
  <2> DEFINE t == call[r].target
  <2>1. UpdateEffect(r)
    BY <1>2, UpdateEffects
  <2>2. /\ \A g \in FolderIds \ {t} : folders'[g] = folders[g]
        /\ folders'[t] = NoRow <=> folders[t] = NoRow
        /\ folders'[t].owner = folders[t].owner
    BY <2>1 DEF UpdateEffect
  <2>3. pc[r] = "write" /\ call[r].op = "update"
    BY <1>2 DEF UpdateFolder, At
  <2>4. Exists(t) => folders[t].owner = call[r].user
    BY <2>3 DEF TargetChecked, Checked
  <2>5. call[r].user # call[q].user
    BY <2>3 DEF WritesApart, Writing
  <2>6. f # t
    BY <2>2, <2>4, <2>5 DEF Exists
  <2> QED BY <2>2, <2>6 DEF Exists
<1> QED BY <1>1, <1>2

LEMMA TargetStep ==
    ASSUME OwnerInv, TypeInv', WritesApart, TargetKept, NEW r \in Requests, Moved(r)
    PROVE  TargetKept'
<1> SUFFICES ASSUME NEW q \in Requests, Writing(q)', call'[q].op = "update",
                    Exists(call[q].target)'
             PROVE  folders'[call'[q].target] = seen'[q].target
  BY DEF TargetKept
<1>1. CASE q = r
  <2>1. /\ folders' = folders
        /\ call'[r] = call[r]
        /\ \/ seen'[r].target = folders[call[r].target]
           \/ seen'[r].target = seen[r].target /\ Writing(r)
    BY <1>1, CheckMoves DEF OwnerInv
  <2> QED BY <1>1, <2>1 DEF TargetKept, Exists
<1>2. CASE q # r
  <2>1. pc'[q] = pc[q] /\ call'[q] = call[q] /\ seen'[q] = seen[q]
    BY <1>2, OneMoves DEF OwnerInv
  <2> DEFINE t == call[q].target
  <2>2. Writing(q) /\ folders'[t] # NoRow
    BY <2>1 DEF Writing, Exists
  <2>3. Checked(t, call[q].user)
    BY <2>1, <2>2 DEF OwnerInv, TargetChecked, Writing
  <2>4. StaysChecked(t, call[q].user)
    BY <2>3, CheckedAfter DEF OwnerInv
  <2>5. Exists(t) /\ folders'[t] = folders[t]
    BY <1>2, <2>2, <2>4, RowsStay DEF StaysChecked, Exists, TypeInv
  <2> QED BY <2>1, <2>2, <2>5 DEF TargetKept
<1> QED BY <1>1, <1>2

(* The folders that have the name and the place which a request asked for. *)
LEMMA NameStep ==
    ASSUME OwnerInv, FoldersTypeOK', WritesApart, NameKept, NEW r \in Requests, Moved(r)
    PROVE  NameKept'
<1> SUFFICES ASSUME NEW q \in Requests, NameSettled(q)', NEW f \in FolderIds,
                    Exists(f)', folders'[f].owner = call'[q].user,
                    folders'[f].name = NewName(q)', folders'[f].parent = NewParent(q)'
             PROVE  f \in Itself(q)'
  BY DEF NameKept, Namesakes, Visible
<1>1. CASE q = r
  <2>1. Writing(r)'
    BY <1>1 DEF NameSettled, Writing
  <2>2. /\ folders' = folders /\ call'[r] = call[r]
        /\ seen'[r].target = seen[r].target
        /\ NameSettled(r) \/ Namesakes(r) \subseteq Itself(r)
    BY <1>1, <2>1, CheckMoves DEF OwnerInv
  <2>3. Namesakes(r) \subseteq Itself(r)
    BY <2>2 DEF NameKept
  <2>4. NewName(r)' = NewName(r) /\ NewParent(r)' = NewParent(r) /\ Itself(r)' = Itself(r)
    BY <2>2 DEF NewName, NewParent, Itself
  <2>5. f \in Namesakes(r)
    BY <1>1, <2>2, <2>4 DEF Namesakes, Visible, Exists
  <2> QED BY <1>1, <2>3, <2>4, <2>5
<1>2. CASE q # r
  <2>1. pc'[q] = pc[q] /\ call'[q] = call[q] /\ seen'[q] = seen[q]
    BY <1>2, OneMoves DEF OwnerInv
  <2>2. NewName(q)' = NewName(q) /\ NewParent(q)' = NewParent(q) /\ Itself(q)' = Itself(q)
    BY <2>1 DEF NewName, NewParent, Itself
  <2>3. NameSettled(q) /\ Writing(q)
    BY <2>1 DEF NameSettled, Writing, Renames, Moves
  <2>4. Exists(f) /\ folders'[f] = folders[f]
    BY <1>2, <2>1, <2>3, RowsStay
  <2>5. f \in Namesakes(q)
    BY <2>1, <2>2, <2>4 DEF Namesakes, Visible
  <2> QED BY <2>2, <2>3, <2>5 DEF NameKept
<1> QED BY <1>1, <1>2

(* The row a write gives has the name and the place that were checked.     *)
LEMMA WrittenAsChecked ==
    ASSUME OwnerInv, FoldersTypeOK', TargetKept, NEW r \in Requests,
           InsertFolder(r) \/ (UpdateFolder(r) /\ (Renames(r) \/ Moves(r)))
    PROVE  LET w == Written(r)
           IN  /\ NameSettled(r)
               /\ w \in FolderIds
               /\ \A f \in FolderIds \ {w} : folders'[f] = folders[f]
               /\ folders'[w].owner = call[r].user
               /\ folders'[w].name = NewName(r)
               /\ folders'[w].parent = NewParent(r)
               /\ Itself(r) \subseteq {w}
<1> USE DEF OwnerInv
<1>1. CASE InsertFolder(r)
  <2>1. call[r].name # Unset /\ call[r].parent # Unset /\ call[r].op = "create"
    BY <1>1, InsertEffect, FoldersAssumption DEF CreateCall
  <2>2. Written(r) = r /\ Itself(r) = {}
    BY <2>1 DEF Written, Itself
  <2>3. NewName(r) = call[r].name /\ NewParent(r) = call[r].parent
    BY <2>1 DEF NewName, NewParent
  <2> QED BY <1>1, <2>1, <2>2, <2>3, InsertEffect DEF NameSettled
<1>2. CASE UpdateFolder(r) /\ (Renames(r) \/ Moves(r))
  <2> DEFINE t == call[r].target
  <2>1. UpdateEffect(r)
    BY <1>2, UpdateEffects
  <2>2. pc[r] = "write" /\ call[r].op = "update"
    BY <1>2 DEF UpdateFolder, At
  <2>3. t \in FolderIds /\ Exists(t)
    BY <1>2, <2>1 DEF UpdateEffect
  <2>4. folders[t] = seen[r].target /\ folders[t].owner = call[r].user
    BY <2>2, <2>3 DEF TargetKept, Writing, TargetChecked, Checked
  <2>5. folders'[t].name = NewName(r) /\ folders'[t].parent = NewParent(r)
    BY <2>1, <2>4 DEF UpdateEffect, NewName, NewParent, Renames, Moves
  <2>6. Written(r) = t /\ Itself(r) = {t}
    BY <2>2 DEF Written, Itself
  <2> QED BY <1>2, <2>1, <2>2, <2>3, <2>4, <2>5, <2>6 DEF UpdateEffect, NameSettled
<1> QED BY <1>1, <1>2

LEMMA UniqueStep ==
    ASSUME OwnerInv, FoldersTypeOK', TargetKept, NameKept, UniqueSiblings,
           NEW r \in Requests, Moved(r)
    PROVE  UniqueSiblings'
<1> SUFFICES ASSUME NEW f \in FolderIds, NEW g \in FolderIds, Exists(f)', Exists(g)',
                    folders'[f] = folders'[g], f # g
             PROVE  FALSE
  BY DEF UniqueSiblings
<1> USE DEF OwnerInv
<1>1. ASSUME Exists(f), Exists(g), folders'[f] = folders[f], folders'[g] = folders[g]
      PROVE  FALSE
  BY <1>1 DEF UniqueSiblings
<1>2. CASE ~InsertFolder(r) /\ ~UpdateFolder(r)
  BY <1>1, <1>2, NothingMoves
<1>3. CASE UpdateFolder(r) /\ ~Renames(r) /\ ~Moves(r)
  <2>1. UpdateEffect(r)
    BY <1>3, UpdateEffects
  <2>2. \A h \in FolderIds : folders'[h] = folders[h]
    BY <1>3, <2>1 DEF UpdateEffect
  <2> QED BY <1>1, <2>2 DEF Exists
<1>4. CASE InsertFolder(r) \/ (UpdateFolder(r) /\ (Renames(r) \/ Moves(r)))
  <2> DEFINE w == Written(r)
  <2>1. /\ NameSettled(r)
        /\ \A h \in FolderIds \ {w} : folders'[h] = folders[h]
        /\ folders'[w].owner = call[r].user
        /\ folders'[w].name = NewName(r)
        /\ folders'[w].parent = NewParent(r)
        /\ Itself(r) \subseteq {w}
    BY <1>4, WrittenAsChecked
  <2> HIDE DEF w
  <2>2. ASSUME NEW h \in FolderIds, h # w, Exists(h)', folders'[h] = folders'[w]
        PROVE  FALSE
    <3>1. folders'[h] = folders[h] /\ Exists(h)
      BY <2>1, <2>2 DEF Exists
    <3>2. h \in Namesakes(r)
      BY <2>1, <2>2, <3>1 DEF Namesakes, Visible
    <3> QED BY <2>1, <2>2, <3>2 DEF NameKept
  <2>3. CASE f = w \/ g = w
    BY <2>2, <2>3
  <2>4. CASE f # w /\ g # w
    BY <1>1, <2>1, <2>4 DEF Exists
  <2> QED BY <2>3, <2>4
<1> QED BY <1>2, <1>3, <1>4

(* ... and siblings have different names.                                  *)
InitiallyUnique ==
    \A f, g \in Seeds : InitialFolders[f] = InitialFolders[g] => f = g

NamesInv == TargetKept /\ NameKept /\ UniqueSiblings

LEMMA NamesInit == ASSUME InitiallyUnique PROVE Init => NamesInv
  BY DEF InitiallyUnique, Init, SessionsInit, NamesInv, TargetKept, NameKept,
     UniqueSiblings, Writing, NameSettled, Exists

LEMMA NamesStep ==
    OwnerInv /\ OwnerInv' /\ WritesApart /\ NamesInv /\ [Next]_vars => NamesInv'
<1> SUFFICES ASSUME OwnerInv, OwnerInv', WritesApart, NamesInv, [Next]_vars
             PROVE  NamesInv'
  OBVIOUS
<1> USE DEF NamesInv
<1>1. CASE UNCHANGED vars
  BY <1>1 DEF vars, TargetKept, NameKept, UniqueSiblings, Writing, NameSettled,
     Renames, Moves, Namesakes, Itself, NewName, NewParent, Visible, Exists
<1>2. ASSUME NEW r \in Requests, Moved(r) PROVE NamesInv'
  <2>1. TypeInv' /\ FoldersTypeOK'
    BY DEF OwnerInv, TypeInv
  <2> QED BY <1>2, <2>1, TargetStep, NameStep, UniqueStep
<1> QED BY <1>1, <1>2 DEF Next, Moved

(* One owner has no two folders of one name in one place, in every         *)
(* behaviour in which no user has two creates or updates between a check   *)
(* and its write at once; deletes, and other users, may interleave freely. *)
THEOREM DuplicateNeedsTwoWrites ==
    ASSUME InitiallyUnique
    PROVE  Spec => UniqueUnlessRaced
<1>1. Init => NamesInv
  BY NamesInit
<1>2. NamesInv => UniqueSiblings
  BY DEF NamesInv
<1> QED BY OwnerInit, OwnerStep, <1>1, <1>2, NamesStep, PTL DEF Spec, UniqueUnlessRaced

(* With one connection the look-up of the name before the write is enough: *)
(* one owner has no two folders of one name in one place.                  *)
THEOREM SerialKeepsNamesUnique ==
    ASSUME InitiallyUnique, PoolLimit = 1
    PROVE  Spec => []UniqueSiblings
<1>1. TypeInv /\ PoolKept => WritesApart
  BY OneConnectionApart
<1>2. Spec => [](TypeInv /\ PoolKept)
  BY PoolInit, PoolStep, TypeInit, TypeStep, PTL DEF Spec
<1> QED BY <1>1, <1>2, DuplicateNeedsTwoWrites, PTL DEF UniqueUnlessRaced

-----------------------------------------------------------------------------
(* What a cascade takes: what it is given and all that is below.           *)
LEMMA CascadeTakes ==
    ASSUME NEW S \in SUBSET FolderIds
    PROVE  /\ S \subseteq Cascade(S) /\ Cascade(S) \subseteq FolderIds
           /\ \A f \in FolderIds :
                 Exists(f) /\ ParentOf(f) \in Cascade(S) => f \in Cascade(S)
  BY DEF Cascade, ChildrenOf, ParentOf

(* ... and nothing that a closed set around it leaves out.                 *)
LEMMA CascadeWithin ==
    ASSUME NEW S, NEW T \in SUBSET FolderIds, S \subseteq T,
           \A f \in FolderIds : Exists(f) /\ ParentOf(f) \in T => f \in T
    PROVE  Cascade(S) \subseteq T
  BY DEF Cascade, ChildrenOf, ParentOf

(* While a delete loads its tree, no step gives a folder of its user       *)
(* another parent.                                                         *)
LEMMA ParentsStay ==
    ASSUME OwnerInv, FoldersTypeOK', DeletesApart, NEW r \in Requests, Moved(r),
           NEW q \in Requests, pc[q] \in {"expand", "drop"},
           NEW f \in FolderIds, Exists(f), Exists(f)', folders[f].owner = call[q].user
    PROVE  folders'[f].parent = folders[f].parent
<1> USE DEF OwnerInv
<1>1. CASE ~UpdateFolder(r)
  <2>1. ~(InsertFolder(r) /\ f = r)
    BY InsertEffect
  <2> QED BY <1>1, <2>1, NothingMoves
<1>2. CASE UpdateFolder(r)
  <2>1. UpdateEffect(r)
    BY <1>2, UpdateEffects
  <2>2. pc[r] = "write" /\ call[r].op = "update"
    BY <1>2 DEF UpdateFolder, At
  <2>3. f = call[r].target => ~Moves(r)
    BY <2>2 DEF DeletesApart, TargetChecked, Checked
  <2> QED BY <2>1, <2>3 DEF UpdateEffect
<1> QED BY <1>1, <1>2

(* What is below the folder of a delete stays there as long as it exists:  *)
(* its parents exist as well, and have not been given another parent.      *)
LEMMA TreeStays ==
    ASSUME OwnerInv, OwnerInv', DeletesApart, NEW r \in Requests, Moved(r),
           NEW q \in Requests, pc[q] \in {"expand", "drop"}, call'[q] = call[q],
           NEW f \in Cascade({call[q].target}), Exists(f), Exists(f)'
    PROVE  f \in Cascade({call[q].target})'
<1> DEFINE t == call[q].target
           u == call[q].user
<1>0. FoldersTypeOK /\ FoldersTypeOK' /\ call[q] \in DeleteCall /\ t \in FolderIds
  BY DEF OwnerInv, TypeInv, StageOfCall, DeleteCall
<1> SUFFICES ASSUME NEW T \in SUBSET FolderIds, t \in T,
                    \A g \in FolderIds : Exists(g)' /\ folders'[g].parent \in T => g \in T
             PROVE  f \in T
  BY <1>0 DEF Cascade, ChildrenOf
<1> DEFINE W == {g \in FolderIds : Exists(g) =>
                    /\ folders[g].owner = u
                    /\ folders'[g] # NoRow => g \in T}
<1>1. t \in W
  BY <1>0 DEF OwnerInv, TargetChecked, Checked, DeleteCall
<1>2. ASSUME NEW g \in FolderIds, Exists(g), ParentOf(g) \in W PROVE g \in W
  <2> DEFINE p == ParentOf(g)
  <2>1. p \in FolderIds /\ p # Null
    BY <1>2, FoldersAssumption
  <2>2. Exists(p) /\ folders[p].owner = folders[g].owner
    BY <1>2, <2>1 DEF OwnerInv, ParentSameOwner
  <2>3. folders[g].owner = u
    BY <1>2, <2>2
  <2>4. ASSUME folders'[g] # NoRow PROVE g \in T
    <3>1. folders'[g].parent = p
      BY <1>0, <1>2, <2>3, <2>4, ParentsStay DEF ParentOf, Exists
    <3>2. folders'[p] # NoRow
      BY <2>1, <2>4, <3>1 DEF OwnerInv, ParentSameOwner, ParentOf, Exists
    <3>3. p \in T
      BY <1>2, <2>2, <3>2
    <3> QED BY <2>4, <3>1, <3>3 DEF Exists
  <2> QED BY <2>3, <2>4
<1>3. Cascade({t}) \subseteq W
  <2> HIDE DEF W
  <2>1. W \in SUBSET FolderIds
    BY DEF W
  <2> QED BY <1>1, <1>2, <2>1, CascadeWithin
<1> QED BY <1>3 DEF Exists

LEMMA TreeStep ==
    ASSUME OwnerInv, OwnerInv', DeletesApart, TreeKept, NEW r \in Requests, Moved(r)
    PROVE  TreeKept'
<1> SUFFICES ASSUME NEW q \in Requests, pc'[q] \in {"expand", "drop"},
                    NEW f \in Loaded(q)', Exists(f)'
             PROVE  f \in Cascade({call[q].target})'
  BY DEF TreeKept
<1>0. TypeInv /\ FoldersTypeOK /\ TypeInv'
  BY DEF OwnerInv, TypeInv
<1>1. ASSUME folders' = folders, call'[q] = call[q], f \in Cascade({call[q].target})
      PROVE  f \in Cascade({call[q].target})'
  BY <1>1 DEF Cascade, ChildrenOf, Exists
<1>2. CASE q = r
  <2>1. LoadTarget(r) \/ ReadChildren(r) \/ TreeRead(r)
    BY <1>0, <1>2, StageMoves
  <2>2. folders' = folders /\ call' = call
    BY <2>1 DEF LoadTarget, ReadChildren, TreeRead, Goto
  <2>3. Exists(f)
    BY <2>2 DEF Exists
  <2>4. CASE LoadTarget(r)
    <3>1. pc[r] = "load" /\ seen[r] = NothingSeen /\ call[r].target \in FolderIds
      BY <1>0, <2>4 DEF LoadTarget, At, OwnerInv, SessionsFresh, StageOfCall, TypeInv,
         UpdateCall, DeleteCall
    <3>2. seen'[r].tree = {}
      BY <1>0, <2>4, <3>1 DEF LoadTarget, KeepTarget, NothingSeen, FoldersTypeOK
    <3>3. f = call[r].target
      BY <1>2, <2>2, <3>2 DEF Loaded
    <3> QED BY <1>1, <1>2, <2>2, <3>1, <3>3, CascadeTakes
  <2>5. CASE TreeRead(r)
    <3>1. f \in Loaded(r) /\ pc[r] = "expand"
      BY <1>2, <2>5 DEF TreeRead, Goto, Loaded, At
    <3> QED BY <1>1, <1>2, <2>2, <2>3, <3>1 DEF TreeKept
  <2>6. CASE ReadChildren(r)
    <3>1. pc[r] = "expand" /\ call[r] \in DeleteCall
      BY <1>0, <2>6 DEF ReadChildren, At, TypeInv, StageOfCall
    <3>2. PICK g \in Loaded(r) :
            seen' = [seen EXCEPT ![r] = KeepChildren(seen[r], g, ChildrenOf({g}))]
      BY <2>6 DEF ReadChildren
    <3>3. seen'[r].tree = seen[r].tree \cup ({g} \X ChildrenOf({g}))
      BY <1>0, <3>2 DEF KeepChildren, FoldersTypeOK, Memory
    <3>4. f \in Loaded(r) \cup ChildrenOf({g})
      BY <1>2, <2>2, <3>3 DEF Loaded
    <3>5. CASE f \in Loaded(r)
      BY <1>1, <1>2, <2>2, <2>3, <3>1, <3>5 DEF TreeKept
    <3>6. CASE f \in ChildrenOf({g})
      <4>1. f \in FolderIds /\ ParentOf(f) = g
        BY <3>6 DEF ChildrenOf, ParentOf
      <4>2. g \in FolderIds
        BY <3>1, <3>2 DEF OwnerInv, TreeChecked, Checked
      <4>3. Exists(g)
        BY <1>0, <2>3, <4>1, <4>2, NothingInside DEF OwnerInv
      <4>4. g \in Cascade({call[r].target})
        BY <3>1, <3>2, <4>3 DEF TreeKept
      <4>5. call[r].target \in FolderIds
        BY <3>1 DEF DeleteCall
      <4>6. f \in Cascade({call[r].target})
        BY <2>3, <4>1, <4>4, <4>5, CascadeTakes
      <4> QED BY <1>1, <1>2, <2>2, <4>6
    <3> QED BY <3>4, <3>5, <3>6
  <2> QED BY <2>1, <2>4, <2>5, <2>6
<1>3. CASE q # r
  <2>1. pc'[q] = pc[q] /\ call'[q] = call[q] /\ seen'[q] = seen[q]
    BY <1>0, <1>3, OneMoves
  <2>2. pc[q] \in {"expand", "drop"} /\ f \in Loaded(q)
    BY <2>1 DEF Loaded
  <2>3. f \in FolderIds /\ (f \in Requests => pc[f] \in {"refresh", "done"})
    BY <2>2 DEF OwnerInv, TreeChecked, Checked
  <2>4. Exists(f)
    <3>1. InsertFolder(r) => pc[r] = "write"
      BY DEF InsertFolder, At
    <3>2. ~(f = r /\ InsertFolder(r))
      BY <2>3, <3>1
    <3> QED BY <1>0, <2>3, <3>2, OwnersStay
  <2>5. f \in Cascade({call[q].target})
    BY <2>2, <2>4 DEF TreeKept
  <2> QED BY <2>1, <2>2, <2>4, <2>5, TreeStays
<1> QED BY <1>2, <1>3

AnsweredAtEnd == \A r \in Requests : status[r] # "none" => pc[r] = "done"

(* A step answers its own request only, a delete with 204 if it has        *)
(* deleted its tree.                                                       *)
LEMMA AnswerMoves ==
    ASSUME TypeInv, NEW r \in Requests, Moved(r)
    PROVE  /\ \A q \in Requests \ {r} : status'[q] = status[q]
           /\ status'[r] = status[r] \/ pc'[r] = "done"
           /\ pc[r] = "drop" /\ status'[r] = "204" => status[r] = "204" \/ DropTree(r)
<1> USE DEF TypeInv, FoldersTypeOK, At, Goto, Close, Respond
<1>1. CASE Arrive(r) \/ RefusePayload(r)
  BY <1>1 DEF Arrive, Enter, RefusePayload
<1>2. CASE TargetNotFound(r) \/ LoadTarget(r) \/ CheckName(r)
  BY <1>2 DEF TargetNotFound, LoadTarget, CheckName, NameAmbiguous, NameTaken,
     NameFree
<1>3. CASE CheckParent(r)
  BY <1>3 DEF CheckParent, ParentNotFound, ParentIsItself, LoadParent,
     AncestorIsItself, AncestorNotFound, LoadAncestor, Climb
<1>4. CASE WriteRow(r)
  BY <1>4 DEF WriteRow, RejectWrite, InsertFolder, UpdateFolder, RefreshFolder
<1>5. CASE DeleteRows(r)
  BY <1>5 DEF DeleteRows, ReadChildren, TreeRead, DropCircular, StatusOf, DropTree
<1> QED BY <1>1, <1>2, <1>3, <1>4, <1>5 DEF Moved, Step

LEMMA AnsweredInit == Init => AnsweredAtEnd
  BY DEF Init, SessionsInit, AnsweredAtEnd

LEMMA AnsweredStep == TypeInv /\ AnsweredAtEnd /\ [Next]_vars => AnsweredAtEnd'
<1> SUFFICES ASSUME TypeInv, AnsweredAtEnd, [Next]_vars PROVE AnsweredAtEnd'
  OBVIOUS
<1>1. CASE UNCHANGED vars
  BY <1>1 DEF vars, AnsweredAtEnd
<1>2. ASSUME NEW r \in Requests, Moved(r) PROVE AnsweredAtEnd'
  BY <1>2, OneMoves, AnswerMoves DEF AnsweredAtEnd
<1> QED BY <1>1, <1>2 DEF Next, Moved

(* The delete that is answered 204 in a step has dropped its tree in it.   *)
LEMMA AnsweredByDrop ==
    ASSUME TypeInv, AnsweredAtEnd, NEW q \in Requests, Moved(q),
           NEW r \in Requests, pc[r] = "drop", status'[r] = "204"
    PROVE  DropTree(r)
<1>1. status[r] # "204"
  BY DEF AnsweredAtEnd
<1>2. q = r
  BY <1>1, AnswerMoves
<1> QED BY <1>1, <1>2, AnswerMoves

(* What the delete of a tree removes.                                      *)
LEMMA DropTakes ==
    ASSUME OwnerInv, NEW r \in Requests, DropTree(r)
    PROVE  /\ Loaded(r) \in SUBSET FolderIds /\ call[r].target \in Loaded(r)
           /\ \A f \in FolderIds :
                 folders'[f] = IF f \in Cascade(Loaded(r)) THEN NoRow ELSE folders[f]
           /\ Cascade({call[r].target}) \subseteq Cascade(Loaded(r))
<1>1. Loaded(r) \in SUBSET FolderIds
  BY DEF OwnerInv, TreeChecked, Checked, DropTree, At
<1>2. call[r].target \in Loaded(r)
  BY DEF Loaded
<1>3. \A f \in FolderIds :
        folders'[f] = IF f \in Cascade(Loaded(r)) THEN NoRow ELSE folders[f]
  BY DEF DropTree
<1>4. Cascade({call[r].target}) \subseteq Cascade(Loaded(r))
  <2> HIDE DEF Loaded
  <2>1. {call[r].target} \subseteq Cascade(Loaded(r))
    BY <1>1, <1>2, CascadeTakes
  <2> QED BY <1>1, <2>1, CascadeTakes, CascadeWithin
<1> QED BY <1>1, <1>2, <1>3, <1>4

LEMMA DropExact ==
    ASSUME OwnerInv, TreeKept, NEW r \in Requests, DropTree(r)
    PROVE  {f \in FolderIds : Exists(f) /\ folders'[f] = NoRow}
              = {f \in Cascade({call[r].target}) : Exists(f)}
<1> DEFINE t == call[r].target
           W == {f \in FolderIds : Exists(f) => f \in Cascade({t})}
<1>1. pc[r] = "drop" /\ t \in FolderIds
  BY DropTakes DEF DropTree, At
<1>2. Loaded(r) \subseteq W
  BY <1>1, DropTakes DEF TreeKept
<1>3. ASSUME NEW g \in FolderIds, Exists(g), ParentOf(g) \in W PROVE g \in W
  <2>1. Exists(ParentOf(g))
    BY <1>3, FoldersAssumption DEF OwnerInv, ParentSameOwner
  <2> QED BY <1>1, <1>3, <2>1, CascadeTakes
<1>4. Cascade(Loaded(r)) \subseteq W
  <2> HIDE DEF W
  <2>1. W \in SUBSET FolderIds
    BY DEF W
  <2> QED BY <1>2, <1>3, <2>1, CascadeWithin
<1>5. Cascade({t}) \subseteq FolderIds
  BY <1>1, CascadeTakes
<1> QED BY <1>4, <1>5, DropTakes DEF Exists

LEMMA TreeKeptStep ==
    OwnerInv /\ OwnerInv' /\ DeletesApart /\ TreeKept /\ [Next]_vars => TreeKept'
<1> SUFFICES ASSUME OwnerInv, OwnerInv', DeletesApart, TreeKept, [Next]_vars
             PROVE  TreeKept'
  OBVIOUS
<1>1. CASE UNCHANGED vars
  BY <1>1 DEF vars, TreeKept, Loaded, Cascade, ChildrenOf, Exists
<1>2. ASSUME NEW r \in Requests, Moved(r) PROVE TreeKept'
  BY <1>2, TreeStep
<1> QED BY <1>1, <1>2 DEF Next, Moved

(* A delete that is answered 204 has removed its folder and everything     *)
(* that is below it at that time, whatever else runs: folders created or   *)
(* moved there after the tree was loaded go with the foreign key.          *)
THEOREM DeleteLeavesNothingBelow == Spec => DeleteLeavesNothing
<1> DEFINE Removed ==
      \A r \in Requests :
          At(r, "drop") /\ status'[r] = "204" =>
              \A f \in Cascade({call[r].target}) : folders'[f] = NoRow
<1>1. OwnerInv /\ AnsweredAtEnd /\ [Next]_vars => [Removed]_vars
  <2> SUFFICES ASSUME OwnerInv, AnsweredAtEnd, Next, NEW r \in Requests,
                      pc[r] = "drop", status'[r] = "204"
               PROVE  \A f \in Cascade({call[r].target}) : folders'[f] = NoRow
    BY DEF At
  <2>1. DropTree(r)
    BY AnsweredByDrop DEF Next, Moved, OwnerInv
  <2>2. \A f \in Cascade({call[r].target}) : f \in FolderIds
    BY DEF Cascade
  <2> QED BY <2>1, <2>2, DropTakes
<1>2. OwnerInv => TypeInv
  BY DEF OwnerInv
<1> QED BY OwnerInit, OwnerStep, AnsweredInit, AnsweredStep, <1>1, <1>2,
        PTL DEF Spec, DeleteLeavesNothing

(* It removes nothing else in a behaviour in which the user moves no       *)
(* folder while the delete loads its tree.                                 *)
THEOREM DeleteTakesItsSubtree == Spec /\ []DeletesApart => DeletesItsSubtree
<1> DEFINE Exact ==
      \A r \in Requests :
          At(r, "drop") /\ status'[r] = "204" =>
              {f \in FolderIds : Exists(f) /\ folders'[f] = NoRow}
                  = {f \in Cascade({call[r].target}) : Exists(f)}
<1>1. OwnerInv /\ AnsweredAtEnd /\ TreeKept /\ [Next]_vars => [Exact]_vars
  <2> SUFFICES ASSUME OwnerInv, AnsweredAtEnd, TreeKept, Next, NEW r \in Requests,
                      pc[r] = "drop", status'[r] = "204"
               PROVE  {f \in FolderIds : Exists(f) /\ folders'[f] = NoRow}
                         = {f \in Cascade({call[r].target}) : Exists(f)}
    BY DEF At
  <2>1. DropTree(r)
    BY AnsweredByDrop DEF Next, Moved, OwnerInv
  <2> QED BY <2>1, DropExact
<1>2. OwnerInv => TypeInv
  BY DEF OwnerInv
<1>3. Init => TreeKept
  BY DEF Init, SessionsInit, TreeKept
<1> QED BY OwnerInit, OwnerStep, AnsweredInit, AnsweredStep, TreeKeptStep, <1>1, <1>2,
        <1>3, PTL DEF Spec, DeletesItsSubtree

(* With one connection a delete that is answered has removed its folder    *)
(* and what is below it, and nothing else.                                 *)
THEOREM SerialDeletesItsSubtree ==
    ASSUME PoolLimit = 1
    PROVE  Spec => DeletesItsSubtree
<1>1. TypeInv /\ PoolKept => DeletesApart
  BY OneConnectionApart
<1>2. Spec => [](TypeInv /\ PoolKept)
  BY PoolInit, PoolStep, TypeInit, TypeStep, PTL DEF Spec
<1> QED BY <1>1, <1>2, DeleteTakesItsSubtree, PTL
=============================================================================
