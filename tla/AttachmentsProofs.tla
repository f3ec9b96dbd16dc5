-------------------------- MODULE AttachmentsProofs --------------------------
(* Theorems of Attachments, for every set of requests, every workload and  *)
(* every combination of failures.                                          *)
EXTENDS Attachments, TLAPS

(* A call is made before any stage but the first, and it stays.            *)
CallsMade == \A r \in Requests : pc[r] # "idle" => call[r] \in Calls

TypeInv == TypeOK /\ CallsMade

LEMMA CallOps ==
    ASSUME NEW c \in Calls
    PROVE  /\ c.op \in {"upload", "delete", "download", "delete_note"}
           /\ NextStage[c.op] \in {"file", "row", "drop_note"}
  BY DEF Calls, UploadCall, AttachmentCall, NoteCall, NextStage

(* Every write of a stage keeps the stores within their types.             *)
LEMMA WriteTypes ==
    ASSUME TypeOK, NEW r \in Requests, Write(r) \/ UNCHANGED stores
    PROVE  /\ notes' \subseteq Notes
           /\ attachments' \subseteq Requests
           /\ objects' \subseteq Requests
  BY DEF TypeOK, stores, Write, PutWrite, InsertWrite, UndoWrite, Undoing, DropWrite,
         RemoveWrite, DropNoteWrite

LEMMA TypeInit == Init => TypeInv
  BY DEF Init, SessionsInit, TypeInv, TypeOK, CallsMade, Stages, Statuses

(* Where a step leaves its own request; the others stay where they are.    *)
LEMMA SessionTypes ==
    ASSUME TypeInv, NEW r \in Requests,
           \/ \E c \in Calls : Enter(r, c, "note")
           \/ \E stage \in Stages : pc[r] # "idle" /\ Goto(r, stage)
           \/ \E code \in Statuses : pc[r] # "idle" /\ Respond(r, code)
    PROVE  /\ call' \in [Requests -> Calls \cup {NoCall}]
           /\ pc' \in [Requests -> Stages]
           /\ status' \in [Requests -> Statuses]
           /\ CallsMade'
  BY DEF TypeInv, TypeOK, CallsMade, Enter, Goto, Respond, Stages, Holding

LEMMA TypeStep == TypeInv /\ [Next]_vars => TypeInv'
<1> SUFFICES ASSUME TypeInv, [Next]_vars PROVE TypeInv'
  OBVIOUS
<1>1. CASE UNCHANGED vars
  BY <1>1 DEF TypeInv, TypeOK, CallsMade, vars
<1>2. ASSUME NEW r \in Requests, Arrive(r) PROVE TypeInv'
  <2>1. \E c \in Calls : Enter(r, c, "note")
    BY <1>2, AttachmentsAssumption DEF Arrive
  <2> QED BY <2>1, <1>2, SessionTypes, WriteTypes DEF TypeInv, TypeOK, Arrive
<1>3. ASSUME NEW r \in Requests, Step(r) PROVE TypeInv'
  <2>1. Write(r) \/ UNCHANGED stores
    BY <1>3 DEF Step, Upload, Access, NoteNotFound, NoteFound, RejectFile,
       AcceptFile, RejectQuota, AcceptQuota, PutObject, InsertRow,
       InsertRejected, RefreshRow, RefreshMissing, UndoPut, RowNotFound,
       RowFound, DropRow, RemoveObject, StreamObject, StreamMissing, DropNote,
       Write
  <2>2. \/ \E stage \in Stages : pc[r] # "idle" /\ Goto(r, stage)
        \/ \E code \in Statuses : pc[r] # "idle" /\ Respond(r, code)
    <3>1. CASE NoteFound(r)
      <4>1. pc[r] = "note" /\ call[r] \in Calls
        BY <3>1 DEF NoteFound, At, TypeInv, CallsMade
      <4> QED BY <4>1, <3>1, CallOps DEF NoteFound, Stages, Holding
    <3>2. CASE NoteNotFound(r) \/ DropNote(r)
      BY <3>2 DEF NoteNotFound, DropNote, At, Statuses, StatusOf
    <3>3. CASE Access(r)
      BY <3>3 DEF Access, RowNotFound, RowFound, DropRow, RemoveObject,
         StreamObject, StreamMissing, At, Statuses, StatusOf, Stages, Holding
    <3>4. CASE Upload(r)
      BY <3>4 DEF Upload, RejectFile, AcceptFile, RejectQuota, AcceptQuota,
         PutObject, InsertRow, InsertRejected, RefreshRow, RefreshMissing,
         UndoPut, Undoing, At, Statuses, StatusOf, Stages, Holding
    <3> QED BY <1>3, <3>1, <3>2, <3>3, <3>4 DEF Step
  <2> QED BY <2>1, <2>2, SessionTypes, WriteTypes DEF TypeInv, TypeOK
<1>4. ASSUME NEW r \in Requests, Fault(r) PROVE TypeInv'
  <2>1. Write(r) \/ UNCHANGED stores
    BY <1>4 DEF Fault, StorageFails, QueryFails, CommitFails, FailsAfterCommit,
       RefreshTimesOut, Vanish, Write
  <2>2. \/ \E stage \in Stages : pc[r] # "idle" /\ Goto(r, stage)
        \/ \E code \in Statuses : pc[r] # "idle" /\ Respond(r, code)
    BY <1>4 DEF Fault, StorageFails, QueryFails, CommitFails, FailsAfterCommit,
       RefreshTimesOut, Vanish, InFlight, Undoing, At, Statuses, StatusOf, Stages, Holding
  <2> QED BY <2>1, <2>2, SessionTypes, WriteTypes DEF TypeInv, TypeOK
<1> QED BY <1>1, <1>2, <1>3, <1>4 DEF Next

(* The stores and the stages of the requests keep their types.             *)
THEOREM TypeCorrect == Spec => []TypeOK
<1>1. TypeInv => TypeOK
  BY DEF TypeInv
<1> QED BY TypeInit, TypeStep, <1>1, PTL DEF Spec

-----------------------------------------------------------------------------
(* The row of an upload has been, or may have been, inserted.              *)
Inserted(a) == pc[a] \in {"refresh", "undo", "undo_unpooled", "done"}

RowsInserted == \A a \in attachments : Inserted(a)

(* Between its two writes an upload's object is in the bucket: only the    *)
(* upload itself can name it.                                              *)
PutBeforeInsert == \A r \in Requests : pc[r] = "insert" => r \in objects

AnsweredAtEnd == \A r \in Requests : status[r] # "none" => pc[r] = "done"

RefreshHasContent ==
    \A a \in attachments : pc[a] = "refresh" => a \in objects

(* Who has found a row names an attachment that was inserted, so that no   *)
(* later write of its upload brings the row or the object back.            *)
FoundInserted ==
    \A d \in Requests : pc[d] \in {"drop", "remove"} =>
        call[d].att \in Requests /\ Inserted(call[d].att)

DropBeforeRemove ==
    \A d \in Requests : pc[d] = "remove" => call[d].att \notin attachments

StoreInv == /\ TypeInv
            /\ RowsInserted
            /\ PutBeforeInsert
            /\ AnsweredAtEnd
            /\ RefreshHasContent
            /\ AcknowledgedHasContent
            /\ FoundInserted
            /\ DropBeforeRemove

LEMMA StoreInit == Init => StoreInv
<1>1. Init => TypeInv
  BY TypeInit
<1> QED BY <1>1 DEF Init, SessionsInit, StoreInv, RowsInserted, PutBeforeInsert,
           AnsweredAtEnd, RefreshHasContent, AcknowledgedHasContent,
           FoundInserted, DropBeforeRemove

LEMMA StoreStep == StoreInv /\ [Next]_vars => StoreInv'
<1> SUFFICES ASSUME StoreInv, [Next]_vars PROVE StoreInv'
  OBVIOUS
<1> USE DEF StoreInv, RowsInserted, PutBeforeInsert, AnsweredAtEnd,
        RefreshHasContent, AcknowledgedHasContent, FoundInserted,
        DropBeforeRemove, Inserted
<1>0. TypeInv'
  BY TypeStep
<1>1. CASE UNCHANGED vars
  BY <1>0, <1>1 DEF vars
<1>2. ASSUME NEW r \in Requests, Arrive(r) PROVE StoreInv'
  BY <1>0, <1>2 DEF Arrive, Enter, At, stores, TypeInv, TypeOK
<1>3. ASSUME NEW r \in Requests, NoteNotFound(r) PROVE StoreInv'
  BY <1>0, <1>3 DEF NoteNotFound, Respond, At, stores, TypeInv, TypeOK, StatusOf
<1>4. ASSUME NEW r \in Requests, NoteFound(r) PROVE StoreInv'
  <2>1. NextStage[call[r].op] \in {"file", "row", "drop_note"}
    BY <1>4, CallOps DEF NoteFound, At, TypeInv, CallsMade
  <2> QED BY <1>0, <1>4, <2>1 DEF NoteFound, Goto, At, stores, TypeInv, TypeOK
<1>5. ASSUME NEW r \in Requests, RejectFile(r) PROVE StoreInv'
  BY <1>0, <1>5 DEF RejectFile, Respond, At, stores, TypeInv, TypeOK, StatusOf
<1>6. ASSUME NEW r \in Requests, AcceptFile(r) \/ AcceptQuota(r) PROVE StoreInv'
  BY <1>0, <1>6 DEF AcceptFile, AcceptQuota, Goto, At, stores, TypeInv, TypeOK
<1>7. ASSUME NEW r \in Requests, RejectQuota(r) PROVE StoreInv'
  BY <1>0, <1>7 DEF RejectQuota, Respond, At, stores, TypeInv, TypeOK, StatusOf
<1>8. ASSUME NEW r \in Requests, PutObject(r) PROVE StoreInv'
  BY <1>0, <1>8 DEF PutObject, PutWrite, Goto, At, TypeInv, TypeOK
<1>9. ASSUME NEW r \in Requests, InsertRow(r) PROVE StoreInv'
  BY <1>0, <1>9 DEF InsertRow, InsertWrite, Goto, At, TypeInv, TypeOK
<1>10. ASSUME NEW r \in Requests, InsertRejected(r) PROVE StoreInv'
  BY <1>0, <1>10 DEF InsertRejected, Goto, At, stores, TypeInv, TypeOK
<1>11. ASSUME NEW r \in Requests, RefreshRow(r) PROVE StoreInv'
  BY <1>0, <1>11 DEF RefreshRow, Respond, At, stores, TypeInv, TypeOK
<1>12. ASSUME NEW r \in Requests, RefreshMissing(r) PROVE StoreInv'
  BY <1>0, <1>12 DEF RefreshMissing, Goto, At, stores, TypeInv, TypeOK
<1>13. ASSUME NEW r \in Requests, UndoPut(r) PROVE StoreInv'
  BY <1>0, <1>13 DEF UndoPut, UndoWrite, Undoing, Respond, At, TypeInv, TypeOK, StatusOf
<1>14. ASSUME NEW r \in Requests, RowNotFound(r) PROVE StoreInv'
  BY <1>0, <1>14 DEF RowNotFound, Respond, At, stores, TypeInv, TypeOK, StatusOf
<1>15. ASSUME NEW r \in Requests, RowFound(r) PROVE StoreInv'
  BY <1>0, <1>15 DEF RowFound, RowVisible, Goto, At, stores, TypeInv, TypeOK
<1>16. ASSUME NEW r \in Requests, DropRow(r) PROVE StoreInv'
  BY <1>0, <1>16 DEF DropRow, DropWrite, Goto, At, TypeInv, TypeOK
<1>17. ASSUME NEW r \in Requests, RemoveObject(r) PROVE StoreInv'
  BY <1>0, <1>17 DEF RemoveObject, RemoveWrite, Respond, At, TypeInv, TypeOK
<1>18. ASSUME NEW r \in Requests, StreamObject(r) \/ StreamMissing(r) PROVE StoreInv'
  BY <1>0, <1>18 DEF StreamObject, StreamMissing, Respond, At, stores, TypeInv, TypeOK
<1>19. ASSUME NEW r \in Requests, DropNote(r) PROVE StoreInv'
  BY <1>0, <1>19 DEF DropNote, DropNoteWrite, Respond, At, TypeInv, TypeOK
<1>20. ASSUME NEW r \in Requests, StorageFails(r) PROVE StoreInv'
  BY <1>0, <1>20 DEF StorageFails, Write, PutWrite, UndoWrite, Undoing, RemoveWrite,
     Respond, At, stores, TypeInv, TypeOK, StatusOf
<1>21. ASSUME NEW r \in Requests, QueryFails(r) PROVE StoreInv'
  BY <1>0, <1>21 DEF QueryFails, Respond, At, stores, TypeInv, TypeOK, StatusOf
<1>22. ASSUME NEW r \in Requests, CommitFails(r) \/ RefreshTimesOut(r) PROVE StoreInv'
  BY <1>0, <1>22 DEF CommitFails, RefreshTimesOut, Goto, At, stores, TypeInv, TypeOK
<1>23. ASSUME NEW r \in Requests, FailsAfterCommit(r) PROVE StoreInv'
  BY <1>0, <1>23 DEF FailsAfterCommit, Write, Undoing, InsertWrite, DropWrite,
     DropNoteWrite, Goto, Respond, At, stores, TypeInv, TypeOK, StatusOf
<1>24. ASSUME NEW r \in Requests, Vanish(r) PROVE StoreInv'
  BY <1>0, <1>24 DEF Vanish, InFlight, Write, PutWrite, InsertWrite, UndoWrite, Undoing,
     DropWrite, RemoveWrite, DropNoteWrite, Respond, At, stores, TypeInv, TypeOK
<1> QED
  BY <1>1, <1>2, <1>3, <1>4, <1>5, <1>6, <1>7, <1>8, <1>9, <1>10, <1>11, <1>12,
     <1>13, <1>14, <1>15, <1>16, <1>17, <1>18, <1>19, <1>20, <1>21, <1>22,
     <1>23, <1>24
     DEF Next, Step, Upload, Access, Fault

(* Whatever fails and whatever runs beside it, an attachment whose upload  *)
(* was answered 201 has its content as long as it has its row.             *)
THEOREM AcknowledgedContentSafe == Spec => []AcknowledgedHasContent
<1>1. StoreInv => AcknowledgedHasContent
  BY DEF StoreInv
<1> QED BY StoreInit, StoreStep, <1>1, PTL DEF Spec

-----------------------------------------------------------------------------
(* Each stage belongs to one kind of call.                                 *)
StageOfCall ==
    \A r \in Requests :
        /\ pc[r] \in {"file", "quota", "put", "insert", "refresh", "undo",
                     "undo_unpooled"} =>
              call[r].op = "upload"
        /\ pc[r] = "row" => call[r].op \in {"delete", "download"}
        /\ pc[r] \in {"drop", "remove"} => call[r].op = "delete"
        /\ pc[r] = "stream" => call[r].op = "download"
        /\ pc[r] = "drop_note" => call[r].op = "delete_note"

(* Beyond the lookup of the note its owner is the user of the request.     *)
OwnerPassed ==
    \A r \in Requests : pc[r] \notin {"idle", "note", "done"} =>
        Owner[call[r].note] = call[r].user

FoundInNote ==
    \A r \in Requests : pc[r] \in {"drop", "remove", "stream"} =>
        /\ call[r].att \in Requests
        /\ Inserted(call[r].att)
        /\ NoteOf(call[r].att) = call[r].note

ServedToOwner ==
    \A r \in Requests :
        /\ call[r].op \in {"delete", "download"}
        /\ status[r] \in Successes \cup {"truncated"}
        => /\ call[r].att \in Requests
           /\ Inserted(call[r].att)
           /\ Owner[NoteOf(call[r].att)] = call[r].user

AccessInv == /\ StageOfCall
             /\ OwnerPassed
             /\ FoundInNote
             /\ ServedToOwner
             /\ DeletedMeansGone

LEMMA AccessInit == Init => AccessInv
  BY DEF Init, SessionsInit, AccessInv, StageOfCall, OwnerPassed, FoundInNote,
         ServedToOwner, DeletedMeansGone, Successes

LEMMA AccessStep == StoreInv /\ AccessInv /\ [Next]_vars => AccessInv'
<1> SUFFICES ASSUME StoreInv, AccessInv, [Next]_vars PROVE AccessInv'
  OBVIOUS
<1> USE DEF AccessInv, StageOfCall, OwnerPassed, FoundInNote, ServedToOwner,
        DeletedMeansGone, Deletes, Inserted, NoteOf, Successes, At, stores
<1>0. /\ TypeOK
      /\ CallsMade
      /\ RowsInserted
      /\ AnsweredAtEnd
      /\ DropBeforeRemove
  BY DEF StoreInv, TypeInv
<1> USE DEF TypeOK, RowsInserted, AnsweredAtEnd, DropBeforeRemove
<1>1. CASE UNCHANGED vars
  BY <1>1 DEF vars
<1>2. ASSUME NEW r \in Requests, Arrive(r) PROVE AccessInv'
  BY <1>0, <1>2 DEF Arrive, Enter
<1>3. ASSUME NEW r \in Requests, NoteNotFound(r) PROVE AccessInv'
  BY <1>0, <1>3 DEF NoteNotFound, Respond, StatusOf
<1>4. ASSUME NEW r \in Requests, NoteFound(r) PROVE AccessInv'
  <2>1. call[r].op \in {"upload", "delete", "download", "delete_note"}
    BY <1>0, <1>4, CallOps DEF NoteFound, CallsMade
  <2> QED BY <1>0, <1>4, <2>1 DEF NoteFound, NextStage, OwnsNote, Goto
<1>5. ASSUME NEW r \in Requests, RejectFile(r) PROVE AccessInv'
  BY <1>0, <1>5 DEF RejectFile, Respond, StatusOf
<1>6. ASSUME NEW r \in Requests, AcceptFile(r) \/ AcceptQuota(r) PROVE AccessInv'
  BY <1>0, <1>6 DEF AcceptFile, AcceptQuota, Goto
<1>7. ASSUME NEW r \in Requests, RejectQuota(r) PROVE AccessInv'
  BY <1>0, <1>7 DEF RejectQuota, Respond, StatusOf
<1>8. ASSUME NEW r \in Requests, PutObject(r) PROVE AccessInv'
  BY <1>0, <1>8 DEF PutObject, PutWrite, Goto
<1>9. ASSUME NEW r \in Requests, InsertRow(r) PROVE AccessInv'
  BY <1>0, <1>9 DEF InsertRow, InsertWrite, Goto
<1>10. ASSUME NEW r \in Requests, InsertRejected(r) \/ RefreshMissing(r) PROVE AccessInv'
  BY <1>0, <1>10 DEF InsertRejected, RefreshMissing, Goto
<1>11. ASSUME NEW r \in Requests, RefreshRow(r) PROVE AccessInv'
  BY <1>0, <1>11 DEF RefreshRow, Respond
<1>12. ASSUME NEW r \in Requests, UndoPut(r) PROVE AccessInv'
  BY <1>0, <1>12 DEF UndoPut, UndoWrite, Undoing, Respond, StatusOf
<1>13. ASSUME NEW r \in Requests, RowNotFound(r) PROVE AccessInv'
  BY <1>0, <1>13 DEF RowNotFound, Respond, StatusOf
<1>14. ASSUME NEW r \in Requests, RowFound(r) PROVE AccessInv'
  BY <1>0, <1>14 DEF RowFound, RowVisible, Goto
<1>15. ASSUME NEW r \in Requests, DropRow(r) PROVE AccessInv'
  BY <1>0, <1>15 DEF DropRow, DropWrite, Goto
<1>16. ASSUME NEW r \in Requests, RemoveObject(r) PROVE AccessInv'
  BY <1>0, <1>16 DEF RemoveObject, RemoveWrite, Respond
<1>17. ASSUME NEW r \in Requests, StreamObject(r) \/ StreamMissing(r) PROVE AccessInv'
  BY <1>0, <1>17 DEF StreamObject, StreamMissing, Respond
<1>18. ASSUME NEW r \in Requests, DropNote(r) PROVE AccessInv'
  BY <1>0, <1>18 DEF DropNote, DropNoteWrite, Respond
<1>19. ASSUME NEW r \in Requests, StorageFails(r) PROVE AccessInv'
  BY <1>0, <1>19 DEF StorageFails, Write, PutWrite, UndoWrite, Undoing,
     RemoveWrite, Respond, StatusOf
<1>20. ASSUME NEW r \in Requests, QueryFails(r) PROVE AccessInv'
  BY <1>0, <1>20 DEF QueryFails, Respond, StatusOf
<1>21. ASSUME NEW r \in Requests, CommitFails(r) \/ RefreshTimesOut(r) PROVE AccessInv'
  BY <1>0, <1>21 DEF CommitFails, RefreshTimesOut, Goto
<1>22. ASSUME NEW r \in Requests, FailsAfterCommit(r) PROVE AccessInv'
  BY <1>0, <1>22 DEF FailsAfterCommit, Write, Undoing, InsertWrite,
     DropWrite, DropNoteWrite, Goto, Respond, StatusOf
<1>23. ASSUME NEW r \in Requests, Vanish(r) PROVE AccessInv'
  BY <1>0, <1>23 DEF Vanish, InFlight, Write, PutWrite, InsertWrite,
     UndoWrite, Undoing, DropWrite, RemoveWrite, DropNoteWrite, Respond
<1> QED
  BY <1>1, <1>2, <1>3, <1>4, <1>5, <1>6, <1>7, <1>8, <1>9, <1>10,
     <1>11, <1>12, <1>13, <1>14, <1>15, <1>16, <1>17, <1>18, <1>19,
     <1>20, <1>21, <1>22, <1>23
     DEF Next, Step, Upload, Access, Fault

(* An attachment is served or deleted only for the owner of its own note.  *)
THEOREM AccessAuthorized == Spec => []AccessThroughNote
<1>1. AccessInv => AccessThroughNote
  BY DEF AccessInv, OwnerPassed, FoundInNote, ServedToOwner, AccessThroughNote,
         Successes
<1> QED BY StoreInit, StoreStep, AccessInit, AccessStep, <1>1, PTL DEF Spec

(* An attachment whose deletion was answered 204 is never in either store  *)
(* again.                                                                  *)
THEOREM DeletionFinal == Spec => []DeletedMeansGone
<1>1. AccessInv => DeletedMeansGone
  BY DEF AccessInv
<1> QED BY StoreInit, StoreStep, AccessInit, AccessStep, <1>1, PTL DEF Spec

-----------------------------------------------------------------------------
(* When the database does not fail after a commit and a connection is      *)
(* found in time for refresh, the undo of an upload only ever runs for an  *)
(* upload without a row, and every row has its object.                     *)
NoLateFailure == Faults \cap {"after_commit", "pool_timeout"} = {}

UndoWithoutRow == \A r \in Requests : Undoing(r) => r \notin attachments

ContentInv == UndoWithoutRow /\ MetadataHasContent

LEMMA ContentInit == Init => ContentInv
  BY DEF Init, SessionsInit, ContentInv, UndoWithoutRow, MetadataHasContent

LEMMA ContentStep ==
    NoLateFailure /\ StoreInv /\ ContentInv /\ [Next]_vars => ContentInv'
<1> SUFFICES ASSUME NoLateFailure, StoreInv, ContentInv, [Next]_vars
             PROVE  ContentInv'
  OBVIOUS
<1> USE DEF ContentInv, UndoWithoutRow, Undoing, MetadataHasContent, Inserted, At, stores
<1>0. /\ TypeOK
      /\ CallsMade
      /\ RowsInserted
      /\ PutBeforeInsert
      /\ DropBeforeRemove
  BY DEF StoreInv, TypeInv
<1>1. CASE UNCHANGED vars
  BY <1>1 DEF vars
<1>2. ASSUME NEW r \in Requests, Arrive(r) PROVE ContentInv'
  BY <1>0, <1>2 DEF Arrive, Enter, TypeOK
<1>3. ASSUME NEW r \in Requests, NoteNotFound(r) PROVE ContentInv'
  BY <1>0, <1>3 DEF NoteNotFound, Respond, TypeOK
<1>4. ASSUME NEW r \in Requests, NoteFound(r) PROVE ContentInv'
  <2>1. NextStage[call[r].op] \in {"file", "row", "drop_note"}
    BY <1>0, <1>4, CallOps DEF NoteFound, CallsMade
  <2> QED BY <1>0, <1>4, <2>1 DEF NoteFound, Goto, TypeOK
<1>5. ASSUME NEW r \in Requests, Upload(r) PROVE ContentInv'
  <2>1. CASE RejectFile(r) \/ AcceptFile(r) \/ RejectQuota(r) \/ AcceptQuota(r)
    BY <1>0, <2>1 DEF RejectFile, AcceptFile, RejectQuota, AcceptQuota, Goto,
       Respond, TypeOK
  <2>2. CASE PutObject(r)
    BY <1>0, <2>2 DEF PutObject, PutWrite, Goto, TypeOK
  <2>3. CASE InsertRow(r)
    BY <1>0, <2>3 DEF InsertRow, InsertWrite, Goto, TypeOK, PutBeforeInsert
  <2>4. CASE InsertRejected(r) \/ RefreshRow(r) \/ RefreshMissing(r)
    BY <1>0, <2>4 DEF InsertRejected, RefreshRow, RefreshMissing, Goto, Respond,
       TypeOK, RowsInserted
  <2>5. CASE UndoPut(r)
    BY <1>0, <2>5 DEF UndoPut, UndoWrite, Undoing, Respond, TypeOK
  <2> QED BY <1>5, <2>1, <2>2, <2>3, <2>4, <2>5 DEF Upload
<1>6. ASSUME NEW r \in Requests, Access(r) PROVE ContentInv'
  <2>1. CASE DropRow(r)
    BY <1>0, <2>1 DEF DropRow, DropWrite, Goto, TypeOK
  <2>2. CASE RemoveObject(r)
    BY <1>0, <2>2 DEF RemoveObject, RemoveWrite, Respond, TypeOK, DropBeforeRemove
  <2> QED
    BY <1>0, <1>6, <2>1, <2>2 DEF Access, RowNotFound, RowFound, StreamObject,
       StreamMissing, Goto, Respond, TypeOK
<1>7. ASSUME NEW r \in Requests, DropNote(r) PROVE ContentInv'
  BY <1>0, <1>7 DEF DropNote, DropNoteWrite, Respond, TypeOK
<1>8. ASSUME NEW r \in Requests, StorageFails(r) PROVE ContentInv'
  BY <1>0, <1>8 DEF StorageFails, Write, PutWrite, UndoWrite, Undoing, RemoveWrite,
     Respond, TypeOK, DropBeforeRemove
<1>9. ASSUME NEW r \in Requests, QueryFails(r) \/ CommitFails(r) PROVE ContentInv'
  BY <1>0, <1>9 DEF QueryFails, CommitFails, Goto, Respond, TypeOK, RowsInserted
<1>10. ASSUME NEW r \in Requests, Vanish(r) PROVE ContentInv'
  BY <1>0, <1>10 DEF Vanish, InFlight, Write, PutWrite, InsertWrite, UndoWrite, Undoing,
     DropWrite, RemoveWrite, DropNoteWrite, Respond, TypeOK, PutBeforeInsert,
     DropBeforeRemove
<1>11. ASSUME NEW r \in Requests PROVE ~FailsAfterCommit(r) /\ ~RefreshTimesOut(r)
  BY DEF NoLateFailure, FailsAfterCommit, RefreshTimesOut
<1> QED
  BY <1>1, <1>2, <1>3, <1>4, <1>5, <1>6, <1>7, <1>8, <1>9, <1>10, <1>11
     DEF Next, Step, Fault

(* Every row has its object, under storage errors, refused queries and     *)
(* commits, cancellations and crashes, in any number.                      *)
THEOREM RowsHaveContent ==
    ASSUME NoLateFailure
    PROVE  Spec => []MetadataHasContent
<1>1. ContentInv => MetadataHasContent
  BY DEF ContentInv
<1>2. StoreInv /\ ContentInv /\ [Next]_vars => ContentInv'
  BY ContentStep
<1> QED BY StoreInit, StoreStep, ContentInit, <1>1, <1>2, PTL DEF Spec

-----------------------------------------------------------------------------
LEMMA KeptInit == Init => AcknowledgedKept
  BY DEF Init, SessionsInit, AcknowledgedKept

LEMMA KeptStep ==
    StoreInv /\ AccessInv /\ AcknowledgedKept /\ [Next]_vars => AcknowledgedKept'
<1> SUFFICES ASSUME StoreInv, AccessInv, AcknowledgedKept, [Next]_vars
             PROVE  AcknowledgedKept'
  OBVIOUS
<1> USE DEF AcknowledgedKept, IsUpload, Deletes, NoteOf, At, stores
<1>0. /\ TypeOK
      /\ CallsMade
      /\ AnsweredAtEnd
      /\ \A d \in Requests : pc[d] = "drop" =>
            /\ call[d].op = "delete"
            /\ call[d].user = Owner[NoteOf(call[d].att)]
  BY DEF StoreInv, TypeInv, AccessInv, StageOfCall, OwnerPassed, FoundInNote
<1> USE DEF TypeOK, AnsweredAtEnd
<1>1. CASE UNCHANGED vars
  BY <1>1 DEF vars
<1>2. ASSUME NEW r \in Requests, Arrive(r) PROVE AcknowledgedKept'
  BY <1>0, <1>2 DEF Arrive, Enter
<1>3. ASSUME NEW r \in Requests,
             NoteNotFound(r) \/ RejectFile(r) \/ RejectQuota(r) \/ RowNotFound(r)
      PROVE  AcknowledgedKept'
  BY <1>0, <1>3 DEF NoteNotFound, RejectFile, RejectQuota, RowNotFound, Respond, StatusOf
<1>4. ASSUME NEW r \in Requests,
             \/ NoteFound(r) \/ AcceptFile(r) \/ AcceptQuota(r) \/ InsertRejected(r)
             \/ RefreshMissing(r) \/ RowFound(r)
      PROVE  AcknowledgedKept'
  BY <1>0, <1>4 DEF NoteFound, AcceptFile, AcceptQuota, InsertRejected,
     RefreshMissing, RowFound, Goto
<1>5. ASSUME NEW r \in Requests, PutObject(r) \/ InsertRow(r) PROVE AcknowledgedKept'
  BY <1>0, <1>5 DEF PutObject, PutWrite, InsertRow, InsertWrite, Goto
<1>6. ASSUME NEW r \in Requests, RefreshRow(r) PROVE AcknowledgedKept'
  BY <1>0, <1>6 DEF RefreshRow, Respond
<1>7. ASSUME NEW r \in Requests, UndoPut(r) PROVE AcknowledgedKept'
  BY <1>0, <1>7 DEF UndoPut, UndoWrite, Undoing, Respond, StatusOf
<1>8. ASSUME NEW r \in Requests, DropRow(r) PROVE AcknowledgedKept'
  BY <1>0, <1>8 DEF DropRow, DropWrite, Goto
<1>9. ASSUME NEW r \in Requests, RemoveObject(r) PROVE AcknowledgedKept'
  BY <1>0, <1>9 DEF RemoveObject, RemoveWrite, Respond
<1>10. ASSUME NEW r \in Requests, StreamObject(r) \/ StreamMissing(r)
       PROVE  AcknowledgedKept'
  BY <1>0, <1>10 DEF StreamObject, StreamMissing, Respond
<1>11. ASSUME NEW r \in Requests, DropNote(r) PROVE AcknowledgedKept'
  BY <1>0, <1>11 DEF DropNote, DropNoteWrite, RowsOf, Respond
<1>12. ASSUME NEW r \in Requests, StorageFails(r) PROVE AcknowledgedKept'
  BY <1>0, <1>12 DEF StorageFails, Write, PutWrite, UndoWrite, Undoing, RemoveWrite, Respond,
     StatusOf
<1>13. ASSUME NEW r \in Requests, QueryFails(r) PROVE AcknowledgedKept'
  BY <1>0, <1>13 DEF QueryFails, Respond, StatusOf
<1>14. ASSUME NEW r \in Requests, CommitFails(r) \/ RefreshTimesOut(r)
       PROVE  AcknowledgedKept'
  BY <1>0, <1>14 DEF CommitFails, RefreshTimesOut, Goto
<1>15. ASSUME NEW r \in Requests, FailsAfterCommit(r) PROVE AcknowledgedKept'
  BY <1>0, <1>15 DEF FailsAfterCommit, Write, Undoing, InsertWrite, DropWrite,
     DropNoteWrite, RowsOf, Goto, Respond, StatusOf
<1>16. ASSUME NEW r \in Requests, Vanish(r) PROVE AcknowledgedKept'
  BY <1>0, <1>16 DEF Vanish, InFlight, Write, PutWrite, InsertWrite, UndoWrite, Undoing,
     DropWrite, RemoveWrite, DropNoteWrite, RowsOf, Respond
<1> QED
  BY <1>1, <1>2, <1>3, <1>4, <1>5, <1>6, <1>7, <1>8, <1>9, <1>10, <1>11, <1>12, <1>13,
     <1>14, <1>15, <1>16
     DEF Next, Step, Upload, Access, Fault

(* Whatever fails, an acknowledged attachment keeps its row until its note *)
(* is deleted or a delete by its owner has found it.                       *)
THEOREM AcknowledgedStays == Spec => []AcknowledgedKept
<1> QED BY StoreInit, StoreStep, AccessInit, AccessStep, KeptInit, KeptStep, PTL DEF Spec

-----------------------------------------------------------------------------
(* What holds when the only failures are refused queries and commits: no   *)
(* object is there before it is put, nothing is left of a failed upload,   *)
(* and an object without a row has a reason.                               *)
OnlyRefusals == Faults \subseteq {"database"}

PutLate ==
    \A r \in Requests : pc[r] \in {"idle", "note", "file", "quota", "put"} =>
        r \notin objects

TornDownload == \A r \in Requests : status[r] = "truncated" => call[r].op = "download"

TraceInv == /\ PutLate
            /\ TornDownload
            /\ FailedUploadLeavesNoTrace
            /\ OrphansExplained
            /\ TornOnlyIfDeleted

LEMMA TraceInit == Init => TraceInv
  BY DEF Init, SessionsInit, TraceInv, PutLate, TornDownload,
     FailedUploadLeavesNoTrace, OrphansExplained, TornOnlyIfDeleted, Answered, At

LEMMA TraceStep ==
    OnlyRefusals /\ StoreInv /\ AccessInv /\ ContentInv /\ TraceInv /\ [Next]_vars
        => TraceInv'
<1> SUFFICES ASSUME OnlyRefusals, StoreInv, AccessInv, ContentInv, TraceInv, [Next]_vars
             PROVE  TraceInv'
  OBVIOUS
<1> USE DEF TraceInv, PutLate, TornDownload, FailedUploadLeavesNoTrace,
        OrphansExplained, TornOnlyIfDeleted, IsUpload, Answered, Deletes, NoteOf, At, stores
<1>0. /\ TypeOK
      /\ AnsweredAtEnd
      /\ RowsInserted
      /\ StageOfCall
      /\ \A d \in Requests : pc[d] = "stream" =>
            call[d].att \in Requests /\ Inserted(call[d].att)
      /\ \A d \in Requests : status[d] = "truncated" /\ call[d].op \in {"delete", "download"} =>
            call[d].att \in Requests /\ Inserted(call[d].att)
      /\ UndoWithoutRow
      /\ MetadataHasContent
  BY DEF StoreInv, TypeInv, AccessInv, ContentInv, FoundInNote, ServedToOwner, Successes
<1> USE DEF TypeOK, AnsweredAtEnd, RowsInserted, StageOfCall, Inserted, UndoWithoutRow,
        Undoing, MetadataHasContent
<1>1. CASE UNCHANGED vars
  BY <1>1 DEF vars
<1>2. ASSUME NEW r \in Requests, Arrive(r) PROVE TraceInv'
  BY <1>0, <1>2 DEF Arrive, Enter
<1>3. ASSUME NEW r \in Requests,
             NoteNotFound(r) \/ RejectFile(r) \/ RejectQuota(r) \/ RowNotFound(r)
                \/ QueryFails(r)
      PROVE  TraceInv'
  BY <1>0, <1>3 DEF NoteNotFound, RejectFile, RejectQuota, RowNotFound, QueryFails,
     Respond, StatusOf
<1>4. ASSUME NEW r \in Requests, NoteFound(r) PROVE TraceInv'
  <2>1. NextStage[call[r].op] \in {"file", "row", "drop_note"}
    BY <1>4, CallOps DEF NoteFound, StoreInv, TypeInv, CallsMade
  <2>2. pc[r] = "note" /\ r \notin attachments
    BY <1>0, <1>4 DEF NoteFound
  <2> QED BY <1>0, <1>4, <2>1, <2>2 DEF NoteFound, Goto
<1>5. ASSUME NEW r \in Requests,
             AcceptFile(r) \/ AcceptQuota(r) \/ InsertRejected(r) \/ RefreshMissing(r)
                \/ RowFound(r) \/ CommitFails(r)
      PROVE  TraceInv'
  BY <1>0, <1>5 DEF AcceptFile, AcceptQuota, InsertRejected, RefreshMissing, RowFound,
     CommitFails, Goto
<1>6. ASSUME NEW r \in Requests, PutObject(r) PROVE TraceInv'
  BY <1>0, <1>6 DEF PutObject, PutWrite, Goto
<1>7. ASSUME NEW r \in Requests, InsertRow(r) PROVE TraceInv'
  BY <1>0, <1>7 DEF InsertRow, InsertWrite, Goto
<1>8. ASSUME NEW r \in Requests, RefreshRow(r) PROVE TraceInv'
  BY <1>0, <1>8 DEF RefreshRow, Respond
<1>9. ASSUME NEW r \in Requests, UndoPut(r) PROVE TraceInv'
  BY <1>0, <1>9 DEF UndoPut, UndoWrite, Undoing, Respond, StatusOf
<1>10. ASSUME NEW r \in Requests, DropRow(r) PROVE TraceInv'
  BY <1>0, <1>10 DEF DropRow, DropWrite, Goto
<1>11. ASSUME NEW r \in Requests, RemoveObject(r) PROVE TraceInv'
  BY <1>0, <1>11 DEF RemoveObject, RemoveWrite, Respond
<1>12. ASSUME NEW r \in Requests, StreamObject(r) \/ StreamMissing(r) PROVE TraceInv'
  BY <1>0, <1>12 DEF StreamObject, StreamMissing, Respond
<1>13. ASSUME NEW r \in Requests, DropNote(r) PROVE TraceInv'
  BY <1>0, <1>13 DEF DropNote, DropNoteWrite, RowsOf, Respond
<1>14. ASSUME NEW r \in Requests
       PROVE  ~StorageFails(r) /\ ~FailsAfterCommit(r) /\ ~RefreshTimesOut(r) /\ ~Vanish(r)
  BY DEF OnlyRefusals, StorageFails, FailsAfterCommit, RefreshTimesOut, Vanish
<1> QED
  BY <1>1, <1>2, <1>3, <1>4, <1>5, <1>6, <1>7, <1>8, <1>9, <1>10, <1>11, <1>12, <1>13,
     <1>14
     DEF Next, Step, Upload, Access, Fault

LEMMA TraceSafe ==
    ASSUME OnlyRefusals
    PROVE  Spec => []TraceInv
<1>1. NoLateFailure
  BY DEF OnlyRefusals, NoLateFailure
<1>2. StoreInv /\ ContentInv /\ [Next]_vars => ContentInv'
  BY <1>1, ContentStep
<1>3. StoreInv /\ AccessInv /\ ContentInv /\ TraceInv /\ [Next]_vars => TraceInv'
  BY TraceStep
<1> QED BY StoreInit, StoreStep, AccessInit, AccessStep, ContentInit, TraceInit, <1>2,
           <1>3, PTL DEF Spec

(* With no failures but refused queries and commits, an upload that is not *)
(* acknowledged leaves neither a row nor an object.                        *)
THEOREM FailuresLeaveNoTrace ==
    ASSUME OnlyRefusals
    PROVE  Spec => []FailedUploadLeavesNoTrace
<1>1. TraceInv => FailedUploadLeavesNoTrace
  BY DEF TraceInv
<1> QED BY TraceSafe, <1>1, PTL

(* The only objects without a row are in transit or were left behind by a  *)
(* deleted note.                                                           *)
THEOREM OrphansAreExplained ==
    ASSUME OnlyRefusals
    PROVE  Spec => []OrphansExplained
<1>1. TraceInv => OrphansExplained
  BY DEF TraceInv
<1> QED BY TraceSafe, <1>1, PTL

(* A download is cut short only for an attachment that is gone.            *)
THEOREM TornMeansDeleted ==
    ASSUME OnlyRefusals
    PROVE  Spec => []TornOnlyIfDeleted
<1>1. TraceInv => TornOnlyIfDeleted
  BY DEF TraceInv
<1> QED BY TraceSafe, <1>1, PTL
=============================================================================
