------------------------------ MODULE StoreProofs ------------------------------
(* Attachments implements AttachmentStore: for every number of requests,   *)
(* every workload, refused queries and commits, cancellations and crashes. *)
EXTENDS AttachmentsProofs

(* Failures that strike at most once the effect of a step is settled.      *)
OnlyEarlyFailures == Faults \subseteq {"database", "crash"}

Phase == [r \in Requests |-> PhaseOf(pc[r])]

LEMMA PhaseGoto ==
    ASSUME TypeOK, NEW r \in Requests, NEW stage, Goto(r, stage)
    PROVE  Store!Reach(r, PhaseOf(stage))
<1>1. ASSUME NEW q \in Requests
      PROVE  PhaseOf(pc'[q]) = IF q = r THEN PhaseOf(stage) ELSE PhaseOf(pc[q])
  BY DEF TypeOK, Goto
<1>2. [q \in Requests |-> PhaseOf(pc'[q])]
         = [[q \in Requests |-> PhaseOf(pc[q])] EXCEPT ![r] = PhaseOf(stage)]
  BY <1>1
<1>3. [q \in Requests |-> PhaseOf(pc'[q])]
         = [q \in Requests |-> PhaseOf(pc[q])]'
  OBVIOUS
<1> QED BY <1>2, <1>3 DEF Store!Reach, Goto

LEMMA PhaseRespond ==
    ASSUME TypeOK, NEW r \in Requests, NEW code, Respond(r, code)
    PROVE  Store!Tell(r, code)
<1>1. ASSUME NEW q \in Requests
      PROVE  PhaseOf(pc'[q]) = IF q = r THEN "over" ELSE PhaseOf(pc[q])
  BY DEF TypeOK, Respond, PhaseOf
<1>2. [q \in Requests |-> PhaseOf(pc'[q])]
         = [[q \in Requests |-> PhaseOf(pc[q])] EXCEPT ![r] = "over"]
  BY <1>1
<1> QED BY <1>2 DEF Store!Tell, Respond

(* A step within one phase is a stutter.                                   *)
LEMMA PhaseStays ==
    ASSUME TypeOK, NEW r \in Requests, NEW stage, Goto(r, stage),
           PhaseOf(stage) = PhaseOf(pc[r]), UNCHANGED <<notes, attachments>>
    PROVE  UNCHANGED Store!storeVars
<1>1. ASSUME NEW q \in Requests PROVE PhaseOf(pc'[q]) = PhaseOf(pc[q])
  BY DEF TypeOK, Goto
<1>2. [q \in Requests |-> PhaseOf(pc'[q])] = [q \in Requests |-> PhaseOf(pc[q])]
  BY <1>1
<1> QED BY <1>2 DEF Store!storeVars, Goto

LEMMA PhaseValues ==
    /\ \A stage \in {"note", "file", "quota", "put", "insert", "row",
                     "drop_note"} : PhaseOf(stage) = "open"
    /\ PhaseOf("drop") = "found" /\ PhaseOf("stream") = "found"
    /\ PhaseOf("idle") = "away"
    /\ PhaseOf("refresh") = "stored"
    /\ PhaseOf("undo") = "undoing" /\ PhaseOf("undo_unpooled") = "undoing"
    /\ PhaseOf("remove") = "retired"
    /\ PhaseOf("done") = "over"
  BY DEF PhaseOf

StoreSteps(r) ==
    \/ Store!Ask(r) \/ Store!Find(r) \/ Store!Publish(r) \/ Store!Retire(r) \/ Store!Wipe(r)
    \/ Store!Acknowledge(r) \/ Store!GiveUp(r) \/ Store!Gone(r)
    \/ Store!Serve(r) \/ Store!Tear(r) \/ Store!Refuse(r) \/ Store!Lose(r)

LEMMA ArriveAsks ==
    ASSUME TypeOK, NEW r \in Requests, Arrive(r)
    PROVE  Store!Ask(r)
<1>1. PICK c \in Workload[r] : Enter(r, c, "note")
  BY DEF Arrive
<1>2. ASSUME NEW q \in Requests
      PROVE  PhaseOf(pc'[q]) = IF q = r THEN "open" ELSE PhaseOf(pc[q])
  BY <1>1, PhaseValues DEF TypeOK, Enter
<1>3. [q \in Requests |-> PhaseOf(pc'[q])]
         = [[q \in Requests |-> PhaseOf(pc[q])] EXCEPT ![r] = "open"]
  BY <1>2
<1> QED BY <1>1, <1>3, PhaseValues DEF Arrive, At, Enter, stores, Store!Ask

(* What the invariants say of a request at a stage.                        *)
StoreFacts == StoreInv /\ AccessInv /\ ContentInv

LEMMA UploadImplements ==
    ASSUME StoreFacts, NEW r \in Requests, Upload(r)
    PROVE  StoreSteps(r) \/ UNCHANGED Store!storeVars
<1> USE PhaseValues DEF At, stores
<1>0. /\ TypeOK
      /\ pc[r] # "idle"
      /\ pc[r] \in {"file", "quota", "put", "insert", "undo", "undo_unpooled"} =>
            r \notin attachments
      /\ Owner[call[r].note] = call[r].user
      /\ call[r].op = "upload"
      /\ attachments' # attachments => call[r].note \in notes
  BY DEF StoreFacts, StoreInv, TypeInv, AccessInv, ContentInv, RowsInserted, Inserted,
     UndoWithoutRow, Undoing, OwnerPassed, StageOfCall, Upload, RejectFile, AcceptFile,
     RejectQuota, AcceptQuota, PutObject, PutWrite, InsertRow, InsertWrite,
     InsertRejected, RefreshRow, RefreshMissing, UndoPut, UndoWrite
<1>1. CASE RejectFile(r) \/ RejectQuota(r) \/ UndoPut(r)
  <2>0. PhaseOf(pc[r]) \in {"open", "undoing"}
    BY <1>1 DEF RejectFile, RejectQuota, UndoPut, Undoing
  <2>1. \E code \in {"400", "404", "413", "500"} : Respond(r, code)
    BY <1>1 DEF RejectFile, RejectQuota, UndoPut, StatusOf
  <2>2. \E code \in {"400", "404", "413", "500"} : Store!Tell(r, code)
    BY <1>0, <2>1, PhaseRespond
  <2>3. /\ UNCHANGED <<notes, attachments>>
        /\ r \notin attachments
    BY <1>0, <1>1 DEF RejectFile, RejectQuota, UndoPut, UndoWrite, Undoing
  <2> QED BY <2>0, <2>2, <2>3 DEF StoreSteps, Store!Refuse, Store!Unchanged
<1>2. CASE AcceptFile(r) \/ AcceptQuota(r) \/ PutObject(r)
  <2>1. \E stage \in {"quota", "put", "insert"} :
           Goto(r, stage) /\ PhaseOf(stage) = PhaseOf(pc[r])
    BY <1>2 DEF AcceptFile, AcceptQuota, PutObject
  <2> QED BY <1>0, <1>2, <2>1, PhaseStays DEF AcceptFile, AcceptQuota, PutObject, PutWrite
<1>3. CASE InsertRow(r)
  <2>1. Store!Reach(r, "stored")
    BY <1>0, <1>3, PhaseGoto DEF InsertRow
  <2> QED BY <1>0, <1>3, <2>1
          DEF InsertRow, InsertWrite, StoreSteps, Store!Publish, Store!Shelve,
              Store!Asks, Store!Mine
<1>4. CASE InsertRejected(r) \/ RefreshMissing(r)
  <2>1. Store!Reach(r, "undoing")
    BY <1>0, <1>4, PhaseGoto DEF InsertRejected, RefreshMissing
  <2> QED BY <1>0, <1>4, <2>1
          DEF InsertRejected, RefreshMissing, StoreSteps, Store!GiveUp, Store!Asks,
              Store!Unchanged
<1>5. CASE RefreshRow(r)
  <2>1. Store!Tell(r, "201")
    BY <1>0, <1>5, PhaseRespond DEF RefreshRow
  <2> QED BY <1>0, <1>5, <2>1
          DEF RefreshRow, StoreSteps, Store!Acknowledge, Store!Unchanged
<1> QED BY <1>1, <1>2, <1>3, <1>4, <1>5 DEF Upload

LEMMA AccessImplements ==
    ASSUME StoreFacts, NEW r \in Requests,
           NoteNotFound(r) \/ NoteFound(r) \/ Access(r) \/ DropNote(r)
    PROVE  StoreSteps(r) \/ UNCHANGED Store!storeVars
<1> USE PhaseValues DEF At, stores
<1>0. /\ TypeOK
      /\ r \notin attachments
      /\ pc[r] = "remove" => call[r].att \notin attachments
      /\ pc[r] # "note" => Owner[call[r].note] = call[r].user
      /\ pc[r] = "row" => call[r].op \in {"delete", "download"}
      /\ pc[r] \in {"drop", "remove"} => call[r].op = "delete"
      /\ pc[r] = "stream" => call[r].op = "download" /\ call[r].att \in Requests
      /\ DeletedMeansGone
      /\ pc[r] = "drop_note" => call[r].op = "delete_note"
      /\ attachments \subseteq objects
  BY DEF StoreFacts, StoreInv, TypeInv, AccessInv, ContentInv, RowsInserted, Inserted,
     MetadataHasContent, DropBeforeRemove, OwnerPassed, StageOfCall, FoundInNote, Access,
     NoteNotFound, NoteFound, RowNotFound, RowFound, DropRow, RemoveObject,
     StreamObject, StreamMissing, DropNote
<1>1. CASE NoteNotFound(r) \/ RowNotFound(r)
  <2>1. Store!Tell(r, "404")
    BY <1>0, <1>1, PhaseRespond DEF NoteNotFound, RowNotFound, StatusOf
  <2> QED BY <1>0, <1>1, <2>1
          DEF StoreSteps, Store!Refuse, Store!Unchanged, NoteNotFound, RowNotFound
<1>2. CASE NoteFound(r)
  <2>1. call[r].op \in {"upload", "delete", "download", "delete_note"}
    BY <1>2, CallOps DEF NoteFound, StoreFacts, StoreInv, TypeInv, CallsMade
  <2>2. \E stage \in {"file", "row", "drop_note"} :
           Goto(r, stage) /\ PhaseOf(stage) = PhaseOf(pc[r])
    BY <1>2, <2>1 DEF NoteFound, NextStage
  <2> QED BY <1>0, <1>2, <2>2, PhaseStays DEF NoteFound
<1>8. CASE RowFound(r)
  <2>1. \E stage \in {"drop", "stream"} : Goto(r, stage) /\ PhaseOf(stage) = "found"
    BY <1>8 DEF RowFound
  <2>2. Store!Reach(r, "found")
    BY <1>0, <2>1, PhaseGoto
  <2> QED BY <1>0, <1>8, <2>2
          DEF RowFound, RowVisible, NoteOf, StoreSteps, Store!Find, Store!Asks, Store!Mine,
              Store!Attached
<1>3. CASE DropRow(r)
  <2>1. Store!Reach(r, "retired")
    BY <1>0, <1>3, PhaseGoto DEF DropRow
  <2> QED BY <1>0, <1>3, <2>1
          DEF DropRow, DropWrite, StoreSteps, Store!Retire, Store!Unshelve, Store!Asks,
              Store!Mine
<1>4. CASE RemoveObject(r)
  <2>1. Store!Tell(r, "204")
    BY <1>0, <1>4, PhaseRespond DEF RemoveObject
  <2> QED BY <1>0, <1>4, <2>1
          DEF RemoveObject, RemoveWrite, StoreSteps, Store!Gone, Store!Unchanged
<1>5. CASE StreamObject(r)
  <2>1. Store!Tell(r, "200")
    BY <1>0, <1>5, PhaseRespond DEF StreamObject
  <2> QED BY <1>0, <1>5, <2>1
          DEF StreamObject, StoreSteps, Store!Serve, Store!Unchanged, Store!Asks,
              DeletedMeansGone, Deletes
<1>6. CASE StreamMissing(r)
  <2>1. Store!Tell(r, "truncated")
    BY <1>0, <1>6, PhaseRespond DEF StreamMissing
  <2> QED BY <1>0, <1>6, <2>1
          DEF StreamMissing, StoreSteps, Store!Tear, Store!Unchanged, Store!Asks
<1>7. CASE DropNote(r)
  <2>1. Store!Tell(r, "204")
    BY <1>0, <1>7, PhaseRespond DEF DropNote
  <2> QED BY <1>0, <1>7, <2>1
          DEF DropNote, DropNoteWrite, RowsOf, NoteOf, StoreSteps, Store!Wipe, Store!Clear,
              Store!Asks, Store!Mine, Store!Attached
<1> QED BY <1>1, <1>2, <1>3, <1>4, <1>5, <1>6, <1>7, <1>8 DEF Access

LEMMA FaultImplements ==
    ASSUME OnlyEarlyFailures, StoreFacts, NEW r \in Requests, Fault(r)
    PROVE  StoreSteps(r)
<1> USE PhaseValues DEF At, stores
<1>0. /\ TypeOK
      /\ pc[r] \notin {"refresh", "done"} => r \notin attachments
      /\ pc[r] \notin {"idle", "note", "done"} => Owner[call[r].note] = call[r].user
      /\ pc[r] = "insert" => call[r].op = "upload"
      /\ pc[r] = "drop" => call[r].op = "delete"
      /\ pc[r] = "remove" => call[r].att \notin attachments
      /\ pc[r] = "drop_note" => call[r].op = "delete_note"
  BY DEF StoreFacts, StoreInv, TypeInv, AccessInv, ContentInv, RowsInserted, Inserted,
     UndoWithoutRow, Undoing, DropBeforeRemove, OwnerPassed, StageOfCall
<1>1. CASE QueryFails(r)
  <2>1. Store!Tell(r, "500")
    BY <1>0, <1>1, PhaseRespond DEF QueryFails, StatusOf
  <2> QED BY <1>0, <1>1, <2>1
          DEF QueryFails, StoreSteps, Store!Refuse, Store!Unchanged
<1>2. CASE CommitFails(r)
  <2>1. Store!Reach(r, "undoing")
    BY <1>0, <1>2, PhaseGoto DEF CommitFails
  <2> QED BY <1>0, <1>2, <2>1
          DEF CommitFails, StoreSteps, Store!GiveUp, Store!Asks, Store!Unchanged
<1>3. CASE Vanish(r)
  <2>1. Store!Tell(r, "lost") /\ pc[r] \notin {"idle", "done"}
    BY <1>0, <1>3, PhaseRespond DEF Vanish, InFlight
  <2>2. PhaseOf(pc[r]) \notin {"away", "over"}
    BY <1>0, <2>1 DEF TypeOK, Stages, Holding
  <2>3. \/ /\ UNCHANGED <<notes, attachments>>
        \/ At(r, "insert") /\ InsertWrite(r)
        \/ At(r, "drop") /\ DropWrite(r)
        \/ At(r, "drop_note") /\ DropNoteWrite(r)
    BY <1>0, <1>3 DEF Vanish, Write, PutWrite, UndoWrite, Undoing, RemoveWrite
  <2>4. Store!Shelve(r) \/ Store!Unshelve(r) \/ Store!Clear(r) \/ Store!Unchanged
    BY <1>0, <2>3
       DEF InsertWrite, DropWrite, DropNoteWrite, RowsOf, NoteOf, Store!Shelve, Store!Unshelve,
           Store!Clear, Store!Unchanged, Store!Asks, Store!Mine, Store!Attached
  <2> QED BY <2>1, <2>2, <2>4 DEF StoreSteps, Store!Lose
<1> QED BY <1>1, <1>2, <1>3
        DEF Fault, OnlyEarlyFailures, StorageFails, FailsAfterCommit, RefreshTimesOut

LEMMA InitImplements == Init => Store!StoreInit
<1> SUFFICES ASSUME Init PROVE Store!StoreInit
  OBVIOUS
<1>1. [r \in Requests |-> PhaseOf(pc[r])] = [r \in Requests |-> "away"]
  BY PhaseValues DEF Init, SessionsInit
<1> QED BY <1>1 DEF Init, SessionsInit, NoCall, Store!StoreInit

LEMMA NextImplements ==
    ASSUME OnlyEarlyFailures, StoreFacts, [Next]_vars
    PROVE  [Store!StoreNext]_Store!storeVars
<1>1. CASE UNCHANGED vars
  BY <1>1 DEF vars, Store!storeVars
<1>2. ASSUME NEW r \in Requests, Arrive(r) PROVE Store!Ask(r)
  BY <1>2, ArriveAsks DEF StoreFacts, StoreInv, TypeInv
<1>3. ASSUME NEW r \in Requests, Step(r) \/ Fault(r)
      PROVE  StoreSteps(r) \/ UNCHANGED Store!storeVars
  BY <1>3, UploadImplements, AccessImplements, FaultImplements DEF Step
<1> QED BY <1>1, <1>2, <1>3 DEF Next, Store!StoreNext, StoreSteps

(* Clients of the two stores cannot tell them from one: every behaviour is *)
(* one of AttachmentStore, unless a failure strikes after a commit took    *)
(* effect, or the bucket itself fails.                                     *)
THEOREM ImplementsStore ==
    ASSUME OnlyEarlyFailures
    PROVE  Spec => OneStore
<1>1. NoLateFailure
  BY DEF OnlyEarlyFailures, NoLateFailure
<1>2. StoreInv /\ ContentInv /\ [Next]_vars => ContentInv'
  BY <1>1, ContentStep
<1>3. StoreInv /\ AccessInv /\ ContentInv /\ [Next]_vars
         => [Store!StoreNext]_Store!storeVars
  BY NextImplements DEF StoreFacts
<1> QED BY StoreInit, StoreStep, AccessInit, AccessStep, ContentInit, <1>2, <1>3,
           InitImplements, PTL DEF Spec, OneStore, Store!StoreSpec
=============================================================================
