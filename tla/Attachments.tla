----------------------------- MODULE Attachments -----------------------------
(***************************************************************************)
(* AttachmentService over its two stores: metadata rows in PostgreSQL and  *)
(* contents in MinIO, written in separate steps with no transaction that   *)
(* spans both (app/services/attachment.py, app/repositories/attachment.py, *)
(* app/core/storage.py), together with the deletion of a note, whose rows  *)
(* cascade.                                                                *)
(*                                                                         *)
(* An upload creates one object key (a fresh uuid4) and at most one row    *)
(* with it, so the request that uploads names both: r \in attachments is   *)
(* its row, r \in objects its object.                                      *)
(***************************************************************************)
EXTENDS Sessions, FiniteSetsExt

CONSTANTS
    Users, Notes,
    Owner,       \* the owner of each note
    Types,       \* SUPPORTED_TYPES
    Files,       \* [declared, detected, size] of what clients send
    MaxFile,     \* max_attachment_size_bytes
    MaxTotal,    \* max_note_attachments_size_bytes
    Workload,    \* the calls each request may make
    Faults       \* the failures the environment may inject

UploadCall     == [op : {"upload"}, user : Users, note : Notes, file : Files]
AttachmentCall == [op : {"delete", "download"}, user : Users, note : Notes,
                   att : Requests]
NoteCall       == [op : {"delete_note"}, user : Users, note : Notes]
Calls          == UploadCall \cup AttachmentCall \cup NoteCall

FaultKinds == {"storage",      \* MinIO refuses or does not answer
               "database",     \* a query or a commit is refused
               "after_commit", \* the database fails once a commit took effect
               "pool_timeout", \* no connection within the pool timeout
               "crash"}        \* the task is cancelled or its process dies

ASSUME AttachmentsAssumption ==
    /\ Owner \in [Notes -> Users]
    /\ Files \subseteq [declared : STRING, detected : STRING, size : Nat]
    /\ MaxFile \in Nat
    /\ MaxTotal \in Nat
    /\ Workload \in [Requests -> SUBSET Calls]
    /\ Faults \subseteq FaultKinds

VARIABLES
    notes,         \* note rows
    attachments,   \* attachment rows, named by the upload that inserts them
    objects        \* objects in the bucket, named likewise

stores == <<notes, attachments, objects>>
vars   == <<notes, attachments, objects, call, pc, status>>

(* Variants of Holding: a session that is closed after its last check, and *)
(* a commit that keeps the connection while refresh asks for another.      *)
HoldingUntilChecked == {"note", "file", "quota", "undo", "row", "drop", "stream",
                        "drop_note"}
HoldingThroughCommit == {"note", "file", "quota", "put", "insert", "refresh", "undo",
                         "row", "drop", "stream", "drop_note"}

(* Stages whose session holds a connection.  A commit gives it back, so    *)
(* refresh has to check one out again.  A statement or a commit that fails *)
(* leaves the connection with the session until get_db closes it, so an    *)
(* undo runs with one unless refresh could not get it ("undo_unpooled").   *)
Holding == {"note", "file", "quota", "put", "insert", "undo", "row", "drop",
            "stream", "drop_note"}

Stages == Holding \cup {"idle", "refresh", "undo_unpooled", "remove", "done"}

Undoing(r) == pc[r] \in {"undo", "undo_unpooled"}

NoteOf(a)    == call[a].note
SizeOf(a)    == call[a].file.size
RowsOf(n)    == {a \in attachments : NoteOf(a) = n}
BytesOf(S)   == MapThenSumSet(SizeOf, S)
UsedBytes(n) == BytesOf(RowsOf(n))

Init ==
    /\ notes = Notes
    /\ attachments = {}
    /\ objects = {}
    /\ SessionsInit

-----------------------------------------------------------------------------
(* The request is authenticated and its service asks for the note.         *)
Arrive(r) ==
    /\ At(r, "idle")
    /\ ConnectionFree(Holding)
    /\ \E c \in Workload[r] : Enter(r, c, "note")
    /\ UNCHANGED stores

(* NoteRepository.get_by_id selects by id and owner.                       *)
OwnsNote(r) == call[r].note \in notes /\ Owner[call[r].note] = call[r].user

NoteNotFound(r) ==
    /\ At(r, "note")
    /\ ~OwnsNote(r)
    /\ Respond(r, StatusOf.NoteNotFound)
    /\ UNCHANGED stores

NextStage == [upload |-> "file", download |-> "row", delete |-> "row",
              delete_note |-> "drop_note"]

NoteFound(r) ==
    /\ At(r, "note")
    /\ OwnsNote(r)
    /\ Goto(r, NextStage[call[r].op])
    /\ UNCHANGED stores

-----------------------------------------------------------------------------
(* Upload: type, size and signature, then the note's total, then the       *)
(* object, then the row.                                                   *)
RejectFile(r) ==
    /\ At(r, "file")
    /\ LET file == call[r].file
       IN  \/ /\ file.declared \notin Types
              /\ Respond(r, StatusOf.UnsupportedFileType)
           \/ /\ file.declared \in Types
              /\ file.size > MaxFile
              /\ Respond(r, StatusOf.FileTooLarge)
           \/ /\ file.declared \in Types
              /\ file.size =< MaxFile
              /\ file.detected # file.declared
              /\ Respond(r, StatusOf.UnsupportedFileType)
    /\ UNCHANGED stores

AcceptFile(r) ==
    /\ At(r, "file")
    /\ call[r].file.declared \in Types
    /\ call[r].file.size =< MaxFile
    /\ call[r].file.detected = call[r].file.declared
    /\ Goto(r, "quota")
    /\ UNCHANGED stores

FitsQuota(r) == UsedBytes(call[r].note) + call[r].file.size =< MaxTotal

RejectQuota(r) ==
    /\ At(r, "quota")
    /\ ~FitsQuota(r)
    /\ Respond(r, StatusOf.StorageLimitExceeded)
    /\ UNCHANGED stores

(* Variant: the row is written although no content has been.               *)
AcceptQuotaWithoutPut(r) ==
    At(r, "quota") /\ FitsQuota(r) /\ Goto(r, "insert") /\ UNCHANGED stores

AcceptQuota(r) ==
    /\ At(r, "quota")
    /\ FitsQuota(r)
    /\ Goto(r, "put")
    /\ UNCHANGED stores

(* The writes of each stage, apart from where the request goes next: a     *)
(* failure or a crash may strike before or after the write has landed.     *)
PutWrite(r) == objects' = objects \cup {r} /\ UNCHANGED <<notes, attachments>>

(* Variant: the row takes the identifier of its note.                      *)
InsertWriteNoteKey(r) ==
    /\ call[r].note \in notes
    /\ attachments' = attachments \cup {call[r].note}
    /\ UNCHANGED <<notes, objects>>

InsertWrite(r) ==
    /\ call[r].note \in notes        \* the foreign key of attachments.note_id
    /\ attachments' = attachments \cup {r}
    /\ UNCHANGED <<notes, objects>>

UndoWrite(r) == objects' = objects \ {r} /\ UNCHANGED <<notes, attachments>>

(* Variants: the content goes before its row, and every row of the note.   *)
DropWriteContent(r) ==
    objects' = objects \ {call[r].att} /\ UNCHANGED <<notes, attachments>>
DropWriteByNote(r) ==
    /\ attachments' = attachments \ RowsOf(call[r].note)
    /\ UNCHANGED <<notes, objects>>

DropWrite(r) ==
    /\ attachments' = attachments \ {call[r].att}
    /\ UNCHANGED <<notes, objects>>

RemoveWrite(r) ==
    /\ objects' = objects \ {call[r].att}
    /\ UNCHANGED <<notes, attachments>>

(* The rows of a deleted note cascade (session.delete loads one of them,   *)
(* Note.attachments being scalar, and deletes it by key in the same flush: *)
(* the foreign key takes it otherwise); nothing touches the bucket.        *)
DropNoteWrite(r) ==
    /\ notes' = notes \ {call[r].note}
    /\ attachments' = attachments \ RowsOf(call[r].note)
    /\ UNCHANGED objects

PutObject(r) == At(r, "put") /\ PutWrite(r) /\ Goto(r, "insert")

InsertRow(r) == At(r, "insert") /\ InsertWrite(r) /\ Goto(r, "refresh")

(* Variant: create is not inside the try.                                  *)
InsertRejectedOutright(r) ==
    /\ At(r, "insert")
    /\ call[r].note \notin notes
    /\ Respond(r, StatusOf.Unhandled)
    /\ UNCHANGED stores

(* The note has been deleted since it was looked up: the insert violates   *)
(* the foreign key and the exception handler runs.                         *)
InsertRejected(r) ==
    /\ At(r, "insert")
    /\ call[r].note \notin notes
    /\ Goto(r, "undo")
    /\ UNCHANGED stores

(* Variant: the row is answered as it was inserted.                        *)
RefreshRowUnread(r) ==
    At(r, "refresh") /\ ConnectionFree(Holding) /\ Respond(r, "201") /\ UNCHANGED stores

RefreshRow(r) ==
    /\ At(r, "refresh")
    /\ ConnectionFree(Holding)
    /\ r \in attachments
    /\ Respond(r, "201")
    /\ UNCHANGED stores

(* The new row is already gone: refresh raises, inside the same try.       *)
RefreshMissing(r) ==
    /\ At(r, "refresh")
    /\ ConnectionFree(Holding)
    /\ r \notin attachments
    /\ Goto(r, "undo")
    /\ UNCHANGED stores

UndoPut(r) ==
    /\ Undoing(r)
    /\ UndoWrite(r)
    /\ Respond(r, StatusOf.Unhandled)

-----------------------------------------------------------------------------
(* Variant: any row, whichever note it belongs to.                         *)
RowVisibleAnyNote(r) == call[r].att \in attachments

(* Download and delete: the row has to belong to the note of the path.     *)
RowVisible(r) ==
    /\ call[r].att \in attachments
    /\ NoteOf(call[r].att) = call[r].note

RowNotFound(r) ==
    /\ At(r, "row")
    /\ ~RowVisible(r)
    /\ Respond(r, StatusOf.AttachmentNotFound)
    /\ UNCHANGED stores

(* Variant: a delete starts with the object.                               *)
RowFoundObjectFirst(r) ==
    /\ At(r, "row")
    /\ RowVisible(r)
    /\ Goto(r, IF call[r].op = "delete" THEN "remove" ELSE "stream")
    /\ UNCHANGED stores

RowFound(r) ==
    /\ At(r, "row")
    /\ RowVisible(r)
    /\ Goto(r, IF call[r].op = "delete" THEN "drop" ELSE "stream")
    /\ UNCHANGED stores

(* Variant: the object is forgotten.                                       *)
DropRowOnly(r) == At(r, "drop") /\ DropWrite(r) /\ Respond(r, "204")

(* Deleting a row another request has deleted is a warning, not an error.  *)
DropRow(r) == At(r, "drop") /\ DropWrite(r) /\ Goto(r, "remove")

RemoveObject(r) == At(r, "remove") /\ RemoveWrite(r) /\ Respond(r, "204")

StreamObject(r) ==
    /\ At(r, "stream")
    /\ call[r].att \in objects
    /\ Respond(r, "200")
    /\ UNCHANGED stores

(* Storage.get opens the object when the body is first read: the status    *)
(* line has been sent, so a missing object cuts the response short.        *)
StreamMissing(r) ==
    /\ At(r, "stream")
    /\ call[r].att \notin objects
    /\ Respond(r, "truncated")
    /\ UNCHANGED stores

DropNote(r) == At(r, "drop_note") /\ DropNoteWrite(r) /\ Respond(r, "204")

-----------------------------------------------------------------------------
(* Failures.  A store that fails answers with an exception, whether or not *)
(* the write has landed.                                                   *)
Write(r) ==
    \/ At(r, "put") /\ PutWrite(r)
    \/ At(r, "insert") /\ InsertWrite(r)
    \/ Undoing(r) /\ UndoWrite(r)
    \/ At(r, "drop") /\ DropWrite(r)
    \/ At(r, "remove") /\ RemoveWrite(r)
    \/ At(r, "drop_note") /\ DropNoteWrite(r)

(* put_object is outside the try of upload_attachment, and nothing guards  *)
(* remove_object: the error is the answer and whatever landed stays.       *)
StorageFails(r) ==
    /\ "storage" \in Faults
    /\ \/ /\ At(r, "put") \/ Undoing(r) \/ At(r, "remove")
          /\ Write(r) \/ UNCHANGED stores
          /\ Respond(r, StatusOf.Unhandled)
       \/ /\ At(r, "stream")
          /\ Respond(r, "truncated")
          /\ UNCHANGED stores

QueryFails(r) ==
    /\ "database" \in Faults
    /\ pc[r] \in {"note", "quota", "row", "drop", "drop_note"}
    /\ Respond(r, StatusOf.Unhandled)
    /\ UNCHANGED stores

(* Variant: the error of the commit is not caught.                         *)
CommitFailsOutright(r) ==
    /\ "database" \in Faults
    /\ At(r, "insert")
    /\ Respond(r, StatusOf.Unhandled)
    /\ UNCHANGED stores

CommitFails(r) ==
    /\ "database" \in Faults
    /\ At(r, "insert")
    /\ Goto(r, "undo")
    /\ UNCHANGED stores

(* The commit took effect, but its acknowledgement fails, or refresh does, *)
(* with the connection it has checked out or for want of one that opens:   *)
(* create runs as a whole inside the try.                                  *)
FailsAfterCommit(r) ==
    /\ "after_commit" \in Faults
    /\ \/ At(r, "insert") /\ InsertWrite(r) /\ Goto(r, "undo")
       \/ /\ At(r, "refresh")
          /\ ConnectionFree(Holding)
          /\ Goto(r, "undo") \/ Goto(r, "undo_unpooled")
          /\ UNCHANGED stores
       \/ /\ pc[r] \in {"drop", "drop_note"}
          /\ Write(r)
          /\ Respond(r, StatusOf.Unhandled)

(* The row is committed, its connection is back in the pool, and refresh   *)
(* cannot get another one in time.                                         *)
RefreshTimesOut(r) ==
    /\ "pool_timeout" \in Faults
    /\ At(r, "refresh")
    /\ ~ConnectionFree(Holding)
    /\ Goto(r, "undo_unpooled")
    /\ UNCHANGED stores

(* CancelledError is not an Exception and a dead process runs no handler:  *)
(* the request vanishes, its current write done or not.                    *)
Vanish(r) ==
    /\ "crash" \in Faults
    /\ InFlight(r)
    /\ Write(r) \/ UNCHANGED stores
    /\ Respond(r, "lost")

-----------------------------------------------------------------------------
Upload(r) ==
    \/ RejectFile(r) \/ AcceptFile(r) \/ RejectQuota(r) \/ AcceptQuota(r)
    \/ PutObject(r) \/ InsertRow(r) \/ InsertRejected(r)
    \/ RefreshRow(r) \/ RefreshMissing(r) \/ UndoPut(r)

Access(r) ==
    \/ RowNotFound(r) \/ RowFound(r) \/ DropRow(r) \/ RemoveObject(r)
    \/ StreamObject(r) \/ StreamMissing(r)

(* What a request does by itself once it has been accepted.                *)
Step(r) == NoteNotFound(r) \/ NoteFound(r) \/ Upload(r) \/ Access(r) \/ DropNote(r)

Fault(r) ==
    \/ StorageFails(r) \/ QueryFails(r) \/ CommitFails(r)
    \/ FailsAfterCommit(r) \/ RefreshTimesOut(r) \/ Vanish(r)

Next == \E r \in Requests : Arrive(r) \/ Step(r) \/ Fault(r)

Spec == Init /\ [][Next]_vars

(* The event loop runs every ready task and the stores answer.             *)
Fairness == \A r \in Requests : WF_vars(Step(r))

FairSpec == Spec /\ Fairness

-----------------------------------------------------------------------------
(* The three stores hold what they are meant to hold, and every request is *)
(* at a stage of its handler.                                              *)
TypeOK ==
    /\ notes \subseteq Notes
    /\ attachments \subseteq Requests
    /\ objects \subseteq Requests
    /\ call \in [Requests -> Calls \cup {NoCall}]
    /\ pc \in [Requests -> Stages]
    /\ status \in [Requests -> Statuses]

IsUpload(r)   == call[r].op = "upload"
Deletes(d, a) == call[d].op = "delete" /\ call[d].att = a

(* An attachment whose upload was answered 201 has its content in the      *)
(* bucket as long as its row exists, whatever fails and whatever deletes   *)
(* and retries run beside it (upload_attachment, delete_attachment).       *)
AcknowledgedHasContent ==
    \A a \in attachments : status[a] = "201" => a \in objects

(* An acknowledged attachment does not vanish: its row is there until its  *)
(* note is deleted or its owner's delete request has found it.             *)
AcknowledgedKept ==
    \A a \in Requests :
        IsUpload(a) /\ status[a] = "201" =>
            \/ a \in attachments
            \/ NoteOf(a) \notin notes
            \/ \E d \in Requests :
                  /\ Deletes(d, a)
                  /\ call[d].user = Owner[NoteOf(a)]
                  /\ pc[d] \in {"remove", "done"}
                  /\ status[d] # "404"

(* Content is streamed and attachments are deleted only for the owner of   *)
(* the note they belong to, whichever note the path of the request names.  *)
AccessThroughNote ==
    \A r \in Requests :
        /\ call[r].op \in {"delete", "download"}
        /\ pc[r] \in {"drop", "remove", "stream"}
              \/ status[r] \in Successes \cup {"truncated"}
        => call[r].user = Owner[NoteOf(call[r].att)]

(* Once a delete is answered 204 the attachment is in neither store and    *)
(* no upload, undo or concurrent delete brings it back.                    *)
DeletedMeansGone ==
    \A d, a \in Requests :
        Deletes(d, a) /\ status[d] = "204" => a \notin attachments \cup objects

(* "Attachment contents are stored in MinIO; the database stores their     *)
(* object keys and metadata": every row has its object.  The order of the  *)
(* writes (put before insert, drop before remove) is what keeps it.        *)
MetadataHasContent == attachments \subseteq objects

(* An object without a row is either in the middle of an upload or of a    *)
(* delete, or what a deleted note left behind (its rows cascade, its       *)
(* objects stay): nothing else leaks storage when only queries fail.       *)
OrphansExplained ==
    \A a \in objects \ attachments :
        \/ At(a, "insert") \/ Undoing(a)
        \/ \E d \in Requests : Deletes(d, a) /\ pc[d] = "remove"
        \/ NoteOf(a) \notin notes

(* A download is cut short only when the attachment was deleted after its  *)
(* row had been read.                                                      *)
TornOnlyIfDeleted ==
    \A r \in Requests : status[r] = "truncated" => call[r].att \notin attachments

(* An upload that was refused or failed leaves neither a row nor an object.*)
FailedUploadLeavesNoTrace ==
    \A r \in Requests :
        IsUpload(r) /\ Answered(r) /\ status[r] # "201" =>
            r \notin attachments \cup objects

(* Uploads between their quota check and their insert hold a connection,   *)
(* so at most PoolLimit of them pass on the same total: a note exceeds its *)
(* limit by at most PoolLimit - 1 files of the largest size.               *)
OvershootBounded ==
    \A n \in Notes : UsedBytes(n) =< MaxTotal + (PoolLimit - 1) * MaxFile

(* What the API promises of the limit: "the combined attachment size for   *)
(* the note must not exceed ... bytes".                                    *)
QuotaRespected == \A n \in Notes : UsedBytes(n) =< MaxTotal

(* What clients see of a request's stage, when nothing fails once a commit *)
(* took effect: an upload is stored by its insert and not before.          *)
PhaseOf(stage) ==
    CASE stage = "idle"               -> "away"
      [] stage \in {"drop", "stream"} -> "found"
      [] stage = "refresh"            -> "stored"
      [] stage \in {"undo", "undo_unpooled"} -> "undoing"
      [] stage = "remove"             -> "retired"
      [] stage = "done"               -> "over"
      [] OTHER                        -> "open"

Store == INSTANCE AttachmentStore WITH
    shelf    <- attachments,
    phase    <- [r \in Requests |-> PhaseOf(pc[r])],
    answer   <- status,
    Refusals <- {"400", "404", "413", "500"}

(* Two stores, an undo and a lazily opened stream behave like one store    *)
(* that holds an attachment whole or not at all, and no failed upload is   *)
(* ever seen (upload_attachment, download_attachment, delete_attachment).  *)
OneStore == Store!StoreSpec

(* Every request that is accepted is answered: a request that gives its    *)
(* connection back before it needs another one cannot be starved by the    *)
(* requests that hold theirs.                                              *)
AllAnswered == \A r \in Requests : InFlight(r) ~> Answered(r)
=============================================================================
