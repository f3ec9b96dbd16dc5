---------------------------- MODULE AttachmentStore ----------------------------
(***************************************************************************)
(* What attachments promise their clients, as if there were one store: an  *)
(* attachment is on the shelf with its content or not there at all.  The   *)
(* bucket, the order in which row and object are written, the undo and the *)
(* streaming of app/services/attachment.py do not appear: Attachments      *)
(* implements this module as long as nothing fails after a commit.         *)
(***************************************************************************)
CONSTANTS
    Requests, Notes,
    Owner,       \* the owner of each note
    Workload,    \* the calls each request may make
    Refusals     \* the answers of requests that were refused or failed

VARIABLES
    notes,   \* the notes there are
    shelf,   \* the attachments there are, named by their uploads
    call,    \* what each request asks
    phase,   \* "away", "open", then "found", "stored", "undoing" or
             \* "retired", and "over"
    answer   \* what its client was told, "none" so far

storeVars == <<notes, shelf, call, phase, answer>>

Attached(n) == {a \in shelf : call[a].note = n}
Mine(r)     == Owner[call[r].note] = call[r].user
Asks(r, op) == call[r].op = op

Reach(r, p) == phase' = [phase EXCEPT ![r] = p] /\ UNCHANGED <<call, answer>>

Tell(r, code) ==
    /\ phase' = [phase EXCEPT ![r] = "over"]
    /\ answer' = [answer EXCEPT ![r] = code]
    /\ UNCHANGED call

StoreInit ==
    /\ notes = Notes
    /\ shelf = {}
    /\ call = [r \in Requests |-> [op |-> "none"]]
    /\ phase = [r \in Requests |-> "away"]
    /\ answer = [r \in Requests |-> "none"]

Ask(r) ==
    /\ phase[r] = "away"
    /\ \E c \in Workload[r] : call' = [call EXCEPT ![r] = c]
    /\ phase' = [phase EXCEPT ![r] = "open"]
    /\ UNCHANGED <<notes, shelf, answer>>

(* An attachment is found on the shelf, among those of the note that is    *)
(* named, by the owner of that note, before it is served or removed.       *)
Find(r) ==
    /\ phase[r] = "open"
    /\ Asks(r, "delete") \/ Asks(r, "download")
    /\ Mine(r)
    /\ call[r].att \in Attached(call[r].note)
    /\ Reach(r, "found")
    /\ UNCHANGED <<notes, shelf>>

(* The effects: each is one change of the shelf, made for the owner of a   *)
(* note that is there, and an upload appears at most once.                 *)
Shelve(r) ==
    /\ phase[r] = "open"
    /\ Asks(r, "upload")
    /\ Mine(r) /\ call[r].note \in notes
    /\ shelf' = shelf \cup {r}
    /\ UNCHANGED notes

Unshelve(r) ==
    /\ phase[r] = "found"
    /\ Asks(r, "delete")
    /\ shelf' = shelf \ {call[r].att}
    /\ UNCHANGED notes

Clear(r) ==
    /\ phase[r] = "open"
    /\ Asks(r, "delete_note")
    /\ Mine(r)
    /\ notes' = notes \ {call[r].note}
    /\ shelf' = shelf \ Attached(call[r].note)

Unchanged == UNCHANGED <<notes, shelf>>

Publish(r) == Shelve(r) /\ Reach(r, "stored")
Retire(r)  == Unshelve(r) /\ Reach(r, "retired")
Wipe(r)    == Clear(r) /\ Tell(r, "204")

(* An upload is told "201" while it is on the shelf; it gives up only when *)
(* it is not, because it never came there or somebody removed it.          *)
Acknowledge(r) ==
    phase[r] = "stored" /\ r \in shelf /\ Tell(r, "201") /\ Unchanged

GiveUp(r) ==
    /\ Asks(r, "upload") /\ phase[r] \in {"open", "stored"} /\ r \notin shelf
    /\ Reach(r, "undoing")
    /\ Unchanged

Gone(r) ==
    /\ phase[r] = "retired" /\ call[r].att \notin shelf
    /\ Tell(r, "204")
    /\ Unchanged

(* A download of what was found is served whole while no delete of it has  *)
(* been answered, or cut short if it has gone since.                       *)
Serve(r) ==
    /\ phase[r] = "found" /\ Asks(r, "download")
    /\ \A d \in Requests :
          Asks(d, "delete") /\ answer[d] = "204" => call[d].att # call[r].att
    /\ Tell(r, "200")
    /\ Unchanged

Tear(r) ==
    /\ phase[r] = "found" /\ Asks(r, "download") /\ call[r].att \notin shelf
    /\ Tell(r, "truncated")
    /\ Unchanged

(* A refusal or an error leaves nothing of an upload.                      *)
Refuse(r) ==
    /\ phase[r] \in {"open", "found", "undoing"} /\ r \notin shelf
    /\ \E code \in Refusals : Tell(r, code)
    /\ Unchanged

(* A request that is lost has had its effect or not; nobody is told.       *)
Lose(r) ==
    /\ phase[r] \notin {"away", "over"}
    /\ Shelve(r) \/ Unshelve(r) \/ Clear(r) \/ Unchanged
    /\ Tell(r, "lost")

StoreNext == \E r \in Requests :
    \/ Ask(r) \/ Find(r) \/ Publish(r) \/ Retire(r) \/ Wipe(r) \/ Acknowledge(r)
    \/ GiveUp(r) \/ Gone(r) \/ Serve(r) \/ Tear(r) \/ Refuse(r) \/ Lose(r)

StoreSpec == StoreInit /\ [][StoreNext]_storeVars
=============================================================================
