---------------------------- MODULE MCAttachments ----------------------------
(* Instances of Attachments for TLC: two users with a note each, uploads   *)
(* that compete for one note's quota, and requests that delete, download   *)
(* or remove the note while they run.                                      *)
EXTENDS Attachments, TLC

CONSTANTS ann, bob, n1, n2, r1, r2, r3, r4

MCOwner == (n1 :> ann) @@ (n2 :> bob)

File(declared, detected, size) ==
    [declared |-> declared, detected |-> detected, size |-> size]

Good == File("image/png", "image/png", 2)
Small == File("image/png", "image/png", 1)
BadFiles == {File("text/html", "none", 1), File("image/png", "image/png", 3),
             File("image/png", "application/pdf", 1)}

MCTypes == {"image/png", "image/jpeg", "application/pdf"}
MCFiles == BadFiles \cup {Good, Small}

UploadOf(u, n, S) == [op : {"upload"}, user : {u}, note : {n}, file : S]

AttCalls(ops, us, ns, as) ==
    [op : ops, user : us, note : ns, att : as]

DeleteNote(u, n) == [op |-> "delete_note", user |-> u, note |-> n]

(* Every way to fail: two uploads, a delete or download through either     *)
(* note by either user, and a second delete or the deletion of the note.   *)
FaultsWorkload ==
    (r1 :> UploadOf(ann, n1, {Good} \cup BadFiles)) @@
    (r2 :> UploadOf(ann, n1, {Good}) \cup UploadOf(ann, n2, {Good})
           \cup AttCalls({"delete"}, {ann}, {n1}, {r1})) @@
    (r3 :> AttCalls({"delete", "download"}, {ann, bob}, {n1, n2}, {r1})) @@
    (r4 :> {DeleteNote(ann, n1)} \cup AttCalls({"delete"}, {ann}, {n1}, {r1}))

(* Three uploads race for the quota of one note.                           *)
QuotaWorkload ==
    (r1 :> UploadOf(ann, n1, {Good})) @@
    (r2 :> UploadOf(ann, n1, {Good, Small})) @@
    (r3 :> UploadOf(ann, n1, {Good})
           \cup AttCalls({"delete"}, {ann}, {n1}, {r1})) @@
    (r4 :> {DeleteNote(ann, n1)}
           \cup AttCalls({"delete", "download"}, {ann}, {n1}, {r1}))
=============================================================================
