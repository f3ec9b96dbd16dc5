------------------------------- MODULE MCNotes -------------------------------
(* Instance of Notes for TLC: ann has the folder x with y in it and a note *)
(* m in x, bob a folder w with a note k.  A tree is deleted while folders  *)
(* are moved, and notes created, updated, moved and deleted, in it.        *)
EXTENDS Notes, TLC

CONSTANTS ann, bob, x, y, w, m, k, r1, r2, q1, q2

MCFolderOf(owner, parent, name) ==
    [owner |-> owner, parent |-> parent, name |-> name]
MCNoteOf(owner, folder, title) ==
    [owner |-> owner, folder |-> folder, title |-> title]

MCInitial ==
    (x :> MCFolderOf(ann, Null, "a")) @@ (y :> MCFolderOf(ann, x, "b")) @@
    (w :> MCFolderOf(bob, Null, "a"))

MCNotes == (m :> MCNoteOf(ann, x, "s")) @@ (k :> MCNoteOf(bob, w, "s"))

MCWorkload ==
    (r1 :> [op : {"delete"}, user : {ann}, target : {x}]) @@
    (r2 :> [op : {"update"}, user : {ann}, target : {y}, name : {Unset},
            parent : {Null}]
           \cup [op : {"create"}, user : {ann}, name : {"d"}, parent : {x}]
           \cup [op : {"delete"}, user : {bob}, target : {w}])

MCNoteWorkload ==
    (q1 :> [op : {"create"}, user : {ann}, folder : {y, r2, w, Null},
            title : {"t"}]
           \cup [op : {"update"}, user : {ann}, note : {m}, folder : {Unset},
                 title : {"t", Null, Unset}]
           \cup [op : {"update"}, user : {ann}, note : {m}, folder : {y},
                 title : {"s"}]) @@
    (q2 :> [op : {"update"}, user : {ann}, note : {m, q1}, folder : {Null},
            title : {Unset}]
           \cup [op : {"update"}, user : {ann}, note : {m}, folder : {Unset},
                 title : {"u"}]
           \cup [op : {"delete"}, user : {ann, bob}, note : {q1}]
           \cup [op : {"get"}, user : {ann}, note : {m}])
=============================================================================
