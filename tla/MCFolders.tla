------------------------------ MODULE MCFolders ------------------------------
(* Instances of Folders for TLC: ann has the folder x with y in it, and z  *)
(* at the top; bob has a folder w.  Requests name these folders, and the   *)
(* ones that other requests create.                                        *)
EXTENDS Folders, TLC

CONSTANTS ann, bob, x, y, z, w, r1, r2, r3

MCFoldersOf(owner, parent, name) ==
    [owner |-> owner, parent |-> parent, name |-> name]

MCInitial ==
    (x :> MCFoldersOf(ann, Null, "a")) @@ (y :> MCFoldersOf(ann, x, "b")) @@
    (z :> MCFoldersOf(ann, Null, "c")) @@ (w :> MCFoldersOf(bob, Null, "a"))

Create(users, names, parents) ==
    [op : {"create"}, user : users, name : names, parent : parents]
Update(users, targets, names, parents) ==
    [op : {"update"}, user : users, target : targets, name : names,
     parent : parents]
Delete(users, targets) ==
    [op : {"delete"}, user : users, target : targets]

(* One request moves folders; the others create, rename and delete.        *)
OneMoverWorkload ==
    (r1 :> Update({ann}, {x, y}, {"c", Unset}, {Null, y, z, r2, w})) @@
    (r2 :> Create({ann}, {"d"}, {x, y, z})
           \cup Update({ann}, {x}, {"c", "d", Null}, {Unset})
           \cup Delete({ann}, {x, z})) @@
    (r3 :> Create({bob}, {"d"}, {z, w})
           \cup Create({ann}, {"d"}, {y, r2})
           \cup Delete({bob}, {w}))

(* Everything at once: two movers, creations under what others create,     *)
(* and a delete of a tree that changes while it is read.                   *)
RaceWorkload ==
    (r1 :> Update({ann}, {x, y, z}, {"a", Unset}, {Null, x, y, z, r2})
           \cup Create({ann}, {"d"}, {Null, x})) @@
    (r2 :> Update({ann}, {x, y, z}, {Unset}, {Null, x, y, z, w})
           \cup Update({bob}, {x, w}, {Unset}, {Null, w, x})
           \cup Create({ann}, {"d"}, {Null, x, z})
           \cup Create({ann}, {"long"}, {x})
           \cup Update({ann}, {y}, {Null}, {z})) @@
    (r3 :> Update({ann}, {z, r1}, {"d"}, {Null, x})
           \cup Delete({ann, bob}, {x, y, z, r1}))

(* z is moved under y while y is moved to the top and x under y.           *)
StaleWorkload ==
    (r1 :> Update({ann}, {z}, {Unset}, {y})) @@
    (r2 :> Update({ann}, {y}, {"b"}, {Null})) @@
    (r3 :> Update({ann}, {x}, {Unset}, {y}))
=============================================================================
