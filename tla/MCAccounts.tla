----------------------------- MODULE MCAccounts -----------------------------
(* Instance of Accounts for TLC: one account with both its tokens.  Two    *)
(* registrations race for an e-mail while the account is used, changed,    *)
(* deactivated and deleted, with tokens that expire meanwhile.             *)
EXTENDS Accounts, TLC

CONSTANTS ann, r1, r2, r3

MCUsers == ann :> [email |-> "e", password |-> "p", active |-> TRUE]

MCTokens == {[sub |-> ann, type |-> "access", exp |-> AccessLife],
             [sub |-> ann, type |-> "refresh", exp |-> RefreshLife]}

MCWorkload ==
    (r1 :> [op : {"register"}, email : {"e", "f"}, password : {"p"}]
           \cup [op : {"change"}, account : {ann}, old : {"p"}, new : {"p", "q"}]
           \cup [op : {"row"}, account : {ann}]) @@
    (r2 :> [op : {"register"}, email : {"f"}, password : {"p"}]
           \cup [op : {"change"}, account : {ann}, old : {"p", "q"}, new : {"p", "s"}]
           \cup [op : {"login"}, email : {"e", "f"}, password : {"p", "q"}]
           \cup [op : {"renew", "profile"}, account : {ann, r1}]) @@
    (r3 :> [op : {"delete"}, account : {ann, r1, r2}]
           \cup [op : {"row"}, account : {r1}]
           \cup [op : {"renew"}, account : {ann}])
=============================================================================
