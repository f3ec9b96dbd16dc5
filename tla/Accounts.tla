------------------------------ MODULE Accounts ------------------------------
(***************************************************************************)
(* AuthService and UserService over the users table: registration, login,  *)
(* renewal of tokens, and the profile, change of password and deletion of  *)
(* the account a token stands for (app/services/auth.py,                   *)
(* app/services/user.py, app/repositories/user.py, app/core/security.py).  *)
(*                                                                         *)
(* Tokens are signed and not stored: what has been issued is valid until   *)
(* it expires, whatever becomes of its account.  A handler that has        *)
(* authenticated its user works on with the account its session loaded,    *)
(* while other requests change its password or delete it.                  *)
(*                                                                         *)
(* A registered account, and a folder or note put at the top level, is     *)
(* named by its request.  Passwords stand for themselves: a hash is        *)
(* verified by the password it was made from and by no other.              *)
(***************************************************************************)
EXTENDS Sessions

CONSTANTS
    Emails, Passwords,
    AccountSeeds,       \* the accounts there are at the start
    InitialUsers,       \* their rows
    InitialTokens,      \* the tokens issued before the start
    AccessLife,         \* access_token_expire_minutes
    RefreshLife,        \* refresh_token_expire_days
    Horizon,            \* bound of the clock
    Null,
    AccountWorkload     \* the calls each request may make

AccountIds == AccountSeeds \cup Requests

UserRow == [email : Emails, password : Passwords, active : BOOLEAN]
NoUser  == [email |-> Null, password |-> Null, active |-> FALSE]

Life == [access |-> AccessLife, refresh |-> RefreshLife]

Tokens == [sub : AccountIds, type : {"access", "refresh"},
           exp : 0 .. (Horizon + AccessLife + RefreshLife)]

Credentials  == [op : {"register", "login"}, email : Emails, password : Passwords]
OnAccount    == [op : {"renew", "profile", "delete", "row"}, account : AccountIds]
ChangeCall   == [op : {"change"}, account : AccountIds, old : Passwords, new : Passwords]
AccountCalls == Credentials \cup OnAccount \cup ChangeCall

ASSUME AccountsAssumption ==
    /\ AccountSeeds \cap Requests = {}
    /\ Null \notin AccountIds \cup Emails \cup Passwords
    /\ AccessLife \in Nat /\ RefreshLife \in Nat /\ Horizon \in Nat
    /\ InitialUsers \in [AccountSeeds -> UserRow]
    /\ \A a, b \in AccountSeeds :
          InitialUsers[a].email = InitialUsers[b].email => a = b
    /\ InitialTokens \subseteq Tokens
    /\ \A t \in InitialTokens : t.sub \in AccountSeeds
    /\ AccountWorkload \in [Requests -> SUBSET AccountCalls]

VARIABLES
    users,      \* the table: a row or NoUser for every identifier
    rows,       \* the account a request's folder or note belongs to, or Null
    issued,     \* every token ever issued
    now,        \* the clock tokens expire by
    loaded,     \* the account each session holds
    reach       \* the rows a deletion has loaded with its account

accountVars == <<users, rows, issued, now, loaded, reach, call, pc, status>>

(* Variant: the commit keeps the connection while refresh asks for one.    *)
AccountHoldingThroughCommit == {"insert", "again", "update", "expand", "remove", "row",
                                "refresh", "mail"}

(* Held between the first statement and the commit or the answer, and      *)
(* while the welcome mail is sent: the session is closed after it.         *)
AccountHolding == {"insert", "again", "update", "expand", "remove", "row", "mail"}
AccountStages  == AccountHolding
                      \cup {"idle", "email", "login", "renew", "user", "refresh", "done"}

AccountsInit ==
    /\ users = [a \in AccountIds |-> IF a \in AccountSeeds THEN InitialUsers[a] ELSE NoUser]
    /\ rows = [r \in Requests |-> Null]
    /\ issued = InitialTokens
    /\ now = 0
    /\ loaded = [r \in Requests |-> NoUser]
    /\ reach = [r \in Requests |-> {}]
    /\ SessionsInit

Registered(a) == users[a] # NoUser

WithEmail(e) == {a \in AccountIds : Registered(a) /\ users[a].email = e}

Pair(a) == {[sub |-> a, type |-> ty, exp |-> now + Life[ty]] : ty \in {"access", "refresh"}}

(* _generate_tokens and the answer, with no await in between.              *)
Issue(r, a, code, stage) ==
    /\ issued' = issued \cup Pair(a)
    /\ status' = [status EXCEPT ![r] = code]
    /\ pc' = [pc EXCEPT ![r] = stage]
    /\ UNCHANGED call

(* An answer that touches nothing but the session.                         *)
Reply(r, code) == Respond(r, code) /\ UNCHANGED <<users, rows, issued, now, loaded, reach>>

Continue(r, stage) == Goto(r, stage) /\ UNCHANGED <<users, rows, issued, now, reach>>

Ready(r, stage) == At(r, stage) /\ ConnectionFree(AccountHolding)

-----------------------------------------------------------------------------
(* decode_token runs before the first statement and checks the expiry,     *)
(* then the type.                                                          *)
Accepted(t, op) ==
    /\ now < t.exp
    /\ t.type = IF op = "renew" THEN "refresh" ELSE "access"

TokenRefusal(t) == IF now < t.exp THEN StatusOf.InvalidToken ELSE StatusOf.TokenExpired

Come(r) ==
    /\ At(r, "idle")
    /\ \E c \in AccountWorkload[r] \cap Credentials :
          Enter(r, c, IF c.op = "register" THEN "email" ELSE "login")
    /\ UNCHANGED <<users, rows, issued, now, loaded, reach>>

ComeWithToken(r) ==
    /\ At(r, "idle")
    /\ \E c \in AccountWorkload[r] \ Credentials, t \in issued :
          /\ t.sub = c.account
          /\ Accepted(t, c.op)
          /\ Enter(r, c, IF c.op = "renew" THEN "renew" ELSE "user")
    /\ UNCHANGED <<users, rows, issued, now, loaded, reach>>

RefuseToken(r) ==
    /\ At(r, "idle")
    /\ \E c \in AccountWorkload[r] \ Credentials, t \in issued :
          /\ t.sub = c.account
          /\ ~Accepted(t, c.op)
          /\ call' = [call EXCEPT ![r] = c]
          /\ status' = [status EXCEPT ![r] = TokenRefusal(t)]
    /\ pc' = [pc EXCEPT ![r] = "done"]
    /\ UNCHANGED <<users, rows, issued, now, loaded, reach>>

-----------------------------------------------------------------------------
(* register: the e-mail is looked up, the password hashed, the account     *)
(* inserted under the unique index, read again and given its tokens.       *)
EmailTaken(r) ==
    /\ Ready(r, "email")
    /\ WithEmail(call[r].email) # {}
    /\ Reply(r, StatusOf.UserAlreadyExists)

EmailFree(r) ==
    /\ Ready(r, "email")
    /\ WithEmail(call[r].email) = {}
    /\ Continue(r, "insert")
    /\ UNCHANGED loaded

(* Variant: the column has no unique index.                                *)
NoUniqueIndex(r) == FALSE

EmailClash(r) == WithEmail(call[r].email) # {}

NewUser(r) == [email |-> call[r].email, password |-> call[r].password, active |-> TRUE]

InsertClash(r) ==
    /\ At(r, "insert")
    /\ EmailClash(r)
    /\ Reply(r, StatusOf.Unhandled)

(* Variant: a row with the same e-mail is replaced.                        *)
InsertOrReplace(r) ==
    /\ At(r, "insert")
    /\ users' = [a \in AccountIds |->
                    IF a = r THEN NewUser(r)
                    ELSE IF a \in WithEmail(call[r].email) THEN NoUser ELSE users[a]]
    /\ Goto(r, "refresh")
    /\ UNCHANGED <<rows, issued, now, loaded, reach>>

InsertUser(r) ==
    /\ At(r, "insert")
    /\ ~EmailClash(r)
    /\ users' = [users EXCEPT ![r] = NewUser(r)]
    /\ Goto(r, "refresh")
    /\ UNCHANGED <<rows, issued, now, loaded, reach>>

(* Variant: the tokens are made without reading the account again.         *)
TokensAtOnce(r) ==
    /\ Ready(r, "refresh")
    /\ call[r].op = "register"
    /\ Issue(r, r, "201", "mail")
    /\ UNCHANGED <<users, rows, now, loaded, reach>>

RefreshUser(r) ==
    /\ Ready(r, "refresh")
    /\ call[r].op = "register"
    /\ Registered(r)
    /\ Issue(r, r, "201", "mail")
    /\ UNCHANGED <<users, rows, now, loaded, reach>>

(* The welcome mail is a task in the background of the answer: whether the *)
(* server takes it or not, the session is closed when it has ended.        *)
MailEnds(r) ==
    /\ At(r, "mail")
    /\ Goto(r, "done")
    /\ UNCHANGED <<users, rows, issued, now, loaded, reach>>

(* authenticate_user verifies the password, then looks at is_active.       *)
LoginMatches(r) == {a \in WithEmail(call[r].email) : users[a].password = call[r].password}

LoginRefused(r) ==
    /\ Ready(r, "login")
    /\ \A a \in LoginMatches(r) : ~users[a].active
    /\ Reply(r, IF LoginMatches(r) = {} THEN StatusOf.InvalidCredentials
                                        ELSE StatusOf.UserInactive)

Login(r) ==
    /\ Ready(r, "login")
    /\ \E a \in LoginMatches(r) : users[a].active /\ Issue(r, a, "200", "done")
    /\ UNCHANGED <<users, rows, now, loaded, reach>>

-----------------------------------------------------------------------------
(* The account a token stands for: by get_user_by_id, then is_active.      *)
Usable(a) == Registered(a) /\ users[a].active

UserRefused(r) ==
    /\ Ready(r, "renew") \/ Ready(r, "user")
    /\ ~Usable(call[r].account)
    /\ Reply(r, IF Registered(call[r].account) THEN StatusOf.UserInactive
                                               ELSE StatusOf.UserNotFound)

Renew(r) ==
    /\ Ready(r, "renew")
    /\ Usable(call[r].account)
    /\ Issue(r, call[r].account, "200", "done")
    /\ UNCHANGED <<users, rows, now, loaded, reach>>

(* Variant: the passwords of a change may be equal.                        *)
AnyPasswords(c) == FALSE

(* ChangePasswordRequest; the body is refused once the user is known.      *)
SamePasswords(c) == c.op = "change" /\ c.old = c.new

Authenticated(r) ==
    /\ Ready(r, "user")
    /\ Usable(call[r].account)
    /\ IF call[r].op = "profile" \/ SamePasswords(call[r])
         THEN Reply(r, IF call[r].op = "profile" THEN "200" ELSE StatusOf.Validation)
         ELSE /\ loaded' = [loaded EXCEPT ![r] = users[call[r].account]]
              /\ Continue(r, IF call[r].op = "row" THEN "row" ELSE "again")

(* The service selects the user again and gets the object the session      *)
(* holds, with the columns it had at authentication.                       *)
UserGone(r) ==
    /\ At(r, "again")
    /\ ~Registered(call[r].account)
    /\ Reply(r, StatusOf.UserNotFound)

WrongPassword(r) ==
    /\ At(r, "again")
    /\ Registered(call[r].account)
    /\ call[r].op = "change"
    /\ loaded[r].password # call[r].old
    /\ Reply(r, StatusOf.InvalidPassword)

UserAgain(r) ==
    /\ At(r, "again")
    /\ Registered(call[r].account)
    /\ call[r].op = "change" => loaded[r].password = call[r].old
    /\ Continue(r, IF call[r].op = "delete" THEN "expand" ELSE "update")
    /\ UNCHANGED loaded

-----------------------------------------------------------------------------
(* Variant: an update that matches no row is let through.                  *)
NeverStale(r) == FALSE

(* The update of an account that is gone raises StaleDataError.            *)
Stale(r) == ~Registered(call[r].account)

(* Variant: the whole loaded row is written.                               *)
WholeRow(r) == [loaded[r] EXCEPT !.password = call[r].new]

(* Only the changed column is written.                                     *)
ChangedRow(r) == [users[call[r].account] EXCEPT !.password = call[r].new]

UpdateStale(r) ==
    /\ At(r, "update")
    /\ Stale(r)
    /\ Reply(r, StatusOf.Unhandled)

UpdatePassword(r) ==
    /\ At(r, "update")
    /\ ~Stale(r)
    /\ users' = [users EXCEPT ![call[r].account] = ChangedRow(r)]
    /\ Goto(r, "refresh")
    /\ UNCHANGED <<rows, issued, now, loaded, reach>>

RowsOf(a) == {q \in Requests : rows[q] = a}

(* session.delete(user) loads User.folders and User.notes, and the flush   *)
(* deletes them and the user by primary key; user_id cascades to the rest. *)
LoadRows(r) ==
    /\ At(r, "expand")
    /\ reach' = [reach EXCEPT ![r] = RowsOf(call[r].account)]
    /\ Goto(r, "remove")
    /\ UNCHANGED <<users, rows, issued, now, loaded>>

(* Variant: the foreign keys do not cascade.                               *)
LoadedOnly(r) == reach[r]

Removed(r) == reach[r] \cup RowsOf(call[r].account)

RemoveUser(r) ==
    /\ At(r, "remove")
    /\ users' = [users EXCEPT ![call[r].account] = NoUser]
    /\ rows' = [q \in Requests |-> IF q \in Removed(r) THEN Null ELSE rows[q]]
    /\ Respond(r, "204")
    /\ UNCHANGED <<issued, now, loaded, reach>>

(* A folder or note at the top level: only the foreign key on user_id      *)
(* stands between it and an account that is gone.                          *)
InsertRow(r) ==
    /\ At(r, "row")
    /\ Registered(call[r].account)
    /\ rows' = [rows EXCEPT ![r] = call[r].account]
    /\ Goto(r, "refresh")
    /\ UNCHANGED <<users, issued, now, loaded, reach>>

InsertRowRejected(r) ==
    /\ At(r, "row")
    /\ ~Registered(call[r].account)
    /\ Reply(r, StatusOf.Unhandled)

(* refresh selects what was written, on a new connection.                  *)
Vanished(r) ==
    CASE call[r].op = "register" -> ~Registered(r)
      [] call[r].op = "change"   -> ~Registered(call[r].account)
      [] call[r].op = "row"      -> rows[r] = Null

RefreshFails(r) ==
    /\ Ready(r, "refresh")
    /\ Vanished(r)
    /\ Reply(r, StatusOf.Unhandled)

RefreshWritten(r) ==
    /\ Ready(r, "refresh")
    /\ call[r].op # "register"
    /\ ~Vanished(r)
    /\ Reply(r, IF call[r].op = "change" THEN "204" ELSE "201")

-----------------------------------------------------------------------------
(* No code sets is_active to false: an operator does, in the database.     *)
Deactivate(a) ==
    /\ Usable(a)
    /\ users' = [users EXCEPT ![a].active = FALSE]
    /\ UNCHANGED <<rows, issued, now, loaded, reach, sessionVars>>

Tick ==
    /\ now < Horizon
    /\ now' = now + 1
    /\ UNCHANGED <<users, rows, issued, loaded, reach, sessionVars>>

RegisterStep(r) == \/ EmailTaken(r) \/ EmailFree(r) \/ InsertClash(r) \/ InsertUser(r)
                   \/ RefreshUser(r) \/ MailEnds(r)
TokenStep(r)    == LoginRefused(r) \/ Login(r) \/ UserRefused(r) \/ Renew(r)
UserStep(r)     == \/ Authenticated(r) \/ UserGone(r) \/ WrongPassword(r) \/ UserAgain(r)
                   \/ UpdateStale(r) \/ UpdatePassword(r) \/ LoadRows(r) \/ RemoveUser(r)
RowStep(r)      == \/ InsertRow(r) \/ InsertRowRejected(r) \/ RefreshFails(r)
                   \/ RefreshWritten(r)

AccountStep(r) == RegisterStep(r) \/ TokenStep(r) \/ UserStep(r) \/ RowStep(r)

AccountRequest(r) == Come(r) \/ ComeWithToken(r) \/ RefuseToken(r) \/ AccountStep(r)

AccountsNext ==
    \/ \E r \in Requests : AccountRequest(r)
    \/ \E a \in AccountIds : Deactivate(a)
    \/ Tick

AccountsSpec == AccountsInit /\ [][AccountsNext]_accountVars

(* The event loop runs every ready task; the database and the mail server  *)
(* answer or break the connection.                                         *)
AccountsFairness == WF_accountVars(\E r \in Requests : AccountStep(r))

AccountsFairSpec == AccountsSpec /\ AccountsFairness

-----------------------------------------------------------------------------
(* The tables, the tokens and the sessions keep their types.               *)
AccountsTypeOK ==
    /\ users \in [AccountIds -> UserRow \cup {NoUser}]
    /\ rows \in [Requests -> AccountIds \cup {Null}]
    /\ issued \subseteq Tokens
    /\ now \in 0 .. Horizon
    /\ loaded \in [Requests -> UserRow \cup {NoUser}]
    /\ reach \in [Requests -> SUBSET Requests]
    /\ call \in [Requests -> AccountCalls \cup {NoCall}]
    /\ pc \in [Requests -> AccountStages]
    /\ status \in [Requests -> Statuses]

(* An e-mail names one account, whichever registrations race for it        *)
(* between their look-ups and their inserts.                               *)
UniqueEmails ==
    \A a, b \in AccountIds :
        /\ Registered(a) /\ Registered(b)
        /\ users[a].email = users[b].email
        => a = b

Deleted(a) ==
    \E r \in Requests :
        call[r].op = "delete" /\ call[r].account = a /\ status[r] = "204"

(* A registration that was acknowledged is not lost to a later one for     *)
(* the same e-mail: the account is there until it is deleted by a request  *)
(* that holds its tokens.                                                  *)
RegistrationKept ==
    \A r \in Requests :
        call[r].op = "register" /\ status[r] = "201" => Registered(r) \/ Deleted(r)

ChangesTo(r, a, p) ==
    /\ call[r].op = "change" /\ call[r].account = a /\ call[r].new = p
    /\ pc[r] \in {"refresh", "done"}
    /\ status[r] \in {"none", "204"}

(* Once a change of password is acknowledged the password it replaced no   *)
(* longer opens the account, although concurrent changes verify against    *)
(* what they have loaded: only another change can set it again.            *)
OldPasswordDead ==
    \A r \in Requests :
        call[r].op = "change" /\ status[r] = "204" =>
            \/ users[call[r].account].password # call[r].old
            \/ \E q \in Requests \ {r} : ChangesTo(q, call[r].account, call[r].old)

(* The folders and notes of an account that is deleted go with it, those   *)
(* created by requests that were authenticated before the deletion and     *)
(* inserted while it ran included.                                         *)
RowsHaveOwner == \A r \in Requests : rows[r] # Null => Registered(rows[r])

(* New tokens are for an account that exists when they are made and that   *)
(* is active, but for the first ones, which its registration makes without *)
(* looking: what an account leaves behind ends with its last token.        *)
TokensForLiveAccounts ==
    [][\A t \in issued' \ issued :
          /\ Registered(t.sub)
          /\ \/ users[t.sub].active
             \/ t.sub \in Requests /\ pc'[t.sub] # pc[t.sub]]_accountVars

(* An account that has been deactivated stays inactive: a change of        *)
(* password that loaded it before does not write back what it loaded.      *)
InactiveStays ==
    [][\A a \in AccountIds :
          Registered(a) /\ ~users[a].active => ~users'[a].active]_accountVars

(* Every request is answered and its session closed although all of them   *)
(* share the pool, some keep a connection while they send mail, and the    *)
(* accounts they work on are changed and deleted under them.               *)
AllAccountsAnswered == \A r \in Requests : InFlight(r) ~> Answered(r)

(* "... by providing the current password": the password a change replaces *)
(* is the one its user has provided.                                       *)
CurrentPasswordProvided ==
    [][\A r \in Requests :
          At(r, "update") /\ pc'[r] = "refresh" =>
              users[call[r].account].password = call[r].old]_accountVars
=============================================================================
