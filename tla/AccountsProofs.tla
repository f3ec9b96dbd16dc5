--------------------------- MODULE AccountsProofs ---------------------------
(* Theorems of Accounts, for every set of requests, every initial accounts *)
(* and tokens, every workload and every life of the tokens.                *)
EXTENDS Accounts, TLAPS

(* Each stage belongs to some kinds of call; a change of password that     *)
(* comes to its account has two different passwords.                       *)
AccountStageOfCall ==
    \A r \in Requests :
        /\ pc[r] \in {"email", "insert"} =>
              call[r] \in Credentials /\ call[r].op = "register"
        /\ pc[r] = "mail" => call[r] \in Credentials /\ call[r].op = "register"
        /\ pc[r] = "login" => call[r] \in Credentials
        /\ pc[r] = "renew" => call[r] \in OnAccount
        /\ pc[r] = "user" => /\ call[r] \in OnAccount \cup ChangeCall
                             /\ call[r].op # "renew"
        /\ pc[r] = "again" => /\ call[r] \in OnAccount \cup ChangeCall
                              /\ call[r].op \in {"delete", "change"}
        /\ pc[r] = "update" => call[r] \in ChangeCall
        /\ pc[r] \in {"expand", "remove"} =>
              call[r] \in OnAccount /\ call[r].op = "delete"
        /\ pc[r] = "row" => call[r] \in OnAccount /\ call[r].op = "row"
        /\ pc[r] = "refresh" =>
              \/ call[r] \in Credentials /\ call[r].op = "register"
              \/ call[r] \in ChangeCall
              \/ call[r] \in OnAccount /\ call[r].op = "row"
        /\ pc[r] \in {"again", "update", "refresh"} => ~SamePasswords(call[r])

AccountTypeInv == AccountsTypeOK /\ AccountStageOfCall

LEMMA AccountKinds ==
    ASSUME NEW c \in AccountCalls
    PROVE  /\ c \notin Credentials => c \in OnAccount \cup ChangeCall
           /\ c \in Credentials => c.op \in {"register", "login"}
           /\ c \in OnAccount => c.op \in {"renew", "profile", "delete", "row"}
           /\ c \in ChangeCall => c.op = "change"
           /\ c \in OnAccount \cup ChangeCall => c.account \in AccountIds
  BY DEF AccountCalls, Credentials, OnAccount, ChangeCall

LEMMA AccountTypeInit == AccountsInit => AccountTypeInv
  BY AccountsAssumption DEF AccountsInit, SessionsInit, AccountTypeInv, AccountsTypeOK,
     AccountStageOfCall, AccountStages, Statuses, AccountIds, NoUser, NoCall

(* New tokens have the types of the old ones.                              *)
LEMMA PairTypes == ASSUME AccountsTypeOK, NEW a \in AccountIds PROVE Pair(a) \subseteq Tokens
<1>1. ASSUME NEW ty \in {"access", "refresh"}
      PROVE  now + Life[ty] \in 0 .. (Horizon + AccessLife + RefreshLife)
  BY AccountsAssumption DEF AccountsTypeOK, Life
<1> QED BY <1>1 DEF Pair, Tokens

LEMMA AccountTypeStep ==
    AccountTypeInv /\ [AccountsNext]_accountVars => AccountTypeInv'
<1> SUFFICES ASSUME AccountTypeInv, [AccountsNext]_accountVars PROVE AccountTypeInv'
  OBVIOUS
<1> USE AccountsAssumption
<1> USE DEF AccountTypeInv, AccountsTypeOK, AccountStageOfCall, At, Ready,
        AccountStages, AccountHolding
<1>1. CASE UNCHANGED accountVars
  BY <1>1 DEF accountVars
<1>2. ASSUME NEW r \in Requests, NEW code \in Statuses, Reply(r, code)
      PROVE  AccountTypeInv'
  BY <1>2 DEF Reply, Respond
<1>3. ASSUME NEW r \in Requests, NEW a \in AccountIds, NEW code \in Statuses,
             NEW stage \in {"mail", "done"}, Issue(r, a, code, stage),
             stage = "mail" => call[r] \in Credentials /\ call[r].op = "register",
             UNCHANGED <<users, rows, now, loaded, reach>>
      PROVE  AccountTypeInv'
  <2>1. issued' \subseteq Tokens
    BY <1>3, PairTypes DEF Issue
  <2> QED BY <1>3, <2>1 DEF Issue
<1>4. ASSUME NEW r \in Requests, Come(r) PROVE AccountTypeInv'
  <2>1. PICK c \in AccountCalls \cap Credentials :
          Enter(r, c, IF c.op = "register" THEN "email" ELSE "login")
    BY <1>4 DEF Come
  <2> QED BY <1>4, <2>1 DEF Come, Enter
<1>5. ASSUME NEW r \in Requests, ComeWithToken(r) PROVE AccountTypeInv'
  <2>1. PICK c \in AccountCalls \ Credentials :
          Enter(r, c, IF c.op = "renew" THEN "renew" ELSE "user")
    BY <1>5 DEF ComeWithToken
  <2>2. c \in OnAccount \cup ChangeCall /\ c.op = "renew" => c \in OnAccount
    BY AccountKinds
  <2> QED BY <1>5, <2>1, <2>2, AccountKinds DEF ComeWithToken, Enter
<1>6. ASSUME NEW r \in Requests, RefuseToken(r) PROVE AccountTypeInv'
  <2>1. PICK c \in AccountCalls, t \in issued :
          /\ call' = [call EXCEPT ![r] = c]
          /\ status' = [status EXCEPT ![r] = TokenRefusal(t)]
    BY <1>6 DEF RefuseToken
  <2>2. TokenRefusal(t) \in Statuses
    BY DEF TokenRefusal, StatusOf, Statuses
  <2> QED BY <1>6, <2>1, <2>2 DEF RefuseToken
<1>7. ASSUME NEW r \in Requests, EmailFree(r) PROVE AccountTypeInv'
  BY <1>7 DEF EmailFree, Continue, Goto
<1>8. ASSUME NEW r \in Requests, InsertUser(r) PROVE AccountTypeInv'
  <2>1. NewUser(r) \in UserRow /\ r \in AccountIds
    BY <1>8 DEF InsertUser, NewUser, UserRow, Credentials, AccountIds
  <2>2. ~SamePasswords(call[r])
    BY <1>8 DEF InsertUser, SamePasswords
  <2> QED BY <1>8, <2>1, <2>2 DEF InsertUser, Goto
<1>9. ASSUME NEW r \in Requests, RefreshUser(r) \/ Login(r) \/ Renew(r)
      PROVE  AccountTypeInv'
  <2>1. CASE RefreshUser(r)
    <3>1. call[r] \in Credentials /\ call[r].op = "register"
      BY <2>1 DEF RefreshUser, OnAccount, ChangeCall
    <3> QED BY <2>1, <3>1, <1>3 DEF RefreshUser, AccountIds, Statuses
  <2>2. CASE Login(r)
    BY <2>2, <1>3 DEF Login, LoginMatches, WithEmail, Statuses
  <2>3. CASE Renew(r)
    BY <2>3, <1>3, AccountKinds DEF Renew, Statuses, AccountCalls
  <2> QED BY <1>9, <2>1, <2>2, <2>3
<1>10. ASSUME NEW r \in Requests, Authenticated(r) PROVE AccountTypeInv'
  <2>1. CASE call[r].op = "profile" \/ SamePasswords(call[r])
    BY <1>10, <2>1, <1>2 DEF Authenticated, StatusOf, Statuses
  <2>2. CASE ~(call[r].op = "profile" \/ SamePasswords(call[r]))
    <3>1. call[r] \in OnAccount \cup ChangeCall /\ call[r].account \in AccountIds
      BY <1>10 DEF Authenticated, OnAccount, ChangeCall
    <3>2. loaded' \in [Requests -> UserRow \cup {NoUser}]
      BY <1>10, <2>2, <3>1 DEF Authenticated
    <3>3. Continue(r, IF call[r].op = "row" THEN "row" ELSE "again")
      BY <1>10, <2>2 DEF Authenticated
    <3>4. call[r].op \in {"delete", "change", "row"}
          /\ (call[r].op = "row" => call[r] \in OnAccount)
      BY <1>10, <2>2, <3>1 DEF Authenticated, OnAccount, ChangeCall
    <3> QED BY <2>2, <3>1, <3>2, <3>3, <3>4 DEF Continue, Goto
  <2> QED BY <2>1, <2>2
<1>11. ASSUME NEW r \in Requests, UserAgain(r) PROVE AccountTypeInv'
  BY <1>11 DEF UserAgain, Continue, Goto, OnAccount, ChangeCall
<1>12. ASSUME NEW r \in Requests, UpdatePassword(r) PROVE AccountTypeInv'
  <2>1. ChangedRow(r) \in UserRow
    BY <1>12 DEF UpdatePassword, Stale, Registered, ChangedRow, UserRow, ChangeCall
  <2> QED BY <1>12, <2>1 DEF UpdatePassword, Goto
<1>13. ASSUME NEW r \in Requests, LoadRows(r) PROVE AccountTypeInv'
  BY <1>13 DEF LoadRows, RowsOf, Goto
<1>14. ASSUME NEW r \in Requests, RemoveUser(r) PROVE AccountTypeInv'
  BY <1>14 DEF RemoveUser, Respond, Statuses
<1>15. ASSUME NEW r \in Requests, InsertRow(r) PROVE AccountTypeInv'
  BY <1>15 DEF InsertRow, Goto, OnAccount, SamePasswords
<1>16. ASSUME NEW r \in Requests,
              \/ EmailTaken(r) \/ InsertClash(r) \/ LoginRefused(r) \/ UserRefused(r)
              \/ UserGone(r) \/ WrongPassword(r) \/ UpdateStale(r)
              \/ InsertRowRejected(r) \/ RefreshFails(r) \/ RefreshWritten(r)
       PROVE  AccountTypeInv'
  <2>1. \E code \in Statuses : Reply(r, code)
    BY <1>16 DEF EmailTaken, InsertClash, LoginRefused, UserRefused, UserGone,
       WrongPassword, UpdateStale, InsertRowRejected, RefreshFails, RefreshWritten,
       StatusOf, Statuses
  <2> QED BY <2>1, <1>2
<1>17. ASSUME NEW a \in AccountIds, Deactivate(a) PROVE AccountTypeInv'
  <2>1. users[a] \in UserRow
    BY <1>17 DEF Deactivate, Usable, Registered
  <2>2. [users[a] EXCEPT !.active = FALSE] \in UserRow
    BY ONLY <2>1 DEF UserRow
  <2>3. users' = [users EXCEPT ![a] = [users[a] EXCEPT !.active = FALSE]]
    BY <1>17 DEF Deactivate
  <2>4. users' \in [AccountIds -> UserRow \cup {NoUser}]
    BY <2>2, <2>3
  <2> QED BY <1>17, <2>4 DEF Deactivate, sessionVars
<1>18. CASE Tick
  BY <1>18 DEF Tick, sessionVars
<1>19. ASSUME NEW r \in Requests, MailEnds(r) PROVE AccountTypeInv'
  BY <1>19 DEF MailEnds, Goto
<1> QED
  BY <1>1, <1>4, <1>5, <1>6, <1>7, <1>8, <1>9, <1>10, <1>11, <1>12, <1>13, <1>14,
     <1>15, <1>16, <1>17, <1>18, <1>19
     DEF AccountsNext, AccountRequest, AccountStep, RegisterStep, TokenStep, UserStep,
     RowStep

(* The tables, the tokens and the sessions keep their types.               *)
THEOREM AccountsTypeCorrect == AccountsSpec => []AccountsTypeOK
<1>1. AccountTypeInv => AccountsTypeOK
  BY DEF AccountTypeInv
<1> QED BY AccountTypeInit, AccountTypeStep, <1>1, PTL DEF AccountsSpec

-----------------------------------------------------------------------------
(* The stages after a commit, which a request does not leave.              *)
Late == {"refresh", "mail", "done"}

(* A registered account exists only once its request has inserted it.      *)
AccountsWritten == \A r \in Requests : Registered(r) => pc[r] \in Late

(* An answered request is done, but for its mail.                          *)
Over == \A r \in Requests : status[r] # "none" => pc[r] \in {"mail", "done"}

AccountInv == /\ AccountTypeInv
              /\ AccountsWritten
              /\ Over
              /\ UniqueEmails
              /\ RowsHaveOwner

LEMMA AccountInit == AccountsInit => AccountInv
<1> SUFFICES ASSUME AccountsInit PROVE AccountInv
  OBVIOUS
<1>1. \A r \in Requests : ~Registered(r)
  BY AccountsAssumption DEF AccountsInit, Registered, AccountIds
<1>2. UniqueEmails
  BY AccountsAssumption, <1>1 DEF AccountsInit, UniqueEmails, AccountIds
<1>3. AccountsWritten /\ Over /\ RowsHaveOwner
  BY <1>1 DEF AccountsInit, SessionsInit, AccountsWritten, Over, RowsHaveOwner
<1> QED BY <1>2, <1>3, AccountTypeInit DEF AccountInv

(* A step of a request: it moves forward, and only four statements write.  *)
LEMMA OneAccountMoves ==
    ASSUME AccountTypeInv, NEW r \in Requests, AccountRequest(r)
    PROVE  /\ \A q \in Requests \ {r} :
                 pc'[q] = pc[q] /\ call'[q] = call[q] /\ status'[q] = status[q]
           /\ pc[r] # "done"
           /\ pc[r] # "idle" => call'[r] = call[r]
           /\ pc[r] \in Late => pc'[r] \in {"mail", "done"}
           /\ pc[r] = "mail" => pc'[r] = "done" /\ status'[r] = status[r]
           /\ status'[r] = status[r] \/ pc'[r] \in {"mail", "done"}
           /\ users' = users \/ InsertUser(r) \/ UpdatePassword(r) \/ RemoveUser(r)
           /\ rows' = rows \/ InsertRow(r) \/ RemoveUser(r)
<1> USE DEF AccountTypeInv, AccountsTypeOK, At, Ready, Goto, Respond, Reply, Issue,
        Continue, Late
<1>1. CASE Come(r) \/ ComeWithToken(r) \/ RefuseToken(r)
  BY <1>1 DEF Come, ComeWithToken, RefuseToken, Enter
<1>2. CASE RegisterStep(r)
  BY <1>2 DEF RegisterStep, EmailTaken, EmailFree, InsertClash, InsertUser, RefreshUser,
     MailEnds
<1>3. CASE TokenStep(r)
  BY <1>3 DEF TokenStep, LoginRefused, Login, UserRefused, Renew
<1>4. CASE UserStep(r)
  BY <1>4 DEF UserStep, Authenticated, UserGone, WrongPassword, UserAgain, UpdateStale,
     UpdatePassword, LoadRows, RemoveUser
<1>5. CASE RowStep(r)
  BY <1>5 DEF RowStep, InsertRow, InsertRowRejected, RefreshFails, RefreshWritten
<1> QED BY <1>1, <1>2, <1>3, <1>4, <1>5 DEF AccountRequest, AccountStep

LEMMA OutsideMoves ==
    ASSUME AccountsNext, ~ \E r \in Requests : AccountRequest(r)
    PROVE  /\ UNCHANGED <<rows, issued, loaded, reach, sessionVars>>
           /\ users' = users \/ \E a \in AccountIds : Deactivate(a)
  BY DEF AccountsNext, Deactivate, Tick

(* No step gives a row that stays another e-mail, or reuses an identifier. *)
LEMMA UsersStay ==
    ASSUME AccountTypeInv, AccountsNext, NEW a \in AccountIds, users'[a] # NoUser
    PROVE  \/ Registered(a) /\ users'[a].email = users[a].email
           \/ a \in Requests /\ InsertUser(a) /\ users'[a] = NewUser(a)
<1> USE DEF AccountTypeInv, AccountsTypeOK, Registered
<1>1. ASSUME NEW r \in Requests, AccountRequest(r)
      PROVE  \/ Registered(a) /\ users'[a].email = users[a].email
             \/ a = r /\ InsertUser(r) /\ users'[r] = NewUser(r)
  <2>1. CASE InsertUser(r)
    BY <2>1 DEF InsertUser
  <2>2. CASE UpdatePassword(r)
    BY <2>2 DEF UpdatePassword, Stale, ChangedRow, UserRow
  <2>3. CASE RemoveUser(r)
    BY <2>3 DEF RemoveUser
  <2> QED BY <1>1, <2>1, <2>2, <2>3, OneAccountMoves
<1>2. ASSUME NEW b \in AccountIds, Deactivate(b)
      PROVE  Registered(a) /\ users'[a].email = users[a].email
  BY <1>2 DEF Deactivate, Usable, UserRow
<1> QED BY <1>1, <1>2, OutsideMoves

(* An account goes only by the end of a deletion of it.                    *)
LEMMA UsersGo ==
    ASSUME AccountTypeInv, AccountsWritten, AccountsNext, NEW a \in AccountIds,
           Registered(a), users'[a] = NoUser
    PROVE  \E r \in Requests : RemoveUser(r) /\ call[r].account = a
<1> USE AccountsAssumption DEF AccountTypeInv, AccountsTypeOK, Registered, At
<1>1. users[a].email \in Emails /\ NoUser.email \notin Emails
  BY DEF UserRow, NoUser
<1>2. ASSUME NEW r \in Requests, AccountRequest(r)
      PROVE  RemoveUser(r) /\ call[r].account = a
  <2>1. ~InsertUser(r)
    BY DEF InsertUser, AccountsWritten, Late
  <2>2. ~UpdatePassword(r)
    <3>1. ASSUME UpdatePassword(r) PROVE users'[a].email = users[a].email
      BY <3>1 DEF UpdatePassword, ChangedRow, UserRow, Stale
    <3> QED BY <1>1, <3>1
  <2>3. RemoveUser(r)
    BY <1>2, <2>1, <2>2, OneAccountMoves
  <2> QED BY <2>3 DEF RemoveUser
<1>3. ASSUME NEW b \in AccountIds, Deactivate(b) PROVE users'[a].email = users[a].email
  BY <1>3 DEF Deactivate, Usable, UserRow
<1> QED BY <1>1, <1>2, <1>3, OutsideMoves

LEMMA AccountStepInv == AccountInv /\ [AccountsNext]_accountVars => AccountInv'
<1> SUFFICES ASSUME AccountInv, [AccountsNext]_accountVars PROVE AccountInv'
  OBVIOUS
<1>0. AccountTypeInv /\ AccountTypeInv'
  BY AccountTypeStep DEF AccountInv
<1>1. CASE UNCHANGED accountVars
  BY <1>0, <1>1 DEF accountVars, AccountInv, AccountsWritten, Over, UniqueEmails,
     RowsHaveOwner, Registered
<1>2. CASE AccountsNext
  <2>1. Over'
    BY <1>0, <1>2, OneAccountMoves, OutsideMoves DEF AccountInv, Over, sessionVars
  <2>2. \A r \in Requests : pc[r] \in Late => pc'[r] \in Late
    BY <1>0, <1>2, OneAccountMoves, OutsideMoves DEF sessionVars, Late
  <2>3. AccountsWritten'
    <3> SUFFICES ASSUME NEW r \in Requests, users'[r] # NoUser
                 PROVE  pc'[r] \in Late
      BY DEF AccountsWritten, Registered
    <3>1. CASE InsertUser(r)
      BY <1>0, <3>1 DEF InsertUser, Goto, AccountTypeInv, AccountsTypeOK, Late
    <3> QED BY <1>0, <1>2, <2>2, <3>1, UsersStay DEF AccountInv, AccountsWritten,
            AccountIds
  <2>4. UniqueEmails'
    <3> SUFFICES ASSUME NEW a \in AccountIds, NEW b \in AccountIds,
                        users'[a] # NoUser, users'[b] # NoUser,
                        users'[a].email = users'[b].email, a # b
                 PROVE  FALSE
      BY DEF UniqueEmails, Registered
    <3>1. ASSUME NEW c \in AccountIds, NEW d \in AccountIds, c # d,
                 InsertUser(c), users'[c] = NewUser(c),
                 Registered(d), users'[d].email = users[d].email
          PROVE  users'[c].email # users'[d].email
      BY <3>1 DEF InsertUser, EmailClash, WithEmail, NewUser
    <3>2. ~(InsertUser(a) /\ a \in Requests /\ InsertUser(b) /\ b \in Requests)
      BY <1>0 DEF InsertUser, Goto, At, AccountTypeInv, AccountsTypeOK
    <3>3. \/ Registered(a) /\ users'[a].email = users[a].email
          \/ a \in Requests /\ InsertUser(a) /\ users'[a] = NewUser(a)
      BY <1>0, <1>2, UsersStay
    <3>4. \/ Registered(b) /\ users'[b].email = users[b].email
          \/ b \in Requests /\ InsertUser(b) /\ users'[b] = NewUser(b)
      BY <1>0, <1>2, UsersStay
    <3> QED BY <3>1, <3>2, <3>3, <3>4 DEF AccountInv, UniqueEmails
  <2>5. RowsHaveOwner'
    <3> SUFFICES ASSUME NEW q \in Requests, rows'[q] # Null
                 PROVE  users'[rows'[q]] # NoUser
      BY DEF RowsHaveOwner, Registered
    <3> USE DEF AccountTypeInv, AccountsTypeOK, Registered
    <3>1. ASSUME NEW r \in Requests, RemoveUser(r) PROVE users'[rows'[q]] # NoUser
      <4>1. rows'[q] = rows[q] /\ rows[q] # call[r].account
        BY <3>1 DEF RemoveUser, Removed, RowsOf
      <4>2. rows[q] \in AccountIds /\ users[rows[q]] # NoUser
        BY <1>0, <4>1, AccountsAssumption DEF AccountInv, RowsHaveOwner
      <4> QED BY <1>0, <3>1, <4>1, <4>2 DEF RemoveUser
    <3>2. ASSUME NEW r \in Requests, InsertRow(r) PROVE users'[rows'[q]] # NoUser
      BY <1>0, <3>2 DEF InsertRow, AccountInv, RowsHaveOwner
    <3>3. CASE rows' = rows /\ ~ \E r \in Requests : RemoveUser(r)
      BY <1>0, <1>2, <3>3, UsersGo, AccountsAssumption DEF AccountInv, RowsHaveOwner
    <3> QED BY <1>0, <1>2, <3>1, <3>2, <3>3, OneAccountMoves, OutsideMoves
  <2> QED BY <1>0, <2>1, <2>3, <2>4, <2>5 DEF AccountInv
<1> QED BY <1>1, <1>2

LEMMA AccountInvHolds == AccountsSpec => []AccountInv
  BY AccountInit, AccountStepInv, PTL DEF AccountsSpec

(* An e-mail names one account, however many registrations race for it.    *)
THEOREM EmailsStayUnique == AccountsSpec => []UniqueEmails
<1>1. AccountInv => UniqueEmails
  BY DEF AccountInv
<1> QED BY AccountInvHolds, <1>1, PTL

(* Nothing a deleted account owned outlives it.                            *)
THEOREM NothingOutlivesItsAccount == AccountsSpec => []RowsHaveOwner
<1>1. AccountInv => RowsHaveOwner
  BY DEF AccountInv
<1> QED BY AccountInvHolds, <1>1, PTL

-----------------------------------------------------------------------------
(* A deactivated account stays inactive until its row goes.                *)
LEMMA InactiveStep ==
    ASSUME AccountInv, AccountsNext, NEW a \in AccountIds,
           Registered(a), ~users[a].active
    PROVE  ~users'[a].active
<1> USE DEF AccountInv, AccountTypeInv, AccountsTypeOK, Registered, At
<1>1. ASSUME NEW r \in Requests, InsertUser(r) PROVE users'[a] = users[a]
  BY <1>1 DEF InsertUser, AccountsWritten, Late
<1>2. ASSUME NEW r \in Requests, UpdatePassword(r) PROVE ~users'[a].active
  <2>1. CASE call[r].account = a
    <3>1. users'[a] = [users[a] EXCEPT !.password = call[r].new]
      BY <1>2, <2>1 DEF UpdatePassword, ChangedRow
    <3>2. users[a] \in UserRow
      OBVIOUS
    <3>3. users'[a].active = users[a].active
      BY ONLY <3>1, <3>2 DEF UserRow
    <3> QED BY <3>3
  <2>2. CASE call[r].account # a
    BY <1>2, <2>2 DEF UpdatePassword
  <2> QED BY <2>1, <2>2
<1>3. ASSUME NEW r \in Requests, RemoveUser(r) PROVE ~users'[a].active
  <2>1. users'[a] = NoUser \/ users'[a] = users[a]
    BY <1>3 DEF RemoveUser
  <2>2. ~NoUser.active
    BY DEF NoUser
  <2> QED BY <2>1, <2>2
<1>4. ASSUME NEW b \in AccountIds, Deactivate(b) PROVE users'[a] = users[a]
  BY <1>4 DEF Deactivate, Usable
<1>5. users' = users => ~users'[a].active
  OBVIOUS
<1> QED BY <1>1, <1>2, <1>3, <1>4, <1>5, OneAccountMoves, OutsideMoves

(* No request makes an inactive account active again, whatever it had      *)
(* loaded of it before.                                                    *)
THEOREM InactiveForGood == AccountsSpec => InactiveStays
<1>1. AccountInv /\ [AccountsNext]_accountVars =>
         [\A a \in AccountIds :
             Registered(a) /\ ~users[a].active => ~users'[a].active]_accountVars
  BY InactiveStep
<1> QED BY AccountInvHolds, <1>1, PTL DEF AccountsSpec, InactiveStays

-----------------------------------------------------------------------------
(* Three steps issue tokens.                                               *)
LEMMA WhoIssues ==
    ASSUME NEW r \in Requests, AccountRequest(r)
    PROVE  issued' = issued \/ RefreshUser(r) \/ Login(r) \/ Renew(r)
<1> USE DEF Reply, Continue
<1>1. CASE Come(r) \/ ComeWithToken(r) \/ RefuseToken(r)
  BY <1>1 DEF Come, ComeWithToken, RefuseToken
<1>2. CASE RegisterStep(r)
  BY <1>2 DEF RegisterStep, EmailTaken, EmailFree, InsertClash, InsertUser, MailEnds
<1>3. CASE TokenStep(r)
  BY <1>3 DEF TokenStep, LoginRefused, UserRefused
<1>4. CASE UserStep(r)
  BY <1>4 DEF UserStep, Authenticated, UserGone, WrongPassword, UserAgain, UpdateStale,
     UpdatePassword, LoadRows, RemoveUser
<1>5. CASE RowStep(r)
  BY <1>5 DEF RowStep, InsertRow, InsertRowRejected, RefreshFails, RefreshWritten
<1> QED BY <1>1, <1>2, <1>3, <1>4, <1>5 DEF AccountRequest, AccountStep

LEMMA TokenStepLive ==
    ASSUME AccountInv, AccountsNext, NEW t \in issued' \ issued
    PROVE  /\ Registered(t.sub)
           /\ users[t.sub].active \/ (t.sub \in Requests /\ pc'[t.sub] # pc[t.sub])
<1> USE DEF AccountInv, AccountTypeInv, AccountsTypeOK, Ready, At
<1>1. PICK r \in Requests : RefreshUser(r) \/ Login(r) \/ Renew(r)
  BY WhoIssues, OutsideMoves
<1>2. ASSUME NEW a, NEW code, NEW stage, Issue(r, a, code, stage) PROVE t.sub = a
  BY <1>2 DEF Issue, Pair
<1>3. CASE RefreshUser(r)
  <2>1. Issue(r, r, "201", "mail") /\ Registered(r) /\ pc[r] = "refresh"
    BY <1>3 DEF RefreshUser
  <2>2. t.sub = r
    BY <1>2, <2>1
  <2>3. pc'[r] = "mail"
    BY <2>1 DEF Issue
  <2> QED BY <2>1, <2>2, <2>3
<1>4. CASE Login(r)
  <2>1. PICK a \in LoginMatches(r) : users[a].active /\ Issue(r, a, "200", "done")
    BY <1>4 DEF Login
  <2>2. t.sub = a
    BY <1>2, <2>1
  <2>3. Registered(a)
    BY <2>1 DEF LoginMatches, WithEmail
  <2> QED BY <2>1, <2>2, <2>3
<1>5. CASE Renew(r)
  <2>1. Issue(r, call[r].account, "200", "done") /\ Usable(call[r].account)
    BY <1>5 DEF Renew
  <2>2. t.sub = call[r].account
    BY <2>1 DEF Issue, Pair
  <2> QED BY <2>1, <2>2 DEF Usable
<1> QED BY <1>1, <1>3, <1>4, <1>5

(* Tokens are made for accounts that exist and, but for the first ones,    *)
(* are active.                                                             *)
THEOREM LiveAccountsGetTokens == AccountsSpec => TokensForLiveAccounts
<1>1. AccountInv /\ [AccountsNext]_accountVars =>
         [\A t \in issued' \ issued :
             /\ Registered(t.sub)
             /\ \/ users[t.sub].active
                \/ t.sub \in Requests /\ pc'[t.sub] # pc[t.sub]]_accountVars
  BY TokenStepLive
<1> QED BY AccountInvHolds, <1>1, PTL DEF AccountsSpec, TokensForLiveAccounts

-----------------------------------------------------------------------------
(* Who answers 201, and who answers a change of password with 204.         *)
LEMMA WhoAcknowledges ==
    ASSUME AccountInv, NEW r \in Requests, AccountRequest(r), status[r] = "none"
    PROVE  /\ status'[r] = "201" =>
                 RefreshUser(r) \/ (RefreshWritten(r) /\ call[r].op # "register")
           /\ call'[r].op = "change" /\ status'[r] = "204" => RefreshWritten(r)
<1> USE DEF AccountInv, AccountTypeInv, AccountsTypeOK, Ready, At, Reply, Respond,
        Continue, Goto, StatusOf
<1>0. status[r] = "none"
  OBVIOUS
<1>1. CASE Come(r) \/ ComeWithToken(r)
  BY <1>0, <1>1 DEF Come, ComeWithToken, Enter
<1>2. CASE RefuseToken(r)
  <2>1. \E t \in issued : status' = [status EXCEPT ![r] = TokenRefusal(t)]
    BY <1>2 DEF RefuseToken
  <2>2. \A t : TokenRefusal(t) = "401"
    BY DEF TokenRefusal
  <2> QED BY <2>1, <2>2
<1>3. CASE RegisterStep(r)
  <2>1. CASE EmailTaken(r) \/ InsertClash(r)
    BY <2>1 DEF EmailTaken, InsertClash
  <2>2. CASE EmailFree(r) \/ InsertUser(r) \/ MailEnds(r)
    BY <1>0, <2>2 DEF EmailFree, InsertUser, MailEnds
  <2>3. CASE RefreshUser(r)
    <3>1. status'[r] = "201"
      BY <2>3 DEF RefreshUser, Issue
    <3> QED BY <2>3, <3>1
  <2> QED BY <1>3, <2>1, <2>2, <2>3 DEF RegisterStep
<1>4. CASE TokenStep(r)
  BY <1>0, <1>4 DEF TokenStep, LoginRefused, Login, UserRefused, Renew, Issue
<1>5. CASE UserStep(r)
  <2>1. CASE RemoveUser(r)
    BY <2>1 DEF RemoveUser, AccountStageOfCall
  <2>2. CASE ~RemoveUser(r)
    BY <1>0, <1>5, <2>2 DEF UserStep, Authenticated, UserGone, WrongPassword, UserAgain,
       UpdateStale, UpdatePassword, LoadRows
  <2> QED BY <2>1, <2>2
<1>6. CASE RowStep(r)
  BY <1>0, <1>6 DEF RowStep, InsertRow, InsertRowRejected, RefreshFails, RefreshWritten
<1> QED BY <1>1, <1>2, <1>3, <1>4, <1>5, <1>6 DEF AccountRequest, AccountStep

(* What is answered stays as it is.                                        *)
LEMMA AnsweredStays ==
    ASSUME AccountInv, AccountsNext, NEW r \in Requests, status[r] # "none"
    PROVE  call'[r] = call[r] /\ status'[r] = status[r]
<1>1. pc[r] \in {"mail", "done"}
  BY DEF AccountInv, Over
<1>2. AccountTypeInv
  BY DEF AccountInv
<1> QED BY <1>1, <1>2, OneAccountMoves, OutsideMoves DEF sessionVars

LEMMA DoneStays ==
    ASSUME AccountInv, AccountsNext, NEW r \in Requests, pc[r] = "done"
    PROVE  pc'[r] = pc[r] /\ call'[r] = call[r] /\ status'[r] = status[r]
  BY OneAccountMoves, OutsideMoves DEF AccountInv, sessionVars

LEMMA RegistrationStep ==
    AccountInv /\ RegistrationKept /\ [AccountsNext]_accountVars => RegistrationKept'
<1> SUFFICES ASSUME AccountInv, RegistrationKept, [AccountsNext]_accountVars
             PROVE  RegistrationKept'
  OBVIOUS
<1>1. CASE UNCHANGED accountVars
  BY <1>1 DEF accountVars, RegistrationKept, Registered, Deleted
<1>2. CASE AccountsNext
  <2> SUFFICES ASSUME NEW r \in Requests, call'[r].op = "register", status'[r] = "201"
               PROVE  Registered(r)' \/ Deleted(r)'
    BY DEF RegistrationKept
  <2>1. CASE status[r] # "none"
    <3>1. call'[r] = call[r] /\ status'[r] = status[r]
      BY <1>2, <2>1, AnsweredStays
    <3>2. CASE Deleted(r)
      BY <1>2, <3>2, AnsweredStays DEF Deleted
    <3>3. CASE Registered(r) /\ users'[r] = NoUser
      <4>1. PICK q \in Requests : RemoveUser(q) /\ call[q].account = r
        BY <1>2, <3>3, UsersGo DEF AccountInv, AccountIds
      <4> QED BY <4>1 DEF RemoveUser, Respond, Deleted, At, AccountInv,
              AccountTypeInv, AccountsTypeOK, AccountStageOfCall
    <3> QED BY <3>1, <3>2, <3>3 DEF RegistrationKept, Registered
  <2>2. CASE status[r] = "none"
    <3>1. AccountRequest(r)
      BY <1>2, <2>2, OneAccountMoves, OutsideMoves DEF AccountInv, sessionVars
    <3>2. pc[r] = "refresh" => call'[r] = call[r]
      BY <3>1, OneAccountMoves DEF AccountInv
    <3>3. RefreshUser(r)
      BY <2>2, <3>1, <3>2, WhoAcknowledges DEF RefreshWritten, Ready, At
    <3> QED BY <3>3 DEF RefreshUser, Registered
  <2> QED BY <2>1, <2>2
<1> QED BY <1>1, <1>2

(* An acknowledged registration is not lost.                               *)
THEOREM RegistrationsStay == AccountsSpec => []RegistrationKept
<1>1. AccountsInit => RegistrationKept
  BY DEF AccountsInit, SessionsInit, RegistrationKept
<1> QED BY AccountInvHolds, <1>1, RegistrationStep, PTL DEF AccountsSpec

-----------------------------------------------------------------------------
(* What OldPasswordDead says of the acknowledged changes, said of all that *)
(* are committed; and the account of a committed change has been           *)
(* registered.                                                             *)
OldIsDead ==
    \A r \in Requests, a \in AccountIds, p, old \in Passwords :
        ChangesTo(r, a, p) /\ call[r].old = old =>
            \/ users[a].password # old
            \/ \E q \in Requests \ {r} : ChangesTo(q, a, old)

ChangedIsRegistered ==
    \A r \in Requests, a \in Requests, p \in Passwords :
        ChangesTo(r, a, p) => pc[a] \in Late

PasswordInv == OldIsDead /\ ChangedIsRegistered

(* A committed change stays so, unless its account goes before its refresh.*)
LEMMA ChangeStays ==
    ASSUME AccountInv, AccountsNext, NEW r \in Requests, NEW a \in AccountIds,
           NEW p \in Passwords, ChangesTo(r, a, p)
    PROVE  /\ call'[r] = call[r]
           /\ ChangesTo(r, a, p)' \/ (users' = users /\ users[a] = NoUser)
<1> USE DEF ChangesTo, AccountInv, AccountTypeInv, AccountsTypeOK, At, Ready
<1>1. CASE pc[r] = "done" \/ ~AccountRequest(r)
  BY <1>1, DoneStays, OneAccountMoves, OutsideMoves DEF sessionVars
<1>2. CASE pc[r] = "refresh" /\ AccountRequest(r)
  <2>1. call'[r] = call[r]
    BY <1>2, OneAccountMoves
  <2>2. RefreshFails(r) \/ RefreshWritten(r)
    BY <1>2 DEF AccountRequest, AccountStep, RegisterStep, TokenStep, UserStep, RowStep,
       Come, ComeWithToken, RefuseToken, EmailTaken, EmailFree, InsertClash, InsertUser,
       RefreshUser, LoginRefused, Login, UserRefused, Renew, Authenticated, UserGone,
       WrongPassword, UserAgain, UpdateStale, UpdatePassword, LoadRows, RemoveUser,
       InsertRow, InsertRowRejected, MailEnds
  <2>3. CASE RefreshFails(r)
    BY <2>1, <2>3 DEF RefreshFails, Vanished, Registered, Reply
  <2>4. CASE RefreshWritten(r)
    BY <2>1, <2>4 DEF RefreshWritten, Reply, Respond
  <2> QED BY <2>1, <2>2, <2>3, <2>4
<1> QED BY <1>1, <1>2

(* A change is committed by its update of the password column.             *)
LEMMA BecomesChange ==
    ASSUME AccountInv, AccountsNext, NEW r \in Requests, NEW a \in AccountIds,
           NEW p \in Passwords, ChangesTo(r, a, p)'
    PROVE  \/ ChangesTo(r, a, p) /\ call'[r] = call[r]
           \/ UpdatePassword(r) /\ call'[r] = call[r]
<1> USE DEF ChangesTo, AccountInv, AccountTypeInv, AccountsTypeOK, At, Ready, Reply,
        Respond, Continue, Goto
<1>1. CASE ~AccountRequest(r)
  BY <1>1, OneAccountMoves, OutsideMoves DEF sessionVars
<1>2. CASE AccountRequest(r) /\ status'[r] = "204"
  <2>1. status[r] = "none"
    BY <1>2, AnsweredStays, OneAccountMoves DEF Over, AccountStageOfCall
  <2>2. RefreshWritten(r)
    BY <1>2, <2>1, WhoAcknowledges
  <2> QED BY <2>1, <2>2 DEF RefreshWritten
<1>3. CASE AccountRequest(r) /\ status'[r] = "none"
  <2>1. CASE Come(r) \/ ComeWithToken(r) \/ RefuseToken(r)
    <3>1. ~RefuseToken(r)
      <4>1. ASSUME RefuseToken(r) PROVE FALSE
        <5>1. \E t \in issued : status' = [status EXCEPT ![r] = TokenRefusal(t)]
          BY <4>1 DEF RefuseToken
        <5>2. \A t : TokenRefusal(t) = "401"
          BY DEF TokenRefusal, StatusOf
        <5> QED BY <1>3, <5>1, <5>2
      <4> QED BY <4>1
    <3> QED BY <2>1, <3>1 DEF Come, ComeWithToken, Enter
  <2>2. CASE RegisterStep(r) \/ TokenStep(r)
    BY <1>3, <2>2 DEF RegisterStep, EmailTaken, EmailFree, InsertClash, InsertUser,
       RefreshUser, MailEnds, TokenStep, LoginRefused, Login, UserRefused, Renew, Issue, StatusOf,
       AccountStageOfCall, Credentials
  <2>3. CASE UserStep(r)
    BY <1>3, <2>3 DEF UserStep, Authenticated, UserGone, WrongPassword, UserAgain,
       UpdateStale, UpdatePassword, LoadRows, RemoveUser, StatusOf
  <2>4. CASE RowStep(r)
    BY <1>3, <2>4 DEF RowStep, InsertRow, InsertRowRejected, RefreshFails,
       RefreshWritten, StatusOf, AccountStageOfCall
  <2> QED BY <1>3, <2>1, <2>2, <2>3, <2>4 DEF AccountRequest, AccountStep
<1> QED BY <1>1, <1>2, <1>3

(* Only a change of the password, or the account's end, moves a password   *)
(* of an account that is not being registered.                             *)
LEMMA PasswordMoves ==
    ASSUME AccountInv, AccountsNext, NEW a \in AccountIds,
           a \in Requests => pc[a] \in Late
    PROVE  \/ users'[a].password = users[a].password
           \/ users'[a].password = Null
           \/ \E q \in Requests : /\ UpdatePassword(q)
                                  /\ call[q].account = a
                                  /\ users'[a].password = call[q].new
<1> USE DEF AccountInv, AccountTypeInv, AccountsTypeOK, At
<1>1. ASSUME NEW q \in Requests, InsertUser(q) PROVE users'[a] = users[a]
  BY <1>1 DEF InsertUser, Late
<1>2. ASSUME NEW q \in Requests, UpdatePassword(q), call[q].account = a
      PROVE  users'[a].password = call[q].new
  <2>1. users[a] \in UserRow
    BY <1>2 DEF UpdatePassword, Stale, Registered
  <2>2. users'[a] = [users[a] EXCEPT !.password = call[q].new]
    BY <1>2 DEF UpdatePassword, ChangedRow
  <2> QED BY ONLY <2>1, <2>2 DEF UserRow
<1>3. ASSUME NEW q \in Requests, UpdatePassword(q), call[q].account # a
      PROVE  users'[a] = users[a]
  BY <1>3 DEF UpdatePassword
<1>4. ASSUME NEW q \in Requests, RemoveUser(q)
      PROVE  users'[a] = users[a] \/ users'[a].password = Null
  BY <1>4 DEF RemoveUser, NoUser
<1>5. ASSUME NEW b \in AccountIds, Deactivate(b)
      PROVE  users'[a].password = users[a].password
  BY <1>5 DEF Deactivate, Usable, Registered, UserRow
<1> QED BY <1>1, <1>2, <1>3, <1>4, <1>5, OneAccountMoves, OutsideMoves

LEMMA CommittedHere ==
    ASSUME AccountInv, NEW r \in Requests, UpdatePassword(r)
    PROVE  /\ call[r] \in ChangeCall /\ call[r].old # call[r].new
           /\ Registered(call[r].account)
           /\ ChangesTo(r, call[r].account, call[r].new)'
  BY DEF AccountInv, AccountTypeInv, AccountsTypeOK, AccountStageOfCall, UpdatePassword,
     At, Goto, Stale, SamePasswords, ChangesTo, ChangeCall, Over

LEMMA PasswordStep ==
    AccountInv /\ PasswordInv /\ [AccountsNext]_accountVars => PasswordInv'
<1> SUFFICES ASSUME AccountInv, PasswordInv, [AccountsNext]_accountVars
             PROVE  PasswordInv'
  OBVIOUS
<1>1. CASE UNCHANGED accountVars
  BY <1>1 DEF accountVars, PasswordInv, OldIsDead, ChangedIsRegistered, ChangesTo
<1>2. CASE AccountsNext
  <2>1. \A r \in Requests : pc[r] \in Late => pc'[r] \in Late
    BY <1>2, OneAccountMoves, OutsideMoves DEF sessionVars, AccountInv, Late
  <2>2. ChangedIsRegistered'
    <3> SUFFICES ASSUME NEW r \in Requests, NEW a \in Requests, NEW p \in Passwords,
                        ChangesTo(r, a, p)'
                 PROVE  pc'[a] \in Late
      BY DEF ChangedIsRegistered
    <3>1. CASE ChangesTo(r, a, p)
      BY <2>1, <3>1 DEF PasswordInv, ChangedIsRegistered
    <3>2. CASE UpdatePassword(r) /\ call'[r] = call[r]
      <4>1. Registered(a)
        BY <3>2, CommittedHere DEF ChangesTo
      <4> QED BY <2>1, <4>1 DEF AccountInv, AccountsWritten
    <3> QED BY <1>2, <3>1, <3>2, BecomesChange DEF AccountIds
  <2>3. OldIsDead'
    <3> SUFFICES ASSUME NEW r \in Requests, NEW a \in AccountIds, NEW p \in Passwords,
                        NEW old \in Passwords, ChangesTo(r, a, p)',
                        call'[r].old = old, users'[a].password = old
                 PROVE  \E q \in Requests \ {r} : ChangesTo(q, a, old)'
      BY DEF OldIsDead
    <3>1. CASE UpdatePassword(r) /\ call'[r] = call[r]
      <4>1. call[r].account = a /\ call[r].new = p
        BY <3>1 DEF ChangesTo
      <4>2. users[a] \in UserRow
        BY <3>1, <4>1, CommittedHere DEF AccountInv, AccountTypeInv, AccountsTypeOK,
           Registered
      <4>3. users'[a] = [users[a] EXCEPT !.password = p]
        BY <3>1, <4>1 DEF UpdatePassword, ChangedRow, AccountInv, AccountTypeInv,
           AccountsTypeOK
      <4>4. users'[a].password = p
        BY ONLY <4>2, <4>3 DEF UserRow
      <4> QED BY <3>1, <4>1, <4>4, CommittedHere
    <3>2. CASE ChangesTo(r, a, p) /\ call'[r] = call[r]
      <4>1. a \in Requests => pc[a] \in Late
        BY <3>2 DEF PasswordInv, ChangedIsRegistered
      <4>2. CASE users[a].password = old
        <5>1. PICK q \in Requests \ {r} : ChangesTo(q, a, old)
          BY <3>2, <4>2 DEF PasswordInv, OldIsDead
        <5>2. users[a] # NoUser
          BY <4>2, AccountsAssumption DEF NoUser
        <5> QED BY <1>2, <5>1, <5>2, ChangeStays
      <4>3. CASE users[a].password # old
        <5>1. PICK q \in Requests : /\ UpdatePassword(q)
                                    /\ call[q].account = a
                                    /\ users'[a].password = call[q].new
          BY <1>2, <4>1, <4>3, PasswordMoves, AccountsAssumption
        <5>2. ChangesTo(q, a, old)'
          <6>1. ChangesTo(q, call[q].account, call[q].new)'
            BY <5>1, CommittedHere
          <6>2. call'[q] = call[q]
            BY <5>1 DEF UpdatePassword, Goto
          <6> QED BY <5>1, <6>1, <6>2 DEF ChangesTo
        <5>3. q # r
          BY <3>2, <5>1 DEF ChangesTo, UpdatePassword, At
        <5> QED BY <5>2, <5>3
      <4> QED BY <4>2, <4>3
    <3> QED BY <1>2, <3>1, <3>2, BecomesChange
  <2> QED BY <2>2, <2>3 DEF PasswordInv
<1> QED BY <1>1, <1>2

(* The password an acknowledged change replaced opens nothing.             *)
THEOREM OldPasswordsStayDead == AccountsSpec => []OldPasswordDead
<1>1. AccountsInit => PasswordInv
  BY DEF AccountsInit, SessionsInit, PasswordInv, OldIsDead, ChangedIsRegistered,
     ChangesTo
<1>2. AccountInv /\ PasswordInv => OldPasswordDead
  <2> SUFFICES ASSUME AccountInv, PasswordInv, NEW r \in Requests,
                      call[r].op = "change", status[r] = "204"
               PROVE  \/ users[call[r].account].password # call[r].old
                      \/ \E q \in Requests \ {r} :
                            ChangesTo(q, call[r].account, call[r].old)
    BY DEF OldPasswordDead
  <2>1. call[r].account \in AccountIds /\ call[r].new \in Passwords /\ call[r].old \in Passwords
    BY DEF AccountInv, AccountTypeInv, AccountsTypeOK, AccountCalls, Credentials,
       OnAccount, ChangeCall, NoCall
  <2>2. ChangesTo(r, call[r].account, call[r].new)
    BY DEF AccountInv, Over, ChangesTo, AccountTypeInv, AccountStageOfCall
  <2> QED BY <2>1, <2>2 DEF PasswordInv, OldIsDead
<1> QED BY AccountInvHolds, <1>1, <1>2, PasswordStep, PTL DEF AccountsSpec
=============================================================================
