# Verification of Notes Backend

TLA+ modules, TLC runs and TLAPS proofs for the FastAPI service in `src/app`: users
keep notes in nested folders and attach files to notes. Rows live in PostgreSQL
(async SQLAlchemy), file contents in a MinIO bucket.

## The system

| Part | State | Operations | Source |
|---|---|---|---|
| Request and session | one asyncio task, one `AsyncSession`, at most one pooled connection | authenticate, call a service, turn exceptions into answers | `api/dependencies`, `core/database.py`, `core/exceptions.py`, `core/exception_handlers.py` |
| Attachment service | attachment rows, objects in the bucket | list, download, upload, delete | `services/attachment.py`, `repositories/attachment.py` |
| Storage adapter | the bucket | put, get (streamed), remove | `core/storage.py` |
| Note service | note rows | list, search, get, create, update, delete | `services/note.py`, `repositories/note.py` |
| Folder service | folder rows with a parent | list, get, children, notes, create, update (rename, move), delete | `services/folder.py`, `repositories/folder.py` |
| Accounts | user rows | register, login, refresh, profile, change password, delete | `services/user.py`, `services/auth.py` |
| Tokens | none (signed, not stored) | create, decode | `core/security.py` |
| Rate limiter | a counter and a window per client | check, clean up | `core/rate_limiter.py`, `middlewares/rate_limiting.py` (not installed by `main.py`) |
| E-mail | none | a welcome mail, sent in the background of a registration's answer | `core/email.py` |
| Middlewares, logging, migrations | none that requests share | | `middlewares`, `core/logging.py`, `alembic` |

Parts interact by calls within one request and by shared rows and objects between
requests. There is one event loop in one process (`Dockerfile` starts `uvicorn` without
workers): tasks interleave at every `await`, and the database runs at READ COMMITTED without explicit locks, so what a
handler has read may be stale when it writes. A commit gives the connection back
to the pool; `refresh` after it takes a connection again. MinIO is not part of the
transaction. Deleting an account, a folder or a note cascades through foreign keys
and does not touch the bucket.

What is hard here, and what makes each part correct:

- **Attachments.** Two stores, no common transaction, an undo in an exception
  handler, cancelled tasks and dead processes. Every row has its content; what was
  acknowledged stays until its owner deletes it; what was deleted stays deleted;
  failures leave nothing behind; the limit of a note holds; only the owner of the
  note reaches its attachments.
- **Folders.** Checks and writes in separate statements. The folders form a forest,
  parents and children have one owner, siblings have different names, a delete
  removes its subtree, and the walk to the top ends.
- **Notes.** A note lies in a folder of its owner or in none, although the folder is
  validated before the write. A folder delete takes the notes of its tree and no
  others. An acknowledged note stays, and a committed update is not undone by a
  request that loaded the note before it.
- **Accounts.** One account per e-mail, and a registration that was acknowledged is
  not lost. A replaced password stays dead, a deactivated account inactive. Nothing
  an account owns outlives it, and new tokens are for accounts that exist.
- **The pool.** Every request needs a connection, many need a second one after their
  commit, and a registration keeps one while its mail is sent. Every request is
  answered all the same.

## Modules

| Module | Models |
|---|---|
| `Sessions` | the life of a request: `call`, `pc`, `status`, the pool (`ConnectionFree`), exception to status code (`StatusOf`) |
| `Attachments` | extends `Sessions` with `notes`, `attachments`, `objects`; upload, download, delete, deletion of the note, failures |
| `MCAttachments` | two users, two notes, four requests and their workloads |
| `AttachmentsProofs` | theorems of `Attachments` |
| `QuotaProofs` | how far uploads can exceed the limit of a note |
| `AttachmentStore` | abstract: one store in which an attachment is there with its content or not at all |
| `StoreProofs` | that `Attachments` implements `AttachmentStore` |
| `Folders` | extends `Sessions` with `folders` and what each session has `seen`; create, update, delete |
| `MCFolders` | a forest of four folders of two users, three requests and three workloads |
| `FoldersProofs` | theorems of `Folders` |
| `ForestProofs` | what the checks of folders achieve while the writes they race with stay apart |
| `SumLemmas` | lemmas on sums over finite sets and on counting the holders of a limited resource |
| `Notes` | extends `Folders` with `notes` and the requests for them; the folder delete with the notes it loads and takes |
| `MCNotes` | three folders and two notes of two users, two folder requests and two note requests |
| `NotesProofs` | theorems of `Notes`, on those of `Folders` |
| `Accounts` | extends `Sessions` with `users`, the tokens `issued`, a clock, and the folders and notes (`rows`) of an account |
| `MCAccounts` | one account with its tokens, three requests |
| `AccountsProofs` | theorems of `Accounts` |

`Notes` composes: its folder requests are the actions of `Folders`, joined by what they
do to notes, its note requests instantiate `Sessions` a second time (`N`), and both
draw on one pool (`ConnectionLeft`). `Attachments` stands beside it, with the note as the
only thing the two share: the deletion of a note is in both, with the rows it cascades
to in `Attachments`. `Accounts` sees of the other parts only which rows belong to an
account.

`pc[r]` names the next statement of the handler of `r` that touches shared state; each
action is that statement with the code up to the next `await` that touches shared
state. `PROJECT.json` ("map") gives the lines of every definition. A request is
used once: it arrives, runs and is answered (`done`).

### How the code maps to actions

*Upload* (`services/attachment.py` 116-193): `NoteFound`/`NoteNotFound`, `AcceptFile`/
`RejectFile` (type, size, signature), `AcceptQuota`/`RejectQuota` (the total), `PutObject`,
`InsertRow` (insert and commit) or `InsertRejected` (foreign key), `RefreshRow`, and on any
exception of `create` `UndoPut`, while the session still holds the connection of the failed
statement, if there was one, until `get_db` closes it. *Delete* (195-224): `NoteFound`, `RowFound`, `DropRow`
(delete and commit), `RemoveObject`. *Download* (87-114): `NoteFound`, `RowFound`, and
`StreamObject` or `StreamMissing`, because `Storage.get` is a generator that opens the object
when the response body is first read, after the status line has been sent. *Deletion of a
note* (`services/note.py` 114): `NoteFound`, `DropNote`, whose rows cascade. There `session.delete` first
loads the one attachment `Note.attachments` maps to (`models/note.py` 49) in a statement of its own and
deletes it by key before the foreign key takes the rest; both are one step here, because no attachment
changes its note and so the same rows go.

An upload's request identifies its row and its object: each upload makes one fresh key.
A file is its declared type, the type its signature shows, and its size.

*Failures* are actions that `Faults` enables: `StorageFails` (MinIO raises, its effect landed
or not), `QueryFails`, `CommitFails`, `FailsAfterCommit` (the commit took effect and then its
acknowledgement or the refresh fails), `RefreshTimesOut` (no connection within the pool
timeout), `Vanish` (cancellation, which `except Exception` does not catch, or a crash; the
current write done or not).

*Folder create and update* (`services/folder.py` 132-201): `LoadTarget`, the name check
(`NameFree`, `NameTaken`, `NameAmbiguous`: more than one match makes `scalar_one_or_none`
raise), `validate_parent` (`LoadParent`, then one `LoadAncestor` per level), the write
(`InsertFolder`, `UpdateFolder`, `RejectWrite`) and `RefreshFolder`. *Delete* (203-210,
`repositories/folder.py` 150-155): `ReadChildren` once per folder, because
`session.delete` loads `subfolders` level by level, `TreeRead`, then `DropTree`. Names the
schema accepts (128 characters) and the column does not (100) are `LongNames`; writing one,
or an explicit null, is `BadName`, which fails.

*Notes* (`services/note.py` 51-116): `NoteArrive`, or `RefuseNote` for an empty payload;
`LoadNote`/`NoteMissing` (the note by id and owner), `FolderFound`/`FolderMissing`
(`validate_folder`, skipped for null), the commit (`InsertNote`, `WriteNote`, or `RejectNote`
when a key, a null title or a vanished row refuses it), `RefreshNote`; `GetNote`; `DropNote`.
A folder delete also loads `Folder.notes`: `ReadNotes` once per folder, in any order with
`ReadChildren`; `AllRead` when both are complete; `DropTreeAndNotes` removes the loaded notes
by primary key, wherever they are by then, and the rest by the foreign key.

*Registration* (`services/auth.py` 29-31, `services/user.py` 31-47): `EmailTaken`/`EmailFree`,
`InsertUser` or `InsertClash` (the unique index), `RefreshUser`, which makes the tokens, and
`MailEnds`: the background task of the welcome mail runs before the session of a `yield`
dependency is closed, so the connection that `refresh` took is held until then. *Login and
renewal*: `Login`/`LoginRefused`, `Renew`. *Requests with a token* (`api/dependencies/auth.py`):
`ComeWithToken`/`RefuseToken` (expiry and type, before any statement),
`Authenticated`/`UserRefused`, then by operation: profile; change of password (`UserAgain`,
`UserGone`, `WrongPassword`, `UpdatePassword` or `UpdateStale`, `RefreshWritten` or
`RefreshFails`), where the second `get_user_by_id` returns the object that authentication
loaded, with its old columns; deletion (`LoadRows`, `RemoveUser`); and, for any creation of
a folder or note at the top level, `InsertRow`/`InsertRowRejected`. Two actions are not code: `Tick`,
the clock tokens expire by, and `Deactivate`, an operator's update of `is_active`, which the
code reads and never clears.

SQLAlchemy and PostgreSQL behaviour the actions rely on: an UPDATE that matches no row
raises `StaleDataError` and a refresh of a vanished row `InvalidRequestError` (both 500), a
DELETE that matches none only warns; a foreign key or NOT NULL violation is an
`IntegrityError` (500); an UPDATE writes only the columns that changed; a session returns
the object it already holds for a row it loads again, with the attributes first read (this
is `LoadAncestor` meeting the parent again; objects the handler no longer refers to are
collected); loaded edges that make a cycle raise `CircularDependencyError` in the flush;
`ON DELETE CASCADE` removes whatever is below the deleted rows at that time.

### The abstract store

`AttachmentStore` has a `shelf` of attachments instead of rows and objects, and seven phases
instead of stages: `PhaseOf` maps every stage, `shelf` is `attachments`. An upload appears by
one step (`Publish`), is told "201" while it is on the shelf, gives up only when it is not;
an error leaves nothing of it. A download or a delete finds its attachment on the shelf (`Find`)
before it goes on; what it has found may leave the shelf before it is served, but is served only while
no delete of it has been answered, and torn only when it has gone.
That the row is what counts, that the object precedes it and outlives it, and that the undo
touches nothing a client could have seen, is what the refinement `OneStore` shows.

## Runs

"pass" runs finish without error; "violation" runs show where the code does not do what its
documentation says.

| Run | Question | Result |
|---|---|---|
| `att_faults` | with every kind of failure: `TypeOK`, `AcknowledgedHasContent`, `AcknowledgedKept`, `AccessThroughNote`, `DeletedMeansGone` | pass |
| `att_quota` | with failing queries and commits: `MetadataHasContent`, `OrphansExplained`, `TornOnlyIfDeleted`, `FailedUploadLeavesNoTrace`, `OvershootBounded`, the refinement `OneStore`, `AllAnswered` | pass |
| `att_over_quota` | `QuotaRespected` | two uploads read the same total, both are accepted |
| `att_dangling` | `MetadataHasContent` with pool timeouts | refresh times out after the commit, the handler removes the object of a committed row |
| `folders_one_mover` | one moving request among others: `Acyclic`, `UniqueUnlessRaced`, `AllAnswered` | pass: the checks are sufficient while the writes they race with stay apart |
| `folders_races` | everything at once, a name too long for its column included: `FoldersTypeOK`, `ParentSameOwner`, `OnlyOwnerChanges`, `DeleteLeavesNothing`, `RemovedWasBelow` | pass |
| `folders_cycle` | `Acyclic` with two movers | each validates before the other commits; the two moves close a cycle |
| `folders_duplicate` | `UniqueSiblings` with two requests | both find the name free, both write it |
| `folders_stale_walk` | `ForestIsClimbed`: while the folders are a forest, every walk to the top ends | the session keeps the parent it has read first of the folder to move under; when that folder is moved away and its old parent under it, the walk alternates between the two for ever |
| `notes` | a tree is deleted and folders move while notes are created, moved, changed and deleted: `NotesTypeOK`, `NotesInOwnFolder`, `TakenFromTree`, `NoteKept`, `UpdateTakesEffect`, `NotesOnlyByOwner`, `UpdatesMerge`, `AllNotesAnswered` | pass |
| `accounts` | registrations race for an e-mail; an account is used, changed, deactivated and deleted at once, and tokens expire: `AccountsTypeOK`, `UniqueEmails`, `RegistrationKept`, `OldPasswordDead`, `RowsHaveOwner`, `TokensForLiveAccounts`, `InactiveStays`, `AllAccountsAnswered` | pass |
| `accounts_stale_password` | `CurrentPasswordProvided`: a change takes the password it replaces | two changes verify against the hash loaded before either is committed; the second replaces a password nobody provided |

A payload `{"parent_id": null}` alone is refused as empty (`RefusePayload`), because
`validate_at_least_one_field` (`schemas/folder.py` 49) looks at values and not at what was set, although line 34
describes null as the way to make a folder top-level. It takes a name beside it.

Two answers the `accounts` run meets are not what the routers document: the loser of a
registration race that passed the look-up gets 500 from the unique index, not the 409 of
`api/v1/routers/auth.py` 23, and the renewal of a deleted account's token gets a 404 that
`/auth/refresh` does not list. Neither leaves a wrong state.

**Bounds.** Every workload is finite and each request arrives once, so state spaces are
finite without further constraints. Four requests on attachments give two uploads beside
a delete (or download) and the deletion of the note, and three uploads for the quota; the
pool has two connections, so that uploads can both hold one and wait for one. The largest
file fills the limit in `att_quota` and `att_over_quota`, so that one upload too many already
exceeds it. Three requests on folders suffice for a race of two and a bystander that creates
or deletes below them; the forest has a chain of two, so a walk has an ancestor to load, and
a second user's folder. In `folders_one_mover` the pool has two connections, so that three requests
wait for one and for the second one of their `refresh` (`AllAnswered`).

In `notes`, one folder request deletes the tree that holds the note while another moves,
fills or deletes folders, and two note requests are enough for every race that a property
names: update against update, update or delete against create, and either against the
cascade. With `PoolLimit = 2` any two requests overlap and a third has to wait, so the pool
is full when `AllNotesAnswered` needs it; a longer pool would add overlaps of three, which
concern no more rows than two do.
In `accounts`, three requests allow two writers of one account beside its deletion. The clock
(`Horizon = 2`) passes the expiry of an access token (life 1) and of a refresh token (life 2)
from before the start, while a renewed pair still lives at the end.

`OvershootBounded` counts the connections of one pool, so it is a bound per process: with
several workers each would add its own.

Instances may stop: every request is answered or never arrives, so the configurations
do not check for deadlock. That none is stuck is `AllAnswered`.

**Fairness.** In `Attachments`, weak fairness of each request's own steps: the event loop runs
every ready task in turn, PostgreSQL and MinIO answer. A request that waits for a
connection is continuously enabled once others have returned theirs, since the others never
need a second one while they hold one. In `Folders`, weak fairness of some request's step is
enough, which is weaker: requests are answered because each handler ends, even if the
scheduler favours one. In `Notes`, weak fairness of some folder request that has arrived and of some
note request: neither kind is put off forever by the other. In `Accounts`, weak fairness of some
request's step, the end of a mail included: PostgreSQL and the mail server answer or break
the connection. `smtplib` is called without a timeout, so a server that does neither would
keep the connection of that registration, and with enough of them the whole pool; nothing in
the code bounds this. Arrivals, failures, the clock and deactivations are never fair.

`AllAnswered` holds in `folders_one_mover` and would not with two movers: on a cycle the walk of a
later request never ends (`validate_parent` has no bound). The cycle itself is the subject of
`folders_cycle`. Even while there is none, with more movers a walk may not end: the session returns the
parent it holds with the `parent_id` first read, which other moves have made stale. That is
`folders_stale_walk`, whose property assumes `[]Acyclic`. With one mover no row that its walk reads
changes its parent, so neither happens.

`OldPasswordDead` and `CurrentPasswordProvided` are different promises. The first, which holds, is that a
replaced password only comes back by another change; the second, which does not, is that this change
provided the password it replaced.

`RemovedWasBelow` and `NoteKept` say what may go with a folder although its tree is loaded level by level while
folders and notes move. `PutIn` and `NotePutIn` are the folders something has been in, `EverBelow(t)` is what
a chain of them has led to `t` from. A delete may take what lay below its folder step by step at
different times, and nothing else. Together with `DeleteLeavesNothing` that is the subtree itself when
no folder moves meanwhile, which is `DeletesItsSubtree` and proved with that hypothesis.

Operators marked "Variant" in the modules are altered forms of a definition; each breaks one of
the properties, which shows that the property depends on that piece of code.

## Proofs

All theorems hold for every number of requests, users, notes and folders, every workload,
every initial forest, every pool size and every interleaving. They assume only
`PoolAssumption`, `AttachmentsAssumption`, `FoldersAssumption`, `NotesAssumption` and
`AccountsAssumption` (types of the constants, owners respected in the initial forest and notes,
e-mails unique in the initial accounts), which TLC evaluates in every run of their module.
Theorems that need more, of the failures, the initial forest, the pool or what may interleave,
say so in a hypothesis of their own.

`AttachmentsProofs`

- `TypeCorrect`: `[]TypeOK`.
- `AcknowledgedContentSafe`: `[]AcknowledgedHasContent` under every combination of failures. The
  property alone is not inductive. `StoreInv` adds
  that a row exists only once its upload has reached the insert, that the object is there
  when the row is about to be inserted and still is at the refresh, that whoever has found
  a row names an upload that is past its insert (so nothing brings the row or the object
  back), and that the object of a row is removed only after the row.
- `AccessAuthorized`: `[]AccessThroughNote`, and `DeletionFinal`: `[]DeletedMeansGone`. `AccessInv`
  carries the owner check from the lookup of the note, and the tie between row and note
  from the lookup of the row, to the stages that use them.
- `AcknowledgedStays`: `[]AcknowledgedKept` under every combination of failures: a row goes only
  by a delete or a deletion of its note, whose request stays on record.
- `RowsHaveContent`: `[]MetadataHasContent` for instances where nothing fails after a commit took
  effect (`NoLateFailure`); `att_dangling` shows that this is needed.
- `FailuresLeaveNoTrace`, `OrphansAreExplained`, `TornMeansDeleted`: `FailedUploadLeavesNoTrace`,
  `OrphansExplained` and `TornOnlyIfDeleted` when only queries and commits are refused
  (`OnlyRefusals`, as in `att_quota`: an undo or a removal that fails does leave an object
  behind). They rest on one invariant, `TraceInv`, with `StoreInv`, `AccessInv` and
  `MetadataHasContent`: beside the three properties it says that no object is there before
  its upload puts it.

`QuotaProofs`

- `OvershootIsBounded`: `[]OvershootBounded` under every combination of failures. The rows of a note alone
  are not bounded inductively, since an insert no longer checks. `QuotaInv` therefore bounds the
  total of the rows and of the uploads that have passed the check (`TakenBounded`): only
  `AcceptQuota` adds to it, by a file that fits beside the rows it read, and the others it may not
  have seen hold a connection each (`PoolKept`), so there are at most `PoolLimit - 1` of them, of at
  most `MaxFile` each (`UploadsFit`). The sum in the model is a fold of the community modules;
  `BytesAreTotal` identifies it with `Total` of `SumLemmas`, which has what the argument needs of sums:
  any element may be counted first, a subset has no larger sum, `n` elements of at most `m` add
  at most `n * m`. These are facts about finite sets, shown by a counterexample of
  least cardinality (`Shrinking`), because the induction theorems of the library take an operator.

`StoreProofs`

- `ImplementsStore`: `Spec => OneStore`, when failures are refusals and crashes
  (`OnlyEarlyFailures`). Each action maps to one step of `AttachmentStore` or to a stutter
  (`UploadImplements`, `AccessImplements`, `FaultImplements`); the facts about earlier steps that a
  mapping needs are the invariants of `AttachmentsProofs`.

`FoldersProofs`

- `TypeCorrect`: `[]FoldersTypeOK`.
- `ParentOwnerSafe`: `[]ParentSameOwner`. Checks are made several statements before the write, so
  the invariant has to say what a check leaves behind: `Checked(f, u)`, that `f` was a folder of `u`
  and can only vanish, because identifiers are not reused and no step changes an
  owner. `OwnerInv` holds it for the target, the parent that is about to be set and every
  folder a delete has loaded.
- `OnlyOwnerWrites`: `OnlyOwnerChanges` from the same invariant; a cascade stays with one owner
  because `ParentSameOwner` holds (`CascadeOwned`).
- `OnlyWhatWasBelowGoes`: `RemovedWasBelow`. `PlacedInv` ties the table and the sessions to what has been: the parent
  of every row is in `PutIn`, and what a delete has loaded is in `EverBelow` of its folder. Both
  sets only grow, since a request that was answered stays as it is (`PutInGrows`, `BelowGrows`), and
  `EverBelow(t)` is closed under children (`BelowClosed`), so the cascade does not leave it.

`ForestProofs`

Three properties of folders do not hold of every behaviour: `folders_cycle` and
`folders_duplicate` show it for two of them, and a folder that is moved away from a tree being
loaded is deleted with it all the same. The theorems say how much has to stay apart for the
checks to be enough, and assume nothing else of the interleaving.

- `CycleNeedsTwoMoves`: `Spec /\ []MovesApart => []Acyclic`, where `MovesApart` says that no two
  requests are between loading a new parent and writing it. What the walk to the top leaves
  behind is a set (`ChainKept`): it has the new parent, not the folder that moves, and
  with each folder its parent, but for the one the walk loads next. Nothing but a move
  changes the parent of a folder, so others can only delete from the set. If the write
  closed a cycle, the part of the cycle inside the set would be closed under parents
  before the write already.
- `DuplicateNeedsTwoWrites`: `UniqueUnlessRaced`, that is `[]WritesApart => []UniqueSiblings`, where `WritesApart` says that no
  user has two creates or updates between the row they loaded, or their check of the name,
  and their write. `NameKept` carries the outcome of the check to the write, `TargetKept` that an
  update still writes to the row it has loaded, from which it takes the name or the parent
  the payload leaves out.
- `DeleteLeavesNothingBelow`: `Spec => DeleteLeavesNothing`, with no such assumption: what was added below
  since the tree was loaded goes with the foreign key. `DeleteTakesItsSubtree`:
  `Spec /\ []DeletesApart => DeletesItsSubtree`, where `DeletesApart` says that no folder of the user is
  about to be moved while a delete loads its tree; `TreeKept` says that what it has loaded is still
  below its folder.
- Instances that satisfy these hypotheses: `OneMoverKeepsForest` when one request only may move folders
  into others (`folders_one_mover`; `CalledFor` ties a request to its workload), and `SerialKeepsForest`,
  `SerialKeepsNamesUnique` and `SerialDeletesItsSubtree` for a pool of one connection
  (`PoolKept` counts who holds one). The initial forest is assumed to be one
  (`InitiallyAcyclic`) with different names for siblings (`InitiallyUnique`), where a theorem is about that.

`NotesProofs`

- `NotesUseFolders`: `NotesSpec => Spec` of `Folders`, so the theorems above hold beside notes.
- `NotesTypeCorrect`, `NoteFolderSafe` (`[]NotesInOwnFolder`), `OnlyOwnerWritesNotes`
  (`NotesOnlyByOwner`), `OnlyTheTreeIsTaken` (`[]TakenFromTree`) and `CreatedNotesStay` (`[]NoteKept`) rest
  on `NoteInv`: what a request has found (`NoteTargetChecked`), what it is about to set
  (`NoteFolderChecked`) and what a folder delete holds (`HeldChecked`) was of its user and can
  only vanish since. That a cascade does not reach the notes of another user uses
  `OwnerInv` of `FoldersProofs`. `CreatedNotesStay` also needs `NotePlaced`: a note lies where it has been put,
  and what a delete holds was put below its folder.
- `UpdatesDoMerge` (`UpdatesMerge`) and `NoUpdateIsLost` (`[]UpdateTakesEffect`): the second needs
  `LoadedOrOvertaken`, that the row a request has loaded still agrees with the table in every
  column, or another update of that column has committed since. Without it the case where
  an UPDATE leaves out a column because its value equals the loaded one cannot be excluded.

`AccountsProofs`

- `AccountsTypeCorrect`, `EmailsStayUnique` (`[]UniqueEmails`), `NothingOutlivesItsAccount`
  (`[]RowsHaveOwner`) from one invariant, `AccountInv`: the index and the foreign key are
  checked in the step that writes the row, and an identifier is inserted only once.
- `RegistrationsStay` (`[]RegistrationKept`): only a deletion that is answered removes a row.
- `OldPasswordsStayDead` (`[]OldPasswordDead`): the property speaks of answered changes, so it is
  strengthened to committed ones (`OldIsDead`), and a committed change names an
  account that was registered (`ChangedIsRegistered`), so that a deleted one does not come back.
- `InactiveForGood` (`InactiveStays`) and `LiveAccountsGetTokens` (`TokensForLiveAccounts`) are action
  properties of the same invariant.

Only model-checked: liveness (`AllAnswered`, `AllNotesAnswered`, `AllAccountsAnswered`), which is out
of the prover's reach. Every invariant and every action property of a passing run is stated by a
theorem.

## Not modelled

- Listings, pagination and search, the listing of a note's attachments included: they read and
  change nothing. A page and its total are two statements, and pages are ordered by a
  timestamp alone, so they may disagree under concurrent writes; no document promises that
  they do not.
- The rate limiter: `main.py` does not install its middleware, so no request meets it.
- The content of files, names and types beyond what decisions depend on; `sanitize_filename`.
- Hashing and signatures: a hash is verified by its own password only, a token is what
  the application issued. The text of the mail and the SMTP dialogue.
- Row locks in PostgreSQL: a flush and its commit are one step, so waits for a lock and the
  deadlock of two transactions (which PostgreSQL breaks with an error, answered 500) do not
  appear.
- The tree of the folders of a deleted account: `Accounts` has flat rows; how a subtree goes is in
  `Folders` and `Notes`.
- Failures in folder, note and account requests: each is one transaction, which is rolled back;
  a failure between commit and refresh changes the answer only.
- In `Notes`, `Folders` and `Attachments` requests arrive with their user, whose row does not
  disappear while they run; that it may is in `Accounts`.
- Logging, headers, configuration, migrations.

## Plan

What is left, in this order:

1. The deletion of an account composed with `Notes`, in place of the flat rows of `Accounts`, with the
   trees it loads and the attachments whose objects it leaves in the bucket.
2. Listings, should the API ever state what a sequence of pages shows.
