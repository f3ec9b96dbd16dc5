------------------------------ MODULE Sessions ------------------------------
(***************************************************************************)
(* The life of an HTTP request, shared by every component module.          *)
(*                                                                         *)
(* Each request runs in its own asyncio task with its own AsyncSession     *)
(* (app/api/dependencies/database.py).  Tasks interleave at every await,   *)
(* so a request is a program counter pc[r] over the awaits of its handler: *)
(* pc[r] names the next statement that touches shared state.  A request    *)
(* is used once; status[r] is the answer its client gets.                  *)
(*                                                                         *)
(* The session takes a pooled connection with its first query (the lookup  *)
(* of the current user) and gives it back at commit, rollback or close.    *)
(***************************************************************************)
EXTENDS Naturals, FiniteSets

CONSTANTS
    Requests,    \* the HTTP requests of the instance
    PoolLimit    \* pool_size + max_overflow of the engine (15 by default)

ASSUME PoolAssumption == PoolLimit \in Nat \ {0}

VARIABLES
    call,        \* what each request asks, NoCall before it arrives
    pc,          \* the await each request has reached
    status       \* the answer, "none" while there is none

sessionVars == <<call, pc, status>>

NoCall == [op |-> "none"]

Statuses == {"none", "200", "201", "204", "truncated", "lost",
             "400", "401", "403", "404", "409", "413", "422", "500"}

Successes == {"200", "201", "204"}

(* The status code of each domain exception the modelled services raise.   *)
StatusOf == [NoteNotFound         |-> "404",
             AttachmentNotFound   |-> "404",
             FolderNotFound       |-> "404",
             FolderAlreadyExists  |-> "409",
             InvalidHierarchy     |-> "400",
             UnsupportedFileType  |-> "400",
             FileTooLarge         |-> "413",
             StorageLimitExceeded |-> "413",
             UserNotFound         |-> "404",
             UserAlreadyExists    |-> "409",
             UserInactive         |-> "403",
             InvalidCredentials   |-> "401",
             TokenExpired         |-> "401",
             InvalidToken         |-> "401",
             InvalidPassword      |-> "400",
             Validation           |-> "422",
             Unhandled            |-> "500"]

SessionsInit ==
    /\ call = [r \in Requests |-> NoCall]
    /\ pc = [r \in Requests |-> "idle"]
    /\ status = [r \in Requests |-> "none"]

At(r, stage) == pc[r] = stage

Answered(r) == At(r, "done")

InFlight(r) == pc[r] \notin {"idle", "done"}

Enter(r, c, stage) ==
    /\ call' = [call EXCEPT ![r] = c]
    /\ pc' = [pc EXCEPT ![r] = stage]
    /\ UNCHANGED status

Goto(r, stage) ==
    /\ pc' = [pc EXCEPT ![r] = stage]
    /\ UNCHANGED <<call, status>>

Respond(r, code) ==
    /\ pc' = [pc EXCEPT ![r] = "done"]
    /\ status' = [status EXCEPT ![r] = code]
    /\ UNCHANGED call

(* A connection can be checked out when fewer than PoolLimit requests are  *)
(* at a stage that holds one.  The holding stages are the component's.     *)
ConnectionFree(holding) ==
    Cardinality({r \in Requests : pc[r] \in holding}) < PoolLimit
=============================================================================
