----------------------------- MODULE SosTrigger -----------------------------
(***************************************************************************)
(* Raising an SOS: the duplicate protection of startSession.               *)
(*                                                                         *)
(* startSession takes a lock in Redis, looks for an open session of the    *)
(* caller, checks their entitlement, creates the row and releases the      *)
(* lock.  The database does not forbid two open sessions of one user, so   *)
(* only the lock keeps a double tap from raising two alarms.  Redis may be *)
(* down (the alarm goes on without the lock), a reply may be lost, the     *)
(* lock may outlive or expire under its holder, the process may die.       *)
(* deleteAccount reads "no open session" and anonymizes the account in a   *)
(* later transaction, with a password hash in between.                     *)
(*                                                                         *)
(* NEW, ASSIGNED and IN_PROGRESS are one status here, "OPEN": this code    *)
(* only asks whether a session is CLOSED.  Dispatch tells them apart.      *)
(*                                                                         *)
(* Init, Next, Spec and their like carry the prefix Sos, so that           *)
(* AlarmProofs can extend this module and Notices together.                *)
(***************************************************************************)
EXTENDS FiniteSets, Naturals

CONSTANTS
    Users,        \* accounts with Role.USER
    Sessions,     \* EmergencySession ids
    Calls,        \* startSession and deleteAccount requests in flight
    NoUser,       \* nobody: the owner of a row that does not exist
    NoCall        \* the lock key does not exist

ASSUME SosNullAssumption == NoUser \notin Users /\ NoCall \notin Calls

VARIABLES
    account,        \* [Users -> {"active", "deleted"}], User.deletedAt
    sessionStatus,  \* [Sessions -> {"ABSENT", "OPEN", "CLOSED"}]
    owner,          \* [Sessions -> Users or nobody], EmergencySession.userId
    lock,           \* [Users -> Calls or none], key sos:trigger:<userId>
    call,           \* [Calls -> CallState]
    unprotected     \* history: users for whom a start went on without the lock

sosVars == <<account, sessionStatus, owner, lock, call, unprotected>>

-----------------------------------------------------------------------------
\* token: what the handler knows of the lock.  "ours" becomes "expired" when the
\* key dies under it: the handler does not notice, the history does.
Quiet == [at |-> "idle", user |-> NoUser, token |-> "none"]

CallState ==
    [at    : {"idle", "acquire", "inFlight", "find", "entitlement", "create",
              "release", "deleteFind", "deleteCommit"},
     user  : Users \cup {NoUser},
     token : {"none", "ours", "expired"}]

SosTypeOK ==
    /\ account \in [Users -> {"active", "deleted"}]
    /\ sessionStatus \in [Sessions -> {"ABSENT", "OPEN", "CLOSED"}]
    /\ owner \in [Sessions -> Users \cup {NoUser}]
    /\ \A s \in Sessions : owner[s] = NoUser <=> sessionStatus[s] = "ABSENT"
    /\ lock \in [Users -> Calls \cup {NoCall}]
    /\ call \in [Calls -> CallState]
    /\ \A c \in Calls : call[c].at # "idle" => call[c].user \in Users
    /\ unprotected \in SUBSET Users

SosInit ==
    /\ account = [u \in Users |-> "active"]
    /\ sessionStatus = [s \in Sessions |-> "ABSENT"]
    /\ owner = [s \in Sessions |-> NoUser]
    /\ lock = [u \in Users |-> NoCall]
    /\ call = [c \in Calls |-> Quiet]
    /\ unprotected = {}

-----------------------------------------------------------------------------
OpenSessions(u) == {s \in Sessions : owner[s] = u /\ sessionStatus[s] = "OPEN"}

\* The stretch of startSessionLocked in which "no open session" must not change.
Deciding == {"find", "entitlement", "create"}

Answer(c) == call' = [call EXCEPT ![c] = Quiet]

MoveTo(c, at) == call' = [call EXCEPT ![c].at = at]

\* JwtStrategy.validate lets active accounts in.
ReceiveCall(c, u, at) ==
    /\ call[c] = Quiet
    /\ account[u] = "active"
    /\ call' = [call EXCEPT ![c] = [at |-> at, user |-> u, token |-> "none"]]
    /\ UNCHANGED <<account, sessionStatus, owner, lock, unprotected>>

ReceiveStart(c, u) == ReceiveCall(c, u, "acquire")
ReceiveDelete(c, u) == ReceiveCall(c, u, "deleteFind")

-----------------------------------------------------------------------------
(* startSession.                                                           *)

\* Mutant: SET without NX.
KeyIsFreeOrNot(u) == TRUE

KeyIsFree(u) == lock[u] = NoCall

\* SET key token EX 30 NX
AcquireLock(c) ==
    /\ call[c].at = "acquire"
    /\ KeyIsFree(call[c].user)
    /\ lock' = [lock EXCEPT ![call[c].user] = c]
    /\ call' = [call EXCEPT ![c].at = "find", ![c].token = "ours"]
    /\ UNCHANGED <<account, sessionStatus, owner, unprotected>>

LockIsTaken(c) ==
    /\ call[c].at = "acquire"
    /\ ~KeyIsFree(call[c].user)
    /\ MoveTo(c, "inFlight")
    /\ UNCHANGED <<account, sessionStatus, owner, lock, unprotected>>

\* Redis cannot be reached: logged, and the alarm goes on without the lock.  The
\* SET may have been executed all the same, its reply lost: the key then stands
\* until it expires.
AcquireFails(c) ==
    /\ call[c].at = "acquire"
    /\ \/ UNCHANGED lock
       \/ /\ KeyIsFree(call[c].user)
          /\ lock' = [lock EXCEPT ![call[c].user] = c]
    /\ MoveTo(c, "find")
    /\ unprotected' = unprotected \cup {call[c].user}
    /\ UNCHANGED <<account, sessionStatus, owner>>

\* The open session of the run in flight, or 409 SOS_IN_PROGRESS.
AnswerInFlight(c) ==
    /\ call[c].at = "inFlight"
    /\ Answer(c)
    /\ UNCHANGED <<account, sessionStatus, owner, lock, unprotected>>

\* startSessionLocked: an open session is returned as it is ...
FindOpenSession(c) ==
    /\ call[c].at = "find"
    /\ OpenSessions(call[c].user) # {}
    /\ MoveTo(c, "release")
    /\ UNCHANGED <<account, sessionStatus, owner, lock, unprotected>>

FindNoSession(c) ==
    /\ call[c].at = "find"
    /\ OpenSessions(call[c].user) = {}
    /\ MoveTo(c, "entitlement")
    /\ UNCHANGED <<account, sessionStatus, owner, lock, unprotected>>

\* ... otherwise venue membership or subscription decides: any outcome here.
CheckEntitlement(c) ==
    /\ call[c].at = "entitlement"
    /\ \E next \in {"create", "release"} : MoveTo(c, next)
    /\ UNCHANGED <<account, sessionStatus, owner, lock, unprotected>>

CreateSession(c, s) ==
    /\ call[c].at = "create"
    /\ sessionStatus[s] = "ABSENT"
    /\ sessionStatus' = [sessionStatus EXCEPT ![s] = "OPEN"]
    /\ owner' = [owner EXCEPT ![s] = call[c].user]
    /\ MoveTo(c, "release")
    /\ UNCHANGED <<account, lock, unprotected>>

\* Mutant: DEL without the comparison.
Anyones(c) == TRUE

\* What RELEASE_LOCK_SCRIPT compares: the value of the key with the token.
StillOurs(c) == lock[call[c].user] = c /\ call[c].token = "ours"

\* finally: a handler without a token releases nothing, and a failed release is
\* logged and otherwise ignored.
ReleaseLock(c) ==
    /\ call[c].at = "release"
    /\ Answer(c)
    /\ \/ /\ call[c].token # "none"
          /\ StillOurs(c)
          /\ lock' = [lock EXCEPT ![call[c].user] = NoCall]
       \/ UNCHANGED lock
    /\ UNCHANGED <<account, sessionStatus, owner, unprotected>>

\* Mutant: SET without EX.
KeyStays(u) == FALSE /\ UNCHANGED sosVars

\* The TTL of a key runs out, maybe while its holder is still deciding.
ExpireLock(u) ==
    /\ lock[u] # NoCall
    /\ lock' = [lock EXCEPT ![u] = NoCall]
    /\ LET c == lock[u]
           underHolder == call[c].user = u /\ call[c].token = "ours"
       IN  /\ call' = IF underHolder THEN [call EXCEPT ![c].token = "expired"] ELSE call
           /\ unprotected' = IF underHolder /\ call[c].at \in Deciding
                             THEN unprotected \cup {u} ELSE unprotected
    /\ UNCHANGED <<account, sessionStatus, owner>>

\* The process dies, or a query fails and so does the release: the key stays.
Fail(c) ==
    /\ call[c] # Quiet
    /\ Answer(c)
    /\ UNCHANGED <<account, sessionStatus, owner, lock, unprotected>>

-----------------------------------------------------------------------------
(* closeSession and the operators' and administrators' ways to close.      *)
CloseSession(s) ==
    /\ sessionStatus[s] = "OPEN"
    /\ sessionStatus' = [sessionStatus EXCEPT ![s] = "CLOSED"]
    /\ UNCHANGED <<account, owner, lock, call, unprotected>>

-----------------------------------------------------------------------------
(* deleteAccount.                                                          *)

\* Already deleted: 200.  An open session: 409 ACTIVE_SOS_BLOCKS_DELETE.
DeleteRefused(c) ==
    /\ call[c].at = "deleteFind"
    /\ account[call[c].user] = "deleted" \/ OpenSessions(call[c].user) # {}
    /\ Answer(c)
    /\ UNCHANGED <<account, sessionStatus, owner, lock, unprotected>>

DeleteAllowed(c) ==
    /\ call[c].at = "deleteFind"
    /\ account[call[c].user] = "active"
    /\ OpenSessions(call[c].user) = {}
    /\ MoveTo(c, "deleteCommit")
    /\ UNCHANGED <<account, sessionStatus, owner, lock, unprotected>>

\* The transaction: PII wiped, deletedAt set; nothing is looked at again.
DeleteCommit(c) ==
    /\ call[c].at = "deleteCommit"
    /\ account' = [account EXCEPT ![call[c].user] = "deleted"]
    /\ Answer(c)
    /\ UNCHANGED <<sessionStatus, owner, lock, unprotected>>

-----------------------------------------------------------------------------
Starts(c) ==
    \/ AcquireLock(c) \/ LockIsTaken(c) \/ AcquireFails(c) \/ AnswerInFlight(c)
    \/ FindOpenSession(c) \/ FindNoSession(c) \/ CheckEntitlement(c)
    \/ \E s \in Sessions : CreateSession(c, s)
    \/ ReleaseLock(c)

Deletes(c) == DeleteRefused(c) \/ DeleteAllowed(c) \/ DeleteCommit(c)

SosNext ==
    \/ \E c \in Calls, u \in Users : ReceiveStart(c, u) \/ ReceiveDelete(c, u)
    \/ \E c \in Calls : Starts(c) \/ Deletes(c) \/ Fail(c)
    \/ \E s \in Sessions : CloseSession(s)
    \/ \E u \in Users : ExpireLock(u)

SosSpec == SosInit /\ [][SosNext]_sosVars

\* A failure that is not also what the handler would do anyway.
ProperFail(c) == Fail(c) /\ ~Starts(c) /\ ~Deletes(c)

\* Redis lets a key die in the end, a handler that can go on does, and processes
\* die, and queries fail, any number of times but not for ever.
FairSosSpec ==
    /\ SosSpec
    /\ \A u \in Users : WF_sosVars(ExpireLock(u))
    /\ \A c \in Calls : WF_sosVars(Starts(c)) /\ WF_sosVars(Deletes(c))
    /\ <>[][\A c \in Calls : ~ProperFail(c)]_sosVars

-----------------------------------------------------------------------------
\* One alarm per person: a double tap or a retry never opens a second session,
\* unless a start of that user went on without Redis or outlived its lock.
OneOpenSession ==
    \A u \in Users \ unprotected : \A s, t \in OpenSessions(u) : s = t

\* While a start that took the lock is deciding, the key is its own: nobody else
\* got it, and no late finisher released it.
LockProtectsDecision ==
    \A c \in Calls :
        call[c].at \in Deciding /\ call[c].user \notin unprotected =>
            call[c].token = "ours" /\ lock[call[c].user] = c

\* Between "no open session" and the insert nobody else opens one.
DecisionStillHolds ==
    \A c \in Calls :
        call[c].at \in {"entitlement", "create"} /\ call[c].user \notin unprotected =>
            OpenSessions(call[c].user) = {}

\* "Already being processed" is no final answer: whoever keeps asking gets to the
\* search for their session again and again, although a crash or a failed release
\* leaves keys that nobody owns.
RetriesGetThrough ==
    \A u \in Users :
        []<>(\E c \in Calls : call[c].at = "acquire" /\ call[c].user = u) =>
            []<>(\E c \in Calls : call[c].at = "find" /\ call[c].user = u)

-----------------------------------------------------------------------------
(* What the code says and does not keep: see section 5 of README.md.      *)

\* deleteAccount is blocked if the user has an active SOS session.
NoOpenSosOfDeleted ==
    \A u \in Users : account[u] = "deleted" => OpenSessions(u) = {}
=============================================================================
