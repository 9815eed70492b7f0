------------------------------ MODULE Dispatch ------------------------------
(***************************************************************************)
(* Who holds which SOS call, and who is on shift.                          *)
(*                                                                         *)
(* Operators, administrators and the cron worker change the same three     *)
(* columns: User.onShift, EmergencySession.status and                      *)
(* EmergencySession.assignedOperatorId.  The backend is one Node process   *)
(* but every handler awaits its SQL statements one by one, so any number   *)
(* of them interleave between statements.  PostgreSQL runs at READ         *)
(* COMMITTED: a statement sees what is committed when it starts, an UPDATE *)
(* re-checks its WHERE on the row it finally locks.                        *)
(*                                                                         *)
(* A request passes these points:                                          *)
(*   idle -> lock -> locked -> (checked ->) idle   inside a transaction    *)
(*   idle -> update -> idle                        one conditional UPDATE  *)
(* "lock" waits for SELECT ... FOR UPDATE on the operator's row            *)
(* (lockOperatorRow); "locked" and "checked" hold it.  The final UPDATE    *)
(* and the COMMIT are one step: nothing is read in between.                *)
(***************************************************************************)
EXTENDS FiniteSets, Naturals

CONSTANTS
    Operators,    \* user ids with Role.OPERATOR
    Sessions,     \* EmergencySession ids
    Requests,     \* handlers running at the same time: HTTP requests and cron
    NoOperator,   \* assignedOperatorId = NULL; a request about no operator
    NoSession     \* a request about no session

ASSUME NullAssumption == NoOperator \notin Operators /\ NoSession \notin Sessions

VARIABLES
    account,      \* [Operators -> {"absent", "active", "deleted"}], User.deletedAt
    onShift,      \* [Operators -> BOOLEAN], User.onShift
    status,       \* [Sessions -> Status], EmergencySession.status
    assignee,     \* [Sessions -> Operators or NULL], assignedOperatorId
    request       \* [Requests -> RequestState]

rows == <<account, onShift, status, assignee>>
vars == <<account, onShift, status, assignee, request>>

Board == INSTANCE CallBoard WITH status <- status, assignee <- assignee, onShift <- onShift

-----------------------------------------------------------------------------
\* OPEN_ASSIGNED_STATUSES; CLOSED is final, NEW waits in the pool.
OpenAssigned == {"ASSIGNED", "IN_PROGRESS"}
Status == {"ABSENT", "NEW", "CLOSED"} \cup OpenAssigned

\* Requests about an operator, run under the lock on that operator's row ...
TakingKinds   == {"accept", "assign", "reassign"}
LeavingKinds  == {"shiftOff", "delete"}
CheckedKinds  == TakingKinds \cup LeavingKinds
LockingKinds  == CheckedKinds \cup {"endShift", "shiftOn", "drop"}
\* ... and those that are one UPDATE with its conditions in WHERE.
UpdatingKinds == {"startShift", "startProgress", "resolve",
                  "unassign", "closeAdmin", "reclaim"}

\* Requests that name a session, and those that name an operator.
SessionKinds  == TakingKinds \cup {"startProgress", "resolve",
                                   "unassign", "closeAdmin", "reclaim"}
OperatorKinds == LockingKinds \cup {"startShift", "startProgress", "resolve", "reclaim"}

Idle == [kind |-> "none", at |-> "idle", op |-> NoOperator, sess |-> NoSession]

RequestState ==
    [kind : {"none"} \cup LockingKinds \cup UpdatingKinds,
     at   : {"idle", "lock", "locked", "checked", "update"},
     op   : Operators \cup {NoOperator},
     sess : Sessions \cup {NoSession}]

\* Each point belongs to the requests that pass it, and a request names what it
\* is about.
WellFormed(r) ==
    /\ r.at \in {"lock", "locked"} => r.kind \in LockingKinds
    /\ r.at = "checked" => r.kind \in CheckedKinds
    /\ r.at = "update" => r.kind \in UpdatingKinds
    /\ r.at = "idle" => r = Idle
    /\ r.kind \in SessionKinds => r.sess \in Sessions /\ status[r.sess] # "ABSENT"
    /\ r.kind \in OperatorKinds => r.op \in Operators

TypeOK ==
    /\ account \in [Operators -> {"absent", "active", "deleted"}]
    /\ onShift \in [Operators -> BOOLEAN]
    /\ status \in [Sessions -> Status]
    /\ assignee \in [Sessions -> Operators \cup {NoOperator}]
    /\ request \in [Requests -> RequestState]
    /\ \A p \in Requests : WellFormed(request[p])

Init ==
    /\ account = [o \in Operators |-> "absent"]
    /\ onShift = [o \in Operators |-> FALSE]
    /\ status = [s \in Sessions |-> "ABSENT"]
    /\ assignee = [s \in Sessions |-> NoOperator]
    /\ request = [p \in Requests |-> Idle]

-----------------------------------------------------------------------------
\* The calls an operator has to deal with: countOpenAssigned and the same
\* count written out in every transaction.
OpenCalls(o) == {s \in Sessions : assignee[s] = o /\ status[s] \in OpenAssigned}

HoldsRow(p, o) == request[p].op = o /\ request[p].at \in {"locked", "checked"}

\* Mutant: lockOperatorRow left out.
RowFreeWithoutLock(o) == TRUE

\* The lock on the operator's row is granted when nobody else holds it.  An
\* UPDATE of that row waits for it as well.
RowFree(o) == \A q \in Requests : ~HoldsRow(q, o)

Receive(p, kind, at, o, s) ==
    /\ request[p] = Idle
    /\ request' = [request EXCEPT
                     ![p] = [kind |-> kind, at |-> at, op |-> o, sess |-> s]]
    /\ UNCHANGED rows

Answer(p) == request' = [request EXCEPT ![p] = Idle]

Running(p, kind, at) == request[p].kind = kind /\ request[p].at = at

-----------------------------------------------------------------------------
(* Requests arrive.  An operator's own request passes JwtStrategy.validate, *)
(* which rejects deleted accounts -- at that moment, not later.             *)

ReceiveOperatorCall(p, kind, o, s) ==
    /\ account[o] = "active"
    /\ status[s] # "ABSENT"
    /\ Receive(p, kind, IF kind = "accept" THEN "lock" ELSE "update", o, s)

ReceiveShiftToggle(p, kind, o) ==
    /\ account[o] = "active"
    /\ Receive(p, kind, IF kind = "endShift" THEN "lock" ELSE "update", o, NoSession)

\* The admin's page may be old: any operator, any session of the past.
ReceiveAdminPlacement(p, kind, o, s) ==
    /\ account[o] # "absent"
    /\ status[s] # "ABSENT"
    /\ Receive(p, kind, "lock", o, s)

ReceiveAdminRelease(p, kind, s) ==
    /\ status[s] # "ABSENT"
    /\ Receive(p, kind, "update", NoOperator, s)

\* setOperatorShift looks at the role only, not at deletedAt.
ReceiveAdminShift(p, kind, o) ==
    /\ account[o] # "absent"
    /\ Receive(p, kind, "lock", o, NoSession)

\* assertOperatorExists; the password hash is computed before the lock.
ReceiveDelete(p, o) ==
    /\ account[o] = "active"
    /\ Receive(p, "delete", "lock", o, NoSession)

\* checkStaleAssignments lists the ASSIGNED calls and finds this operator
\* silent.  Presence decides who is silent; here anyone may be.
ReceiveReclaim(p, s) ==
    /\ status[s] = "ASSIGNED"
    /\ assignee[s] # NoOperator
    /\ Receive(p, "reclaim", "update", assignee[s], s)

\* dropDeadShifts lists those on shift without an open call.
ReceiveDrop(p, o) ==
    /\ onShift[o]
    /\ OpenCalls(o) = {}
    /\ Receive(p, "drop", "lock", o, NoSession)

\* SELECT id FROM "User" WHERE id = ... FOR UPDATE
LockOperatorRow(p) ==
    /\ request[p].at = "lock"
    /\ RowFree(request[p].op)
    /\ request' = [request EXCEPT ![p].at = "locked"]
    /\ UNCHANGED rows

-----------------------------------------------------------------------------
(* Checks under the lock.                                                  *)

\* Mutants: the open calls are not counted, deletedAt is not looked at.
MayAcceptBusy(o) == onShift[o]
MayBeGivenDeleted(o) == onShift[o] /\ OpenCalls(o) = {}

\* acceptSession trusts the JWT guard for deletedAt ...
MayAccept(o) == onShift[o] /\ OpenCalls(o) = {}

\* ... assertOperatorCanTakeSession looks at it again.
MayBeGiven(o) == account[o] = "active" /\ onShift[o] /\ OpenCalls(o) = {}

\* setOperatorShift(false) and deleteOperator
MayLeave(o) == OpenCalls(o) = {}

Passes(r) ==
    \/ r.kind = "accept" /\ MayAccept(r.op)
    \/ r.kind \in {"assign", "reassign"} /\ MayBeGiven(r.op)
    \/ r.kind \in LeavingKinds /\ MayLeave(r.op)

Check(p) ==
    /\ request[p].kind \in CheckedKinds
    /\ request[p].at = "locked"
    /\ Passes(request[p])
    /\ request' = [request EXCEPT ![p].at = "checked"]
    /\ UNCHANGED rows

\* 403, 409 or 400: the transaction rolls back and the lock is gone.
Refuse(p) ==
    /\ request[p].kind \in CheckedKinds
    /\ request[p].at = "locked"
    /\ ~Passes(request[p])
    /\ Answer(p)
    /\ UNCHANGED rows

\* Any request may end here: the process dies, the connection drops or the
\* interactive transaction outlives its timeout.  Nothing was committed.
Fail(p) ==
    /\ request[p] # Idle
    /\ Answer(p)
    /\ UNCHANGED rows

-----------------------------------------------------------------------------
(* Updates of EmergencySession.  When no row matches (P2025) nothing is     *)
(* written and the client is told 404, 403 or 409.                          *)

ConditionalUpdate(p, where, newStatus, newAssignee) ==
    /\ Answer(p)
    /\ IF where
       THEN /\ status' = [status EXCEPT ![request[p].sess] = newStatus]
            /\ assignee' = [assignee EXCEPT ![request[p].sess] = newAssignee]
       ELSE UNCHANGED <<status, assignee>>
    /\ UNCHANGED <<account, onShift>>

NotClosed(s) == status[s] # "CLOSED"

FreeInPool(s) == status[s] = "NEW" /\ assignee[s] = NoOperator

AcceptSession(p) ==
    LET r == request[p] IN
    /\ Running(p, "accept", "checked")
    /\ ConditionalUpdate(p, FreeInPool(r.sess), "ASSIGNED", r.op)

Unassigned(s) == NotClosed(s) /\ assignee[s] = NoOperator

AssignSession(p) ==
    LET r == request[p] IN
    /\ Running(p, "assign", "checked")
    /\ ConditionalUpdate(p, Unassigned(r.sess), "ASSIGNED", r.op)

\* { not: operatorId } is <> in SQL, which NULL never satisfies.
HeldByAnother(s, o) == NotClosed(s) /\ assignee[s] \notin {o, NoOperator}

ReassignSession(p) ==
    LET r == request[p] IN
    /\ Running(p, "reassign", "checked")
    /\ ConditionalUpdate(p, HeldByAnother(r.sess, r.op), "ASSIGNED", r.op)

\* The WHERE of startProgress, and of the cron on what it read earlier.
AssignedTo(s, o) == status[s] = "ASSIGNED" /\ assignee[s] = o

StartProgress(p) ==
    LET r == request[p] IN
    /\ Running(p, "startProgress", "update")
    /\ ConditionalUpdate(p, AssignedTo(r.sess, r.op), "IN_PROGRESS", r.op)

ReclaimStale(p) ==
    LET r == request[p] IN
    /\ Running(p, "reclaim", "update")
    /\ ConditionalUpdate(p, AssignedTo(r.sess, r.op), "NEW", NoOperator)

\* The operator's name stays on a call they resolved.
ResolveSession(p) ==
    LET r == request[p] IN
    /\ Running(p, "resolve", "update")
    /\ ConditionalUpdate(p, NotClosed(r.sess) /\ assignee[r.sess] = r.op, "CLOSED", r.op)

\* Also a call that is NEW already: it is written again as it was.
UnassignSession(p) ==
    /\ Running(p, "unassign", "update")
    /\ ConditionalUpdate(p, NotClosed(request[p].sess), "NEW", NoOperator)

CloseSessionAdmin(p) ==
    /\ Running(p, "closeAdmin", "update")
    /\ ConditionalUpdate(p, NotClosed(request[p].sess), "CLOSED", NoOperator)

-----------------------------------------------------------------------------
(* Updates of User.                                                        *)

SetShift(p, on) ==
    /\ Answer(p)
    /\ onShift' = [onShift EXCEPT ![request[p].op] = on]
    /\ UNCHANGED <<account, status, assignee>>

\* updateMany where onShift is false: an UPDATE that has a row to change waits
\* for its lock, and nothing but onShift is looked at.
StartShift(p) ==
    /\ Running(p, "startShift", "update")
    /\ onShift[request[p].op] \/ RowFree(request[p].op)
    /\ SetShift(p, TRUE)

\* Mutant: the UPDATE alone, without the row lock before it.
EndShiftUnlocked(p) ==
    /\ Running(p, "endShift", "lock")
    /\ OpenCalls(request[p].op) = {}
    /\ SetShift(p, FALSE)

\* "No open call" is part of the UPDATE, which runs under the row lock.
EndShift(p) ==
    /\ Running(p, "endShift", "locked")
    /\ OpenCalls(request[p].op) = {}
    /\ SetShift(p, FALSE)

EndShiftConflict(p) ==
    /\ Running(p, "endShift", "locked")
    /\ OpenCalls(request[p].op) # {}
    /\ Answer(p)
    /\ UNCHANGED rows

\* Mutant: the list made before the lock is trusted.
DropAsListed(p) ==
    /\ Running(p, "drop", "locked")
    /\ onShift[request[p].op]
    /\ SetShift(p, FALSE)

DropDeadShift(p) ==
    /\ Running(p, "drop", "locked")
    /\ onShift[request[p].op]
    /\ OpenCalls(request[p].op) = {}
    /\ SetShift(p, FALSE)

DropNothing(p) ==
    /\ Running(p, "drop", "locked")
    /\ ~(onShift[request[p].op] /\ OpenCalls(request[p].op) = {})
    /\ Answer(p)
    /\ UNCHANGED rows

SetOperatorShiftOn(p) ==
    /\ Running(p, "shiftOn", "locked")
    /\ SetShift(p, TRUE)

SetOperatorShiftOff(p) ==
    /\ Running(p, "shiftOff", "checked")
    /\ SetShift(p, FALSE)

DeleteOperator(p) ==
    /\ Running(p, "delete", "checked")
    /\ Answer(p)
    /\ account' = [account EXCEPT ![request[p].op] = "deleted"]
    /\ onShift' = [onShift EXCEPT ![request[p].op] = FALSE]
    /\ UNCHANGED <<status, assignee>>

-----------------------------------------------------------------------------
(* One statement each, with nothing read before it that it relies on.      *)

CreateOperator(o) ==
    /\ account[o] = "absent"
    /\ account' = [account EXCEPT ![o] = "active"]
    /\ UNCHANGED <<onShift, status, assignee, request>>

\* startSessionLocked creates the row; who may raise one is SosTrigger's matter.
StartSession(s) ==
    /\ status[s] = "ABSENT"
    /\ status' = [status EXCEPT ![s] = "NEW"]
    /\ UNCHANGED <<account, onShift, assignee, request>>

\* The caller closes their own call; the operator's name stays on it.
CloseSession(s) ==
    /\ status[s] \notin {"ABSENT", "CLOSED"}
    /\ status' = [status EXCEPT ![s] = "CLOSED"]
    /\ UNCHANGED <<account, onShift, assignee, request>>

-----------------------------------------------------------------------------
Receives(p) ==
    \/ \E s \in Sessions, o \in Operators :
          \/ \E k \in {"accept", "startProgress", "resolve"} : ReceiveOperatorCall(p, k, o, s)
          \/ \E k \in {"assign", "reassign"} : ReceiveAdminPlacement(p, k, o, s)
    \/ \E o \in Operators :
          \/ \E k \in {"startShift", "endShift"} : ReceiveShiftToggle(p, k, o)
          \/ \E k \in {"shiftOn", "shiftOff"} : ReceiveAdminShift(p, k, o)
          \/ ReceiveDelete(p, o)
          \/ ReceiveDrop(p, o)
    \/ \E s \in Sessions :
          \/ \E k \in {"unassign", "closeAdmin"} : ReceiveAdminRelease(p, k, s)
          \/ ReceiveReclaim(p, s)

UpdatesSession(p) ==
    \/ AcceptSession(p) \/ AssignSession(p) \/ ReassignSession(p)
    \/ StartProgress(p) \/ ResolveSession(p)
    \/ UnassignSession(p) \/ CloseSessionAdmin(p) \/ ReclaimStale(p)

UpdatesUser(p) ==
    \/ StartShift(p) \/ EndShift(p) \/ DropDeadShift(p)
    \/ SetOperatorShiftOn(p) \/ SetOperatorShiftOff(p) \/ DeleteOperator(p)

\* The handler of p goes on by one statement.
Proceeds(p) ==
    \/ LockOperatorRow(p) \/ Check(p) \/ Refuse(p)
    \/ UpdatesSession(p) \/ UpdatesUser(p)
    \/ EndShiftConflict(p) \/ DropNothing(p)

Next ==
    \/ \E p \in Requests : Receives(p) \/ Proceeds(p) \/ Fail(p)
    \/ \E o \in Operators : CreateOperator(o)
    \/ \E s \in Sessions : StartSession(s) \/ CloseSession(s)

Spec == Init /\ [][Next]_vars

-----------------------------------------------------------------------------
(* Safety.                                                                 *)

\* A call in the pool has no operator, a call being worked on has one: every
\* list of the product (pool, busy operators, admin console) filters by one of
\* the two columns and means both.
StatusMatchesAssignee ==
    \A s \in Sessions :
        /\ status[s] \in {"ABSENT", "NEW"} => assignee[s] = NoOperator
        /\ status[s] \in OpenAssigned => assignee[s] # NoOperator

\* The app shows one call: two accepts, or an accept and an admin's assignment,
\* never both win (operator-lock.ts).
OneCallPerOperator ==
    \A o \in Operators : \A s, t \in OpenCalls(o) : s = t

\* Nobody is off shift with a call on their hands, whoever ends the shift: the
\* operator, an administrator, the cron worker or the deletion of the account.
OpenCallHeldOnShift ==
    \A o \in Operators : OpenCalls(o) # {} => onShift[o]

\* A transaction that holds an operator's row holds it alone, and what it
\* checked there is still true when it writes.
RowLockProtectsChecks ==
    \A p \in Requests :
        /\ \A q \in Requests, o \in Operators : HoldsRow(p, o) /\ HoldsRow(q, o) => p = q
        /\ request[p].at = "checked" => Passes(request[p])

-----------------------------------------------------------------------------
(* What a step may never do.                                               *)

\* A closed call is never reopened, and its operator stays on record as it was
\* when it was closed: late accepts, assignments and reclaims find no row.
ClosedIsFinal ==
    [][\A s \in Sessions : status[s] = "CLOSED" =>
          status'[s] = "CLOSED" /\ assignee'[s] = assignee[s]]_vars

\* A call passes from one operator straight to another only when an
\* administrator reassigns it; an accept or an assignment sent from an outdated
\* page never takes it away (assignSession).
OnlyReassignTakesOver ==
    [][\A s \in Sessions :
          assignee[s] # NoOperator /\ assignee'[s] \in Operators \ {assignee[s]} =>
              \E p \in Requests : Running(p, "reassign", "checked")]_vars

\* The cron worker never returns a call the operator has begun to work on,
\* though it decided to when the call was still ASSIGNED.
CronLeavesWorkAlone ==
    [][\A s \in Sessions : status[s] = "IN_PROGRESS" /\ status'[s] = "NEW" =>
          \E p \in Requests : Running(p, "unassign", "update")]_vars

\* An administrator never puts a call on a deleted account, even when the
\* deletion commits while the assignment is on its way.
NeverGivenToDeleted ==
    [][\A s \in Sessions :
          assignee'[s] # assignee[s] /\ assignee'[s] \in Operators
          /\ account[assignee'[s]] = "deleted" =>
              \E p \in Requests : Running(p, "accept", "checked")]_vars

\* Each transaction looks like one indivisible step of the call board.
ImplementsCallBoard == Board!Spec

-----------------------------------------------------------------------------
(* What a comment of the code says of deleted accounts, and the code does   *)
(* not keep: see section 5 of README.md.                                   *)

\* deleteOperator: check and deletion run under the row lock, "otherwise a call
\* accepted between them stayed on the deleted operator".
NoCallOnDeleted ==
    \A o \in Operators : account[o] = "deleted" => OpenCalls(o) = {}

=============================================================================
