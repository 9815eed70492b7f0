--------------------------- MODULE DispatchProofs ---------------------------
(* What Dispatch guarantees for every number of operators, calls and        *)
(* simultaneous requests.                                                  *)
EXTENDS Dispatch, TLAPS

-----------------------------------------------------------------------------
(* Types.                                                                  *)

LEMMA InitTypeOK == Init => TypeOK
BY DEF Init, TypeOK, Idle, RequestState, Status, WellFormed, LockingKinds,
       CheckedKinds, TakingKinds, LeavingKinds, UpdatingKinds, SessionKinds,
       OperatorKinds

\* A new request is well formed, whatever its kind.
LEMMA ReceivesTypeOK ==
    ASSUME TypeOK, NEW p \in Requests, Receives(p)
    PROVE  TypeOK'
<1> USE DEF TypeOK, Receive, rows, RequestState, WellFormed, LockingKinds,
            CheckedKinds, TakingKinds, LeavingKinds, UpdatingKinds, SessionKinds,
            OperatorKinds, Idle
<1>1. ASSUME NEW s \in Sessions, NEW o \in Operators,
             NEW k \in {"accept", "startProgress", "resolve"}, ReceiveOperatorCall(p, k, o, s)
      PROVE  TypeOK'
  BY <1>1 DEF ReceiveOperatorCall
<1>2. ASSUME NEW s \in Sessions, NEW o \in Operators,
             NEW k \in {"assign", "reassign"}, ReceiveAdminPlacement(p, k, o, s)
      PROVE  TypeOK'
  BY <1>2 DEF ReceiveAdminPlacement
<1>3. ASSUME NEW o \in Operators, NEW k \in {"startShift", "endShift"}, ReceiveShiftToggle(p, k, o)
      PROVE  TypeOK'
  BY <1>3 DEF ReceiveShiftToggle
<1>4. ASSUME NEW o \in Operators, NEW k \in {"shiftOn", "shiftOff"}, ReceiveAdminShift(p, k, o)
      PROVE  TypeOK'
  BY <1>4 DEF ReceiveAdminShift
<1>5. ASSUME NEW o \in Operators, ReceiveDelete(p, o) PROVE TypeOK'
  BY <1>5 DEF ReceiveDelete
<1>6. ASSUME NEW o \in Operators, ReceiveDrop(p, o) PROVE TypeOK'
  BY <1>6 DEF ReceiveDrop
<1>7. ASSUME NEW s \in Sessions, NEW k \in {"unassign", "closeAdmin"}, ReceiveAdminRelease(p, k, s)
      PROVE  TypeOK'
  BY <1>7 DEF ReceiveAdminRelease
<1>8. ASSUME NEW s \in Sessions, ReceiveReclaim(p, s) PROVE TypeOK'
  BY <1>8 DEF ReceiveReclaim
<1>9. QED BY <1>1, <1>2, <1>3, <1>4, <1>5, <1>6, <1>7, <1>8 DEF Receives

\* The request that ends leaves every other one as it was, and no update makes a
\* session row disappear.
LEMMA SessionUpdateTypeOK ==
    ASSUME TypeOK, NEW p \in Requests, request[p].kind \in SessionKinds,
           NEW where \in BOOLEAN, NEW st \in Status \ {"ABSENT"},
           NEW a \in Operators \cup {NoOperator},
           ConditionalUpdate(p, where, st, a)
    PROVE  TypeOK'
BY DEF TypeOK, ConditionalUpdate, Answer, RequestState, WellFormed, LockingKinds,
       CheckedKinds, TakingKinds, LeavingKinds, UpdatingKinds, SessionKinds,
       OperatorKinds, Idle, Status

LEMMA ShiftUpdateTypeOK ==
    ASSUME TypeOK, NEW p \in Requests, NEW on \in BOOLEAN, SetShift(p, on)
    PROVE  TypeOK'
BY DEF TypeOK, SetShift, Answer, RequestState, WellFormed, LockingKinds,
       CheckedKinds, TakingKinds, LeavingKinds, UpdatingKinds, SessionKinds,
       OperatorKinds, Idle

LEMMA ProceedsTypeOK ==
    ASSUME TypeOK, NEW p \in Requests, Proceeds(p)
    PROVE  TypeOK'
<1> USE DEF RequestState, WellFormed, LockingKinds, CheckedKinds, TakingKinds,
            LeavingKinds, UpdatingKinds, SessionKinds, OperatorKinds, Idle
<1>1. CASE LockOperatorRow(p) BY <1>1 DEF TypeOK, LockOperatorRow, rows
<1>2. CASE Check(p) BY <1>2 DEF TypeOK, Check, rows
<1>3. CASE Refuse(p) \/ EndShiftConflict(p) \/ DropNothing(p)
  BY <1>3 DEF TypeOK, Refuse, EndShiftConflict, DropNothing, Answer, rows
<1>4. CASE UpdatesSession(p)
  <2>1. request[p] \in RequestState /\ WellFormed(request[p]) BY DEF TypeOK
  <2>2. CASE AcceptSession(p) \/ AssignSession(p) \/ ReassignSession(p)
    BY <2>1, <2>2, SessionUpdateTypeOK
       DEF AcceptSession, AssignSession, ReassignSession, Running, FreeInPool,
           Unassigned, HeldByAnother, NotClosed, Status, OpenAssigned
  <2>3. CASE StartProgress(p) \/ ReclaimStale(p)
    BY <2>1, <2>3, SessionUpdateTypeOK
       DEF StartProgress, ReclaimStale, Running, AssignedTo, Status, OpenAssigned
  <2>4. CASE ResolveSession(p) \/ UnassignSession(p) \/ CloseSessionAdmin(p)
    BY <2>1, <2>4, SessionUpdateTypeOK
       DEF ResolveSession, UnassignSession, CloseSessionAdmin, Running, NotClosed,
           Status, OpenAssigned
  <2>5. QED BY <1>4, <2>2, <2>3, <2>4 DEF UpdatesSession
<1>5. CASE UpdatesUser(p)
  <2>1. CASE DeleteOperator(p) BY <2>1 DEF TypeOK, DeleteOperator, Answer, Running
  <2>2. QED
    BY <1>5, <2>1, ShiftUpdateTypeOK
       DEF UpdatesUser, StartShift, EndShift, DropDeadShift, SetOperatorShiftOn,
           SetOperatorShiftOff
<1>6. QED BY <1>1, <1>2, <1>3, <1>4, <1>5 DEF Proceeds

LEMMA NextTypeOK == TypeOK /\ [Next]_vars => TypeOK'
<1> SUFFICES ASSUME TypeOK, [Next]_vars PROVE TypeOK'
  OBVIOUS
<1> USE DEF RequestState, WellFormed, Idle
<1>1. ASSUME NEW p \in Requests, Fail(p) PROVE TypeOK'
  BY <1>1 DEF TypeOK, Fail, Answer, rows, LockingKinds, CheckedKinds, TakingKinds,
              LeavingKinds, UpdatingKinds, SessionKinds, OperatorKinds
<1>2. ASSUME NEW o \in Operators, CreateOperator(o) PROVE TypeOK'
  BY <1>2 DEF TypeOK, CreateOperator
<1>3. ASSUME NEW s \in Sessions, StartSession(s) \/ CloseSession(s) PROVE TypeOK'
  BY <1>3 DEF TypeOK, StartSession, CloseSession, Status
<1>4. CASE UNCHANGED vars BY <1>4 DEF TypeOK, vars
<1>5. QED BY <1>1, <1>2, <1>3, <1>4, ReceivesTypeOK, ProceedsTypeOK DEF Next

\* Rows and requests keep their types; a request in flight always names an
\* existing session and, where it has one, an operator.
THEOREM TypeCorrect == Spec => []TypeOK
<1>1. QED BY InitTypeOK, NextTypeOK, PTL DEF Spec

-----------------------------------------------------------------------------
(* The row lock.                                                           *)

\* The inductive invariant.  OneCallPerOperator alone is not inductive: an
\* accept that has counted its calls must also be known to be the only holder of
\* its operator's row, with a count that is still zero.
IInv ==
    /\ TypeOK
    /\ StatusMatchesAssignee
    /\ OneCallPerOperator
    /\ OpenCallHeldOnShift
    /\ RowLockProtectsChecks

\* Nothing is written, and p neither holds a row nor has a check behind it
\* unless it had before.
StandsDown(p) ==
    /\ \A q \in Requests \ {p} : request'[q] = request[q]
    /\ request'[p].at \in {"idle", "lock", "update"}

LEMMA InitIInv == Init => IInv
<1> SUFFICES ASSUME Init PROVE IInv
  OBVIOUS
<1>1. TypeOK BY InitTypeOK
<1>2. StatusMatchesAssignee BY DEF Init, StatusMatchesAssignee, OpenAssigned
<1>3. \A o \in Operators : OpenCalls(o) = {} BY DEF Init, OpenCalls, OpenAssigned
<1>4. OneCallPerOperator /\ OpenCallHeldOnShift
  BY <1>3 DEF OneCallPerOperator, OpenCallHeldOnShift
<1>5. RowLockProtectsChecks BY DEF Init, RowLockProtectsChecks, HoldsRow, Idle
<1>6. QED BY <1>1, <1>2, <1>4, <1>5 DEF IInv

\* Which steps only change p's own request, and let go of its row.
LEMMA QuietSteps ==
    ASSUME TypeOK, NEW p \in Requests,
           Receives(p) \/ Refuse(p) \/ EndShiftConflict(p) \/ DropNothing(p) \/ Fail(p)
    PROVE  StandsDown(p) /\ UNCHANGED rows
<1> USE DEF StandsDown, Answer, Idle, TypeOK
<1>1. CASE Receives(p)
  BY <1>1 DEF Receives, Receive, ReceiveOperatorCall, ReceiveShiftToggle, ReceiveDelete,
              ReceiveAdminPlacement, ReceiveAdminRelease, ReceiveAdminShift,
              ReceiveReclaim, ReceiveDrop
<1>2. CASE Refuse(p) \/ EndShiftConflict(p) \/ DropNothing(p) \/ Fail(p)
  BY <1>2 DEF Refuse, EndShiftConflict, DropNothing, Fail
<1>3. QED BY <1>1, <1>2

LEMMA QuietIInv ==
    ASSUME IInv, NEW p \in Requests, TypeOK', StandsDown(p), UNCHANGED rows
    PROVE  IInv'
<1>1. StatusMatchesAssignee' /\ OneCallPerOperator' /\ OpenCallHeldOnShift'
  BY DEF IInv, rows, StatusMatchesAssignee, OneCallPerOperator, OpenCallHeldOnShift, OpenCalls
<1>2. \A r : Passes(r) <=> Passes(r)'
  BY DEF rows, Passes, MayAccept, MayBeGiven, MayLeave, OpenCalls
<1>3. RowLockProtectsChecks'
  BY <1>2 DEF IInv, StandsDown, RowLockProtectsChecks, HoldsRow
<1>4. QED BY <1>1, <1>3 DEF IInv

\* The lock is granted to one transaction at a time.
LEMMA LockIInv ==
    ASSUME IInv, NEW p \in Requests, TypeOK', LockOperatorRow(p)
    PROVE  IInv'
<1>1. /\ \A q \in Requests \ {p} : request'[q] = request[q]
      /\ request'[p].at = "locked" /\ request'[p].op = request[p].op
  BY DEF LockOperatorRow, IInv, TypeOK, RequestState
<1>2. StatusMatchesAssignee' /\ OneCallPerOperator' /\ OpenCallHeldOnShift'
  BY DEF IInv, LockOperatorRow, rows, StatusMatchesAssignee, OneCallPerOperator,
         OpenCallHeldOnShift, OpenCalls
<1>3. \A r : Passes(r) <=> Passes(r)'
  BY DEF LockOperatorRow, rows, Passes, MayAccept, MayBeGiven, MayLeave, OpenCalls
<1>4. RowLockProtectsChecks'
  BY <1>1, <1>3 DEF IInv, LockOperatorRow, RowFree, RowLockProtectsChecks, HoldsRow
<1>5. QED BY <1>2, <1>4 DEF IInv

LEMMA CheckIInv ==
    ASSUME IInv, NEW p \in Requests, TypeOK', Check(p)
    PROVE  IInv'
<1>1. /\ \A q \in Requests \ {p} : request'[q] = request[q]
      /\ request'[p].at = "checked" /\ request'[p].op = request[p].op
      /\ request'[p].kind = request[p].kind
  BY DEF Check, IInv, TypeOK, RequestState
<1>2. StatusMatchesAssignee' /\ OneCallPerOperator' /\ OpenCallHeldOnShift'
  BY DEF IInv, Check, rows, StatusMatchesAssignee, OneCallPerOperator,
         OpenCallHeldOnShift, OpenCalls
<1>3. \A r : Passes(r) <=> Passes(r)'
  BY DEF Check, rows, Passes, MayAccept, MayBeGiven, MayLeave, OpenCalls
<1>4. Passes(request[p])'
  BY <1>1, <1>3 DEF Check, Passes
<1>5. RowLockProtectsChecks'
  BY <1>1, <1>3, <1>4 DEF IInv, Check, RowLockProtectsChecks, HoldsRow
<1>6. QED BY <1>2, <1>5 DEF IInv

-----------------------------------------------------------------------------
(* Updates.                                                                *)

\* A step that gives no operator a call, changes no account and nobody's shift
\* keeps everything that was checked.
LEMMA FewerCallsIInv ==
    ASSUME IInv, NEW p \in Requests, TypeOK', StatusMatchesAssignee',
           StandsDown(p) \/ UNCHANGED request,
           \A o \in Operators : OpenCalls(o)' \subseteq OpenCalls(o),
           UNCHANGED <<account, onShift>>
    PROVE  IInv'
<1>1. OneCallPerOperator' BY DEF IInv, OneCallPerOperator
<1>2. OpenCallHeldOnShift' BY DEF IInv, OpenCallHeldOnShift
<1>3. ASSUME NEW q \in Requests, request[q].at = "checked", request'[q] = request[q]
      PROVE  Passes(request[q])'
  <2>1. request[q].op \in Operators /\ Passes(request[q])
    BY <1>3 DEF IInv, RowLockProtectsChecks, TypeOK, WellFormed, CheckedKinds,
                OperatorKinds, LockingKinds
  <2>2. OpenCalls(request[q].op)' \subseteq OpenCalls(request[q].op)
    BY <2>1, <1>3
  <2>3. QED BY <1>3, <2>1, <2>2 DEF Passes, MayAccept, MayBeGiven, MayLeave
<1>4. RowLockProtectsChecks'
  BY <1>3 DEF IInv, StandsDown, RowLockProtectsChecks, HoldsRow
<1>5. QED BY <1>1, <1>2, <1>4 DEF IInv

\* Accept, assign and reassign: the operator was checked under the lock, so this
\* is their only call; whoever else has a check behind them holds another row.
LEMMA TakeIInv ==
    ASSUME IInv, NEW p \in Requests, TypeOK', NEW where \in BOOLEAN,
           request[p].at = "checked", request[p].kind \in TakingKinds,
           ConditionalUpdate(p, where, "ASSIGNED", request[p].op)
    PROVE  IInv'
<1> PICK o \in Operators, s \in Sessions : o = request[p].op /\ s = request[p].sess
  BY DEF IInv, TypeOK, WellFormed, TakingKinds, SessionKinds, OperatorKinds,
         LockingKinds, CheckedKinds
<1>2. StandsDown(p) BY DEF ConditionalUpdate, Answer, StandsDown, Idle, IInv, TypeOK
<1>3. onShift[o] /\ OpenCalls(o) = {}
  BY DEF IInv, RowLockProtectsChecks, Passes, MayAccept, MayBeGiven, MayLeave,
         TakingKinds, LeavingKinds
<1>4. StatusMatchesAssignee'
  BY NullAssumption DEF ConditionalUpdate, StatusMatchesAssignee, IInv, TypeOK, OpenAssigned
<1>5. /\ \A t \in Sessions : t \in OpenCalls(o)' => t = s
      /\ \A u \in Operators \ {o} : OpenCalls(u)' \subseteq OpenCalls(u)
  BY <1>3 DEF ConditionalUpdate, OpenCalls, IInv, TypeOK
<1>6. OneCallPerOperator' BY <1>5 DEF OneCallPerOperator, IInv, OpenCalls
<1>7. OpenCallHeldOnShift'
  BY <1>3, <1>5 DEF OpenCallHeldOnShift, IInv, ConditionalUpdate
<1>8. \A q \in Requests \ {p} : request[q].at = "checked" =>
         request[q].op \in Operators \ {o} /\ Passes(request[q])
  BY DEF IInv, RowLockProtectsChecks, HoldsRow, TypeOK, WellFormed, CheckedKinds,
         OperatorKinds, LockingKinds
<1>9. \A q \in Requests \ {p} : request[q].at = "checked" => Passes(request[q])'
  BY <1>2, <1>5, <1>8 DEF StandsDown, Passes, MayAccept, MayBeGiven, MayLeave, ConditionalUpdate
<1>10. RowLockProtectsChecks'
  BY <1>2, <1>9 DEF RowLockProtectsChecks, HoldsRow, StandsDown, IInv
<1>11. QED BY <1>4, <1>6, <1>7, <1>10 DEF IInv

\* Start of work, resolution, return to the pool and closing: the call stays with
\* its operator or leaves them.
LEMMA MoveIInv ==
    ASSUME IInv, NEW p \in Requests, TypeOK', UpdatesSession(p),
           request[p].kind \notin TakingKinds
    PROVE  IInv'
<1> USE DEF IInv, TypeOK, WellFormed, SessionKinds, OperatorKinds, LockingKinds,
            CheckedKinds, TakingKinds, Running
<1>1. StandsDown(p) /\ UNCHANGED <<account, onShift>>
  BY DEF UpdatesSession, AcceptSession, AssignSession, ReassignSession, StartProgress,
         ResolveSession, UnassignSession, CloseSessionAdmin, ReclaimStale,
         ConditionalUpdate, Answer, StandsDown, Idle
<1>2. StatusMatchesAssignee' /\ \A o \in Operators : OpenCalls(o)' \subseteq OpenCalls(o)
  <2> USE NullAssumption DEF ConditionalUpdate, StatusMatchesAssignee, OpenAssigned, OpenCalls
  <2>1. CASE StartProgress(p) BY <2>1 DEF StartProgress, AssignedTo
  <2>2. CASE ReclaimStale(p) BY <2>2 DEF ReclaimStale
  <2>3. CASE ResolveSession(p) BY <2>3 DEF ResolveSession
  <2>4. CASE UnassignSession(p) \/ CloseSessionAdmin(p)
    BY <2>4 DEF UnassignSession, CloseSessionAdmin
  <2>5. QED
    BY <2>1, <2>2, <2>3, <2>4
       DEF UpdatesSession, AcceptSession, AssignSession, ReassignSession
<1>3. QED BY <1>1, <1>2, FewerCallsIInv

\* Nobody loses the right to a call by somebody's shift beginning.
LEMMA ShiftOnIInv ==
    ASSUME IInv, NEW p \in Requests, TypeOK', SetShift(p, TRUE)
    PROVE  IInv'
<1>1. StandsDown(p) BY DEF SetShift, Answer, StandsDown, Idle, IInv, TypeOK
<1>2. \A o \in Operators : onShift[o] => onShift'[o] BY DEF SetShift, IInv, TypeOK
<1>3. \A o : OpenCalls(o)' = OpenCalls(o) BY DEF SetShift, OpenCalls
<1>4. StatusMatchesAssignee' /\ OneCallPerOperator' /\ OpenCallHeldOnShift'
  BY <1>2, <1>3 DEF IInv, SetShift, StatusMatchesAssignee, OneCallPerOperator, OpenCallHeldOnShift
<1>5. ASSUME NEW q \in Requests, request[q].at = "checked", request'[q] = request[q]
      PROVE  Passes(request[q])'
  <2>1. request[q].op \in Operators /\ Passes(request[q])
    BY <1>5 DEF IInv, RowLockProtectsChecks, TypeOK, WellFormed, CheckedKinds,
                OperatorKinds, LockingKinds
  <2>2. QED BY <1>2, <1>3, <1>5, <2>1 DEF Passes, MayAccept, MayBeGiven, MayLeave, SetShift
<1>6. RowLockProtectsChecks'
  BY <1>1, <1>5 DEF IInv, StandsDown, RowLockProtectsChecks, HoldsRow
<1>7. QED BY <1>4, <1>6 DEF IInv

\* A shift ends, or an account with it, in a transaction that holds the
\* operator's row and has seen no open call; whoever else has a check behind
\* them checked another operator.
LEMMA ShiftOffIInv ==
    ASSUME IInv, NEW p \in Requests, TypeOK', NEW o \in Operators,
           HoldsRow(p, o), OpenCalls(o) = {}, StandsDown(p),
           \A u \in Operators \ {o} : onShift'[u] = onShift[u] /\ account'[u] = account[u],
           UNCHANGED <<status, assignee>>
    PROVE  IInv'
<1>1. \A u : OpenCalls(u)' = OpenCalls(u) BY DEF OpenCalls
<1>2. StatusMatchesAssignee' /\ OneCallPerOperator' /\ OpenCallHeldOnShift'
  BY <1>1 DEF IInv, StatusMatchesAssignee, OneCallPerOperator, OpenCallHeldOnShift
<1>3. ASSUME NEW q \in Requests \ {p}, request[q].at = "checked", request'[q] = request[q]
      PROVE  Passes(request[q])'
  <2>1. request[q].op \in Operators \ {o} /\ Passes(request[q])
    BY <1>3 DEF IInv, RowLockProtectsChecks, HoldsRow, TypeOK, WellFormed, CheckedKinds,
                OperatorKinds, LockingKinds
  <2>2. QED BY <1>1, <1>3, <2>1 DEF Passes, MayAccept, MayBeGiven, MayLeave
<1>4. RowLockProtectsChecks'
  BY <1>3 DEF IInv, StandsDown, RowLockProtectsChecks, HoldsRow
<1>5. QED BY <1>2, <1>4 DEF IInv

LEMMA UserIInv ==
    ASSUME IInv, NEW p \in Requests, TypeOK', UpdatesUser(p)
    PROVE  IInv'
<1>1. CASE StartShift(p) \/ SetOperatorShiftOn(p)
  BY <1>1, ShiftOnIInv DEF StartShift, SetOperatorShiftOn
<1>2. CASE EndShift(p) \/ DropDeadShift(p) \/ SetOperatorShiftOff(p) \/ DeleteOperator(p)
  <2> USE <1>2 DEF EndShift, DropDeadShift, SetOperatorShiftOff, DeleteOperator, Running
  <2> PICK o \in Operators : o = request[p].op
    BY DEF IInv, TypeOK, WellFormed, OperatorKinds, LockingKinds, CheckedKinds, LeavingKinds
  <2>1. HoldsRow(p, o) BY DEF HoldsRow
  <2>2. OpenCalls(o) = {}
    BY DEF IInv, RowLockProtectsChecks, Passes, MayLeave, LeavingKinds
  <2>3. StandsDown(p) BY DEF SetShift, Answer, StandsDown, Idle, IInv, TypeOK
  <2>4. UNCHANGED <<status, assignee>> BY DEF SetShift
  <2>5. \A u \in Operators \ {o} : onShift'[u] = onShift[u] /\ account'[u] = account[u]
    BY DEF SetShift, IInv, TypeOK
  <2>6. QED BY <2>1, <2>2, <2>3, <2>4, <2>5, ShiftOffIInv
<1>3. QED BY <1>1, <1>2 DEF UpdatesUser

-----------------------------------------------------------------------------
(* The invariant holds.                                                    *)

LEMMA NextIInv == IInv /\ [Next]_vars => IInv'
<1> SUFFICES ASSUME IInv, [Next]_vars PROVE IInv'
  OBVIOUS
<1>1. TypeOK' BY NextTypeOK DEF IInv
<1>2. ASSUME NEW p \in Requests, Receives(p) \/ Fail(p) PROVE IInv'
  BY <1>1, <1>2, QuietSteps, QuietIInv DEF IInv
<1>3. ASSUME NEW p \in Requests, Proceeds(p) PROVE IInv'
  <2>1. CASE LockOperatorRow(p) BY <1>1, <2>1, LockIInv
  <2>2. CASE Check(p) BY <1>1, <2>2, CheckIInv
  <2>3. CASE Refuse(p) \/ EndShiftConflict(p) \/ DropNothing(p)
    BY <1>1, <2>3, QuietSteps, QuietIInv DEF IInv
  <2>4. CASE AcceptSession(p) \/ AssignSession(p) \/ ReassignSession(p)
    BY <1>1, <2>4, TakeIInv
       DEF AcceptSession, AssignSession, ReassignSession, Running, TakingKinds,
           FreeInPool, Unassigned, HeldByAnother, NotClosed
  <2>5. CASE UpdatesSession(p) /\ request[p].kind \notin TakingKinds
    BY <1>1, <2>5, MoveIInv
  <2>6. CASE UpdatesUser(p) BY <1>1, <2>6, UserIInv
  <2>7. QED
    BY <1>3, <2>1, <2>2, <2>3, <2>4, <2>5, <2>6
       DEF Proceeds, UpdatesSession, StartProgress, ResolveSession, UnassignSession,
           CloseSessionAdmin, ReclaimStale, Running, TakingKinds
<1>4. ASSUME NEW o \in Operators, CreateOperator(o) PROVE IInv'
  <2>1. \A u : OpenCalls(u)' = OpenCalls(u) BY <1>4 DEF CreateOperator, OpenCalls
  <2>2. StatusMatchesAssignee' /\ OneCallPerOperator' /\ OpenCallHeldOnShift'
    BY <1>4, <2>1 DEF IInv, CreateOperator, StatusMatchesAssignee, OneCallPerOperator,
                      OpenCallHeldOnShift
  <2>3. \A u \in Operators : account[u] = "active" => account'[u] = "active"
    BY <1>4 DEF CreateOperator, IInv, TypeOK
  <2>4. ASSUME NEW q \in Requests, request[q].at = "checked" PROVE Passes(request[q])'
    <3>1. request[q].op \in Operators /\ Passes(request[q])
      BY <2>4 DEF IInv, RowLockProtectsChecks, TypeOK, WellFormed, CheckedKinds,
                  OperatorKinds, LockingKinds
    <3>2. QED
      BY <1>4, <2>1, <2>3, <3>1 DEF CreateOperator, Passes, MayAccept, MayBeGiven, MayLeave
  <2>5. RowLockProtectsChecks'
    BY <1>4, <2>4 DEF IInv, CreateOperator, RowLockProtectsChecks, HoldsRow
  <2>6. QED BY <1>1, <2>2, <2>5 DEF IInv
<1>5. ASSUME NEW s \in Sessions, StartSession(s) \/ CloseSession(s) PROVE IInv'
  <2>1. UNCHANGED <<account, onShift, request, assignee>>
    BY <1>5 DEF StartSession, CloseSession
  <2>2. StatusMatchesAssignee' /\ \A o \in Operators : OpenCalls(o)' \subseteq OpenCalls(o)
    BY <1>5 DEF IInv, TypeOK, StartSession, CloseSession, StatusMatchesAssignee,
                OpenAssigned, OpenCalls
  <2>3. StatusMatchesAssignee' /\ OneCallPerOperator' /\ OpenCallHeldOnShift'
    BY <2>1, <2>2 DEF IInv, OneCallPerOperator, OpenCallHeldOnShift
  <2>4. ASSUME NEW q \in Requests, request[q].at = "checked" PROVE Passes(request[q])'
    <3>1. request[q].op \in Operators /\ Passes(request[q])
      BY <2>4 DEF IInv, RowLockProtectsChecks, TypeOK, WellFormed, CheckedKinds,
                  OperatorKinds, LockingKinds
    <3>2. QED BY <2>1, <2>2, <3>1 DEF Passes, MayAccept, MayBeGiven, MayLeave
  <2>5. RowLockProtectsChecks'
    BY <2>1, <2>4 DEF IInv, RowLockProtectsChecks, HoldsRow
  <2>6. QED BY <1>1, <2>3, <2>5 DEF IInv
<1>6. CASE UNCHANGED vars
  <2>1. \A u : OpenCalls(u)' = OpenCalls(u) BY <1>6 DEF vars, OpenCalls
  <2>2. QED
    BY <1>1, <1>6, <2>1 DEF IInv, vars, StatusMatchesAssignee, OneCallPerOperator,
         OpenCallHeldOnShift, RowLockProtectsChecks, HoldsRow, Passes, MayAccept,
         MayBeGiven, MayLeave
<1>7. QED BY <1>2, <1>3, <1>4, <1>5, <1>6 DEF Next

LEMMA Invariance == Spec => []IInv
<1>1. QED BY InitIInv, NextIInv, PTL DEF Spec

\* An operator never holds two open calls, whatever accepts, assignments and
\* reassignments run at the same time (operator-lock.ts).
THEOREM OneCallEach == Spec => []OneCallPerOperator
<1>1. IInv => OneCallPerOperator BY DEF IInv
<1>2. QED BY <1>1, Invariance, PTL

\* No operator is off shift with an open call on their hands.
THEOREM CallsHeldOnShift == Spec => []OpenCallHeldOnShift
<1>1. IInv => OpenCallHeldOnShift BY DEF IInv
<1>2. QED BY <1>1, Invariance, PTL

\* The status of a call and its operator column always say the same.
THEOREM StatusAndAssigneeAgree == Spec => []StatusMatchesAssignee
<1>1. IInv => StatusMatchesAssignee BY DEF IInv
<1>2. QED BY <1>1, Invariance, PTL

\* What a transaction checked under the row lock is true when it writes.
THEOREM ChecksStayTrue == Spec => []RowLockProtectsChecks
<1>1. IInv => RowLockProtectsChecks BY DEF IInv
<1>2. QED BY <1>1, Invariance, PTL

-----------------------------------------------------------------------------
(* Steps.                                                                  *)

\* Every update of a session asks that it is not closed.
LEMMA ClosedStep ==
    ASSUME IInv, Next, NEW s \in Sessions, status[s] = "CLOSED"
    PROVE  status'[s] = "CLOSED" /\ assignee'[s] = assignee[s]
<1>1. ASSUME NEW p \in Requests, Receives(p) \/ Fail(p)
      PROVE  status'[s] = "CLOSED" /\ assignee'[s] = assignee[s]
  BY <1>1, QuietSteps DEF IInv, rows
<1>2. ASSUME NEW p \in Requests, Proceeds(p)
      PROVE  status'[s] = "CLOSED" /\ assignee'[s] = assignee[s]
  <2>1. CASE UpdatesSession(p)
    BY <2>1 DEF UpdatesSession, AcceptSession, AssignSession, ReassignSession, StartProgress,
                ResolveSession, UnassignSession, CloseSessionAdmin, ReclaimStale,
                ConditionalUpdate, NotClosed, FreeInPool, Unassigned, HeldByAnother,
                AssignedTo, IInv, TypeOK
  <2>2. CASE ~UpdatesSession(p)
    BY <1>2, <2>2 DEF Proceeds, LockOperatorRow, Check, Refuse, EndShiftConflict, DropNothing,
                UpdatesUser, StartShift, EndShift, DropDeadShift, SetOperatorShiftOn,
                SetOperatorShiftOff, DeleteOperator, SetShift, rows
  <2>3. QED BY <2>1, <2>2
<1>3. ASSUME NEW o \in Operators, CreateOperator(o)
      PROVE  status'[s] = "CLOSED" /\ assignee'[s] = assignee[s]
  BY <1>3 DEF CreateOperator
<1>4. ASSUME NEW t \in Sessions, StartSession(t) \/ CloseSession(t)
      PROVE  status'[s] = "CLOSED" /\ assignee'[s] = assignee[s]
  BY <1>4 DEF StartSession, CloseSession, IInv, TypeOK
<1>5. QED BY <1>1, <1>2, <1>3, <1>4 DEF Next

\* A closed call is never reopened and keeps its operator on record.
THEOREM ClosedStaysClosed == Spec => ClosedIsFinal
<1>1. IInv /\ [Next]_vars =>
        [\A s \in Sessions : status[s] = "CLOSED" =>
            status'[s] = "CLOSED" /\ assignee'[s] = assignee[s]]_vars
  BY ClosedStep
<1>2. QED BY <1>1, Invariance, PTL DEF Spec, ClosedIsFinal

\* A step that changes the operator of a call, or returns one that was begun, is
\* the update of a request.
LEMMA OnlyUpdates ==
    ASSUME IInv, [Next]_vars, NEW s \in Sessions,
           \/ assignee'[s] # assignee[s]
           \/ status[s] \in OpenAssigned /\ status'[s] = "NEW"
    PROVE  \E p \in Requests : UpdatesSession(p)
<1> SUFFICES ASSUME \A p \in Requests : ~UpdatesSession(p) PROVE FALSE
  OBVIOUS
<1>1. ASSUME NEW p \in Requests, Receives(p) \/ Fail(p) PROVE UNCHANGED <<status, assignee>>
  BY <1>1, QuietSteps DEF IInv, rows
<1>2. ASSUME NEW p \in Requests, Proceeds(p) PROVE UNCHANGED <<status, assignee>>
  BY <1>2 DEF Proceeds, LockOperatorRow, Check, Refuse, EndShiftConflict, DropNothing,
              UpdatesUser, StartShift, EndShift, DropDeadShift, SetOperatorShiftOn,
              SetOperatorShiftOff, DeleteOperator, SetShift, rows
<1>3. ASSUME NEW o \in Operators, CreateOperator(o) PROVE UNCHANGED <<status, assignee>>
  BY <1>3 DEF CreateOperator
<1>4. ASSUME NEW t \in Sessions, StartSession(t) \/ CloseSession(t)
      PROVE  assignee' = assignee /\ ~(status[s] \in OpenAssigned /\ status'[s] = "NEW")
  BY <1>4 DEF StartSession, CloseSession, IInv, TypeOK, OpenAssigned
<1>5. CASE UNCHANGED vars
  BY <1>5 DEF vars, OpenAssigned
<1>6. QED BY <1>1, <1>2, <1>3, <1>4, <1>5 DEF Next, OpenAssigned

\* No accept and no assignment, however old the page it was sent from, takes a
\* call away from another operator.
THEOREM TakenOverByReassignOnly == Spec => OnlyReassignTakesOver
<1>1. ASSUME IInv, [Next]_vars, NEW s \in Sessions,
             assignee[s] # NoOperator, assignee'[s] \in Operators \ {assignee[s]}
      PROVE  \E p \in Requests : Running(p, "reassign", "checked")
  <2> PICK p \in Requests : UpdatesSession(p) BY <1>1, OnlyUpdates
  <2>1. QED
    BY <1>1, NullAssumption
       DEF UpdatesSession, AcceptSession, AssignSession, ReassignSession, StartProgress,
           ResolveSession, UnassignSession, CloseSessionAdmin, ReclaimStale, ConditionalUpdate,
           FreeInPool, Unassigned, AssignedTo, IInv, TypeOK
<1>2. IInv /\ [Next]_vars =>
        [\A s \in Sessions :
            assignee[s] # NoOperator /\ assignee'[s] \in Operators \ {assignee[s]} =>
              \E p \in Requests : Running(p, "reassign", "checked")]_vars
  BY <1>1
<1>3. QED BY <1>2, Invariance, PTL DEF Spec, OnlyReassignTakesOver

\* A call that work has begun on goes back to the pool by an administrator's
\* hand only, never by the cron worker's.
THEOREM WorkIsLeftAlone == Spec => CronLeavesWorkAlone
<1>1. ASSUME IInv, [Next]_vars, NEW s \in Sessions,
             status[s] = "IN_PROGRESS", status'[s] = "NEW"
      PROVE  \E p \in Requests : Running(p, "unassign", "update")
  <2> PICK p \in Requests : UpdatesSession(p) BY <1>1, OnlyUpdates DEF OpenAssigned
  <2>1. QED
    BY <1>1
       DEF UpdatesSession, AcceptSession, AssignSession, ReassignSession, StartProgress,
           ResolveSession, UnassignSession, CloseSessionAdmin, ReclaimStale, ConditionalUpdate,
           FreeInPool, Unassigned, AssignedTo, IInv, TypeOK
<1>2. IInv /\ [Next]_vars =>
        [\A s \in Sessions : status[s] = "IN_PROGRESS" /\ status'[s] = "NEW" =>
            \E p \in Requests : Running(p, "unassign", "update")]_vars
  BY <1>1
<1>3. QED BY <1>2, Invariance, PTL DEF Spec, CronLeavesWorkAlone

\* An assignment that has been checked is about an active account until it
\* commits: the row lock keeps the deletion waiting.
THEOREM DeletedGetNoCall == Spec => NeverGivenToDeleted
<1>1. ASSUME IInv, [Next]_vars, NEW s \in Sessions,
             assignee'[s] # assignee[s], assignee'[s] \in Operators,
             account[assignee'[s]] = "deleted"
      PROVE  \E p \in Requests : Running(p, "accept", "checked")
  <2> PICK p \in Requests : UpdatesSession(p) BY <1>1, OnlyUpdates
  <2>1. CASE AssignSession(p) \/ ReassignSession(p)
    <3>1. assignee'[s] = request[p].op
      BY <1>1, <2>1 DEF AssignSession, ReassignSession, ConditionalUpdate, IInv, TypeOK
    <3>2. request[p].at = "checked" /\ request[p].kind \in {"assign", "reassign"}
      BY <2>1 DEF AssignSession, ReassignSession, Running
    <3>3. Passes(request[p]) BY <1>1, <3>2 DEF IInv, RowLockProtectsChecks
    <3>4. QED BY <1>1, <3>1, <3>2, <3>3 DEF Passes, MayBeGiven, LeavingKinds
  <2>2. CASE ~(AssignSession(p) \/ ReassignSession(p))
    BY <1>1, <2>2, NullAssumption
       DEF UpdatesSession, AcceptSession, StartProgress, ResolveSession, UnassignSession,
           CloseSessionAdmin, ReclaimStale, ConditionalUpdate, AssignedTo, NotClosed, IInv, TypeOK
  <2>3. QED BY <2>1, <2>2
<1>2. IInv /\ [Next]_vars =>
        [\A s \in Sessions :
            assignee'[s] # assignee[s] /\ assignee'[s] \in Operators
            /\ account[assignee'[s]] = "deleted" =>
              \E p \in Requests : Running(p, "accept", "checked")]_vars
  BY <1>1
<1>3. QED BY <1>2, Invariance, PTL DEF Spec, NeverGivenToDeleted

-----------------------------------------------------------------------------
(* What the comments promise of deleted operators, and what it takes.      *)

\* No accept is about to commit for an operator who has been deleted since it
\* passed the JWT guard.
NoAcceptOfDeleted ==
    \A p \in Requests : Running(p, "accept", "checked") => account[request[p].op] # "deleted"

\* A call becomes an operator's open call by one of the updates only.
LEMMA GivenByUpdate ==
    ASSUME IInv, [Next]_vars, NEW s \in Sessions, NEW o \in Operators,
           s \in OpenCalls(o)', s \notin OpenCalls(o)
    PROVE  \E p \in Requests :
              /\ AcceptSession(p) \/ AssignSession(p) \/ ReassignSession(p)
              /\ request[p].op = o
<1>1. status'[s] \in OpenAssigned /\ assignee'[s] = o BY DEF OpenCalls
<1>2. status[s] \notin OpenAssigned \/ assignee[s] # o BY DEF OpenCalls
<1>3. PICK p \in Requests : UpdatesSession(p)
  <2>1. CASE assignee'[s] # assignee[s] BY <2>1, OnlyUpdates
  <2>2. CASE assignee'[s] = assignee[s]
    <3> SUFFICES ASSUME \A p \in Requests : ~UpdatesSession(p) PROVE FALSE
      OBVIOUS
    <3>0. status[s] \notin OpenAssigned BY <1>1, <1>2, <2>2
    <3>1. ASSUME NEW p \in Requests, Receives(p) \/ Fail(p) PROVE UNCHANGED <<status, assignee>>
      BY <3>1, QuietSteps DEF IInv, rows
    <3>2. ASSUME NEW p \in Requests, Proceeds(p) PROVE UNCHANGED <<status, assignee>>
      BY <3>2 DEF Proceeds, LockOperatorRow, Check, Refuse, EndShiftConflict, DropNothing,
                  UpdatesUser, StartShift, EndShift, DropDeadShift, SetOperatorShiftOn,
                  SetOperatorShiftOff, DeleteOperator, SetShift, rows
    <3>3. ASSUME NEW q \in Operators, CreateOperator(q) PROVE UNCHANGED <<status, assignee>>
      BY <3>3 DEF CreateOperator
    <3>4. ASSUME NEW t \in Sessions, StartSession(t) \/ CloseSession(t)
          PROVE  status'[s] \in OpenAssigned => status[s] \in OpenAssigned
      BY <3>4 DEF StartSession, CloseSession, IInv, TypeOK, OpenAssigned
    <3>5. CASE UNCHANGED vars BY <3>0, <1>1, <3>5 DEF vars
    <3>6. QED BY <1>1, <3>0, <3>1, <3>2, <3>3, <3>4, <3>5 DEF Next
  <2>3. QED BY <2>1, <2>2
<1>4. CASE AcceptSession(p) \/ AssignSession(p) \/ ReassignSession(p)
  <2>1. request[p].op = o
    BY <1>1, <1>2, <1>4 DEF AcceptSession, AssignSession, ReassignSession, ConditionalUpdate, IInv, TypeOK
  <2>2. QED BY <1>4, <2>1
<1>5. CASE ~(AcceptSession(p) \/ AssignSession(p) \/ ReassignSession(p))
  BY <1>1, <1>2, <1>3, <1>5, NullAssumption
     DEF UpdatesSession, StartProgress, ResolveSession, UnassignSession, CloseSessionAdmin,
         ReclaimStale, ConditionalUpdate, AssignedTo, NotClosed, OpenAssigned, IInv, TypeOK
<1>6. QED BY <1>4, <1>5

LEMMA AccountsEnd ==
    ASSUME IInv, [Next]_vars, NEW o \in Operators, account[o] # "deleted", account'[o] = "deleted"
    PROVE  \E p \in Requests : DeleteOperator(p) /\ request[p].op = o
<1>1. ASSUME NEW p \in Requests, Receives(p) \/ Fail(p) PROVE account' = account
  BY <1>1, QuietSteps DEF IInv, rows
<1>2. ASSUME NEW p \in Requests, Proceeds(p), ~DeleteOperator(p) PROVE account' = account
  BY <1>2 DEF Proceeds, LockOperatorRow, Check, Refuse, EndShiftConflict, DropNothing,
              UpdatesUser, StartShift, EndShift, DropDeadShift, SetOperatorShiftOn,
              SetOperatorShiftOff, SetShift, rows, UpdatesSession, AcceptSession, AssignSession,
              ReassignSession, StartProgress, ResolveSession, UnassignSession, CloseSessionAdmin,
              ReclaimStale, ConditionalUpdate
<1>3. ASSUME NEW p \in Requests, DeleteOperator(p) PROVE request[p].op = o
  BY <1>3 DEF DeleteOperator, IInv, TypeOK
<1>4. ASSUME NEW q \in Operators, CreateOperator(q) PROVE FALSE
  BY <1>4 DEF CreateOperator, IInv, TypeOK
<1>5. ASSUME NEW s \in Sessions, StartSession(s) \/ CloseSession(s) PROVE account' = account
  BY <1>5 DEF StartSession, CloseSession
<1>6. account' # account OBVIOUS
<1>7. CASE UNCHANGED vars BY <1>6, <1>7 DEF vars
<1>8. QED BY <1>1, <1>2, <1>3, <1>4, <1>5, <1>6, <1>7 DEF Next

\* deleteOperator's promise holds but for accepts that were let in before the
\* deletion: without one of these no deleted operator ever has an open call.
THEOREM DeletedHasNoCall == Spec /\ []NoAcceptOfDeleted => []NoCallOnDeleted
<1>1. ASSUME IInv, NoAcceptOfDeleted, NoCallOnDeleted, [Next]_vars,
             NEW o \in Operators, account'[o] = "deleted"
      PROVE  OpenCalls(o)' = {}
  <2>1. CASE account[o] = "deleted"
    <3> SUFFICES ASSUME NEW s \in Sessions, s \in OpenCalls(o)' PROVE FALSE
      BY DEF OpenCalls
    <3>1. s \notin OpenCalls(o) BY <1>1, <2>1 DEF NoCallOnDeleted
    <3>2. PICK p \in Requests : /\ AcceptSession(p) \/ AssignSession(p) \/ ReassignSession(p)
                                /\ request[p].op = o
      BY <1>1, <3>1, GivenByUpdate
    <3>3. ~AcceptSession(p) BY <1>1, <2>1, <3>2 DEF AcceptSession, NoAcceptOfDeleted
    <3>4. request[p].at = "checked" /\ request[p].kind \in {"assign", "reassign"}
      BY <3>2, <3>3 DEF AssignSession, ReassignSession, Running
    <3>5. Passes(request[p]) BY <1>1, <3>4 DEF IInv, RowLockProtectsChecks
    <3>6. QED BY <2>1, <3>2, <3>4, <3>5 DEF Passes, MayBeGiven, LeavingKinds
  <2>2. CASE account[o] # "deleted"
    <3>1. PICK p \in Requests : DeleteOperator(p) /\ request[p].op = o
      BY <1>1, <2>2, AccountsEnd
    <3>2. Passes(request[p]) BY <1>1, <3>1 DEF DeleteOperator, Running, IInv, RowLockProtectsChecks
    <3>3. OpenCalls(o) = {} BY <3>1, <3>2 DEF DeleteOperator, Running, Passes, LeavingKinds, MayLeave
    <3>4. QED BY <3>1, <3>3 DEF DeleteOperator, OpenCalls
  <2>3. QED BY <2>1, <2>2
<1>2. Init => NoCallOnDeleted BY DEF Init, NoCallOnDeleted
<1>3. IInv /\ NoAcceptOfDeleted /\ NoCallOnDeleted /\ [Next]_vars => NoCallOnDeleted'
  BY <1>1 DEF NoCallOnDeleted
<1>4. QED BY <1>2, <1>3, Invariance, PTL DEF Spec

-----------------------------------------------------------------------------
(* Dispatch implements the call board.                                     *)

LEMMA BoardInit == Init => Board!Init
BY DEF Init, Board!Init

LEMMA SameCalls == \A o : OpenCalls(o) = Board!CallsOf(o)
BY DEF OpenCalls, Board!CallsOf, OpenAssigned, Board!Held

LEMMA BoardTake ==
    ASSUME IInv, NEW p \in Requests,
           AcceptSession(p) \/ AssignSession(p) \/ ReassignSession(p)
    PROVE  Board!Next \/ UNCHANGED <<status, assignee, onShift>>
<1> PICK o \in Operators, s \in Sessions : o = request[p].op /\ s = request[p].sess
  BY DEF IInv, TypeOK, WellFormed, TakingKinds, SessionKinds, OperatorKinds,
         LockingKinds, CheckedKinds, AcceptSession, AssignSession, ReassignSession, Running
<1>1. Board!MayTake(o)
  BY SameCalls DEF IInv, RowLockProtectsChecks, Passes, MayAccept, MayBeGiven, MayLeave,
         LeavingKinds, AcceptSession, AssignSession, ReassignSession, Running, Board!MayTake
<1>2. status[s] # "ABSENT"
  BY DEF IInv, TypeOK, WellFormed, TakingKinds, SessionKinds, AcceptSession,
         AssignSession, ReassignSession, Running
<1>3. CASE AcceptSession(p)
  BY <1>1, <1>3 DEF AcceptSession, FreeInPool, ConditionalUpdate, Board!Next, Board!Take
<1>4. CASE AssignSession(p)
  <2>1. Unassigned(s) => status[s] = "NEW"
    BY <1>2 DEF Unassigned, NotClosed, IInv, StatusMatchesAssignee, TypeOK, Status, OpenAssigned
  <2>2. QED
    BY <1>1, <1>4, <2>1 DEF AssignSession, ConditionalUpdate, Board!Next, Board!Take
<1>5. CASE ReassignSession(p)
  <2>1. HeldByAnother(s, o) => status[s] \in Board!Held /\ assignee[s] # o
    BY <1>2 DEF HeldByAnother, NotClosed, IInv, StatusMatchesAssignee, TypeOK, Status,
                OpenAssigned, Board!Held
  <2>2. QED
    BY <1>1, <1>5, <2>1 DEF ReassignSession, ConditionalUpdate, Board!Next, Board!HandOver
<1>6. QED BY <1>3, <1>4, <1>5

LEMMA BoardMove ==
    ASSUME IInv, NEW p \in Requests,
           \/ StartProgress(p) \/ ReclaimStale(p) \/ ResolveSession(p)
           \/ UnassignSession(p) \/ CloseSessionAdmin(p)
    PROVE  Board!Next \/ UNCHANGED <<status, assignee, onShift>>
<1> PICK s \in Sessions : s = request[p].sess
  BY DEF IInv, TypeOK, WellFormed, SessionKinds, StartProgress, ReclaimStale,
         ResolveSession, UnassignSession, CloseSessionAdmin, Running
<1>1. status[s] \in {"NEW", "CLOSED"} \cup Board!Held
  BY DEF IInv, TypeOK, WellFormed, SessionKinds, StartProgress, ReclaimStale, ResolveSession,
         UnassignSession, CloseSessionAdmin, Running, Status, OpenAssigned, Board!Held
<1>2. status[s] = "NEW" => assignee[s] = NoOperator
  BY DEF IInv, StatusMatchesAssignee
<1>3. CASE StartProgress(p)
  BY <1>3 DEF StartProgress, AssignedTo, ConditionalUpdate, Board!Next, Board!Begin, IInv, TypeOK
<1>4. CASE ReclaimStale(p)
  BY <1>4 DEF ReclaimStale, AssignedTo, ConditionalUpdate, Board!Next, Board!Return, Board!Held
<1>5. CASE ResolveSession(p)
  BY <1>1, <1>5 DEF ResolveSession, NotClosed, ConditionalUpdate, Board!Next, Board!Close,
                    IInv, TypeOK
<1>6. CASE UnassignSession(p)
  <2>1. CASE status[s] = "NEW"
    BY <1>2, <1>6, <2>1 DEF UnassignSession, ConditionalUpdate, IInv, TypeOK
  <2>2. CASE status[s] # "NEW"
    BY <1>1, <1>6, <2>2 DEF UnassignSession, NotClosed, ConditionalUpdate, Board!Next, Board!Return
  <2>3. QED BY <2>1, <2>2
<1>7. CASE CloseSessionAdmin(p)
  BY <1>1, <1>7 DEF CloseSessionAdmin, NotClosed, ConditionalUpdate, Board!Next, Board!Close
<1>8. QED BY <1>3, <1>4, <1>5, <1>6, <1>7

LEMMA BoardShift ==
    ASSUME IInv, NEW p \in Requests, UpdatesUser(p)
    PROVE  Board!Next \/ UNCHANGED <<status, assignee, onShift>>
<1> PICK o \in Operators : o = request[p].op
  BY DEF IInv, TypeOK, WellFormed, OperatorKinds, LockingKinds, CheckedKinds, LeavingKinds,
         UpdatesUser, StartShift, EndShift, DropDeadShift, SetOperatorShiftOn,
         SetOperatorShiftOff, DeleteOperator, Running
<1>1. CASE StartShift(p) \/ SetOperatorShiftOn(p)
  BY <1>1 DEF StartShift, SetOperatorShiftOn, SetShift, Board!Next, Board!GoOnShift
<1>2. CASE EndShift(p) \/ DropDeadShift(p)
  BY <1>2, SameCalls DEF EndShift, DropDeadShift, SetShift, Board!Next, Board!GoOffShift
<1>3. CASE SetOperatorShiftOff(p) \/ DeleteOperator(p)
  <2>1. OpenCalls(o) = {}
    BY <1>3 DEF IInv, RowLockProtectsChecks, Passes, MayLeave, LeavingKinds,
                SetOperatorShiftOff, DeleteOperator, Running
  <2>2. QED
    BY <1>3, <2>1, SameCalls
       DEF SetOperatorShiftOff, DeleteOperator, SetShift, Board!Next, Board!GoOffShift
<1>4. QED BY <1>1, <1>2, <1>3 DEF UpdatesUser

LEMMA BoardStep == IInv /\ [Next]_vars => [Board!Next]_(Board!boardVars)
<1> SUFFICES ASSUME IInv, [Next]_vars
             PROVE  Board!Next \/ UNCHANGED <<status, assignee, onShift>>
  BY DEF Board!boardVars
<1>1. ASSUME NEW p \in Requests, Receives(p) \/ Fail(p)
      PROVE  UNCHANGED <<status, assignee, onShift>>
  BY <1>1, QuietSteps DEF IInv, rows
<1>2. ASSUME NEW p \in Requests, Proceeds(p)
      PROVE  Board!Next \/ UNCHANGED <<status, assignee, onShift>>
  BY <1>2, BoardTake, BoardMove, BoardShift
     DEF Proceeds, UpdatesSession, LockOperatorRow, Check, Refuse, EndShiftConflict,
         DropNothing, rows
<1>3. ASSUME NEW o \in Operators, CreateOperator(o)
      PROVE  UNCHANGED <<status, assignee, onShift>>
  BY <1>3 DEF CreateOperator
<1>4. ASSUME NEW s \in Sessions, StartSession(s) PROVE Board!Next
  BY <1>4 DEF StartSession, Board!Next, Board!Raise
<1>5. ASSUME NEW s \in Sessions, CloseSession(s) PROVE Board!Next
  BY <1>5 DEF CloseSession, Board!Next, Board!Close, Board!Held, IInv, TypeOK, Status, OpenAssigned
<1>6. CASE UNCHANGED vars BY <1>6 DEF vars
<1>7. QED BY <1>1, <1>2, <1>3, <1>4, <1>5, <1>6 DEF Next

\* The transactions of the code, interleaved statement by statement, look like
\* indivisible moves on the call board.
THEOREM Refinement == Spec => ImplementsCallBoard
<1>1. QED
  BY BoardInit, BoardStep, Invariance, PTL DEF Spec, ImplementsCallBoard, Board!Spec
=============================================================================
