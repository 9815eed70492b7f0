------------------------------ MODULE Presence ------------------------------
(***************************************************************************)
(* Who is thought to be gone, and what the cron worker does about it.      *)
(*                                                                         *)
(* A Redis key per operator holds the time of the last sign of life.       *)
(* Every 30 seconds a worker that gets the Redis lock refreshes the keys   *)
(* of everybody with a socket in the on-shift room, takes the ASSIGNED     *)
(* calls of silent operators back and ends the shifts of operators who are *)
(* silent for longer and have no open call.  Each line of a run is an      *)
(* await: operators, the clock, a second worker and failures of Redis or   *)
(* of the process come in between.                                         *)
(*                                                                         *)
(* Time is counted in ticks; a key's age stops at its TTL, when Redis      *)
(* drops it.  How the writes of calls and shifts compete for row locks is  *)
(* Dispatch's matter, when a socket follows its operator's shift into or   *)
(* out of the room is ShiftRooms': here each is one step.                  *)
(***************************************************************************)
EXTENDS FiniteSets, Naturals

CONSTANTS
    Operators,     \* user ids with Role.OPERATOR
    Calls,         \* EmergencySession ids
    Workers,       \* backend processes
    NoOperator,    \* assignedOperatorId = NULL
    Nobody,        \* the lock's key does not exist
    LostReply,     \* the lock was set for a worker that never learnt of it
    ReclaimAfter,  \* RECLAIM_ASSIGNMENT_THRESHOLD_MS, in ticks
    DropAfter,     \* SHIFT_ALIVE_THRESHOLD_MS
    HeartbeatTTL,  \* HEARTBEAT_TTL_SECONDS
    LockTTL        \* STALE_LOCK_TTL_SECONDS

ASSUME NullAssumption ==
    /\ NoOperator \notin Operators
    /\ Nobody \notin Workers /\ LostReply \notin Workers /\ Nobody # LostReply

\* operator-presence.ts: "must be >= the longest threshold below"; "strictly
\* greater than RECLAIM_ASSIGNMENT_THRESHOLD_MS".
ASSUME ThresholdAssumption ==
    /\ ReclaimAfter \in Nat \ {0} /\ DropAfter \in Nat /\ HeartbeatTTL \in Nat
    /\ LockTTL \in Nat \ {0} /\ LockTTL <= ReclaimAfter
    /\ ReclaimAfter < DropAfter /\ DropAfter <= HeartbeatTTL

VARIABLES
    age,        \* [Operators -> 0..HeartbeatTTL], ticks since the last sign of life
    onShift,    \* [Operators -> BOOLEAN], User.onShift
    starting,   \* operators whose startShift has not written its heartbeat yet
    inRoom,     \* operators with a live socket in ON_SHIFT_ROOM
    status,     \* [Calls -> Status], EmergencySession.status
    holder,     \* [Calls -> Operators or NULL], assignedOperatorId
    lock,       \* whose token is under cron:stale-assignments
    lockLeft,   \* ticks until that key expires
    run         \* [Workers -> Run], checkStaleAssignments in progress

operatorVars == <<onShift, starting, inRoom>>
callVars == <<status, holder>>
lockVars == <<lock, lockLeft>>
vars == <<age, operatorVars, callVars, lockVars, run>>

Board == INSTANCE CallBoard
           WITH Operators <- Operators, Sessions <- Calls, NoOperator <- NoOperator,
                status <- status, assignee <- holder, onShift <- onShift

-----------------------------------------------------------------------------
OpenAssigned == {"ASSIGNED", "IN_PROGRESS"}
Status == {"ABSENT", "NEW", "CLOSED"} \cup OpenAssigned

\* The points of a run, each before the await it is named after.
Points == {"idle", "refresh", "list", "reclaim", "write", "listIdle", "ask", "drop", "release"}

\* todo: the calls still to be looked at, with the operator read with them;
\* picked: the one found silent; idle: those to ask about, later those to drop.
\* The rest is there for the properties: how many ticks the run has lasted, who
\* has been in the room all the time and was not missed by the refresh, and who
\* gave a sign of life after theirs was read.
Run ==
    [at : Points, todo : SUBSET (Calls \X Operators), picked : SUBSET (Calls \X Operators),
     idle : SUBSET Operators, took : 0..ReclaimAfter,
     steady : SUBSET Operators, back : SUBSET Operators]

NoRun == [at |-> "idle", todo |-> {}, picked |-> {}, idle |-> {},
          took |-> 0, steady |-> {}, back |-> {}]

TypeOK ==
    /\ age \in [Operators -> 0..HeartbeatTTL]
    /\ onShift \in [Operators -> BOOLEAN]
    /\ starting \subseteq Operators
    /\ inRoom \subseteq Operators
    /\ status \in [Calls -> Status]
    /\ holder \in [Calls -> Operators \cup {NoOperator}]
    /\ lock \in Workers \cup {Nobody, LostReply}
    /\ lockLeft \in 0..LockTTL
    /\ lock = Nobody <=> lockLeft = 0
    /\ run \in [Workers -> Run]
    /\ \A w \in Workers : run[w].at = "write" <=> Cardinality(run[w].picked) = 1

Init ==
    /\ age = [o \in Operators |-> HeartbeatTTL]
    /\ onShift = [o \in Operators |-> FALSE]
    /\ starting = {}
    /\ inRoom = {}
    /\ status = [c \in Calls |-> "ABSENT"]
    /\ holder = [c \in Calls |-> NoOperator]
    /\ lock = Nobody
    /\ lockLeft = 0
    /\ run = [w \in Workers |-> NoRun]

-----------------------------------------------------------------------------
OpenCalls(o) == {c \in Calls : holder[c] = o /\ status[c] \in OpenAssigned}

\* GET answers null: parseHeartbeat(null) is null.
KeyExpired(o) == age[o] = HeartbeatTTL

\* Mutants: a shorter threshold (ONLINE_THRESHOLD_MS); no key, no complaint.
FreshIfOnline(o) == ~KeyExpired(o) /\ age[o] < ReclaimAfter - 1
FreshIfUnknown(o) == KeyExpired(o) \/ age[o] < ReclaimAfter

\* isHeartbeatFresh(heartbeat, RECLAIM_ASSIGNMENT_THRESHOLD_MS)
Fresh(o) == ~KeyExpired(o) /\ age[o] < ReclaimAfter

\* Mutant: a shift without a heartbeat is left alone.
DeadIfKnown(o) == ~KeyExpired(o) /\ age[o] >= DropAfter

\* dropDeadShifts: ts == null || now - ts >= SHIFT_ALIVE_THRESHOLD_MS
Dead(o) == KeyExpired(o) \/ age[o] >= DropAfter

\* SET operator:<id>:heartbeat now EX HEARTBEAT_TTL_SECONDS, for all of ops.
Heard(ops) == age' = [o \in Operators |-> IF o \in ops THEN 0 ELSE age[o]]

SignOfLife(ops) == [w \in Workers |-> [run[w] EXCEPT !.back = @ \cup ops]]

-----------------------------------------------------------------------------
(* Operators, administrators, sockets and the clock.                       *)

\* POST /dispatch/heartbeat, on or off shift.
Heartbeat(o) ==
    /\ Heard({o})
    /\ run' = SignOfLife({o})
    /\ UNCHANGED <<operatorVars, callVars, lockVars>>

\* The UPDATE of startShift; the heartbeat is seeded one await later.
StartShift(o) ==
    /\ onShift' = [onShift EXCEPT ![o] = TRUE]
    /\ starting' = starting \cup {o}
    /\ UNCHANGED <<age, inRoom, callVars, lockVars, run>>

SeedHeartbeat(o) ==
    /\ o \in starting
    /\ starting' = starting \ {o}
    /\ Heard({o})
    /\ run' = SignOfLife({o})
    /\ UNCHANGED <<onShift, inRoom, callVars, lockVars>>

\* Redis is down: startShift answers 500 with the shift begun.
SeedFails(o) ==
    /\ o \in starting
    /\ starting' = starting \ {o}
    /\ UNCHANGED <<age, onShift, inRoom, callVars, lockVars, run>>

\* setOperatorShift(true) writes no heartbeat at all.
AdminStartsShift(o) ==
    /\ onShift' = [onShift EXCEPT ![o] = TRUE]
    /\ UNCHANGED <<age, starting, inRoom, callVars, lockVars, run>>

LeaveRoom(o) == [w \in Workers |-> [run[w] EXCEPT !.steady = @ \ {o}]]

\* endShift and setOperatorShift(false)
EndShift(o) ==
    /\ onShift[o]
    /\ OpenCalls(o) = {}
    /\ onShift' = [onShift EXCEPT ![o] = FALSE]
    /\ inRoom' = inRoom \ {o}
    /\ run' = LeaveRoom(o)
    /\ UNCHANGED <<age, starting, callVars, lockVars>>

\* A socket of an operator on shift joins the room, or the last one dies.
Connect(o) ==
    /\ onShift[o]
    /\ inRoom' = inRoom \cup {o}
    /\ UNCHANGED <<age, onShift, starting, callVars, lockVars, run>>

Disconnect(o) ==
    /\ o \in inRoom
    /\ inRoom' = inRoom \ {o}
    /\ run' = LeaveRoom(o)
    /\ UNCHANGED <<age, onShift, starting, callVars, lockVars>>

SetCall(c, newStatus, newHolder) ==
    /\ status' = [status EXCEPT ![c] = newStatus]
    /\ holder' = [holder EXCEPT ![c] = newHolder]
    /\ UNCHANGED <<age, operatorVars, lockVars>>

Raise(c) == status[c] = "ABSENT" /\ SetCall(c, "NEW", NoOperator) /\ UNCHANGED run

\* Accepting is no sign of life: only the heartbeat endpoint and startShift are.
Take(o, c) ==
    /\ onShift[o]
    /\ OpenCalls(o) = {}
    /\ \/ status[c] = "NEW"                                       \* accept, assign
       \/ status[c] \in OpenAssigned /\ holder[c] # o             \* reassign
    /\ SetCall(c, "ASSIGNED", o)
    /\ UNCHANGED run

Begin(c) ==
    /\ status[c] = "ASSIGNED"
    /\ SetCall(c, "IN_PROGRESS", holder[c])
    /\ UNCHANGED run

Unassign(c) == status[c] \in OpenAssigned /\ SetCall(c, "NEW", NoOperator) /\ UNCHANGED run

Resolve(c) == status[c] \in OpenAssigned /\ SetCall(c, "CLOSED", holder[c]) /\ UNCHANGED run

Later(n, most) == IF n < most THEN n + 1 ELSE most

\* Silence grows; a lock nobody released expires.
Tick ==
    /\ age' = [o \in Operators |-> Later(age[o], HeartbeatTTL)]
    /\ lockLeft' = IF lockLeft = 0 THEN 0 ELSE lockLeft - 1
    /\ lock' = IF lockLeft <= 1 THEN Nobody ELSE lock
    /\ run' = [w \in Workers |->
                 IF run[w].at = "idle" THEN NoRun
                 ELSE [run[w] EXCEPT !.took = Later(@, ReclaimAfter)]]
    /\ UNCHANGED <<operatorVars, callVars>>

-----------------------------------------------------------------------------
(* One run of the worker.                                                  *)

Goes(w, r) == run' = [run EXCEPT ![w] = r]

\* SET key token EX ttl NX
Acquire(w) ==
    /\ run[w].at = "idle"
    /\ lock = Nobody
    /\ lock' = w
    /\ lockLeft' = LockTTL
    /\ Goes(w, [NoRun EXCEPT !.at = "refresh", !.steady = inRoom])
    /\ UNCHANGED <<age, operatorVars, callVars>>

\* The key is set, the reply is lost: the worker skips this run.
AcquireUnheard ==
    /\ lock = Nobody
    /\ lock' = LostReply
    /\ lockLeft' = LockTTL
    /\ UNCHANGED <<age, operatorVars, callVars, run>>

\* Mutant: the heartbeats of connected operators are not extended.
RefreshNobody(w) ==
    /\ run[w].at = "refresh"
    /\ Goes(w, [run[w] EXCEPT !.at = "list"])
    /\ UNCHANGED <<age, operatorVars, callVars, lockVars>>

\* refreshPresenceFromSockets.  Some of the SETs, or the query, may fail: the
\* error is logged and the run goes on.
RefreshPresence(w) ==
    /\ run[w].at = "refresh"
    /\ \E ops \in SUBSET inRoom :
          /\ Heard(ops)
          /\ run' = [SignOfLife(ops) EXCEPT
                       ![w].at = "list", ![w].steady = @ \cap ops]
    /\ UNCHANGED <<operatorVars, callVars, lockVars>>

\* findMany({ status: ASSIGNED, assignedOperatorId: not null })
Stale(c) == status[c] = "ASSIGNED"

ListAssigned(w) ==
    /\ run[w].at = "list"
    /\ Goes(w, [run[w] EXCEPT !.at = "reclaim", !.back = {},
                              !.todo = {<<c, holder[c]>> : c \in {d \in Calls : Stale(d)}}])
    /\ UNCHANGED <<age, operatorVars, callVars, lockVars>>

\* The database is unreachable: on to the finally block.
ListFails(w) ==
    /\ run[w].at = "list"
    /\ Goes(w, [run[w] EXCEPT !.at = "listIdle"])
    /\ UNCHANGED <<age, operatorVars, callVars, lockVars>>

\* getOperatorHeartbeat of one operator of the list: silent.
FindSilent(w, c, o) ==
    /\ run[w].at = "reclaim"
    /\ <<c, o>> \in run[w].todo
    /\ ~Fresh(o)
    /\ Goes(w, [run[w] EXCEPT !.at = "write", !.todo = @ \ {<<c, o>>},
                              !.picked = {<<c, o>>}, !.back = @ \ {o}])
    /\ UNCHANGED <<age, operatorVars, callVars, lockVars>>

\* Redis does not answer: the error is logged, the next one's turn comes.
ReadFails(w, c, o) ==
    /\ run[w].at = "reclaim"
    /\ <<c, o>> \in run[w].todo
    /\ Goes(w, [run[w] EXCEPT !.todo = @ \ {<<c, o>>}])
    /\ UNCHANGED <<age, operatorVars, callVars, lockVars>>

\* isHeartbeatFresh: continue.
PassOver(w, c, o) == Fresh(o) /\ ReadFails(w, c, o)

\* Mutant: the WHERE asks for the operator only.
StillHeldBy(c, o) == holder[c] = o

StillAssignedTo(c, o) == status[c] = "ASSIGNED" /\ holder[c] = o

\* The conditional UPDATE ...
ReclaimCall(w, c, o) ==
    /\ run[w].at = "write"
    /\ <<c, o>> \in run[w].picked
    /\ StillAssignedTo(c, o)
    /\ SetCall(c, "NEW", NoOperator)
    /\ Goes(w, [run[w] EXCEPT !.at = "reclaim", !.picked = {}])

\* ... finds no row, or throws: either way the call stays as it is.
UpdateFails(w) ==
    /\ run[w].at = "write"
    /\ Goes(w, [run[w] EXCEPT !.at = "reclaim", !.picked = {}])
    /\ UNCHANGED <<age, operatorVars, callVars, lockVars>>

ReclaimNothing(w) ==
    /\ \A c \in Calls, o \in Operators : <<c, o>> \in run[w].picked => ~StillAssignedTo(c, o)
    /\ UpdateFails(w)

Reclaimed(w) ==
    /\ run[w].at = "reclaim"
    /\ run[w].todo = {}
    /\ Goes(w, [run[w] EXCEPT !.at = "listIdle"])
    /\ UNCHANGED <<age, operatorVars, callVars, lockVars>>

\* dropDeadShifts: those on shift without an open call ...
ListIdle(w) ==
    /\ run[w].at = "listIdle"
    /\ Goes(w, [run[w] EXCEPT !.at = "ask",
                              !.idle = {o \in Operators : onShift[o] /\ OpenCalls(o) = {}}])
    /\ UNCHANGED <<age, operatorVars, callVars, lockVars>>

\* ... and of these the dead, by one MGET.
AskHeartbeats(w) ==
    /\ run[w].at = "ask"
    /\ Goes(w, [run[w] EXCEPT !.at = "drop", !.idle = {o \in @ : Dead(o)}, !.back = {}])
    /\ UNCHANGED <<age, operatorVars, callVars, lockVars>>

EmptyHanded(o) == OpenCalls(o) = {}

\* One transaction per operator, with the condition looked at again.
DropShift(w, o) ==
    /\ run[w].at = "drop"
    /\ o \in run[w].idle
    /\ onShift[o]
    /\ EmptyHanded(o)
    /\ onShift' = [onShift EXCEPT ![o] = FALSE]
    /\ inRoom' = inRoom \ {o}
    /\ run' = [LeaveRoom(o) EXCEPT ![w].idle = @ \ {o}]
    /\ UNCHANGED <<age, starting, callVars, lockVars>>

KeepShift(w, o) ==
    /\ run[w].at = "drop"
    /\ o \in run[w].idle
    /\ ~(onShift[o] /\ EmptyHanded(o))
    /\ Goes(w, [run[w] EXCEPT !.idle = @ \ {o}])
    /\ UNCHANGED <<age, operatorVars, callVars, lockVars>>

\* Nobody is left, or one of the awaits threw: dropDeadShifts swallows it.
Dropped(w) ==
    /\ run[w].at = "drop" /\ run[w].idle = {}
    /\ Goes(w, [run[w] EXCEPT !.at = "release"])
    /\ UNCHANGED <<age, operatorVars, callVars, lockVars>>

DropFails(w) ==
    /\ run[w].at \in {"listIdle", "ask", "drop"}
    /\ Goes(w, [run[w] EXCEPT !.at = "release", !.idle = {}])
    /\ UNCHANGED <<age, operatorVars, callVars, lockVars>>

\* Mutant: an unconditional DEL.
AnyToken(w) == TRUE

\* RELEASE_LOCK_SCRIPT deletes the key if it holds this run's token.
OwnToken(w) == lock = w

Release(w) ==
    /\ run[w].at = "release"
    /\ IF OwnToken(w) THEN lock' = Nobody /\ lockLeft' = 0 ELSE UNCHANGED lockVars
    /\ Goes(w, NoRun)
    /\ UNCHANGED <<age, operatorVars, callVars>>

\* The process dies at any point, or the release does not reach Redis.
Crash(w) ==
    /\ run[w].at # "idle"
    /\ Goes(w, NoRun)
    /\ UNCHANGED <<age, operatorVars, callVars, lockVars>>

-----------------------------------------------------------------------------
OperatorStep(o) ==
    \/ Heartbeat(o) \/ StartShift(o) \/ SeedHeartbeat(o) \/ SeedFails(o)
    \/ AdminStartsShift(o) \/ EndShift(o) \/ Connect(o) \/ Disconnect(o)
    \/ \E c \in Calls : Take(o, c)

CallStep(c) == Raise(c) \/ Begin(c) \/ Unassign(c) \/ Resolve(c)

CronStep(w) ==
    \/ Acquire(w) \/ RefreshPresence(w) \/ ListAssigned(w)
    \/ \E c \in Calls, o \in Operators :
          FindSilent(w, c, o) \/ PassOver(w, c, o) \/ ReclaimCall(w, c, o)
    \/ ReclaimNothing(w) \/ Reclaimed(w) \/ ListIdle(w) \/ AskHeartbeats(w)
    \/ \E o \in Operators : DropShift(w, o) \/ KeepShift(w, o)
    \/ Dropped(w) \/ Release(w)

\* Redis, the database or the process.
Failure ==
    \/ AcquireUnheard
    \/ \E w \in Workers :
          \/ ListFails(w) \/ UpdateFails(w) \/ DropFails(w) \/ Crash(w)
          \/ \E c \in Calls, o \in Operators : ReadFails(w, c, o)

Next ==
    \/ \E o \in Operators : OperatorStep(o)
    \/ \E c \in Calls : CallStep(c)
    \/ \E w \in Workers : CronStep(w)
    \/ Tick \/ Failure

Spec == Init /\ [][Next]_vars

\* Time passes, the schedule comes round and a run that can go on does.
\* Failures may come at any point and in any number, but not for ever.
ProperFailure == Failure /\ ~\E w \in Workers : CronStep(w)

Fairness ==
    /\ WF_vars(Tick)
    /\ \A w \in Workers : WF_vars(CronStep(w))
    /\ <>[][~ProperFailure]_vars

FairSpec == Spec /\ Fairness

-----------------------------------------------------------------------------
(* Safety.                                                                 *)

\* Two runs overlap only when one of them has outlasted the lock: a release
\* never removes the lock of somebody else (redis.service.ts).
OverlapNeedsExpiry ==
    \A v, w \in Workers :
        v # w /\ run[v].at # "idle" /\ run[w].at # "idle" =>
            run[v].took >= LockTTL \/ run[w].took >= LockTTL

\* A call is taken back only while nobody is on the way to it, and from an operator
\* who has been silent for the threshold, or was until after their heartbeat was
\* read.
OnlySilentLoseCalls ==
    [][\A w \in Workers, c \in Calls, o \in Operators :
          ReclaimCall(w, c, o) =>
              /\ status[c] = "ASSIGNED"
              /\ age[o] >= ReclaimAfter \/ o \in run[w].back]_vars

\* An operator with a live socket keeps call and shift, silent app or not,
\* unless the refresh missed them or the run itself lasted for the threshold.
ConnectedKeepsCall ==
    [][\A w \in Workers, o \in Operators :
          /\ o \in run[w].steady
          /\ DropShift(w, o) \/ \E c \in Calls : ReclaimCall(w, c, o)
          => run[w].took >= ReclaimAfter]_vars

\* A shift ends by silence only after the longer threshold, which the key must
\* outlive (operator-presence.ts: HEARTBEAT_TTL_SECONDS).
DropNeedsSilence ==
    [][\A w \in Workers, o \in Operators :
          DropShift(w, o) => age[o] >= DropAfter \/ o \in run[w].back]_vars

\* An operator on the way to a call keeps it, and the shift, however long they
\* are silent: only their own or an administrator's request changes it.
EnRouteUntouched ==
    [][(Failure \/ \E w \in Workers : CronStep(w)) =>
          \A c \in Calls : status[c] = "IN_PROGRESS" =>
              /\ status'[c] = "IN_PROGRESS" /\ holder'[c] = holder[c]
              /\ \A o \in Operators : holder[c] = o => onShift'[o] = onShift[o]]_vars

\* The worker too only makes moves of the call board.
ImplementsCallBoard == Board!Spec

-----------------------------------------------------------------------------
(* Liveness.                                                               *)

AssignedTo(c, o) == status[c] = "ASSIGNED" /\ holder[c] = o

\* A call that was accepted and not begun does not stay with somebody silent.
SilentLosesCall ==
    \A c \in Calls, o \in Operators :
        AssignedTo(c, o) /\ age[o] >= ReclaimAfter ~>
            ~AssignedTo(c, o) \/ age[o] < ReclaimAfter

\* An operator who is gone for good does not stay on shift.
DeadShiftEnds ==
    \A o \in Operators :
        onShift[o] /\ age[o] >= DropAfter ~>
            ~onShift[o] \/ age[o] < DropAfter \/ OpenCalls(o) # {}
=============================================================================
