----------------------------- MODULE ShiftRooms -----------------------------
(***************************************************************************)
(* The shift in the database and the shift in the sockets.                 *)
(*                                                                         *)
(* A fresh SOS goes to the Socket.IO room ON_SHIFT_ROOM, which lives in    *)
(* memory; User.onShift lives in PostgreSQL.  Every handler that changes   *)
(* the column commits first and moves the operator's sockets in or out of  *)
(* the room one or more awaits later; a connecting socket reads the column *)
(* and joins one await later.  Each of these awaits may throw, and nothing *)
(* undoes the commit or repeats the rest then.  Whether the commit itself  *)
(* is allowed is Dispatch's matter: here it may be refused at any time.    *)
(***************************************************************************)
EXTENDS FiniteSets, Naturals

CONSTANTS
    Operators,    \* user ids with Role.OPERATOR
    Sockets,      \* connections that can be open at the same time
    Requests,     \* shift requests and deletions running at the same time
    NoOperator    \* nobody

ASSUME NullAssumption == NoOperator \notin Operators

VARIABLES
    onShift,      \* [Operators -> BOOLEAN], User.onShift
    deleted,      \* SUBSET Operators, User.deletedAt
    socket,       \* [Sockets -> SocketState]
    room,         \* SUBSET Sockets, members of ON_SHIFT_ROOM
    request,      \* [Requests -> RequestState]
    cron,         \* CronState, one run of dropDeadShifts
    disturbed     \* history: operators whose handlers have overlapped, or one of whose
                  \* handlers has been cut short, since they last had no connection

vars == <<onShift, deleted, socket, room, request, cron, disturbed>>

-----------------------------------------------------------------------------
Closed == [at |-> "closed", op |-> NoOperator, seen |-> FALSE]

\* "handshake": user row read, not in a room yet; "joined": in operatorRoom,
\* bootstrap not yet run; "shiftRead": the bootstrap has read onShift.
SocketState ==
    [at   : {"closed", "handshake", "joined", "shiftRead", "open"},
     op   : Operators \cup {NoOperator},
     seen : BOOLEAN]

Idle == [kind |-> "none", at |-> "idle", op |-> NoOperator]

\* "received": before the commit; "room": committed, sockets not moved yet;
\* "revoke": deleteOperator with no shift to end, before the revocation has ended;
\* "kick": deleteOperator with nothing left but disconnectUser.
RequestState ==
    [kind : {"none", "start", "end", "adminOn", "adminOff", "delete"},
     at   : {"idle", "received", "room", "revoke", "kick"},
     op   : Operators \cup {NoOperator}]

\* "ending": the loop of transactions; "telling": the events after the loop.
CronState ==
    [at : {"idle", "ending", "telling"}, dead : SUBSET Operators, ended : SUBSET Operators]

NoRun == [at |-> "idle", dead |-> {}, ended |-> {}]

TypeOK ==
    /\ onShift \in [Operators -> BOOLEAN]
    /\ deleted \in SUBSET Operators
    /\ socket \in [Sockets -> SocketState]
    /\ room \in SUBSET Sockets
    /\ request \in [Requests -> RequestState]
    /\ cron \in CronState
    /\ disturbed \in SUBSET Operators
    /\ \A c \in Sockets : socket[c].op = NoOperator <=> socket[c].at = "closed"

Init ==
    /\ onShift = [o \in Operators |-> FALSE]
    /\ deleted = {}
    /\ socket = [c \in Sockets |-> Closed]
    /\ room = {}
    /\ request = [r \in Requests |-> Idle]
    /\ cron = NoRun
    /\ disturbed = {}

-----------------------------------------------------------------------------
\* The members of operatorRoom(o): a socket joins it after the handshake.
OperatorRoom(o) ==
    {c \in Sockets : socket[c].op = o /\ socket[c].at \in {"joined", "shiftRead", "open"}}

\* Some handler concerning o has started and not ended.
Busy(o) ==
    \/ \E r \in Requests : request[r].op = o
    \/ \E c \in Sockets : socket[c].op = o /\ socket[c].at # "open"
    \/ o \in cron.dead \cup cron.ended

\* What a handler starting now does to the history.
Starting(o) == disturbed' = IF Busy(o) THEN disturbed \cup {o} ELSE disturbed

-----------------------------------------------------------------------------
(* Connections.                                                            *)

\* handleConnection reads the user row and rejects deleted accounts.
Connect(c, o) ==
    /\ socket[c] = Closed
    /\ o \notin deleted
    /\ socket' = [socket EXCEPT ![c] = [at |-> "handshake", op |-> o, seen |-> FALSE]]
    /\ Starting(o)
    /\ UNCHANGED <<onShift, deleted, room, request, cron>>

\* After the await: the personal room, then the bootstrap is started.
JoinOperatorRoom(c) ==
    /\ socket[c].at = "handshake"
    /\ socket' = [socket EXCEPT ![c].at = "joined"]
    /\ UNCHANGED <<onShift, deleted, room, request, cron, disturbed>>

ReadShift(c) ==
    /\ socket[c].at = "joined"
    /\ socket' = [socket EXCEPT ![c].at = "shiftRead", ![c].seen = onShift[socket[c].op]]
    /\ UNCHANGED <<onShift, deleted, room, request, cron, disturbed>>

\* The query throws: the catch of sendOperatorBootstrap logs it, and the socket
\* stays open in its personal room alone.
ReadFails(c) ==
    LET o == socket[c].op IN
    /\ socket[c].at = "joined"
    /\ socket' = [socket EXCEPT ![c].at = "open"]
    /\ disturbed' = IF onShift[o] THEN disturbed \cup {o} ELSE disturbed
    /\ UNCHANGED <<onShift, deleted, room, request, cron>>

\* sendOperatorBootstrap joins ON_SHIFT_ROOM by what it read.
BootstrapJoin(c) ==
    /\ socket[c].at = "shiftRead"
    /\ room' = IF socket[c].seen THEN room \cup {c} ELSE room
    /\ socket' = [socket EXCEPT ![c].at = "open", ![c].seen = FALSE]
    /\ UNCHANGED <<onShift, deleted, request, cron, disturbed>>

\* The connection is lost, or its token expires.  With no connection and no
\* handler left there is nothing that could be out of step.
Disconnect(c) ==
    /\ socket[c].at # "closed"
    /\ socket' = [socket EXCEPT ![c] = Closed]
    /\ room' = room \ {c}
    /\ LET o == socket[c].op
           alone == /\ \A d \in Sockets \ {c} : socket[d].op # o
                    /\ \A r \in Requests : request[r].op # o
                    /\ o \notin cron.dead \cup cron.ended
       IN  disturbed' = IF alone THEN disturbed \ {o} ELSE disturbed
    /\ UNCHANGED <<onShift, deleted, request, cron>>

-----------------------------------------------------------------------------
(* Shift requests.                                                         *)

Receive(r, kind, o) ==
    /\ request[r] = Idle
    /\ request' = [request EXCEPT ![r] = [kind |-> kind, at |-> "received", op |-> o]]
    /\ Starting(o)
    /\ UNCHANGED <<onShift, deleted, socket, room, cron>>

\* The operator's requests and deleteOperator want an account that is not
\* deleted; setOperatorShift looks at the role only.
ReceiveAny(r) ==
    \E o \in Operators :
        \/ o \notin deleted /\ \E k \in {"start", "end", "delete"} : Receive(r, k, o)
        \/ \E k \in {"adminOn", "adminOff"} : Receive(r, k, o)

Committing(r, kinds) == request[r].kind \in kinds /\ request[r].at = "received"

\* startShift, setOperatorShift(true)
CommitOn(r) ==
    /\ Committing(r, {"start", "adminOn"})
    /\ onShift' = [onShift EXCEPT ![request[r].op] = TRUE]
    /\ request' = [request EXCEPT ![r].at = "room"]
    /\ UNCHANGED <<deleted, socket, room, cron, disturbed>>

\* endShift, setOperatorShift(false)
CommitOff(r) ==
    /\ Committing(r, {"end", "adminOff"})
    /\ onShift' = [onShift EXCEPT ![request[r].op] = FALSE]
    /\ request' = [request EXCEPT ![r].at = "room"]
    /\ UNCHANGED <<deleted, socket, room, cron, disturbed>>

\* deleteOperator: the sockets leave the room only if there was a shift to end.
\* The refresh tokens are revoked in between.
CommitDelete(r) ==
    /\ Committing(r, {"delete"})
    /\ deleted' = deleted \cup {request[r].op}
    /\ onShift' = [onShift EXCEPT ![request[r].op] = FALSE]
    /\ request' = [request EXCEPT ![r].at = IF onShift[request[r].op] THEN "room" ELSE "revoke"]
    /\ UNCHANGED <<socket, room, cron, disturbed>>

\* 403, 409, or the transaction fails: nothing was written.
Refuse(r) ==
    /\ request[r].at = "received"
    /\ request' = [request EXCEPT ![r] = Idle]
    /\ UNCHANGED <<onShift, deleted, socket, room, cron, disturbed>>

\* Something throws after the commit and before the sockets are moved or closed:
\* the commit's own answer is lost, startShift's second read or its heartbeat
\* fails, or deleteOperator's revocation.  The request is answered 500; what was
\* committed stays, and the sockets stay as they are.
CutShort(r) ==
    LET o == request[r].op IN
    /\ request[r].at \in {"room", "revoke"}
    /\ request' = [request EXCEPT ![r] = Idle]
    /\ disturbed' = IF \E c \in Sockets : socket[c].op = o
                    THEN disturbed \cup {o} ELSE disturbed
    /\ UNCHANGED <<onShift, deleted, socket, room, cron>>

\* Which way setOperatorShiftRoom moves the sockets.
JoinsRoom(kind) == kind \in {"start", "adminOn"}

\* setOperatorShiftRoom: every socket that is in operatorRoom by now.
MoveSockets(r) ==
    LET o == request[r].op IN
    /\ request[r].at = "room"
    /\ room' = IF JoinsRoom(request[r].kind)
               THEN room \cup OperatorRoom(o)
               ELSE room \ OperatorRoom(o)
    /\ request' = [request EXCEPT ![r] = IF request[r].kind = "delete"
                                         THEN [@ EXCEPT !.at = "kick"] ELSE Idle]
    /\ UNCHANGED <<onShift, deleted, socket, cron, disturbed>>

\* Mutant: the sockets stay.
DisconnectNobody(r) ==
    /\ request[r].at \in {"revoke", "kick"}
    /\ request' = [request EXCEPT ![r] = Idle]
    /\ UNCHANGED <<onShift, deleted, socket, room, cron, disturbed>>

\* disconnectUser: every socket that is in operatorRoom by now.
DisconnectUser(r) ==
    LET gone == OperatorRoom(request[r].op) IN
    /\ request[r].at \in {"revoke", "kick"}
    /\ socket' = [c \in Sockets |-> IF c \in gone THEN Closed ELSE socket[c]]
    /\ room' = room \ gone
    /\ request' = [request EXCEPT ![r] = Idle]
    /\ UNCHANGED <<onShift, deleted, cron, disturbed>>

-----------------------------------------------------------------------------
(* dropDeadShifts: several transactions, then all events and room changes.  *)

CronLists(D) ==
    /\ cron = NoRun
    /\ D # {} /\ \A o \in D : onShift[o]
    /\ cron' = [at |-> "ending", dead |-> D, ended |-> {}]
    /\ disturbed' = disturbed \cup {o \in D : Busy(o)}
    /\ UNCHANGED <<onShift, deleted, socket, room, request>>

\* One operator: their shift ends, unless it has ended or a call has come.
CronEnds(o) ==
    /\ cron.at = "ending"
    /\ o \in cron.dead
    /\ \/ /\ onShift[o]
          /\ onShift' = [onShift EXCEPT ![o] = FALSE]
          /\ cron' = [cron EXCEPT !.dead = @ \ {o}, !.ended = @ \cup {o}]
       \/ /\ UNCHANGED onShift
          /\ cron' = [cron EXCEPT !.dead = @ \ {o}]
    /\ UNCHANGED <<deleted, socket, room, request, disturbed>>

CronLoopDone ==
    /\ cron.at = "ending"
    /\ cron.dead = {}
    /\ cron' = [cron EXCEPT !.at = "telling"]
    /\ UNCHANGED <<onShift, deleted, socket, room, request, disturbed>>

\* Mutant: the events go out, the sockets stay.
CronTellsOnly(o) ==
    /\ cron.at = "telling"
    /\ o \in cron.ended
    /\ cron' = [cron EXCEPT !.ended = @ \ {o}]
    /\ UNCHANGED <<onShift, deleted, socket, room, request, disturbed>>

\* emitShiftEnded, then setOperatorShiftRoom(false)
CronTells(o) ==
    /\ cron.at = "telling"
    /\ o \in cron.ended
    /\ room' = room \ OperatorRoom(o)
    /\ cron' = [cron EXCEPT !.ended = @ \ {o}]
    /\ UNCHANGED <<onShift, deleted, socket, request, disturbed>>

CronDone ==
    /\ cron.at = "telling"
    /\ cron.ended = {}
    /\ cron' = NoRun
    /\ UNCHANGED <<onShift, deleted, socket, room, request, disturbed>>

\* A transaction of the loop throws, o's: it is rolled back, or only the answer
\* to its commit is lost.  The run is over, and the operators whose shift it has
\* ended are not told and stay in the room.
CronThrows(o) ==
    /\ cron.at = "ending"
    /\ o \in cron.dead
    /\ cron' = NoRun
    /\ \/ /\ UNCHANGED onShift
          /\ disturbed' = disturbed \cup cron.ended
       \/ /\ onShift[o]
          /\ onShift' = [onShift EXCEPT ![o] = FALSE]
          /\ disturbed' = disturbed \cup cron.ended \cup {o}
    /\ UNCHANGED <<deleted, socket, room, request>>

-----------------------------------------------------------------------------
\* The process dies: rooms, sockets and running handlers are gone, rows are not.
Restart ==
    /\ socket' = [c \in Sockets |-> Closed]
    /\ room' = {}
    /\ request' = [r \in Requests |-> Idle]
    /\ cron' = NoRun
    /\ disturbed' = {}
    /\ UNCHANGED <<onShift, deleted>>

-----------------------------------------------------------------------------
Connections ==
    \E c \in Sockets :
        \/ \E o \in Operators : Connect(c, o)
        \/ JoinOperatorRoom(c) \/ ReadShift(c) \/ ReadFails(c) \/ BootstrapJoin(c) \/ Disconnect(c)

ShiftRequests ==
    \E r \in Requests :
        \/ ReceiveAny(r) \/ CommitOn(r) \/ CommitOff(r) \/ CommitDelete(r) \/ Refuse(r)
        \/ CutShort(r) \/ MoveSockets(r) \/ DisconnectUser(r)

CronRuns ==
    \/ \E D \in SUBSET Operators : CronLists(D)
    \/ \E o \in Operators : CronEnds(o) \/ CronThrows(o) \/ CronTells(o)
    \/ CronLoopDone \/ CronDone

Next == Connections \/ ShiftRequests \/ CronRuns \/ Restart

Spec == Init /\ [][Next]_vars

-----------------------------------------------------------------------------
\* As long as the handlers that concern an operator run one after another and
\* none of them is cut short, their sockets are in the room exactly while they
\* are on shift.
RoomFollowsShift ==
    \A o \in Operators : ~Busy(o) /\ o \notin disturbed =>
        \A c \in OperatorRoom(o) : c \in room <=> onShift[o]

\* Under the same conditions a deleted operator has no connection left.
DeletedAreDisconnected ==
    \A o \in deleted : ~Busy(o) /\ o \notin disturbed => OperatorRoom(o) = {}

-----------------------------------------------------------------------------
(* What the code says and does not keep when handlers overlap or fail: see   *)
(* section 5 of README.md.                                                   *)

\* README: emergency:new goes to the free operators on shift.
OnShiftAlerted ==
    \A o \in Operators : ~Busy(o) /\ onShift[o] => OperatorRoom(o) \subseteq room

\* disconnectUser: "closes all sockets of the user.  Needed after the deletion of
\* an account".
NoSocketOfDeleted ==
    \A o \in deleted : ~Busy(o) => OperatorRoom(o) = {}
=============================================================================
