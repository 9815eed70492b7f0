-------------------------- MODULE ShiftRoomsProofs --------------------------
(* ShiftRooms for any number of operators, sockets and requests.            *)
EXTENDS ShiftRooms, TLAPS

\* Requests are about somebody until they are answered, a run of the cron worker
\* until it ends, and a closed socket is in no room.
Shaped ==
    /\ \A r \in Requests : request[r].op = NoOperator <=> request[r].at = "idle"
    /\ \A r \in Requests : request[r].at \in {"revoke", "kick"} => request[r].kind = "delete"
    /\ cron.at = "idle" => cron.dead = {} /\ cron.ended = {}
    /\ cron.at = "telling" => cron.dead = {}
    /\ \A c \in room : socket[c].at # "closed"

\* The bootstrap of a socket of o is under way.
Connecting(c, o) == socket[c].op = o /\ socket[c].at # "open"

InRun(o) == o \in cron.dead \cup cron.ended

\* One handler at a time concerns o.
OneHandler(o) ==
    /\ \A r, q \in Requests : request[r].op = o /\ request[q].op = o => r = q
    /\ \A c, d \in Sockets : Connecting(c, o) /\ Connecting(d, o) => c = d
    /\ \A r \in Requests, c \in Sockets : ~(request[r].op = o /\ Connecting(c, o))
    /\ InRun(o) => /\ \A r \in Requests : request[r].op # o
                   /\ \A c \in Sockets : ~Connecting(c, o)
    /\ ~(o \in cron.dead /\ o \in cron.ended)

\* The sockets of o are still to be moved.
MoveDue(o) == o \in cron.ended \/ \E r \in Requests : request[r].op = o /\ request[r].at = "room"

\* Who is about to move the sockets will move them the right way, and until
\* somebody is, they are where they belong.
InStep(o) ==
    /\ \A c \in Sockets : Connecting(c, o) =>
          c \notin room /\ (socket[c].at = "shiftRead" => socket[c].seen = onShift[o])
    /\ ~MoveDue(o) => \A c \in Sockets : socket[c].op = o /\ socket[c].at = "open" =>
          (c \in room <=> onShift[o])
    /\ \A r \in Requests : request[r].op = o /\ request[r].at = "room" =>
          (onShift[o] <=> JoinsRoom(request[r].kind))
    /\ o \in cron.ended => ~onShift[o]

\* A deleted operator has no socket, or the deletion is about to close it.
Gone(o) ==
    o \in deleted =>
        \/ \A c \in Sockets : socket[c].op # o
        \/ \E r \in Requests : /\ request[r].op = o
                               /\ request[r].kind = "delete"
                               /\ request[r].at \in {"room", "revoke", "kick"}

Orderly(o) == OneHandler(o) /\ InStep(o) /\ Gone(o)

RoomInv == TypeOK /\ Shaped /\ \A o \in Operators \ disturbed : Orderly(o)

LEMMA InitRoomInv == Init => RoomInv
<1> SUFFICES ASSUME Init PROVE RoomInv
  OBVIOUS
<1> USE NullAssumption DEF Init, Closed, Idle, NoRun
<1>1. TypeOK BY DEF TypeOK, SocketState, RequestState, CronState
<1>2. Shaped BY DEF Shaped
<1>3. ASSUME NEW o \in Operators PROVE Orderly(o)
  BY DEF Orderly, OneHandler, InStep, Gone, Connecting, InRun
<1>4. QED BY <1>1, <1>2, <1>3 DEF RoomInv

-----------------------------------------------------------------------------
\* The step changes nothing that concerns o.
Unconcerned(o) ==
    /\ \A r \in Requests : request'[r] = request[r] \/ (request[r].op # o /\ request'[r].op # o)
    /\ \A c \in Sockets :
          \/ socket'[c] = socket[c] /\ (c \in room' <=> c \in room)
          \/ socket[c].op # o /\ socket'[c].op # o
    /\ o \in cron'.dead <=> o \in cron.dead
    /\ o \in cron'.ended <=> o \in cron.ended
    /\ onShift'[o] = onShift[o]
    /\ o \in deleted' <=> o \in deleted

LEMMA UnconcernedKeeps ==
    ASSUME NEW o \in Operators, Orderly(o), Unconcerned(o)
    PROVE  Orderly(o)'
<1> USE DEF Orderly, Unconcerned
<1>1. \A c \in Sockets : Connecting(c, o)' <=> Connecting(c, o) BY DEF Connecting
<1>2. InRun(o)' <=> InRun(o) BY DEF InRun
<1>3. MoveDue(o)' <=> MoveDue(o) BY DEF MoveDue
<1>4. OneHandler(o)' BY <1>1, <1>2 DEF OneHandler
<1>5. InStep(o)' BY <1>1, <1>3 DEF InStep, Connecting
<1>6. Gone(o)' BY DEF Gone
<1>7. QED BY <1>4, <1>5, <1>6

-----------------------------------------------------------------------------
(* Connections.                                                            *)

LEMMA ConnectKeeps ==
    ASSUME RoomInv, NEW c \in Sockets, NEW o \in Operators, Connect(c, o)
    PROVE  RoomInv'
<1> USE NullAssumption DEF RoomInv
<1> DEFINE n == [at |-> "handshake", op |-> o, seen |-> FALSE]
<1>1. /\ socket[c].op = NoOperator /\ socket[c].at = "closed" /\ o \notin deleted
      /\ socket' = [socket EXCEPT ![c] = n]
      /\ disturbed' = IF Busy(o) THEN disturbed \cup {o} ELSE disturbed
      /\ UNCHANGED <<onShift, deleted, room, request, cron>>
  BY DEF Connect, Closed, Starting
<1>2. n \in SocketState /\ n.at = "handshake" /\ n.op = o BY DEF SocketState
<1> HIDE DEF n
<1>3. \A d \in Sockets : socket'[d] = IF d = c THEN n ELSE socket[d] BY <1>1 DEF TypeOK
<1>4. TypeOK' BY <1>1, <1>2 DEF TypeOK
<1>5. Shaped' BY <1>1, <1>2, <1>3 DEF Shaped, TypeOK
<1>6. ASSUME NEW p \in Operators \ disturbed' PROVE Orderly(p)'
  <2>1. p \notin disturbed /\ Orderly(p) BY <1>1
  <2>2. CASE p # o
    BY <1>1, <1>2, <1>3, <2>1, <2>2, UnconcernedKeeps DEF Unconcerned
  <2>3. CASE p = o
    <3>1. /\ \A r \in Requests : request[r].op # o
          /\ \A d \in Sockets : socket[d].op = o => socket[d].at = "open"
          /\ o \notin cron.dead /\ o \notin cron.ended
      BY <1>1, <2>3 DEF Busy
    <3>2. \A d \in Sockets : Connecting(d, o)' <=> d = c
      BY <1>2, <1>3, <3>1 DEF Connecting
    <3>3. c \notin room BY <1>1 DEF Shaped
    <3>4. OneHandler(o)' BY <1>1, <3>1, <3>2 DEF OneHandler, InRun
    <3>5. InStep(o)' BY <1>1, <1>2, <1>3, <2>1, <2>3, <3>1, <3>2, <3>3 DEF Orderly, InStep, MoveDue
    <3>6. QED BY <1>1, <2>3, <3>4, <3>5 DEF Orderly, Gone
  <2>4. QED BY <2>2, <2>3
<1>7. QED BY <1>4, <1>5, <1>6

\* A bootstrap goes on.
LEMMA BootstrapKeeps ==
    ASSUME RoomInv, NEW c \in Sockets, JoinOperatorRoom(c) \/ ReadShift(c) \/ BootstrapJoin(c)
    PROVE  RoomInv'
<1> USE NullAssumption DEF RoomInv
<1> DEFINE o == socket[c].op
           n == socket'[c]
<1>1. /\ socket[c].at \in {"handshake", "joined", "shiftRead"} /\ socket[c] \in SocketState
      /\ UNCHANGED <<onShift, deleted, request, cron, disturbed>>
  BY DEF JoinOperatorRoom, ReadShift, BootstrapJoin, TypeOK
<1>2. o \in Operators /\ Connecting(c, o)
  BY <1>1 DEF TypeOK, SocketState, Connecting
<1>3. /\ n \in SocketState /\ n.op = o /\ n.at \in {"joined", "shiftRead", "open"}
      /\ socket' \in [Sockets -> SocketState]
      /\ \A d \in Sockets : d # c => socket'[d] = socket[d]
  <2>1. onShift[o] \in BOOLEAN BY <1>2 DEF TypeOK
  <2>2. CASE JoinOperatorRoom(c)
    BY <1>1, <2>2 DEF JoinOperatorRoom, TypeOK, SocketState
  <2>3. CASE ReadShift(c)
    BY <1>1, <2>1, <2>3 DEF ReadShift, TypeOK, SocketState
  <2>4. CASE BootstrapJoin(c)
    BY <1>1, <2>4 DEF BootstrapJoin, TypeOK, SocketState
  <2>5. QED BY <2>2, <2>3, <2>4
<1>4. \/ n.at = "joined" /\ room' = room
      \/ n.at = "shiftRead" /\ n.seen = onShift[o] /\ room' = room
      \/ /\ n.at = "open" /\ socket[c].at = "shiftRead"
         /\ room' = IF socket[c].seen THEN room \cup {c} ELSE room
  BY DEF JoinOperatorRoom, ReadShift, BootstrapJoin, TypeOK, SocketState
<1> HIDE DEF n, o
<1>5. room' \subseteq room \cup {c} /\ room \subseteq room' BY <1>4
<1>6. TypeOK' BY <1>1, <1>2, <1>3, <1>5 DEF TypeOK, n
<1>7. Shaped' BY <1>1, <1>3, <1>5 DEF Shaped, TypeOK, n
<1>8. ASSUME NEW p \in Operators \ disturbed PROVE Orderly(p)'
  <2>1. Orderly(p) OBVIOUS
  <2>2. CASE p # o
    <3>1. socket[c].op # p /\ socket'[c].op # p BY <1>3, <2>2 DEF o, n
    <3>2. Unconcerned(p) BY <1>1, <1>3, <1>5, <3>1 DEF Unconcerned
    <3>3. QED BY <2>1, <3>2, UnconcernedKeeps
  <2>3. CASE p = o
    <3>1. /\ \A r \in Requests : request[r].op # p
          /\ \A d \in Sockets : Connecting(d, p) => d = c
          /\ ~InRun(p) /\ ~MoveDue(p)
      BY <1>2, <2>1, <2>3 DEF Orderly, OneHandler, InRun, MoveDue
    <3>2. \A d \in Sockets : Connecting(d, p)' => d = c
      BY <1>3, <2>3, <3>1 DEF Connecting
    <3>3. OneHandler(p)' BY <1>1, <3>1, <3>2 DEF OneHandler, InRun
    <3>4. c \notin room /\ (socket[c].at = "shiftRead" => socket[c].seen = onShift[p])
      BY <1>2, <2>1, <2>3 DEF Orderly, InStep
    <3>5. InStep(p)'
      <4>1. ASSUME Connecting(c, p)'
            PROVE  c \notin room' /\ (n.at = "shiftRead" => n.seen = onShift[p])
        BY <4>1, <1>3, <1>4, <2>3, <3>4 DEF Connecting, n
      <4>2. ASSUME NEW d \in Sockets, socket'[d].op = p, socket'[d].at = "open"
            PROVE  d \in room' <=> onShift[p]
        <5>1. CASE d = c BY <4>2, <5>1, <1>3, <1>4, <2>3, <3>4 DEF n
        <5>2. CASE d # c BY <4>2, <5>2, <1>3, <1>5, <2>1, <2>3, <3>1 DEF Orderly, InStep
        <5>3. QED BY <5>1, <5>2
      <4>3. QED BY <4>1, <4>2, <1>1, <3>1, <3>2 DEF InStep, InRun, n
    <3>6. Gone(p)' BY <1>1, <1>2, <2>1, <2>3, <3>1 DEF Orderly, Gone, o
    <3>7. QED BY <3>3, <3>5, <3>6 DEF Orderly
  <2>4. QED BY <2>2, <2>3
<1>9. QED BY <1>1, <1>6, <1>7, <1>8

\* A bootstrap's first read fails: of the operator off shift, or one who counts as
\* disturbed from here on.
LEMMA ReadFailsKeeps ==
    ASSUME RoomInv, NEW c \in Sockets, ReadFails(c)
    PROVE  RoomInv'
<1> USE NullAssumption DEF RoomInv
<1> DEFINE O == socket[c].op
<1>1. /\ socket[c].at = "joined" /\ socket[c] \in SocketState
      /\ socket' = [socket EXCEPT ![c].at = "open"]
      /\ disturbed' = IF onShift[O] THEN disturbed \cup {O} ELSE disturbed
      /\ UNCHANGED <<onShift, deleted, room, request, cron>>
  BY DEF ReadFails, TypeOK
<1>2. PICK o \in Operators : o = socket[c].op BY <1>1 DEF TypeOK, SocketState
<1>3. /\ socket'[c] \in SocketState /\ socket'[c].op = o /\ socket'[c].at = "open"
      /\ socket' \in [Sockets -> SocketState]
      /\ \A d \in Sockets : d # c => socket'[d] = socket[d]
  BY <1>1, <1>2 DEF TypeOK, SocketState
<1>4. TypeOK' BY <1>1, <1>2, <1>3 DEF TypeOK
<1>5. Shaped' BY <1>1, <1>3 DEF Shaped
<1>6. ASSUME NEW p \in Operators \ disturbed' PROVE Orderly(p)'
  <2>1. p \notin disturbed /\ Orderly(p) BY <1>1
  <2>2. CASE p # o
    BY <1>1, <1>2, <1>3, <2>1, <2>2, UnconcernedKeeps DEF Unconcerned
  <2>3. CASE p = o
    <3>1. ~onShift[p] BY <1>1, <1>2, <2>3
    <3>2. Connecting(c, p) BY <1>1, <1>2, <2>3 DEF Connecting
    <3>3. /\ \A r \in Requests : request[r].op # p
          /\ \A d \in Sockets : Connecting(d, p) => d = c
          /\ ~InRun(p) /\ ~MoveDue(p)
      BY <2>1, <3>2 DEF Orderly, OneHandler, InRun, MoveDue
    <3>4. \A d \in Sockets : ~Connecting(d, p)' BY <1>3, <3>3 DEF Connecting
    <3>5. OneHandler(p)' BY <1>1, <3>3, <3>4 DEF OneHandler, InRun
    <3>6. c \notin room /\ InStep(p) /\ Gone(p) BY <2>1, <3>2 DEF Orderly, InStep
    <3>7. InStep(p)' BY <1>1, <1>3, <3>1, <3>3, <3>4, <3>6 DEF InStep, InRun
    <3>8. Gone(p)' BY <1>1, <1>2, <2>3, <3>3, <3>6 DEF Gone
    <3>9. QED BY <3>5, <3>7, <3>8 DEF Orderly
  <2>4. QED BY <2>2, <2>3
<1>7. QED BY <1>4, <1>5, <1>6

LEMMA DisconnectKeeps ==
    ASSUME RoomInv, NEW c \in Sockets, Disconnect(c)
    PROVE  RoomInv'
<1> USE NullAssumption DEF RoomInv
<1> DEFINE o == socket[c].op
           alone == /\ \A d \in Sockets \ {c} : socket[d].op # o
                    /\ \A r \in Requests : request[r].op # o
                    /\ o \notin cron.dead \cup cron.ended
<1>1. /\ socket[c].at # "closed"
      /\ socket' = [socket EXCEPT ![c] = Closed]
      /\ room' = room \ {c}
      /\ disturbed' = IF alone THEN disturbed \ {o} ELSE disturbed
      /\ UNCHANGED <<onShift, deleted, request, cron>>
  BY DEF Disconnect
<1>2. Closed \in SocketState /\ Closed.at = "closed" /\ Closed.op = NoOperator
  BY DEF Closed, SocketState
<1>3. \A d \in Sockets : socket'[d] = IF d = c THEN Closed ELSE socket[d]
  BY <1>1 DEF TypeOK
<1>4. TypeOK' BY <1>1, <1>2 DEF TypeOK
<1>5. Shaped' BY <1>1, <1>3 DEF Shaped, TypeOK
<1> HIDE DEF alone
<1>6. ASSUME NEW p \in Operators \ disturbed' PROVE Orderly(p)'
  <2>1. CASE p \notin disturbed
    <3>1. Orderly(p) BY <2>1
    <3>2. \A d \in Sockets : Connecting(d, p)' => Connecting(d, p)
      BY <1>2, <1>3 DEF Connecting
    <3>3. OneHandler(p)' BY <1>1, <3>1, <3>2 DEF Orderly, OneHandler, InRun
    <3>4. InStep(p)' BY <1>1, <1>2, <1>3, <3>1, <3>2 DEF Orderly, InStep, MoveDue
    <3>5. Gone(p)' BY <1>1, <1>2, <1>3, <3>1 DEF Orderly, Gone
    <3>6. QED BY <3>3, <3>4, <3>5 DEF Orderly
  <2>2. CASE p \in disturbed
    <3>1. p = o /\ alone BY <1>1, <2>2
    <3>2. /\ \A d \in Sockets : socket'[d].op # p
          /\ \A r \in Requests : request'[r].op # p
          /\ ~InRun(p)'
      BY <1>1, <1>2, <1>3, <3>1 DEF alone, InRun
    <3>3. QED BY <3>2 DEF Orderly, OneHandler, InStep, Gone, Connecting, InRun, MoveDue
  <2>3. QED BY <2>1, <2>2
<1>7. QED BY <1>4, <1>5, <1>6

-----------------------------------------------------------------------------
(* Shift requests and deletions.                                           *)

LEMMA ReceiveKeeps ==
    ASSUME RoomInv, NEW r \in Requests, NEW o \in Operators,
           NEW kind \in {"start", "end", "delete", "adminOn", "adminOff"}, Receive(r, kind, o)
    PROVE  RoomInv'
<1> USE NullAssumption DEF RoomInv
<1> DEFINE n == [kind |-> kind, at |-> "received", op |-> o]
<1>1. /\ request[r].op = NoOperator /\ request[r].at = "idle"
      /\ request' = [request EXCEPT ![r] = n]
      /\ disturbed' = IF Busy(o) THEN disturbed \cup {o} ELSE disturbed
      /\ UNCHANGED <<onShift, deleted, socket, room, cron>>
  BY DEF Receive, Idle, Starting
<1>2. n \in RequestState /\ n.at = "received" /\ n.op = o BY DEF RequestState
<1> HIDE DEF n
<1>3. \A q \in Requests : request'[q] = IF q = r THEN n ELSE request[q] BY <1>1 DEF TypeOK
<1>4. TypeOK'
  <2>1. disturbed' \subseteq Operators BY <1>1 DEF TypeOK
  <2>2. QED BY <1>1, <1>2, <2>1 DEF TypeOK
<1>5. Shaped' BY <1>1, <1>2, <1>3 DEF Shaped
<1>6. ASSUME NEW p \in Operators \ disturbed' PROVE Orderly(p)'
  <2>1. p \notin disturbed /\ Orderly(p) BY <1>1
  <2>2. CASE p # o
    BY <1>1, <1>2, <1>3, <2>1, <2>2, UnconcernedKeeps DEF Unconcerned
  <2>3. CASE p = o
    <3>1. /\ \A q \in Requests : request[q].op # o
          /\ \A d \in Sockets : ~Connecting(d, o)
          /\ o \notin cron.dead /\ o \notin cron.ended
      BY <1>1, <2>3 DEF Busy, Connecting
    <3>2. \A d \in Sockets : ~Connecting(d, o)' BY <1>1, <3>1 DEF Connecting
    <3>3. OneHandler(o)' BY <1>1, <1>2, <1>3, <3>1, <3>2 DEF OneHandler, InRun
    <3>4. InStep(o)' BY <1>1, <1>2, <1>3, <2>1, <2>3, <3>1, <3>2 DEF Orderly, InStep, MoveDue
    <3>5. Gone(o)' BY <1>1, <2>1, <2>3, <3>1 DEF Orderly, Gone
    <3>6. QED BY <2>3, <3>3, <3>4, <3>5 DEF Orderly
  <2>4. QED BY <2>2, <2>3
<1>7. QED BY <1>4, <1>5, <1>6

\* A request of o moves on, changing o's shift, sockets and account alone.
Serves(r, o) ==
    /\ request[r].op = o /\ request[r].at # "idle"
    /\ \A q \in Requests : q # r => request'[q] = request[q]
    /\ request'[r].op \in {o, NoOperator}
    /\ onShift' \in [Operators -> BOOLEAN]
    /\ \A p \in Operators : p # o => onShift'[p] = onShift[p] /\ (p \in deleted' <=> p \in deleted)
    /\ \A c \in Sockets : socket[c].op # o => socket'[c] = socket[c] /\ (c \in room' <=> c \in room)
    /\ \A c \in Sockets : socket'[c].op \in {socket[c].op, NoOperator}
    /\ UNCHANGED <<cron, disturbed>>

LEMMA ServesKeeps ==
    ASSUME RoomInv, NEW r \in Requests, NEW o \in Operators, Serves(r, o),
           TypeOK', Shaped', o \notin disturbed => InStep(o)' /\ Gone(o)',
           \A c \in Sockets : socket'[c].op = o => socket'[c].at = socket[c].at
    PROVE  RoomInv'
<1> USE NullAssumption DEF RoomInv, Serves
<1>1. ASSUME NEW p \in Operators \ disturbed PROVE Orderly(p)'
  <2>1. Orderly(p) OBVIOUS
  <2>2. CASE p # o BY <2>1, <2>2, UnconcernedKeeps DEF Unconcerned
  <2>3. CASE p = o
    <3>1. /\ \A q \in Requests : request[q].op = o => q = r
          /\ \A d \in Sockets : ~Connecting(d, o)
          /\ o \notin cron.dead /\ o \notin cron.ended
      BY <2>1, <2>3 DEF Orderly, OneHandler, InRun
    <3>2. \A d \in Sockets : ~Connecting(d, o)' BY <3>1 DEF Connecting
    <3>3. OneHandler(o)' BY <3>1, <3>2 DEF OneHandler, InRun
    <3>4. QED BY <2>3, <3>3 DEF Orderly
  <2>4. QED BY <2>2, <2>3
<1>2. QED BY <1>1

\* While a request of o is under way, o has no other handler.
LEMMA AloneFacts ==
    ASSUME RoomInv, NEW r \in Requests, NEW o \in Operators \ disturbed, request[r].op = o
    PROVE  /\ \A q \in Requests : request[q].op = o => q = r
           /\ \A c \in Sockets : ~Connecting(c, o)
           /\ \A c \in Sockets : socket[c].op = o => socket[c].at = "open"
           /\ o \notin cron.dead /\ o \notin cron.ended
           /\ InStep(o) /\ Gone(o)
BY DEF RoomInv, Orderly, OneHandler, InRun, Connecting

\* The commits, and the answers that write nothing.
LEMMA CommitKeeps ==
    ASSUME RoomInv, NEW r \in Requests, CommitOn(r) \/ CommitOff(r) \/ CommitDelete(r) \/ Refuse(r)
    PROVE  RoomInv'
<1> USE NullAssumption DEF RoomInv
<1> DEFINE O == request[r].op
<1>1. /\ request[r].at = "received" /\ request[r] \in RequestState
      /\ UNCHANGED <<socket, room, cron, disturbed>>
  BY DEF CommitOn, CommitOff, CommitDelete, Refuse, Committing, TypeOK
<1>2. PICK o \in Operators : o = request[r].op BY <1>1 DEF Shaped, RequestState
<1>3. /\ request' \in [Requests -> RequestState]
      /\ \A q \in Requests : q # r => request'[q] = request[q]
      /\ \/ request'[r] = Idle
         \/ request'[r].op = o /\ request'[r].kind = request[r].kind
      /\ request'[r].at \in {"idle", "room", "revoke"}
      /\ request'[r].at = "revoke" => request'[r].kind = "delete"
      /\ request'[r].at = "idle" <=> request'[r] = Idle
  <2>1. Idle \in RequestState /\ Idle.at = "idle" /\ Idle.kind = "none" BY DEF Idle, RequestState
  <2>2. CASE Refuse(r) BY <2>1, <2>2 DEF Refuse, TypeOK
  <2>3. CASE ~Refuse(r)
    <3>1. PICK at \in {"room", "revoke"} :
            /\ request' = [request EXCEPT ![r].at = at]
            /\ at = "revoke" => request[r].kind = "delete"
      BY <2>3 DEF CommitOn, CommitOff, CommitDelete, Committing
    <3>2. request'[r] = [request[r] EXCEPT !.at = at] BY <3>1 DEF TypeOK
    <3>3. /\ request'[r] \in RequestState /\ request'[r].at = at
          /\ request'[r].op = o /\ request'[r].kind = request[r].kind
      BY <1>1, <1>2, <3>2 DEF RequestState
    <3>4. QED BY <2>1, <3>1, <3>3 DEF TypeOK
  <2>4. QED BY <2>2, <2>3
<1>4. /\ onShift' \in [Operators -> BOOLEAN] /\ deleted' \subseteq Operators
      /\ \A p \in Operators : p # o => onShift'[p] = onShift[p] /\ (p \in deleted' <=> p \in deleted)
      /\ deleted \subseteq deleted'
  BY <1>2 DEF CommitOn, CommitOff, CommitDelete, Refuse, TypeOK
<1>5. Idle.at = "idle" /\ Idle.op = NoOperator BY DEF Idle
<1>6. TypeOK' BY <1>1, <1>3, <1>4 DEF TypeOK
<1>7. Shaped' BY <1>1, <1>2, <1>3, <1>5 DEF Shaped
<1>8. Serves(r, o) BY <1>1, <1>2, <1>3, <1>4, <1>5 DEF Serves
<1>9. ASSUME o \notin disturbed PROVE InStep(o)' /\ Gone(o)'
  <2>1. /\ \A q \in Requests : request[q].op = o => q = r
        /\ \A c \in Sockets : ~Connecting(c, o)
        /\ o \notin cron.ended
        /\ InStep(o) /\ Gone(o) /\ ~MoveDue(o)
    BY <1>1, <1>2, <1>9, AloneFacts DEF MoveDue
  <2>2. \A c \in Sockets : ~Connecting(c, o)' BY <1>1, <2>1 DEF Connecting
  <2>3. \A c \in Sockets : socket[c].op = o /\ socket[c].at = "open" => (c \in room <=> onShift[o])
    BY <2>1 DEF InStep
  <2>4. o \in deleted => \A c \in Sockets : socket[c].op # o
    BY <1>1, <2>1 DEF Gone
  <2>5. CASE Refuse(r)
    <3>1. request'[r] = Idle /\ onShift' = onShift /\ deleted' = deleted
      BY <2>5 DEF Refuse, TypeOK
    <3>2. QED BY <1>1, <1>3, <1>5, <2>1, <2>2, <2>3, <2>4, <3>1 DEF InStep, MoveDue, Gone
  <2>6. CASE CommitOn(r)
    <3>1. /\ onShift'[o] /\ deleted' = deleted /\ request'[r].at = "room"
          /\ JoinsRoom(request'[r].kind) /\ request'[r].op = o
      BY <1>1, <1>2, <1>3, <1>5, <2>6 DEF CommitOn, Committing, JoinsRoom, TypeOK
    <3>2. QED BY <1>1, <1>3, <2>1, <2>2, <2>4, <3>1 DEF InStep, MoveDue, Gone, JoinsRoom
  <2>7. CASE CommitOff(r)
    <3>1. /\ ~onShift'[o] /\ deleted' = deleted /\ request'[r].at = "room"
          /\ ~JoinsRoom(request'[r].kind) /\ request'[r].op = o
      BY <1>1, <1>2, <1>3, <1>5, <2>7 DEF CommitOff, Committing, JoinsRoom, TypeOK
    <3>2. QED BY <1>1, <1>3, <2>1, <2>2, <2>4, <3>1 DEF InStep, MoveDue, Gone, JoinsRoom
  <2>8. CASE CommitDelete(r)
    <3>1. /\ ~onShift'[o] /\ request'[r].op = o /\ request'[r].kind = "delete"
          /\ request'[r].at = IF onShift[o] THEN "room" ELSE "revoke"
      BY <1>1, <1>2, <1>3, <1>5, <2>8 DEF CommitDelete, Committing, TypeOK
    <3>2. Gone(o)' BY <3>1 DEF Gone
    <3>3. InStep(o)' BY <1>1, <1>3, <2>1, <2>2, <2>3, <3>1 DEF InStep, MoveDue, JoinsRoom
    <3>4. QED BY <3>2, <3>3
  <2>9. QED BY <2>5, <2>6, <2>7, <2>8
<1>10. QED BY <1>1, <1>6, <1>7, <1>8, <1>9, ServesKeeps

\* A request that throws after its commit: o has no socket, or counts as disturbed
\* from here on.
LEMMA CutShortKeeps ==
    ASSUME RoomInv, NEW r \in Requests, CutShort(r)
    PROVE  RoomInv'
<1> USE NullAssumption DEF RoomInv
<1> DEFINE O == request[r].op
<1>1. /\ request[r].at \in {"room", "revoke"} /\ request[r] \in RequestState
      /\ request' = [request EXCEPT ![r] = Idle]
      /\ disturbed' = IF \E c \in Sockets : socket[c].op = O
                      THEN disturbed \cup {O} ELSE disturbed
      /\ UNCHANGED <<onShift, deleted, socket, room, cron>>
  BY DEF CutShort, TypeOK
<1>2. PICK o \in Operators : o = request[r].op BY <1>1 DEF Shaped, RequestState
<1>3. Idle \in RequestState /\ Idle.at = "idle" /\ Idle.op = NoOperator
  BY DEF Idle, RequestState
<1>4. \A q \in Requests : request'[q] = IF q = r THEN Idle ELSE request[q] BY <1>1 DEF TypeOK
<1>5. TypeOK' BY <1>1, <1>2, <1>3 DEF TypeOK
<1>6. Shaped' BY <1>1, <1>3, <1>4 DEF Shaped
<1>7. ASSUME NEW p \in Operators \ disturbed' PROVE Orderly(p)'
  <2>1. p \notin disturbed /\ Orderly(p) BY <1>1
  <2>2. CASE p # o
    BY <1>1, <1>2, <1>3, <1>4, <2>1, <2>2, UnconcernedKeeps DEF Unconcerned
  <2>3. CASE p = o
    <3>1. \A c \in Sockets : socket[c].op # p BY <1>1, <1>2, <2>3
    <3>2. /\ \A q \in Requests : request[q].op = p => q = r
          /\ p \notin cron.dead /\ p \notin cron.ended
      BY <1>2, <2>1, <2>3, AloneFacts
    <3>3. \A q \in Requests : request'[q].op # p BY <1>3, <1>4, <3>2
    <3>4. \A c \in Sockets : ~Connecting(c, p)' BY <1>1, <3>1 DEF Connecting
    <3>5. OneHandler(p)' BY <1>1, <3>2, <3>3, <3>4 DEF OneHandler, InRun
    <3>6. InStep(p)' BY <1>1, <3>1, <3>2, <3>3, <3>4 DEF InStep, MoveDue
    <3>7. QED BY <1>1, <3>1, <3>5, <3>6 DEF Orderly, Gone
  <2>4. QED BY <2>2, <2>3
<1>8. QED BY <1>5, <1>6, <1>7

\* The room changes of a request: alone with o, it finds every socket open.
LEMMA MoveKeeps ==
    ASSUME RoomInv, NEW r \in Requests, MoveSockets(r)
    PROVE  RoomInv'
<1> USE NullAssumption DEF RoomInv
<1>1. /\ request[r].at = "room" /\ request[r] \in RequestState
      /\ UNCHANGED <<onShift, deleted, socket, cron, disturbed>>
  BY DEF MoveSockets, TypeOK
<1>2. PICK o \in Operators : o = request[r].op BY <1>1 DEF Shaped, RequestState
<1>3. room' = IF JoinsRoom(request[r].kind) THEN room \cup OperatorRoom(o) ELSE room \ OperatorRoom(o)
  BY <1>2 DEF MoveSockets
<1>4. /\ request' \in [Requests -> RequestState]
      /\ \A q \in Requests : q # r => request'[q] = request[q]
      /\ \/ request'[r] = Idle /\ request[r].kind # "delete"
         \/ /\ request'[r].op = o /\ request'[r].at = "kick" /\ request'[r].kind = "delete"
            /\ request[r].kind = "delete"
  <2>1. Idle \in RequestState BY DEF Idle, RequestState
  <2>2. CASE request[r].kind = "delete"
    <3>1. request' = [request EXCEPT ![r] = [request[r] EXCEPT !.at = "kick"]]
      BY <2>2 DEF MoveSockets, TypeOK
    <3>2. [request[r] EXCEPT !.at = "kick"] \in RequestState BY <1>1 DEF RequestState
    <3>3. QED BY <1>1, <1>2, <2>2, <3>1, <3>2 DEF TypeOK, RequestState
  <2>3. CASE request[r].kind # "delete"
    BY <2>1, <2>3 DEF MoveSockets, TypeOK
  <2>4. QED BY <2>2, <2>3
<1>5. Idle.at = "idle" /\ Idle.op = NoOperator BY DEF Idle
<1>6. \A c \in Sockets : c \in OperatorRoom(o) => socket[c].op = o /\ socket[c].at # "closed"
  BY DEF OperatorRoom
<1>7. TypeOK' BY <1>1, <1>3, <1>4 DEF TypeOK, OperatorRoom
<1>8. Shaped' BY <1>1, <1>2, <1>3, <1>4, <1>5, <1>6 DEF Shaped, OperatorRoom
<1>9. Serves(r, o)
  BY <1>1, <1>2, <1>3, <1>4, <1>5, <1>6 DEF Serves, TypeOK
<1>10. ASSUME o \notin disturbed PROVE InStep(o)' /\ Gone(o)'
  <2>1. /\ \A q \in Requests : request[q].op = o => q = r
        /\ \A c \in Sockets : ~Connecting(c, o)
        /\ \A c \in Sockets : socket[c].op = o => socket[c].at = "open"
        /\ o \notin cron.ended
        /\ InStep(o) /\ Gone(o)
    BY <1>2, <1>10, AloneFacts
  <2>2. \A c \in Sockets : ~Connecting(c, o)' BY <1>1, <2>1 DEF Connecting
  <2>3. onShift[o] <=> JoinsRoom(request[r].kind) BY <1>1, <1>2, <2>1 DEF InStep
  <2>4. \A c \in Sockets : socket[c].op = o => (c \in room' <=> onShift[o])
    BY <1>3, <2>1, <2>3 DEF OperatorRoom
  <2>5. InStep(o)' BY <1>1, <1>4, <1>5, <2>1, <2>2, <2>4 DEF InStep, MoveDue
  <2>6. Gone(o)' BY <1>1, <1>2, <1>4, <2>1 DEF Gone
  <2>7. QED BY <2>5, <2>6
<1>11. QED BY <1>1, <1>7, <1>8, <1>9, <1>10, ServesKeeps

LEMMA DisconnectUserKeeps ==
    ASSUME RoomInv, NEW r \in Requests, DisconnectUser(r)
    PROVE  RoomInv'
<1> USE NullAssumption DEF RoomInv
<1>1. /\ request[r].at \in {"revoke", "kick"} /\ request[r] \in RequestState
      /\ request' = [request EXCEPT ![r] = Idle]
      /\ UNCHANGED <<onShift, deleted, cron, disturbed>>
  BY DEF DisconnectUser, TypeOK
<1>2. PICK o \in Operators : o = request[r].op BY <1>1 DEF Shaped, RequestState
<1>3. /\ socket' = [c \in Sockets |-> IF c \in OperatorRoom(o) THEN Closed ELSE socket[c]]
      /\ room' = room \ OperatorRoom(o)
  BY <1>2 DEF DisconnectUser
<1>4. /\ Idle \in RequestState /\ Idle.at = "idle" /\ Idle.op = NoOperator
      /\ Closed \in SocketState /\ Closed.at = "closed" /\ Closed.op = NoOperator
  BY DEF Idle, RequestState, Closed, SocketState
<1>5. \A q \in Requests : request'[q] = IF q = r THEN Idle ELSE request[q] BY <1>1 DEF TypeOK
<1>6. \A c \in Sockets : c \in OperatorRoom(o) => socket[c].op = o
  BY DEF OperatorRoom
<1>7. TypeOK'
  <2>1. socket' \in [Sockets -> SocketState] BY <1>3, <1>4 DEF TypeOK
  <2>2. \A c \in Sockets : socket'[c].op = NoOperator <=> socket'[c].at = "closed"
    BY <1>3, <1>4 DEF TypeOK
  <2>3. QED BY <1>1, <1>3, <1>4, <2>1, <2>2 DEF TypeOK
<1>8. Shaped' BY <1>1, <1>3, <1>4, <1>5 DEF Shaped, TypeOK
<1>9. Serves(r, o)
  BY <1>1, <1>2, <1>3, <1>4, <1>5, <1>6 DEF Serves, TypeOK
<1>10. ASSUME o \notin disturbed PROVE InStep(o)' /\ Gone(o)'
  <2>1. \A c \in Sockets : socket[c].op = o => socket[c].at = "open"
    BY <1>2, <1>10, AloneFacts
  <2>2. \A c \in Sockets : socket'[c].op # o
    BY <1>3, <1>4, <2>1 DEF OperatorRoom
  <2>3. /\ \A q \in Requests : request'[q].op # o
        /\ o \notin cron.ended
    BY <1>2, <1>4, <1>5, <1>10, AloneFacts
  <2>4. QED BY <1>1, <2>2, <2>3 DEF InStep, Gone, Connecting, MoveDue
<1>11. \A c \in Sockets : socket'[c].op = o => socket'[c].at = socket[c].at
  BY <1>3, <1>4
<1>12. QED BY <1>7, <1>8, <1>9, <1>10, <1>11, ServesKeeps

-----------------------------------------------------------------------------
(* The cron worker, and a restart.                                         *)

LEMMA CronListsKeeps ==
    ASSUME RoomInv, NEW D \in SUBSET Operators, CronLists(D)
    PROVE  RoomInv'
<1> USE NullAssumption DEF RoomInv
<1>1. /\ cron.dead = {} /\ cron.ended = {}
      /\ cron'.at = "ending" /\ cron'.dead = D /\ cron'.ended = {} /\ cron' \in CronState
      /\ disturbed' = disturbed \cup {o \in D : Busy(o)}
      /\ UNCHANGED <<onShift, deleted, socket, room, request>>
  BY DEF CronLists, NoRun, CronState
<1>2. TypeOK' BY <1>1 DEF TypeOK
<1>3. Shaped' BY <1>1 DEF Shaped
<1>4. ASSUME NEW p \in Operators \ disturbed' PROVE Orderly(p)'
  <2>1. p \notin disturbed /\ Orderly(p) BY <1>1
  <2>2. CASE p \notin D BY <1>1, <2>1, <2>2, UnconcernedKeeps DEF Unconcerned
  <2>3. CASE p \in D
    <3>1. /\ \A q \in Requests : request[q].op # p
          /\ \A d \in Sockets : ~Connecting(d, p)
      BY <1>1, <2>3 DEF Busy, Connecting
    <3>2. \A d \in Sockets : ~Connecting(d, p)' BY <1>1, <3>1 DEF Connecting
    <3>3. OneHandler(p)' BY <1>1, <3>1, <3>2 DEF OneHandler
    <3>4. InStep(p)' BY <1>1, <2>1, <3>1, <3>2 DEF Orderly, InStep, MoveDue
    <3>5. Gone(p)' BY <1>1, <2>1, <3>1 DEF Orderly, Gone
    <3>6. QED BY <3>3, <3>4, <3>5 DEF Orderly
  <2>4. QED BY <2>2, <2>3
<1>5. QED BY <1>2, <1>3, <1>4

\* A run goes on: it ends one operator's shift, moves one operator's sockets, or
\* turns to the next.
LEMMA CronGoesOnKeeps ==
    ASSUME RoomInv,
           \/ \E o \in Operators : CronEnds(o) \/ CronThrows(o) \/ CronTells(o)
           \/ CronLoopDone \/ CronDone
    PROVE  RoomInv'
<1> USE NullAssumption DEF RoomInv
<1>0. cron \in CronState BY DEF TypeOK
<1>1. ASSUME NEW o \in Operators, CronEnds(o) PROVE RoomInv'
  <2>1. /\ cron.at = "ending" /\ o \in cron.dead
        /\ cron'.at = "ending" /\ cron'.dead = cron.dead \ {o} /\ cron' \in CronState
        /\ \/ ~onShift'[o] /\ cron'.ended = cron.ended \cup {o}
           \/ onShift' = onShift /\ cron'.ended = cron.ended
        /\ onShift' \in [Operators -> BOOLEAN]
        /\ \A p \in Operators : p # o => onShift'[p] = onShift[p]
        /\ UNCHANGED <<deleted, socket, room, request, disturbed>>
    <3>1. /\ cron.at = "ending" /\ o \in cron.dead
          /\ UNCHANGED <<deleted, socket, room, request, disturbed>>
      BY <1>1 DEF CronEnds
    <3>2. CASE /\ onShift' = [onShift EXCEPT ![o] = FALSE]
               /\ cron' = [cron EXCEPT !.dead = cron.dead \ {o}, !.ended = cron.ended \cup {o}]
      BY <1>0, <3>1, <3>2 DEF CronState, TypeOK
    <3>3. CASE onShift' = onShift /\ cron' = [cron EXCEPT !.dead = cron.dead \ {o}]
      BY <1>0, <3>1, <3>3 DEF CronState, TypeOK
    <3>4. QED BY <1>1, <3>2, <3>3 DEF CronEnds
  <2>2. TypeOK' BY <2>1 DEF TypeOK
  <2>3. Shaped' BY <2>1 DEF Shaped
  <2>4. ASSUME NEW p \in Operators \ disturbed PROVE Orderly(p)'
    <3>1. Orderly(p) OBVIOUS
    <3>2. CASE p # o BY <2>1, <3>1, <3>2, UnconcernedKeeps DEF Unconcerned
    <3>3. CASE p = o
      <4>1. /\ \A q \in Requests : request[q].op # p
            /\ \A d \in Sockets : ~Connecting(d, p)
            /\ p \notin cron.ended
        BY <2>1, <3>1, <3>3 DEF Orderly, OneHandler, InRun
      <4>2. \A d \in Sockets : ~Connecting(d, p)' BY <2>1, <4>1 DEF Connecting
      <4>3. OneHandler(p)' BY <2>1, <3>3, <4>1, <4>2 DEF OneHandler
      <4>4. InStep(p)' BY <2>1, <3>1, <3>3, <4>1, <4>2 DEF Orderly, InStep, MoveDue
      <4>5. Gone(p)' BY <2>1, <3>1 DEF Orderly, Gone
      <4>6. QED BY <4>3, <4>4, <4>5 DEF Orderly
    <3>4. QED BY <3>2, <3>3
  <2>5. QED BY <2>1, <2>2, <2>3, <2>4
<1>2. ASSUME NEW o \in Operators, CronTells(o) PROVE RoomInv'
  <2>1. /\ cron.at = "telling" /\ o \in cron.ended
        /\ cron'.at = "telling" /\ cron'.dead = cron.dead /\ cron'.ended = cron.ended \ {o}
        /\ cron' \in CronState
        /\ room' = room \ OperatorRoom(o)
        /\ UNCHANGED <<onShift, deleted, socket, request, disturbed>>
    BY <1>0, <1>2 DEF CronTells, CronState
  <2>2. TypeOK' BY <2>1 DEF TypeOK
  <2>3. Shaped' BY <2>1 DEF Shaped
  <2>4. \A c \in Sockets : c \in OperatorRoom(o) => socket[c].op = o BY DEF OperatorRoom
  <2>5. ASSUME NEW p \in Operators \ disturbed PROVE Orderly(p)'
    <3>1. Orderly(p) OBVIOUS
    <3>2. CASE p # o BY <2>1, <2>4, <3>1, <3>2, UnconcernedKeeps DEF Unconcerned
    <3>3. CASE p = o
      <4>1. /\ \A q \in Requests : request[q].op # p
            /\ \A d \in Sockets : ~Connecting(d, p)
            /\ p \notin cron.dead /\ ~onShift[p]
        BY <2>1, <3>1, <3>3 DEF Orderly, OneHandler, InRun, InStep
      <4>2. \A d \in Sockets : ~Connecting(d, p)' BY <2>1, <4>1 DEF Connecting
      <4>3. OneHandler(p)' BY <2>1, <3>3, <4>1, <4>2 DEF OneHandler
      <4>4. \A d \in Sockets : socket[d].op = p /\ socket[d].at = "open" => d \notin room'
        BY <2>1, <3>3 DEF OperatorRoom
      <4>5. InStep(p)' BY <2>1, <3>3, <4>1, <4>2, <4>4 DEF InStep, MoveDue
      <4>6. Gone(p)' BY <2>1, <3>1 DEF Orderly, Gone
      <4>7. QED BY <4>3, <4>5, <4>6 DEF Orderly
    <3>4. QED BY <3>2, <3>3
  <2>6. QED BY <2>1, <2>2, <2>3, <2>5
<1>3. CASE CronLoopDone \/ CronDone
  <2>1. /\ cron'.dead = cron.dead /\ cron'.ended = cron.ended /\ cron' \in CronState
        /\ cron'.at = "idle" => cron'.dead = {} /\ cron'.ended = {}
        /\ cron'.at = "telling" => cron'.dead = {}
        /\ UNCHANGED <<onShift, deleted, socket, room, request, disturbed>>
    <3>1. CASE CronLoopDone
      BY <1>0, <3>1 DEF CronLoopDone, CronState
    <3>2. CASE CronDone
      BY <3>2 DEF CronDone, NoRun, CronState, Shaped
    <3>3. QED BY <1>3, <3>1, <3>2
  <2>2. TypeOK' BY <2>1 DEF TypeOK
  <2>3. Shaped' BY <2>1 DEF Shaped
  <2>4. ASSUME NEW p \in Operators \ disturbed PROVE Orderly(p)'
    BY <2>1, UnconcernedKeeps DEF Unconcerned
  <2>5. QED BY <2>1, <2>2, <2>3, <2>4
<1>4. ASSUME NEW o \in Operators, CronThrows(o) PROVE RoomInv'
  <2>1. /\ cron.at = "ending" /\ o \in cron.dead
        /\ cron'.at = "idle" /\ cron'.dead = {} /\ cron'.ended = {} /\ cron' \in CronState
        /\ disturbed \cup cron.ended \subseteq disturbed'
        /\ disturbed' \subseteq Operators
        /\ onShift' \in [Operators -> BOOLEAN]
        /\ \A p \in Operators \ disturbed' : onShift'[p] = onShift[p]
        /\ UNCHANGED <<deleted, socket, room, request>>
    <3>1. /\ cron.at = "ending" /\ o \in cron.dead /\ cron' = NoRun
          /\ UNCHANGED <<deleted, socket, room, request>>
      BY <1>4 DEF CronThrows
    <3>2. CASE onShift' = onShift /\ disturbed' = disturbed \cup cron.ended
      BY <1>0, <3>1, <3>2 DEF NoRun, CronState, TypeOK
    <3>3. CASE /\ onShift' = [onShift EXCEPT ![o] = FALSE]
               /\ disturbed' = disturbed \cup cron.ended \cup {o}
      BY <1>0, <3>1, <3>3 DEF NoRun, CronState, TypeOK
    <3>4. QED BY <1>4, <3>2, <3>3 DEF CronThrows
  <2>2. TypeOK' BY <2>1 DEF TypeOK
  <2>3. Shaped' BY <2>1 DEF Shaped
  <2>4. ASSUME NEW p \in Operators \ disturbed' PROVE Orderly(p)'
    <3>1. p \notin cron.ended /\ Orderly(p) /\ onShift'[p] = onShift[p] BY <2>1
    <3>2. \A d \in Sockets : Connecting(d, p)' <=> Connecting(d, p) BY <2>1 DEF Connecting
    <3>3. OneHandler(p)' BY <2>1, <3>1, <3>2 DEF Orderly, OneHandler, InRun
    <3>4. InStep(p)' BY <2>1, <3>1, <3>2 DEF Orderly, InStep, MoveDue
    <3>5. Gone(p)' BY <2>1, <3>1 DEF Orderly, Gone
    <3>6. QED BY <3>3, <3>4, <3>5 DEF Orderly
  <2>5. QED BY <2>2, <2>3, <2>4
<1>5. QED BY <1>1, <1>2, <1>3, <1>4

LEMMA RestartKeeps ==
    ASSUME RoomInv, Restart
    PROVE  RoomInv'
<1> USE NullAssumption DEF RoomInv, Restart, Closed, Idle, NoRun
<1>1. TypeOK' BY DEF TypeOK, SocketState, RequestState, CronState
<1>2. Shaped' BY DEF Shaped
<1>3. ASSUME NEW o \in Operators PROVE Orderly(o)'
  BY DEF Orderly, OneHandler, InStep, Gone, Connecting, InRun
<1>4. QED BY <1>1, <1>2, <1>3

LEMMA NextRoomInv == RoomInv /\ [Next]_vars => RoomInv'
<1> SUFFICES ASSUME RoomInv, [Next]_vars PROVE RoomInv'
  OBVIOUS
<1>1. CASE Connections
  BY <1>1, ConnectKeeps, BootstrapKeeps, ReadFailsKeeps, DisconnectKeeps DEF Connections
<1>2. CASE ShiftRequests
  BY <1>2, ReceiveKeeps, CommitKeeps, CutShortKeeps, MoveKeeps, DisconnectUserKeeps
  DEF ShiftRequests, ReceiveAny
<1>3. CASE CronRuns
  BY <1>3, CronListsKeeps, CronGoesOnKeeps DEF CronRuns
<1>4. CASE UNCHANGED vars
  BY <1>4 DEF vars, RoomInv, TypeOK, Shaped, Orderly, OneHandler, InStep, Gone, Connecting, InRun, MoveDue
<1>5. QED BY <1>1, <1>2, <1>3, <1>4, RestartKeeps DEF Next

\* RoomInv holds throughout: every operator whose handlers have neither overlapped
\* nor been cut short stays in order.
THEOREM Invariance == Spec => []RoomInv
BY InitRoomInv, NextRoomInv, PTL DEF Spec

-----------------------------------------------------------------------------
\* The state stays well formed.
THEOREM TypeCorrect == Spec => []TypeOK
<1>1. RoomInv => TypeOK BY DEF RoomInv
<1>2. QED BY <1>1, Invariance, PTL

\* As long as the handlers of an operator run one after another and none is cut
\* short, the sockets are in the room exactly while they are on shift.
THEOREM SocketsFollow == Spec => []RoomFollowsShift
<1>1. RoomInv => RoomFollowsShift
  BY DEF RoomInv, Orderly, InStep, MoveDue, Busy, RoomFollowsShift, OperatorRoom
<1>2. QED BY <1>1, Invariance, PTL

\* Under the same conditions a deletion leaves no connection.
THEOREM DeletionDisconnects == Spec => []DeletedAreDisconnected
<1>1. RoomInv => DeletedAreDisconnected
  BY DEF RoomInv, TypeOK, Orderly, Gone, Busy, DeletedAreDisconnected, OperatorRoom
<1>2. QED BY <1>1, Invariance, PTL

-----------------------------------------------------------------------------
(* What the comments promise, and what it takes.                           *)

\* One handler at a time concerns an operator.
OneAtATime == \A o \in Operators : OneHandler(o)

\* No request is cut short between its commit and its end, no bootstrap fails to
\* read the shift, and no run of the worker throws.
RunToTheirEnd ==
    /\ \A r \in Requests : ~CutShort(r)
    /\ \A c \in Sockets : ~ReadFails(c)
    /\ \A o \in Operators : ~CronThrows(o)

Undisturbed == disturbed = {}

LEMMA NextUndisturbed ==
    ASSUME RoomInv, disturbed = {}, [Next]_vars, OneAtATime', [RunToTheirEnd]_vars
    PROVE  disturbed' = {}
<1> USE NullAssumption
<1>0. /\ request \in [Requests -> RequestState] /\ socket \in [Sockets -> SocketState]
      /\ \A o \in Operators : OneHandler(o)'
  BY DEF RoomInv, TypeOK, OneAtATime
<1>1. ASSUME NEW c \in Sockets, NEW o \in Operators, Connect(c, o) PROVE disturbed' = {}
  <2>1. /\ \A d \in Sockets \ {c} : socket'[d] = socket[d]
        /\ socket[c].op = NoOperator /\ socket'[c].op = o /\ socket'[c].at = "handshake"
        /\ UNCHANGED <<request, cron>>
    BY <1>0, <1>1 DEF Connect, Closed
  <2>2. Connecting(c, o)' BY <2>1 DEF Connecting
  <2>3. \A d \in Sockets \ {c} : Connecting(d, o)' <=> Connecting(d, o) BY <2>1 DEF Connecting
  <2>4. ~Busy(o)
    BY <1>0, <2>1, <2>2, <2>3 DEF Busy, OneHandler, Connecting, InRun
  <2>5. QED BY <1>1, <2>4 DEF Connect, Starting
<1>2. ASSUME NEW r \in Requests, NEW kind, NEW o \in Operators, Receive(r, kind, o)
      PROVE  disturbed' = {}
  <2>1. /\ \A q \in Requests \ {r} : request'[q] = request[q]
        /\ request[r].op = NoOperator /\ request'[r].op = o
        /\ UNCHANGED <<socket, cron>>
    BY <1>0, <1>2 DEF Receive, Idle
  <2>2. ~Busy(o)
    BY <1>0, <2>1 DEF Busy, OneHandler, Connecting, InRun
  <2>3. QED BY <1>2, <2>2 DEF Receive, Starting
<1>3. ASSUME NEW D \in SUBSET Operators, CronLists(D) PROVE disturbed' = {}
  <2>1. /\ cron.dead = {} /\ cron.ended = {} /\ cron'.dead = D
        /\ UNCHANGED <<socket, request>>
    BY <1>3 DEF CronLists, NoRun
  <2>2. ASSUME NEW o \in D PROVE ~Busy(o)
    BY <1>0, <2>1 DEF Busy, OneHandler, Connecting, InRun
  <2>3. QED BY <1>3, <2>2 DEF CronLists
<1>4. /\ \A r \in Requests : ~CutShort(r)
      /\ \A c \in Sockets : ~ReadFails(c)
      /\ \A o \in Operators : ~CronThrows(o)
  <2>1. ASSUME NEW r \in Requests, CutShort(r) PROVE FALSE
    <3>1. request[r].at # "idle" /\ request'[r].at = "idle" BY <1>0, <2>1 DEF CutShort, Idle
    <3>2. QED BY <2>1, <3>1 DEF vars, RunToTheirEnd
  <2>2. ASSUME NEW c \in Sockets, ReadFails(c) PROVE FALSE
    <3>1. socket[c].at = "joined" /\ socket'[c].at = "open"
      BY <1>0, <2>2 DEF ReadFails, SocketState
    <3>2. QED BY <2>2, <3>1 DEF vars, RunToTheirEnd
  <2>3. ASSUME NEW o \in Operators, CronThrows(o) PROVE FALSE
    <3>1. cron' # cron BY <2>3 DEF CronThrows, NoRun
    <3>2. QED BY <2>3, <3>1 DEF vars, RunToTheirEnd
  <2>4. QED BY <2>1, <2>2, <2>3
<1>5. CASE Connections
  BY <1>1, <1>4, <1>5 DEF Connections, JoinOperatorRoom, ReadShift, BootstrapJoin, Disconnect
<1>6. CASE ShiftRequests
  BY <1>2, <1>4, <1>6 DEF ShiftRequests, ReceiveAny, CommitOn, CommitOff, CommitDelete, Refuse,
                          MoveSockets, DisconnectUser
<1>7. CASE CronRuns
  BY <1>3, <1>4, <1>7 DEF CronRuns, CronEnds, CronTells, CronLoopDone, CronDone
<1>8. QED BY <1>5, <1>6, <1>7 DEF Next, Restart, vars

\* Rooms follow shifts, and deletions close sockets, without exception if one
\* handler at a time concerns an operator and none is cut short: what the code
\* leaves to chance.
THEOREM InOrderRoomsFollow ==
    Spec /\ []OneAtATime /\ [][RunToTheirEnd]_vars => []OnShiftAlerted /\ []NoSocketOfDeleted
<1>1. Init => Undisturbed BY DEF Init, Undisturbed
<1>2. RoomInv /\ Undisturbed /\ [Next]_vars /\ OneAtATime' /\ [RunToTheirEnd]_vars => Undisturbed'
  BY NextUndisturbed DEF Undisturbed
<1>3. RoomFollowsShift /\ Undisturbed => OnShiftAlerted
  BY DEF Undisturbed, RoomFollowsShift, OnShiftAlerted
<1>4. TypeOK /\ DeletedAreDisconnected /\ Undisturbed => NoSocketOfDeleted
  BY DEF Undisturbed, TypeOK, DeletedAreDisconnected, NoSocketOfDeleted
<1>5. QED BY <1>1, <1>2, <1>3, <1>4, Invariance, TypeCorrect, SocketsFollow, DeletionDisconnects, PTL DEF Spec
=============================================================================
