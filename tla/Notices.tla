------------------------------ MODULE Notices ------------------------------
(***************************************************************************)
(* Who is shown what of one SOS call.                                      *)
(*                                                                         *)
(* Every handler commits first and sends its events afterwards, at least   *)
(* one await later, with what it knew at the commit; reassign, unassign    *)
(* and the administrator's close read the previous operator even before    *)
(* their commit; an offer to the free operators waits for one more query.  *)
(* A connecting operator joins the rooms, then reads a snapshot in two     *)
(* queries and gets it last; when a query fails nothing is sent and nobody *)
(* tries again.  So news can arrive in another order than the commits, and *)
(* can miss somebody.                                                      *)
(*                                                                         *)
(* Operators here are on shift (ShiftRooms has the others) and who may     *)
(* take a call is Dispatch's matter: any of them may, and any request may  *)
(* be refused.  The app, not part of this repository, shows the call as    *)
(* one's own, as an offer, or not at all, by the last event about it.      *)
(***************************************************************************)
EXTENDS FiniteSets, Naturals

CONSTANTS
    Operators,    \* operators on shift
    Requests,     \* handlers running at the same time
    NoOperator    \* assignedOperatorId = NULL

ASSUME NullAssumption == NoOperator \notin Operators

VARIABLES
    status,       \* EmergencySession.status
    assignee,     \* EmergencySession.assignedOperatorId
    request,      \* [Requests -> RequestState]
    earlier,      \* [Requests -> SUBSET Requests]: of those with events to send,
                  \* which had committed before
    online,       \* SUBSET Operators: a socket in operatorRoom
    listening,    \* SUBSET Operators: a socket in ON_SHIFT_ROOM
    mine,         \* SUBSET Operators: the app shows the call as their own
    offered,      \* SUBSET Operators: the app shows the call as an offer
    withheld,     \* history: operators to whom it was last not offered, being busy
    misled,       \* history: whose last personal event was older than one sent to them
                  \* before, who lost the call without an event, or got no snapshot
    muddled,      \* history: whose last news of the pool was older than one sent before
    unbriefed     \* history: who got no snapshot, and no news of the pool since

rows == <<status, assignee>>
apps == <<online, listening, mine, offered, withheld, misled, muddled, unbriefed>>
vars == <<rows, request, earlier, apps>>

-----------------------------------------------------------------------------
OpenAssigned == {"ASSIGNED", "IN_PROGRESS"}

GivingKinds  == {"accept", "assign", "reassign"}
FreeingKinds == {"unassign", "reclaim"}
ClosingKinds == {"closeAdmin", "close", "resolve"}
KeepingKinds == {"startProgress", "location"}
Kinds == GivingKinds \cup FreeingKinds \cup ClosingKinds \cup KeepingKinds

\* Requests of or about one operator; the others name none.
NamingKinds == GivingKinds \cup {"startProgress", "resolve", "reclaim"}

\* The kinds that remember the operator they found.
TellPrevious == {"reassign", "unassign", "closeAdmin", "reclaim"}

\* Mutant: acceptSession sends no pool_removed.
RemovingByOthers == {"assign"} \cup ClosingKinds

\* The kinds that send pool_removed ...
Removing == {"accept", "assign"} \cup ClosingKinds

\* Mutant: the cron worker does not offer the call it takes back.
ReturningByAdmin == {"unassign"}

\* ... and those that offer the call again.
Returning == {"unassign", "reclaim"}

Idle == [kind |-> "none", at |-> "idle", op |-> NoOperator, prev |-> NoOperator,
         to |-> {}, holder |-> NoOperator, lost |-> NoOperator,
         free |-> FALSE, busy |-> {}, overtaken |-> {}]

\* to, holder, lost: who gets the personal event, whom it names, who lost the
\* call without the handler knowing.  free, busy: what a query saw.  overtaken:
\* operators for whom newer news than this has gone out.
RequestState ==
    [kind   : Kinds \cup {"none", "raise", "bootstrap"},
     at     : {"idle", "write", "tell", "askBusy", "offer",
               "join", "readMine", "readPool", "snapshot"},
     op     : Operators \cup {NoOperator},
     prev   : Operators \cup {NoOperator},
     to     : SUBSET Operators,
     holder : Operators \cup {NoOperator},
     lost   : Operators \cup {NoOperator},
     free   : BOOLEAN,
     busy   : SUBSET Operators,
     overtaken : SUBSET Operators]

\* Handlers that have committed, or read, and not sent all their events.
Unsent == {p \in Requests : request[p].at \in {"tell", "askBusy", "offer", "readPool", "snapshot"}}

TypeOK ==
    /\ status \in {"ABSENT", "NEW", "CLOSED"} \cup OpenAssigned
    /\ assignee \in Operators \cup {NoOperator}
    /\ request \in [Requests -> RequestState]
    /\ earlier \in [Requests -> SUBSET Unsent]
    /\ \A p \in Requests \ Unsent : earlier[p] = {}
    /\ \A p, q \in Unsent : p \in earlier[q] <=> p # q /\ q \notin earlier[p]
    /\ online \in SUBSET Operators
    /\ listening \in SUBSET online
    /\ mine \in SUBSET online
    /\ offered \in SUBSET listening
    /\ withheld \in SUBSET Operators
    /\ misled \in SUBSET online
    /\ muddled \in SUBSET listening
    /\ unbriefed \in SUBSET online

Init ==
    /\ status = "ABSENT"
    /\ assignee = NoOperator
    /\ request = [p \in Requests |-> Idle]
    /\ earlier = [p \in Requests |-> {}]
    /\ online = {}
    /\ listening = {}
    /\ mine = {}
    /\ offered = {}
    /\ withheld = {}
    /\ misled = {}
    /\ muddled = {}
    /\ unbriefed = {}

-----------------------------------------------------------------------------
\* Who holds the call now.
Holder == IF status \in OpenAssigned THEN assignee ELSE NoOperator

IsFree == status = "NEW" /\ assignee = NoOperator

\* p commits after all those who still have something to send.
Commits(p) == earlier' = [earlier EXCEPT ![p] = Unsent]

\* The handlers P have nothing more to send.
Ends(P) == earlier' = [q \in Requests |-> IF q \in P THEN {} ELSE earlier[q] \ P]

\* p becomes r; those who committed before p and have yet to send to G are late.
Sends(p, G, r) ==
    request' = [q \in Requests |->
                   IF q = p THEN r
                   ELSE IF q \in earlier[p]
                        THEN [request[q] EXCEPT !.overtaken = @ \cup G]
                        ELSE request[q]]

-----------------------------------------------------------------------------
(* Requests.                                                               *)

\* Reassign, unassign and close read the previous operator first; the cron
\* worker lists ASSIGNED calls and acts for the operator it found.
Receive(p, kind, o) ==
    /\ request[p] = Idle
    /\ status # "ABSENT"
    /\ o = NoOperator <=> kind \notin NamingKinds
    /\ kind = "reclaim" => status = "ASSIGNED" /\ assignee = o
    /\ request' = [request EXCEPT
                     ![p] = [Idle EXCEPT !.kind = kind, !.at = "write", !.op = o,
                                         !.prev = IF kind \in TellPrevious
                                                  THEN assignee ELSE NoOperator]]
    /\ UNCHANGED <<rows, earlier, apps>>

\* The condition of the UPDATE.
Where(r) ==
    /\ status # "CLOSED"
    /\ r.kind = "accept" => status = "NEW"
    /\ r.kind \in {"accept", "assign"} => assignee = NoOperator
    /\ r.kind = "reassign" => assignee \notin {r.op, NoOperator}
    /\ r.kind \in {"startProgress", "reclaim"} => status = "ASSIGNED"
    /\ r.kind \in {"startProgress", "reclaim", "resolve"} => assignee = r.op

StatusAfter(kind) ==
    CASE kind \in GivingKinds      -> "ASSIGNED"
      [] kind \in FreeingKinds     -> "NEW"
      [] kind \in ClosingKinds     -> "CLOSED"
      [] kind = "startProgress"    -> "IN_PROGRESS"
      [] kind = "location"         -> status

AssigneeAfter(r) ==
    CASE r.kind \in GivingKinds                     -> r.op
      [] r.kind \in FreeingKinds \cup {"closeAdmin"} -> NoOperator
      [] OTHER                                      -> assignee

\* Mutant: the previous operator is not passed on.
RoomsOfAssignee(r) == {AssigneeAfter(r)} \cap Operators

\* sessionRooms: the operator in the row after the update and the previous one.
SessionRooms(r) == {AssigneeAfter(r), r.prev} \cap Operators

\* The UPDATE, and the row it returns: what the event will say.
Write(p) ==
    LET r == request[p]
        after == IF StatusAfter(r.kind) \in OpenAssigned THEN AssigneeAfter(r) ELSE NoOperator
    IN  /\ r.at = "write"
        /\ Where(r)
        /\ status' = StatusAfter(r.kind)
        /\ assignee' = AssigneeAfter(r)
        /\ request' = [request EXCEPT
                         ![p] = [Idle EXCEPT !.kind = r.kind, !.at = "tell",
                                             !.to = SessionRooms(r), !.holder = after,
                                             !.lost = IF Holder \in {after, r.prev}
                                                      THEN NoOperator ELSE Holder]]
        /\ Commits(p)
        /\ UNCHANGED apps

\* The update finds no row, a check before it refuses, or it fails.
Refuse(p) ==
    /\ request[p].at = "write"
    /\ request' = [request EXCEPT ![p] = Idle]
    /\ UNCHANGED <<rows, earlier, apps>>

-----------------------------------------------------------------------------
(* Events.                                                                 *)

\* Whom the events of r are for, or should be, connected or not.
Addressed(r) ==
    r.to \cup ({r.lost} \cap Operators) \cup (IF r.kind \in Removing THEN Operators ELSE {})

\* assigned, in_progress, location_update, reassigned or closed goes to the
\* session's rooms, and with it pool_removed to ON_SHIFT_ROOM.  A call that is
\* free again will be offered once the busy operators are known.
Tell(p) ==
    LET r == request[p]
        to == r.to \cap online
        missed == ({r.lost} \cap online) \ to
        all == IF r.kind \in Removing THEN listening ELSE {}
        next == IF r.kind \in Returning
                THEN [Idle EXCEPT !.kind = r.kind, !.at = "askBusy", !.overtaken = r.overtaken]
                ELSE Idle
    IN  /\ r.at = "tell"
        /\ mine' = (mine \ to) \cup ({r.holder} \cap to)
        /\ misled' = (misled \ to) \cup (r.overtaken \cap to) \cup missed
        /\ offered' = offered \ all
        /\ muddled' = (muddled \ all) \cup (r.overtaken \cap all)
        /\ unbriefed' = unbriefed \ all
        /\ Sends(p, Addressed(r), next)
        /\ IF r.kind \in Returning THEN UNCHANGED earlier ELSE Ends({p})
        /\ UNCHANGED <<rows, online, listening, withheld>>

\* startSessionLocked: the new row; its only events are offers.
Raise(p) ==
    /\ request[p] = Idle
    /\ status = "ABSENT"
    /\ status' = "NEW"
    /\ request' = [request EXCEPT ![p] = [Idle EXCEPT !.kind = "raise", !.at = "askBusy"]]
    /\ Commits(p)
    /\ UNCHANGED <<assignee, apps>>

\* busyOperatorRooms: who holds this call or, for all this module knows, another
\* one; nobody when the query fails.
AskBusy(p) ==
    /\ request[p].at = "askBusy"
    /\ \E B \in SUBSET Operators :
          /\ B = {} \/ {Holder} \cap Operators \subseteq B
          /\ request' = [request EXCEPT ![p].at = "offer", ![p].busy = B]
    /\ UNCHANGED <<rows, earlier, apps>>

\* emergency:new to the free operators on shift.
Offer(p) ==
    LET r == request[p] IN
    /\ r.at = "offer"
    /\ offered' = offered \cup (listening \ r.busy)
    /\ withheld' = (withheld \ listening) \cup (listening \cap r.busy)
    /\ muddled' = (muddled \ listening) \cup (r.overtaken \cap listening)
    /\ unbriefed' = unbriefed \ listening
    /\ Sends(p, Operators, Idle)
    /\ Ends({p})
    /\ UNCHANGED <<rows, online, listening, mine, misled>>

-----------------------------------------------------------------------------
(* Connections: sendOperatorBootstrap joins, reads, reads again, sends.     *)

Connect(p, o) ==
    /\ request[p] = Idle
    /\ o \notin online
    /\ online' = online \cup {o}
    /\ request' = [request EXCEPT
                     ![p] = [Idle EXCEPT !.kind = "bootstrap", !.at = "join", !.op = o]]
    /\ UNCHANGED <<rows, earlier, listening, mine, offered, withheld, misled, muddled, unbriefed>>

JoinOnShift(p) ==
    /\ request[p].at = "join"
    /\ listening' = listening \cup {request[p].op}
    /\ request' = [request EXCEPT ![p].at = "readMine"]
    /\ UNCHANGED <<rows, earlier, online, mine, offered, withheld, misled, muddled, unbriefed>>

\* The operator's own calls: this one, or another one.
ReadMine(p) ==
    LET o == request[p].op IN
    /\ request[p].at = "readMine"
    /\ \E busy \in BOOLEAN :
          /\ Holder = o => busy
          /\ request' = [request EXCEPT
                           ![p].at = IF busy THEN "snapshot" ELSE "readPool",
                           ![p].holder = Holder,
                           ![p].busy = IF busy THEN {o} ELSE {}]
    /\ Commits(p)
    /\ UNCHANGED <<rows, apps>>

ReadPool(p) ==
    /\ request[p].at = "readPool"
    /\ request' = [request EXCEPT ![p].at = "snapshot", ![p].free = IsFree]
    /\ UNCHANGED <<rows, earlier, apps>>

\* emergency:bootstrap replaces what the app shows.
Snapshot(p) ==
    LET r == request[p]
        me == {r.op}
    IN  /\ r.at = "snapshot"
        /\ mine' = (mine \ me) \cup ({r.holder} \cap me)
        /\ offered' = IF r.free THEN offered \cup me ELSE offered \ me
        /\ withheld' = (withheld \ me) \cup r.busy
        /\ misled' = (misled \ me) \cup (r.overtaken \cap me)
        /\ muddled' = (muddled \ me) \cup (r.overtaken \cap me)
        /\ Sends(p, me, Idle)
        /\ Ends({p})
        /\ UNCHANGED <<rows, online, listening, unbriefed>>

\* The catch of sendOperatorBootstrap: a query throws, the error is logged.  The
\* socket stays, in ON_SHIFT_ROOM if it was there already.
BootstrapFails(p) ==
    /\ request[p].at \in {"join", "readMine", "readPool"}
    /\ request' = [request EXCEPT ![p] = Idle]
    /\ Ends({p})
    /\ misled' = misled \cup {request[p].op}
    /\ unbriefed' = unbriefed \cup {request[p].op}
    /\ UNCHANGED <<rows, online, listening, mine, offered, withheld, muddled>>

Bootstrapping(o) == {p \in Requests : request[p].kind = "bootstrap" /\ request[p].op = o}

\* Mutant: the socket keeps its place in ON_SHIFT_ROOM.
LeaveButListen(O) ==
    /\ online' = online \ O
    /\ mine' = mine \ O
    /\ withheld' = withheld \ O
    /\ misled' = misled \ O
    /\ unbriefed' = unbriefed \ O
    /\ UNCHANGED <<listening, offered, muddled>>

\* Operators O lose their connections; what they have been shown is forgotten,
\* and what is still under way does not reach them.
Leave(O) ==
    /\ online' = online \ O
    /\ listening' = listening \ O
    /\ mine' = mine \ O
    /\ offered' = offered \ O
    /\ withheld' = withheld \ O
    /\ misled' = misled \ O
    /\ muddled' = muddled \ O
    /\ unbriefed' = unbriefed \ O

Disconnect(o) ==
    /\ o \in online
    /\ Leave({o})
    /\ request' = [p \in Requests |->
                      IF p \in Bootstrapping(o) THEN Idle ELSE request[p]]
    /\ Ends(Bootstrapping(o))
    /\ UNCHANGED rows

\* The process dies: handlers, unsent events and connections are gone.
Restart ==
    /\ Leave(Operators)
    /\ request' = [p \in Requests |-> Idle]
    /\ earlier' = [p \in Requests |-> {}]
    /\ UNCHANGED rows

-----------------------------------------------------------------------------
Next ==
    \/ \E p \in Requests :
          \/ \E kind \in Kinds, o \in Operators \cup {NoOperator} : Receive(p, kind, o)
          \/ Write(p) \/ Refuse(p) \/ Tell(p)
          \/ Raise(p) \/ AskBusy(p) \/ Offer(p)
          \/ \E o \in Operators : Connect(p, o)
          \/ JoinOnShift(p) \/ ReadMine(p) \/ ReadPool(p) \/ Snapshot(p)
          \/ BootstrapFails(p)
    \/ \E o \in Operators : Disconnect(o)
    \/ Restart

Spec == Init /\ [][Next]_vars

-----------------------------------------------------------------------------
\* A bootstrap that has not read yet will bring the truth; handlers that have
\* committed still have news to bring.
Settled(o) ==
    /\ o \in online
    /\ Unsent = {}
    /\ Bootstrapping(o) = {}

\* Once all events are sent an operator sees the call as their own exactly when
\* they hold it -- unless their last event came late or never, or their bootstrap
\* failed and no event has come since.
KnowsOwnCall ==
    \A o \in Operators \ misled : Settled(o) => (o \in mine <=> Holder = o)

\* Nobody is left with the offer of a call that is not free, unless a late event
\* brought it back.
OffersAreFree ==
    \A o \in Operators \ muddled : Settled(o) /\ o \in offered => IsFree

\* A free call is in front of every operator who was not busy when it was
\* offered, unless a late event took it away, or their bootstrap failed and no
\* news of the pool has come since.
FreeCallIsOffered ==
    \A o \in Operators \ (muddled \cup unbriefed) :
        Settled(o) /\ IsFree => o \in offered \cup withheld

-----------------------------------------------------------------------------
(* What the code says and does not keep: see section 5 of README.md.      *)

\* reassignSession on reading the previous operator first: "the race is harmless:
\* at worst we notify somebody who has lost the call anyway".  Nobody who loses a
\* call to another operator goes on seeing it as their own.
LoserIsTold ==
    [][\A p \in Requests, o \in online :
          Tell(p) /\ request[p].kind = "reassign" /\ Holder # o /\ request[p].lost = o
          => o \notin mine']_vars

\* closeSession: pool_removed takes the card away "from everyone on duty to whom
\* it was offered".
OfferEndsWithCall ==
    \A o \in Operators : Settled(o) /\ status = "CLOSED" => o \notin offered
=============================================================================
