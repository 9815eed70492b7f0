----------------------------- MODULE CallBoard -----------------------------
(***************************************************************************)
(* What dispatching promises, without saying how.  A board of SOS calls    *)
(* and a roster of operators: a free call goes to an operator who is on    *)
(* shift and has no other call, an operator goes off shift only with empty *)
(* hands, a closed call stays closed.  Every operation is one indivisible  *)
(* step; Dispatch shows that the transactions of the code, each made of    *)
(* several statements, look exactly like this from outside.                *)
(***************************************************************************)
CONSTANTS
    Operators,    \* accounts with Role.OPERATOR
    Sessions,     \* EmergencySession rows, raised or still to be raised
    NoOperator    \* assignedOperatorId = NULL

VARIABLES
    status,       \* EmergencySession.status, "ABSENT" before the row exists
    assignee,     \* EmergencySession.assignedOperatorId
    onShift       \* User.onShift

boardVars == <<status, assignee, onShift>>

Held == {"ASSIGNED", "IN_PROGRESS"}

CallsOf(o) == {s \in Sessions : assignee[s] = o /\ status[s] \in Held}

MayTake(o) == onShift[o] /\ CallsOf(o) = {}

Init ==
    /\ status = [s \in Sessions |-> "ABSENT"]
    /\ assignee = [s \in Sessions |-> NoOperator]
    /\ onShift = [o \in Operators |-> FALSE]

Raise(s) ==
    /\ status[s] = "ABSENT"
    /\ status' = [status EXCEPT ![s] = "NEW"]
    /\ UNCHANGED <<assignee, onShift>>

\* A free call goes to an operator, by their own choice or an admin's.
Take(s, o) ==
    /\ status[s] = "NEW"
    /\ MayTake(o)
    /\ status' = [status EXCEPT ![s] = "ASSIGNED"]
    /\ assignee' = [assignee EXCEPT ![s] = o]
    /\ UNCHANGED onShift

\* A held call moves straight from its operator to another one.
HandOver(s, o) ==
    /\ status[s] \in Held
    /\ assignee[s] # o
    /\ MayTake(o)
    /\ status' = [status EXCEPT ![s] = "ASSIGNED"]
    /\ assignee' = [assignee EXCEPT ![s] = o]
    /\ UNCHANGED onShift

Begin(s) ==
    /\ status[s] = "ASSIGNED"
    /\ status' = [status EXCEPT ![s] = "IN_PROGRESS"]
    /\ UNCHANGED <<assignee, onShift>>

\* A held call goes back to the pool.
Return(s) ==
    /\ status[s] \in Held
    /\ status' = [status EXCEPT ![s] = "NEW"]
    /\ assignee' = [assignee EXCEPT ![s] = NoOperator]
    /\ UNCHANGED onShift

\* Closing keeps the operator's name for the history, or wipes it.
Close(s) ==
    /\ status[s] \in {"NEW"} \cup Held
    /\ status' = [status EXCEPT ![s] = "CLOSED"]
    /\ \/ UNCHANGED assignee
       \/ assignee' = [assignee EXCEPT ![s] = NoOperator]
    /\ UNCHANGED onShift

GoOnShift(o) ==
    /\ onShift' = [onShift EXCEPT ![o] = TRUE]
    /\ UNCHANGED <<status, assignee>>

GoOffShift(o) ==
    /\ CallsOf(o) = {}
    /\ onShift' = [onShift EXCEPT ![o] = FALSE]
    /\ UNCHANGED <<status, assignee>>

Next ==
    \/ \E s \in Sessions : Raise(s) \/ Begin(s) \/ Return(s) \/ Close(s)
    \/ \E s \in Sessions, o \in Operators : Take(s, o) \/ HandOver(s, o)
    \/ \E o \in Operators : GoOnShift(o) \/ GoOffShift(o)

Spec == Init /\ [][Next]_boardVars
============================================================================
