---------------------------- MODULE MCShiftRooms ----------------------------
(***************************************************************************)
(* ShiftRooms with a second operator whose account is deleted.  That one   *)
(* has no sockets, but an administrator may still put them on shift, and a *)
(* cron run can fail between the two.                                      *)
(***************************************************************************)
EXTENDS ShiftRooms, TLC

MCInit == \E o \in Operators :
    /\ onShift = [p \in Operators |-> FALSE]
    /\ deleted = {o}
    /\ socket = [c \in Sockets |-> Closed]
    /\ room = {}
    /\ request = [r \in Requests |-> Idle]
    /\ cron = NoRun
    /\ disturbed = {}

MCSpec == MCInit /\ [][Next]_vars

Symmetry == Permutations(Operators) \cup Permutations(Sockets) \cup Permutations(Requests)
=============================================================================
