---------------------------- MODULE MCMembership ----------------------------
(***************************************************************************)
(* Membership of two people in two organizations.  Two handlers of every   *)
(* kind, two people, a venue, an application and a call together are too   *)
(* many states, so three smaller worlds are explored in one run.  What a   *)
(* world does not use is used up: an account or an organization deleted,   *)
(* the venue deleted, the application rejected, the call closed.           *)
(***************************************************************************)
EXTENDS Membership, TLC

World(active, orgs, venues, applications, calls) ==
    /\ account = [u \in Users |-> IF u \in active THEN "active" ELSE "deleted"]
    /\ org = [o \in Orgs |-> IF o \in orgs THEN "absent" ELSE "deleted"]
    /\ venue = [v \in Venues |-> IF v \in venues THEN "absent" ELSE "deleted"]
    /\ venueOrg = [v \in Venues |-> NoOrg]
    /\ member = [m \in Members |-> NoRow]
    /\ application = [a \in Applications |->
                        [status |-> IF a \in applications THEN "ABSENT" ELSE "REJECTED",
                         user |-> NoUser, org |-> NoOrg]]
    /\ call = [c \in Calls |-> [state |-> IF c \in calls THEN "ABSENT" ELSE "CLOSED",
                                org |-> NoOrg, venue |-> NoVenue]]
    /\ request = [r \in Requests |-> Idle]
    /\ origin = [o \in Orgs |-> NoApplication]
    /\ disordered = {}
    /\ overtaken = {}

MCInit ==
    \/ World(Users, Orgs, {}, {}, {})
    \/ \E u \in Users : \/ World({u}, Orgs, Venues, Applications, {})
                        \/ \E o \in Orgs : World({u}, {o}, Venues, {}, Calls)

MCSpec == MCInit /\ [][Next]_vars

Symmetry == Permutations(Users) \cup Permutations(Orgs) \cup Permutations(Members)
            \cup Permutations(Requests)
=============================================================================
