----------------------------- MODULE Membership -----------------------------
(***************************************************************************)
(* Organizations, their venues and members, and the applications to open   *)
(* one.                                                                    *)
(*                                                                         *)
(* A person belongs to one organization at most (a unique index), in one   *)
(* of four roles; an organization has one owner, says the code.  The admin *)
(* panel, invite codes, applications and account deletions all write the   *)
(* same table, each handler reading first and writing some awaits later,   *)
(* at READ COMMITTED.  Foreign keys cascade: an organization takes members *)
(* and venues with it, a venue unbinds its members, and calls keep neither.*)
(*                                                                         *)
(* A request first reads ("Receive..."), waits at the point named in "at", *)
(* and commits.  A commit that meets a missing row, a broken foreign key   *)
(* or a duplicate is an error answer: Fail.  Names, slugs, addresses,      *)
(* invite codes as texts and the pages the panel lists are left out.       *)
(***************************************************************************)
EXTENDS FiniteSets, Naturals

CONSTANTS
    Users, Orgs, Venues, Members, Applications, Calls,   \* row ids
    Requests,     \* handlers running at the same time
    GivenRoles,   \* bound: roles the admin panel hands out
    NoUser, NoOrg, NoVenue, NoMember, NoApplication      \* NULL

OrgMemberRole == {"OWNER", "MANAGER", "STAFF", "MEMBER"}

ASSUME NullAssumption ==
    /\ NoUser \notin Users
    /\ NoOrg \notin Orgs
    /\ NoVenue \notin Venues
    /\ NoMember \notin Members
    /\ NoApplication \notin Applications

ASSUME RolesAssumption == GivenRoles \subseteq OrgMemberRole

VARIABLES
    account,      \* [Users -> {"active", "deleted"}], User.deletedAt
    org,          \* [Orgs -> {"absent", "live", "deleted"}]
    venue,        \* [Venues -> {"absent", "live", "deleted"}]
    venueOrg,     \* [Venues -> Orgs or NULL], Venue.organizationId
    member,       \* [Members -> MemberRow or no row], OrganizationMember
    application,  \* [Applications -> [status, user, org]]
    call,         \* [Calls -> [state, org, venue]], EmergencySession
    request,      \* [Requests -> RequestState]
    origin,       \* history: the application a live organization was made for
    disordered,   \* history: organizations an outdated request or an unchecked
                  \* way out has written, until they have one owner again
    overtaken     \* history: deleted accounts an outdated request wrote for, or
                  \* somebody else while they were being deleted

tables == <<account, org, venue, venueOrg, member, application, call>>
history == <<origin, disordered, overtaken>>
vars == <<tables, request, history>>

-----------------------------------------------------------------------------
MemberRow == [user : Users, org : Orgs, role : OrgMemberRole, venue : Venues \cup {NoVenue}]

NoRow == [user |-> NoUser, org |-> NoOrg, role |-> "none", venue |-> NoVenue]

Idle == [at |-> "idle", user |-> NoUser, org |-> NoOrg, venue |-> NoVenue,
         row |-> NoMember, role |-> "none", owner |-> NoMember,
         app |-> NoApplication, apps |-> {}, outdated |-> FALSE]

RequestState ==
    [at       : {"idle", "bind", "found", "deleteOrg", "findOwner", "add", "update",
                 "remove", "apply", "approve", "deleteRows", "deleteApplications",
                 "deleteUser", "alarm"},
     user     : Users \cup {NoUser},
     org      : Orgs \cup {NoOrg},
     venue    : Venues \cup {NoVenue},
     row      : Members \cup {NoMember},
     role     : OrgMemberRole \cup {"none"},
     owner    : Members \cup {NoMember},
     app      : Applications \cup {NoApplication},
     apps     : SUBSET Applications,
     outdated : BOOLEAN]

TypeOK ==
    /\ account \in [Users -> {"active", "deleted"}]
    /\ org \in [Orgs -> {"absent", "live", "deleted"}]
    /\ venue \in [Venues -> {"absent", "live", "deleted"}]
    /\ venueOrg \in [Venues -> Orgs \cup {NoOrg}]
    /\ \A v \in Venues : venue[v] = "live" => venueOrg[v] # NoOrg /\ org[venueOrg[v]] = "live"
    /\ member \in [Members -> MemberRow \cup {NoRow}]
    /\ \A m \in Members : member[m] # NoRow => org[member[m].org] = "live"
    /\ \A m, n \in Members : member[m] # NoRow /\ member[m].user = member[n].user => m = n
    /\ application \in [Applications -> [status : {"ABSENT", "PENDING", "APPROVED", "REJECTED"},
                                         user : Users \cup {NoUser}, org : Orgs \cup {NoOrg}]]
    /\ call \in [Calls -> [state : {"ABSENT", "OPEN", "CLOSED"},
                           org : Orgs \cup {NoOrg}, venue : Venues \cup {NoVenue}]]
    /\ request \in [Requests -> RequestState]
    /\ origin \in [Orgs -> Applications \cup {NoApplication}]
    /\ disordered \subseteq Orgs
    /\ overtaken \subseteq Users

Init ==
    /\ account = [u \in Users |-> "active"]
    /\ org = [o \in Orgs |-> "absent"]
    /\ venue = [v \in Venues |-> "absent"]
    /\ venueOrg = [v \in Venues |-> NoOrg]
    /\ member = [m \in Members |-> NoRow]
    /\ application = [a \in Applications |-> [status |-> "ABSENT", user |-> NoUser, org |-> NoOrg]]
    /\ call = [c \in Calls |-> [state |-> "ABSENT", org |-> NoOrg, venue |-> NoVenue]]
    /\ request = [r \in Requests |-> Idle]
    /\ origin = [o \in Orgs |-> NoApplication]
    /\ disordered = {}
    /\ overtaken = {}

-----------------------------------------------------------------------------
At(r, at) == request[r].at = at

Rows(u) == {m \in Members : member[m].user = u}

Owners(o) == {m \in Members : member[m].org = o /\ member[m].role = "OWNER"}

OneOwnerIn(o) == \E m \in Members : Owners(o) = {m}

\* Ids are never reused: a fresh one is known to no request.
FreshMember(m) ==
    member[m] = NoRow /\ \A r \in Requests : m \notin {request[r].row, request[r].owner}

FreshApplication(a) ==
    /\ application[a].status = "ABSENT"
    /\ \A r \in Requests : request[r].app # a /\ a \notin request[r].apps

\* Rows that a deletion has removed and not yet committed: every other writer of
\* such a row, and of a second row for its user, waits for the deletion to end.
Locked == {m \in Members : \E r \in Requests : At(r, "deleteUser") /\ request[r].row = m}

\* Mutant: no foreign key, a row that once existed will do.
OrgOnceThere(o) == org[o] # "absent"

\* The foreign keys on organizationId and venueId.
OrgExists(o) == org[o] = "live"
VenueExists(v) == v # NoVenue => venue[v] = "live"

\* Mutant: the foreign key alone.
AnyVenue(v, o) == VenueExists(v)

\* assertVenueBelongsToOrg
MayBind(v, o) == v # NoVenue => venue[v] = "live" /\ venueOrg[v] = o

Receive(r, new) ==
    /\ request[r] = Idle
    /\ request' = [request EXCEPT ![r] = new]
    /\ UNCHANGED <<tables, history>>

Answer(r) == request' = [request EXCEPT ![r] = Idle]

\* The end of a request that changes who owns organization o, or the rows of the
\* users us: what others in flight have read of them is out of date.
Commit(r, o, us) ==
    request' = [q \in Requests |->
                  IF q = r THEN Idle
                  ELSE IF request[q] # Idle /\ (request[q].org = o \/ request[q].user \in us)
                       THEN [request[q] EXCEPT !.outdated = TRUE]
                       ELSE request[q]]

\* The organizations os are excused until they have one owner again.
Excuse(os) == disordered' = {o \in disordered \cup os : ~OneOwnerIn(o)'}

\* What an outdated request writes is excused.
Contest(r, os) == Excuse(IF request[r].outdated THEN os ELSE {})

Overtake(r) ==
    overtaken' = IF request[r].outdated /\ account[request[r].user] = "deleted"
                 THEN overtaken \cup {request[r].user} ELSE overtaken

OrgsOf(ms) == {member[m].org : m \in ms} \ {NoOrg}

-----------------------------------------------------------------------------
(* The panel's plain rows.                                                 *)

\* createOrganization: no owner yet.
CreateOrganization(o) ==
    /\ org[o] = "absent"
    /\ org' = [org EXCEPT ![o] = "live"]
    /\ UNCHANGED <<account, venue, venueOrg, member, application, call, request, history>>

CreateVenue(v, o) ==
    /\ venue[v] = "absent"
    /\ org[o] = "live"
    /\ venue' = [venue EXCEPT ![v] = "live"]
    /\ venueOrg' = [venueOrg EXCEPT ![v] = o]
    /\ UNCHANGED <<account, org, member, application, call, request, history>>

\* What onDelete: SetNull and Cascade do when the venues vs go.
Unbind(vs, f) ==
    [x \in DOMAIN f |-> IF f[x].venue \in vs THEN [f[x] EXCEPT !.venue = NoVenue] ELSE f[x]]

DeleteVenue(v) ==
    /\ venue[v] = "live"
    /\ \A m \in Locked : member[m].venue # v
    /\ venue' = [venue EXCEPT ![v] = "deleted"]
    /\ member' = Unbind({v}, member)
    /\ call' = Unbind({v}, call)
    /\ UNCHANGED <<account, org, venueOrg, application, request, history>>

-----------------------------------------------------------------------------
(* Joining: OrganizationService.create and VenueService.bindByInviteCode.  *)

ReceiveFound(r, u) ==
    /\ account[u] = "active"
    /\ Rows(u) = {}
    /\ Receive(r, [Idle EXCEPT !.at = "found", !.user = u])

\* The unique index on userId.
NoRowYet(u) == Rows(u) = {}

CommitFound(r, o, m) ==
    /\ At(r, "found")
    /\ org[o] = "absent"
    /\ FreshMember(m)
    /\ NoRowYet(request[r].user)
    /\ org' = [org EXCEPT ![o] = "live"]
    /\ member' = [member EXCEPT ![m] = [user |-> request[r].user, org |-> o,
                                        role |-> "OWNER", venue |-> NoVenue]]
    /\ Commit(r, o, {request[r].user})
    /\ Overtake(r)
    /\ UNCHANGED <<account, venue, venueOrg, application, call, origin, disordered>>

\* Mutant: the owner may bind elsewhere.
AnyoneMayBind(u) == TRUE

\* An owner would leave the organization without one.
MayLeave(u) == \A m \in Rows(u) : member[m].role # "OWNER"

ReceiveBind(r, u) ==
    /\ account[u] = "active"
    /\ MayLeave(u)
    /\ Receive(r, [Idle EXCEPT !.at = "bind", !.user = u])

\* The code is that of an organization, or of a venue of it.  One transaction
\* removes what the user belonged to, as it is now, and creates the new row.
CommitBind(r, o, v, m) ==
    LET u == request[r].user IN
    /\ At(r, "bind")
    /\ OrgExists(o)
    /\ MayBind(v, o)
    /\ FreshMember(m)
    /\ Rows(u) \cap Locked = {}
    /\ member' = [n \in Members |->
                    CASE n = m -> [user |-> u, org |-> o, role |-> "MEMBER", venue |-> v]
                      [] n \in Rows(u) -> NoRow
                      [] OTHER -> member[n]]
    /\ Contest(r, OrgsOf(Rows(u)))
    /\ Commit(r, o, {u})
    /\ Overtake(r)
    /\ UNCHANGED <<account, org, venue, venueOrg, application, call, origin>>

-----------------------------------------------------------------------------
(* The members of an organization, by the admin panel.                     *)

\* The user is found by an address that deletion takes away.
ReceiveAdd(r, o, u, role, v) ==
    /\ org[o] = "live"
    /\ account[u] = "active"
    /\ Rows(u) = {}
    /\ MayBind(v, o)
    /\ Receive(r, [Idle EXCEPT !.at = IF role = "OWNER" THEN "findOwner" ELSE "add",
                               !.user = u, !.org = o, !.role = role, !.venue = v])

\* role "none": the request leaves the role alone.  The check of the venue asks
\* for the organization of the member, which never changes.
ReceiveUpdate(r, m, role, v) ==
    /\ member[m] # NoRow
    /\ MayBind(v, member[m].org)
    /\ member[m].role = "OWNER" => role \in {"OWNER", "none"}
    /\ Receive(r, [Idle EXCEPT !.at = IF role = "OWNER" /\ member[m].role # "OWNER"
                                      THEN "findOwner" ELSE "update",
                               !.user = member[m].user, !.org = member[m].org,
                               !.row = m, !.role = role, !.venue = v])

\* demoteCurrentOwner, first statement: any owner of the organization, or none.
FindOwner(r) ==
    /\ At(r, "findOwner")
    /\ \E m \in IF Owners(request[r].org) = {} THEN {NoMember} ELSE Owners(request[r].org) :
         request' = [request EXCEPT ![r].at = IF request[r].row = NoMember
                                              THEN "add" ELSE "update",
                                    ![r].owner = m]
    /\ UNCHANGED <<tables, history>>

\* P2025 if the owner that was found is gone.
OwnerIsThere(r) == request[r].owner # NoMember => member[request[r].owner] # NoRow

\* Mutant: demoteCurrentOwner finds the owner and does not write.
NotDemoted(r) == member

\* demoteCurrentOwner, second statement: the row it found, whatever it is now.
Demoted(r) ==
    IF request[r].owner = NoMember THEN member
    ELSE [member EXCEPT ![request[r].owner].role = "MANAGER"]

CommitAdd(r, m) ==
    /\ At(r, "add")
    /\ OrgExists(request[r].org)
    /\ VenueExists(request[r].venue)
    /\ FreshMember(m)
    /\ NoRowYet(request[r].user)
    /\ OwnerIsThere(r)
    /\ request[r].owner \notin Locked
    /\ member' = [Demoted(r) EXCEPT ![m] = [user |-> request[r].user, org |-> request[r].org,
                                            role |-> request[r].role, venue |-> request[r].venue]]
    /\ Contest(r, {request[r].org})
    /\ Commit(r, request[r].org, {request[r].user})
    /\ Overtake(r)
    /\ UNCHANGED <<account, org, venue, venueOrg, application, call, origin>>

\* A request without a venue leaves it alone, or says null and unbinds.
CommitUpdate(r) ==
    LET m == request[r].row IN
    /\ At(r, "update")
    /\ member[m] # NoRow
    /\ VenueExists(request[r].venue)
    /\ OwnerIsThere(r)
    /\ {m, request[r].owner} \cap Locked = {}
    /\ \E v \in IF request[r].venue = NoVenue THEN {member[m].venue, NoVenue}
                                           ELSE {request[r].venue} :
          member' = [Demoted(r) EXCEPT
                       ![m].role = IF request[r].role = "none" THEN @ ELSE request[r].role,
                       ![m].venue = v]
    /\ Contest(r, {request[r].org})
    /\ Commit(r, request[r].org, {request[r].user})
    /\ Overtake(r)
    /\ UNCHANGED <<account, org, venue, venueOrg, application, call, origin>>

ReceiveRemove(r, m) ==
    /\ member[m] # NoRow
    /\ member[m].role # "OWNER"
    /\ Receive(r, [Idle EXCEPT !.at = "remove", !.row = m,
                               !.user = member[m].user, !.org = member[m].org])

CommitRemove(r) ==
    /\ At(r, "remove")
    /\ member[request[r].row] # NoRow
    /\ request[r].row \notin Locked
    /\ member' = [member EXCEPT ![request[r].row] = NoRow]
    /\ Contest(r, {request[r].org})
    /\ Commit(r, request[r].org, {request[r].user})
    /\ Overtake(r)
    /\ UNCHANGED <<account, org, venue, venueOrg, application, call, origin>>

-----------------------------------------------------------------------------
(* Applications.                                                           *)

ReceiveApply(r, u) ==
    /\ account[u] = "active"
    /\ Receive(r, [Idle EXCEPT !.at = "apply", !.user = u])

CommitApply(r, a) ==
    /\ At(r, "apply")
    /\ FreshApplication(a)
    /\ application' = [application EXCEPT ![a].status = "PENDING", ![a].user = request[r].user]
    /\ Answer(r)
    /\ Overtake(r)
    /\ UNCHANGED <<account, org, venue, venueOrg, member, call, origin, disordered>>

ReceiveApprove(r, a) ==
    /\ application[a].status = "PENDING"
    /\ Receive(r, [Idle EXCEPT !.at = "approve", !.app = a, !.user = application[a].user])

\* Mutant: the final update asks for the id only.
WhateverStatus(a) == application[a].status # "ABSENT"

\* The conditional final update; without it everything is rolled back.
StillPending(a) == application[a].status = "PENDING"

\* One transaction: the organization, its branches vs, the applicant taken out
\* of where they are and made the owner, the decision.
CommitApprove(r, o, vs, m) ==
    LET a == request[r].app
        u == application[a].user
    IN
    /\ At(r, "approve")
    /\ StillPending(a)
    /\ org[o] = "absent"
    /\ \A v \in vs : venue[v] = "absent"
    /\ FreshMember(m)
    /\ Rows(u) \cap Locked = {}
    /\ org' = [org EXCEPT ![o] = "live"]
    /\ venue' = [v \in Venues |-> IF v \in vs THEN "live" ELSE venue[v]]
    /\ venueOrg' = [v \in Venues |-> IF v \in vs THEN o ELSE venueOrg[v]]
    /\ member' = [n \in Members |->
                    CASE n = m -> [user |-> u, org |-> o, role |-> "OWNER", venue |-> NoVenue]
                      [] n \in Rows(u) -> NoRow
                      [] OTHER -> member[n]]
    /\ application' = [application EXCEPT ![a].status = "APPROVED", ![a].org = o]
    /\ origin' = [origin EXCEPT ![o] = a]
    /\ Excuse(OrgsOf(Rows(u)))
    /\ Commit(r, o, {u})
    /\ UNCHANGED <<account, call, overtaken>>

RejectApplication(a) ==
    /\ application[a].status = "PENDING"
    /\ application' = [application EXCEPT ![a].status = "REJECTED"]
    /\ UNCHANGED <<account, org, venue, venueOrg, member, call, request, history>>

-----------------------------------------------------------------------------
(* deleteAccount and deleteOperator.  One transaction, each statement of it *)
(* seeing what was committed when it began: the memberships, the pending   *)
(* applications (an operator has none), the account.                       *)

ReceiveDelete(r, u) ==
    /\ account[u] = "active"
    /\ Receive(r, [Idle EXCEPT !.at = "deleteRows", !.user = u])

\* The row it finds, if any.  A writer that came first is waited for.
DeleteRows(r) ==
    /\ At(r, "deleteRows")
    /\ \E m \in IF Rows(request[r].user) = {} THEN {NoMember} ELSE Rows(request[r].user) :
         request' = [request EXCEPT ![r].at = "deleteApplications", ![r].row = m]
    /\ UNCHANGED <<tables, history>>

Pending(u) == {a \in Applications : application[a].user = u /\ application[a].status = "PENDING"}

DeleteApplications(r) ==
    /\ At(r, "deleteApplications")
    /\ request[r].row \notin Locked
    /\ request' = [request EXCEPT ![r].at = "deleteUser", ![r].apps = Pending(request[r].user)]
    /\ UNCHANGED <<tables, history>>

\* Mutant: the applications are left to the administrators.
ApplicationsStay(as) == application

Without(as) ==
    [a \in Applications |->
       IF a \in as THEN [status |-> "ABSENT", user |-> NoUser, org |-> NoOrg] ELSE application[a]]

\* The account, and the commit: what the statements found goes if it is still
\* there, and what came in behind them stays.
CommitDelete(r) ==
    LET u == request[r].user
        gone == Rows(u) \cap {request[r].row}
    IN
    /\ At(r, "deleteUser")
    /\ account' = [account EXCEPT ![u] = "deleted"]
    /\ member' = [n \in Members |-> IF n \in gone THEN NoRow ELSE member[n]]
    /\ application' = Without(Pending(u) \cap request[r].apps)
    /\ Excuse(OrgsOf(gone))
    /\ Commit(r, NoOrg, {u})
    /\ overtaken' = IF Rows(u) \subseteq {request[r].row} /\ Pending(u) \subseteq request[r].apps
                    THEN overtaken ELSE overtaken \cup {u}
    /\ UNCHANGED <<org, venue, venueOrg, call, origin>>

-----------------------------------------------------------------------------
(* Alarms and the deletion of an organization.                             *)

\* Who may raise an alarm at venue v: bound to it, a member or manager of the
\* whole organization, or its owner.
MayCallFrom(u, v) ==
    \E m \in Rows(u) :
        /\ venue[v] = "live"
        /\ member[m].org = venueOrg[v]
        /\ \/ member[m].venue = v
           \/ member[m].venue = NoVenue /\ member[m].role \in {"MEMBER", "MANAGER"}
           \/ member[m].role = "OWNER"

\* A personal alarm is the organization's too, if the caller is in one.
PersonalOrgs(u) == IF Rows(u) = {} THEN {NoOrg} ELSE OrgsOf(Rows(u))

ReceiveAlarm(r, u, v) ==
    /\ account[u] = "active"
    /\ \E o \in Orgs \cup {NoOrg} :
        /\ \/ v # NoVenue /\ MayCallFrom(u, v) /\ o = venueOrg[v]
           \/ v = NoVenue /\ o \in PersonalOrgs(u)
        /\ Receive(r, [Idle EXCEPT !.at = "alarm", !.user = u, !.org = o, !.venue = v])

\* A deletion that has counted the calls of o has not counted this one.
CommitAlarm(r, c) ==
    LET o == request[r].org IN
    /\ At(r, "alarm")
    /\ call[c].state = "ABSENT"
    /\ o # NoOrg => org[o] = "live"
    /\ VenueExists(request[r].venue)
    /\ call' = [call EXCEPT ![c] = [state |-> "OPEN", org |-> o, venue |-> request[r].venue]]
    /\ request' = [q \in Requests |->
                     IF q = r THEN Idle
                     ELSE IF At(q, "deleteOrg") /\ request[q].org = o
                          THEN [request[q] EXCEPT !.outdated = TRUE]
                          ELSE request[q]]
    /\ UNCHANGED <<account, org, venue, venueOrg, member, application, history>>

CloseCall(c) ==
    /\ call[c].state = "OPEN"
    /\ call' = [call EXCEPT ![c].state = "CLOSED"]
    /\ UNCHANGED <<account, org, venue, venueOrg, member, application, request, history>>

\* Mutant: the open calls are not counted.
NothingCounted(o) == TRUE

NoOpenCall(o) == \A c \in Calls : call[c].org = o => call[c].state = "CLOSED"

ReceiveDeleteOrg(r, o) ==
    /\ org[o] = "live"
    /\ NoOpenCall(o)
    /\ Receive(r, [Idle EXCEPT !.at = "deleteOrg", !.org = o])

CommitDeleteOrg(r) ==
    LET o == request[r].org
        vs == {v \in Venues : venue[v] = "live" /\ venueOrg[v] = o}
        kept == [m \in Members |-> IF member[m].org = o THEN NoRow ELSE member[m]]
        calls == [c \in Calls |-> IF call[c].org = o THEN [call[c] EXCEPT !.org = NoOrg] ELSE call[c]]
    IN
    /\ At(r, "deleteOrg")
    /\ org[o] = "live"
    /\ \A m \in Locked : member[m].org # o
    /\ org' = [org EXCEPT ![o] = "deleted"]
    /\ venue' = [v \in Venues |-> IF v \in vs THEN "deleted" ELSE venue[v]]
    /\ member' = Unbind(vs, kept)
    /\ call' = Unbind(vs, calls)
    /\ application' = [a \in Applications |->
                         IF application[a].org = o THEN [application[a] EXCEPT !.org = NoOrg]
                         ELSE application[a]]
    /\ origin' = [origin EXCEPT ![o] = NoApplication]
    /\ disordered' = disordered \ {o}
    /\ Answer(r)
    /\ UNCHANGED <<account, venueOrg, overtaken>>

-----------------------------------------------------------------------------
\* A refused statement or a dead process: nothing is committed.
Fail(r) ==
    /\ request[r] # Idle
    /\ Answer(r)
    /\ UNCHANGED <<tables, history>>

Receives(r) ==
    \/ \E u \in Users :
        \/ ReceiveFound(r, u) \/ ReceiveBind(r, u) \/ ReceiveApply(r, u) \/ ReceiveDelete(r, u)
        \/ \E v \in Venues \cup {NoVenue} : ReceiveAlarm(r, u, v)
    \/ \E o \in Orgs : ReceiveDeleteOrg(r, o)
    \/ \E o \in Orgs, u \in Users, role \in GivenRoles, v \in Venues \cup {NoVenue} :
        ReceiveAdd(r, o, u, role, v)
    \/ \E m \in Members, role \in GivenRoles \cup {"none"}, v \in Venues \cup {NoVenue} :
        ReceiveUpdate(r, m, role, v)
    \/ \E m \in Members : ReceiveRemove(r, m)
    \/ \E a \in Applications : ReceiveApprove(r, a)

Commits(r) ==
    \/ FindOwner(r) \/ CommitUpdate(r) \/ CommitRemove(r) \/ CommitDeleteOrg(r)
    \/ DeleteRows(r) \/ DeleteApplications(r) \/ CommitDelete(r)
    \/ \E m \in Members :
        \/ CommitAdd(r, m)
        \/ \E o \in Orgs :
            \/ CommitFound(r, o, m)
            \/ \E v \in Venues \cup {NoVenue} : CommitBind(r, o, v, m)
            \/ \E vs \in SUBSET Venues : CommitApprove(r, o, vs, m)
    \/ \E a \in Applications : CommitApply(r, a)
    \/ \E c \in Calls : CommitAlarm(r, c)

Next ==
    \/ \E r \in Requests : Receives(r) \/ Commits(r) \/ Fail(r)
    \/ \E o \in Orgs : CreateOrganization(o) \/ \E v \in Venues : CreateVenue(v, o)
    \/ \E v \in Venues : DeleteVenue(v)
    \/ \E a \in Applications : RejectApplication(a)
    \/ \E c \in Calls : CloseCall(c)

Spec == Init /\ [][Next]_vars

-----------------------------------------------------------------------------
\* A member is bound to a venue of their own organization, and a call is placed
\* in the organization of its venue, through every deletion and re-binding.
VenueOfOwnOrg ==
    \A v \in Venues :
        /\ \A m \in Members : member[m].venue = v => venue[v] = "live" /\ venueOrg[v] = member[m].org
        /\ \A c \in Calls : call[c].venue = v => venue[v] = "live" /\ venueOrg[v] = call[c].org

\* REL-4: however many administrators approve it, an application makes one
\* organization, and one that is rejected makes none.
OneOrgPerApplication ==
    \A o \in Orgs : origin[o] # NoApplication =>
        /\ application[origin[o]].status = "APPROVED"
        /\ application[origin[o]].org = o

\* «Владелец в организации один», unless a request wrote what had changed since
\* it had read it; and then only until there is one owner again.
OneOwner == \A o \in Orgs \ disordered : \A m, n \in Owners(o) : m = n

\* An organization that has an owner keeps one while it lives, with the same
\* exception; the two ways out that ask nothing are approving an application of
\* the owner and deleting the owner's account.
OwnerStays ==
    [][\A o \in Orgs :
         Owners(o) # {} /\ org'[o] = "live" /\ o \notin disordered' => Owners(o)' # {}]_vars

\* deleteOrganization takes no open call's organization away, except one raised
\* after the calls were counted.
OpenCallKeepsOrg ==
    [][\A c \in Calls :
         call[c].state = "OPEN" /\ call'[c].org # call[c].org =>
           \E r \in Requests : At(r, "deleteOrg") /\ request[r].outdated]_vars

\* A deleted account belongs nowhere and owns nothing, also when its application
\* was waiting or on its way to be approved.  Excused are the accounts for which
\* something else was committed behind the deletion's back: a request that was
\* in flight at its commit, or a row or an application (an approval, an invite
\* code, the panel) that came in between its statements.
DeletedBelongsNowhere ==
    \A u \in Users \ overtaken : account[u] = "deleted" => Rows(u) = {}

-----------------------------------------------------------------------------
(* What the code says and does not keep: see section 5 of README.md.      *)

\* "After this runs: ... related cascading rows (memberships, contacts,
\* applications, etc.) are removed": when the deletion of an account commits, no
\* membership of that account is left.
DeletionIsComplete ==
    [][\A u \in Users : account[u] = "active" /\ account'[u] = "deleted" => Rows(u)' = {}]_vars

\* «Организация без владельца остаётся неуправляемой.»
OwnerNeverLost ==
    [][\A o \in Orgs : Owners(o) # {} /\ org'[o] = "live" => Owners(o)' # {}]_vars
=============================================================================
