-------------------------- MODULE MembershipProofs --------------------------
(* Membership for any number of users, organizations, venues, members,      *)
(* applications, calls and requests.                                        *)
EXTENDS Membership, TLAPS

\* Which fields a request at each point has.
Shape(q) ==
    /\ q.at \notin {"idle", "deleteOrg"} => q.user \in Users
    /\ q.at \in {"findOwner", "add", "update", "remove", "deleteOrg"} => q.org \in Orgs
    /\ q.at = "add" => q.row = NoMember /\ q.role \in OrgMemberRole
    /\ q.at \in {"update", "remove"} => q.row \in Members
    /\ q.at = "findOwner" => q.role = "OWNER"
    /\ q.at = "approve" => q.app \in Applications
    /\ q.owner # NoMember => q.role = "OWNER"

\* What a request has read and nobody ever changes: whose a row is, and the
\* organization of a venue.
Known(q) ==
    /\ q.row # NoMember /\ member[q.row] # NoRow =>
          /\ member[q.row].user = q.user
          /\ q.at \in {"deleteApplications", "deleteUser"} \/ member[q.row].org = q.org
    /\ q.owner # NoMember /\ member[q.owner] # NoRow => member[q.owner].org = q.org
    /\ q.venue # NoVenue => venue[q.venue] # "absent" /\ venueOrg[q.venue] = q.org

\* A row that the request needs is gone: it will be refused.
Dead(q) ==
    \/ q.owner # NoMember /\ member[q.owner] = NoRow
    \/ q.row # NoMember /\ member[q.row] = NoRow

\* The request knows an owner, unless there is none or it will be refused.
KnowsOwner(q) ==
    \/ Owners(q.org) = {}
    \/ q.owner \in Owners(q.org)
    \/ q.row \in Owners(q.org)
    \/ Dead(q)

\* It is about a row that is not to lose an owner's role.
Lowers(q) == q.at = "remove" \/ (q.at = "update" /\ q.role \notin {"OWNER", "none"})

\* The deletion of an account is past the memberships, and has found them all.
FoundAll(q) == q.at \in {"deleteApplications", "deleteUser"} => Rows(q.user) \subseteq {q.row}

\* What a request has checked and others may change: true until it is outdated.
Stands(q) ==
    /\ FoundAll(q)
    /\ q.at = "bind" => MayLeave(q.user)
    /\ Lowers(q) /\ member[q.row] # NoRow => member[q.row].role # "OWNER"
    /\ q.at \in {"add", "update"} /\ q.role = "OWNER" => KnowsOwner(q)
    /\ q.at = "deleteOrg" => NoOpenCall(q.org)

RequestOK(q) == Shape(q) /\ Known(q) /\ (q.outdated \/ Stands(q))

RequestsOK == \A r \in Requests : RequestOK(request[r])

\* Of a deleted account nothing is left, and what is under way is outdated.
NothingLeft ==
    \A u \in Users \ overtaken : account[u] = "deleted" =>
        /\ Rows(u) = {}
        /\ \A a \in Applications : application[a].user = u => application[a].status # "PENDING"
        /\ \A r \in Requests : request[r].user = u => request[r].outdated

PendingHasApplicant ==
    \A a \in Applications : application[a].status = "PENDING" => application[a].user \in Users

MemInv ==
    /\ TypeOK
    /\ RequestsOK
    /\ VenueOfOwnOrg
    /\ OneOrgPerApplication
    /\ OneOwner
    /\ NothingLeft
    /\ PendingHasApplicant

-----------------------------------------------------------------------------
(* Rows and records.                                                       *)

LEMMA RowFacts ==
    ASSUME NEW x \in MemberRow \cup {NoRow}
    PROVE  /\ x # NoRow <=> x \in MemberRow
           /\ x # NoRow <=> x.user \in Users
           /\ x # NoRow <=> x.org \in Orgs
           /\ x # NoRow <=> x.user # NoUser
           /\ x = NoRow => x.venue = NoVenue /\ x.role = "none" /\ x.user = NoUser /\ x.org = NoOrg
           /\ x.role = "OWNER" => x # NoRow
           /\ x.venue \in Venues => x # NoRow
<1>1. CASE x = NoRow
  <2>1. x.user = NoUser /\ x.org = NoOrg /\ x.role = "none" /\ x.venue = NoVenue
    BY <1>1 DEF NoRow
  <2>2. x \notin MemberRow BY <2>1, NullAssumption DEF MemberRow
  <2>3. QED BY <1>1, <2>1, <2>2, NullAssumption
<1>2. CASE x \in MemberRow
  <2>1. x.user \in Users /\ x.org \in Orgs BY <1>2 DEF MemberRow
  <2>2. x # NoRow BY <2>1, NullAssumption DEF NoRow
  <2>3. QED BY <1>2, <2>1, <2>2, NullAssumption
<1>3. QED BY <1>1, <1>2

LEMMA MemberFacts ==
    ASSUME TypeOK, NEW m \in Members
    PROVE  /\ member[m] \in MemberRow \cup {NoRow}
           /\ member[m] # NoRow <=> member[m] \in MemberRow
           /\ member[m] # NoRow <=> member[m].user \in Users
           /\ member[m] # NoRow <=> member[m].org \in Orgs
           /\ member[m] # NoRow <=> member[m].user # NoUser
           /\ member[m] # NoRow => org[member[m].org] = "live"
           /\ member[m] = NoRow =>
                member[m].venue = NoVenue /\ member[m].role = "none"
                /\ member[m].user = NoUser /\ member[m].org = NoOrg
           /\ member[m].role = "OWNER" => member[m] # NoRow
           /\ member[m].venue \in Venues => member[m] # NoRow
<1>1. member[m] \in MemberRow \cup {NoRow} BY DEF TypeOK
<1>2. member[m] # NoRow => org[member[m].org] = "live" BY DEF TypeOK
<1>3. QED BY <1>1, <1>2, RowFacts

LEMMA IdleIsOK == Idle \in RequestState /\ RequestOK(Idle)
<1>1. Idle \in RequestState BY DEF Idle, RequestState
<1>2. Shape(Idle) BY DEF Idle, Shape
<1>3. Known(Idle) BY DEF Idle, Known
<1>4. Stands(Idle) BY DEF Idle, Stands, FoundAll, Lowers
<1>5. QED BY <1>1, <1>2, <1>3, <1>4 DEF RequestOK

\* A request that is told it is outdated is otherwise the same.
LEMMA OutdatedFacts ==
    ASSUME NEW q \in RequestState, NEW p, p = [q EXCEPT !.outdated = TRUE]
    PROVE  /\ p \in RequestState
           /\ p.at = q.at /\ p.user = q.user /\ p.org = q.org /\ p.venue = q.venue
           /\ p.row = q.row /\ p.role = q.role /\ p.owner = q.owner /\ p.app = q.app
           /\ p.outdated
BY DEF RequestState

LEMMA InitMemInv == Init => MemInv
<1> SUFFICES ASSUME Init PROVE MemInv
  OBVIOUS
<1> USE NullAssumption DEF Init
<1>1. NoRow \notin MemberRow /\ NoRow.user = NoUser /\ NoRow.venue = NoVenue /\ NoRow.role = "none"
  BY DEF NoRow, MemberRow
<1>2. TypeOK BY <1>1, IdleIsOK DEF TypeOK
<1>3. RequestsOK BY IdleIsOK DEF RequestsOK
<1>4. VenueOfOwnOrg /\ OneOrgPerApplication
  BY <1>1 DEF VenueOfOwnOrg, OneOrgPerApplication
<1>5. OneOwner BY <1>1 DEF OneOwner, Owners
<1>6. NothingLeft /\ PendingHasApplicant BY DEF NothingLeft, PendingHasApplicant
<1>7. QED BY <1>2, <1>3, <1>4, <1>5, <1>6 DEF MemInv

-----------------------------------------------------------------------------
(* How the rows may change under a request in flight.                      *)

SameMember(m) ==
    /\ member[m] # NoRow
    /\ member'[m] # NoRow
    /\ member'[m].user = member[m].user
    /\ member'[m].org = member[m].org

\* A row stays, goes, changes its venue only, or its role, or is new; a request
\* that is not outdated by it is about other organizations and other users.
RowKept(q, m) ==
    \/ member'[m] = member[m]
    \/ member'[m] = NoRow
    \/ SameMember(m) /\ member'[m].role = member[m].role
    \/ /\ SameMember(m)
       /\ \/ q.outdated
          \/ q.org # member[m].org /\ (member'[m].role = "OWNER" => member[m].user # q.user)
    \/ /\ member[m] = NoRow
       /\ m # q.row /\ m # q.owner
       /\ q.outdated \/ (q.org # member'[m].org /\ q.user # member'[m].user)

\* A venue that has been created stays its organization's.
VenuesKept ==
    \A v \in Venues : venue[v] # "absent" => venue'[v] # "absent" /\ venueOrg'[v] = venueOrg[v]

\* No call comes to an organization whose calls the request has counted.
CallsKept(q) ==
    q.outdated \/ q.at # "deleteOrg" \/
      \A c \in Calls : call'[c].org = q.org =>
          call[c].org = q.org /\ (call[c].state = "CLOSED" => call'[c].state = "CLOSED")

\* What a request relies on stays true.
LEMMA RequestKept ==
    ASSUME TypeOK, TypeOK', VenuesKept, NEW q \in RequestState, RequestOK(q),
           \A m \in Members : RowKept(q, m), CallsKept(q)
    PROVE  RequestOK(q)'
<1>1. Shape(q)' BY DEF RequestOK, Shape
<1>2. Known(q)'
  <2>1. ASSUME NEW m \in Members, m = q.row \/ m = q.owner, member'[m] # NoRow
        PROVE  member[m] # NoRow /\ member'[m].user = member[m].user /\ member'[m].org = member[m].org
    BY <2>1 DEF RowKept, SameMember
  <2>2. q.row # NoMember => q.row \in Members BY DEF RequestState
  <2>3. q.owner # NoMember => q.owner \in Members BY DEF RequestState
  <2>4. q.venue # NoVenue => q.venue \in Venues BY DEF RequestState
  <2>5. QED BY <2>1, <2>2, <2>3, <2>4 DEF RequestOK, Known, VenuesKept
<1>3. ASSUME ~q.outdated PROVE Stands(q)'
  <2>0. Shape(q) /\ Known(q) /\ Stands(q) BY <1>3 DEF RequestOK
  <2>1. q.at = "bind" => MayLeave(q.user)'
    <3> SUFFICES ASSUME q.at = "bind", NEW m \in Members, member'[m].user = q.user,
                        member'[m].role = "OWNER"
                 PROVE FALSE
      BY DEF MayLeave, Rows
    <3>1. q.user \in Users BY <2>0 DEF Shape
    <3>2. member'[m] # NoRow BY <3>1, NullAssumption DEF NoRow
    <3>3. member[m].user = q.user => member[m].role # "OWNER"
      BY <2>0 DEF Stands, MayLeave, Rows
    <3>4. QED BY <1>3, <3>2, <3>3 DEF RowKept, SameMember
  <2>2. Lowers(q) /\ member'[q.row] # NoRow => member'[q.row].role # "OWNER"
    <3> SUFFICES ASSUME Lowers(q), member'[q.row] # NoRow, member'[q.row].role = "OWNER"
                 PROVE FALSE
      OBVIOUS
    <3>1. q.row \in Members BY <2>0 DEF Lowers, Shape
    <3>2. q.row # NoMember BY <3>1, NullAssumption
    <3>3. RowKept(q, q.row) BY <3>1
    <3>4. QED BY <1>3, <2>0, <3>1, <3>2, <3>3 DEF RowKept, SameMember, Stands, Known
  <2>3. q.at \in {"add", "update"} /\ q.role = "OWNER" => KnowsOwner(q)'
    <3> SUFFICES ASSUME q.at \in {"add", "update"}, q.role = "OWNER" PROVE KnowsOwner(q)'
      OBVIOUS
    <3>1. KnowsOwner(q) /\ q.org \in Orgs BY <2>0 DEF Stands, Shape
    <3>2. Owners(q.org)' \subseteq Owners(q.org)
      <4> SUFFICES ASSUME NEW m \in Members, member'[m].org = q.org, member'[m].role = "OWNER"
                   PROVE  member[m].org = q.org /\ member[m].role = "OWNER"
        BY DEF Owners
      <4>1. member'[m] # NoRow BY <3>1, NullAssumption DEF NoRow
      <4>2. QED BY <1>3, <4>1 DEF RowKept, SameMember
    <3>3. ASSUME NEW m \in Owners(q.org), m = q.row \/ m = q.owner
          PROVE  m \in Owners(q.org)' \/ member'[m] = NoRow
      <4>1. m \in Members /\ member[m].org = q.org /\ member[m].role = "OWNER" BY DEF Owners
      <4>2. QED BY <1>3, <3>3, <4>1, MemberFacts DEF RowKept, SameMember, Owners
    <3>4. ASSUME NEW m \in Members, m = q.row \/ m = q.owner, member[m] = NoRow
          PROVE  member'[m] = NoRow
      BY <3>4 DEF RowKept, SameMember
    <3>5. \A m \in Owners(q.org) : m \in Members /\ m # NoMember BY NullAssumption DEF Owners
    <3>6. /\ q.row # NoMember => q.row \in Members
          /\ q.owner # NoMember => q.owner \in Members
      BY DEF RequestState
    <3>7. QED BY <3>1, <3>2, <3>3, <3>4, <3>5, <3>6 DEF KnowsOwner, Dead
  <2>4. q.at = "deleteOrg" => NoOpenCall(q.org)'
    BY <1>3, <2>0 DEF CallsKept, NoOpenCall, Stands
  <2>5. FoundAll(q)'
    <3> SUFFICES ASSUME q.at \in {"deleteApplications", "deleteUser"}, NEW m \in Members,
                        member'[m].user = q.user
                 PROVE  m = q.row
      BY DEF FoundAll, Rows
    <3>1. q.user \in Users BY <2>0 DEF Shape
    <3>2. member'[m] # NoRow BY <3>1, NullAssumption DEF NoRow
    <3>3. member[m].user = q.user BY <1>3, <3>2 DEF RowKept, SameMember
    <3>4. QED BY <2>0, <3>3 DEF Stands, FoundAll, Rows
  <2>6. QED BY <2>1, <2>2, <2>3, <2>4, <2>5 DEF Stands, Lowers
<1>4. QED BY <1>1, <1>2, <1>3 DEF RequestOK

\* Every request ends, or stays what it was, told or not told that it is outdated.
LEMMA AllRequestsKept ==
    ASSUME TypeOK, TypeOK', RequestsOK, VenuesKept,
           \A r \in Requests :
              \/ request'[r] = Idle
              \/ /\ request'[r] = request[r] \/ request'[r] = [request[r] EXCEPT !.outdated = TRUE]
                 /\ \A m \in Members : RowKept(request'[r], m)
                 /\ CallsKept(request'[r])
    PROVE  RequestsOK'
<1> SUFFICES ASSUME NEW r \in Requests PROVE RequestOK(request[r])'
  BY DEF RequestsOK
<1>1. request[r] \in RequestState /\ RequestOK(request[r]) BY DEF TypeOK, RequestsOK
<1>2. CASE request'[r] = Idle
  BY <1>2, IdleIsOK DEF RequestOK, Shape, Known, Stands, FoundAll, Idle, Lowers
<1>3. CASE request'[r] # Idle
  <2>1. PICK p : p = request'[r] OBVIOUS
  <2>2. p \in RequestState /\ (p = request[r] \/ p = [request[r] EXCEPT !.outdated = TRUE])
    BY <1>1, <1>3, <2>1, OutdatedFacts
  <2>3. RequestOK(p)
    BY <1>1, <2>2, OutdatedFacts DEF RequestOK, Shape, Known
  <2>4. (\A m \in Members : RowKept(p, m)) /\ CallsKept(p)
    <3>1. (\A m \in Members : RowKept(request'[r], m)) /\ CallsKept(request'[r]) BY <1>3
    <3>2. QED BY <2>1, <3>1
  <2>5. RequestOK(p)' BY <2>2, <2>3, <2>4, RequestKept
  <2>6. QED BY <2>1, <2>5
<1>4. QED BY <1>2, <1>3

LEMMA AnswerFacts ==
    ASSUME TypeOK, NEW r \in Requests, Answer(r)
    PROVE  /\ request' \in [Requests -> RequestState]
           /\ \A q \in Requests : request'[q] = IF q = r THEN Idle ELSE request[q]
BY IdleIsOK DEF TypeOK, Answer

\* Who is not told by a commit is about another organization and other users.
LEMMA CommitFacts ==
    ASSUME TypeOK, NEW r \in Requests, NEW o, NEW us, Commit(r, o, us)
    PROVE  /\ request' \in [Requests -> RequestState]
           /\ \A q \in Requests :
                \/ request'[q] = Idle
                \/ request'[q] = [request[q] EXCEPT !.outdated = TRUE]
                \/ request'[q] = request[q] /\ request[q].org # o /\ request[q].user \notin us
<1>1. \A q \in Requests : request[q] \in RequestState BY DEF TypeOK
<1>2. \A q \in Requests : [request[q] EXCEPT !.outdated = TRUE] \in RequestState
  BY <1>1, OutdatedFacts
<1>3. request' \in [Requests -> RequestState]
  BY <1>1, <1>2, IdleIsOK DEF Commit
<1>4. QED BY <1>3 DEF Commit

\* The rows that a commit about organization o and users us may write.
RowsMoved(o, us) ==
    \A m \in Members :
        \/ member'[m] = member[m]
        \/ member'[m] = NoRow
        \/ SameMember(m) /\ member'[m].role = member[m].role
        \/ /\ SameMember(m)
           /\ member[m].org = o
           /\ member'[m].role = "OWNER" => member[m].user \in us
        \/ FreshMember(m) /\ member'[m].org = o /\ member'[m].user \in us

LEMMA CommitKeepsRequests ==
    ASSUME TypeOK, TypeOK', RequestsOK, VenuesKept, UNCHANGED call,
           NEW r \in Requests, NEW o, NEW us, Commit(r, o, us), RowsMoved(o, us)
    PROVE  RequestsOK'
<1> SUFFICES ASSUME NEW q \in Requests, request'[q] # Idle
             PROVE  /\ \/ request'[q] = request[q]
                       \/ request'[q] = [request[q] EXCEPT !.outdated = TRUE]
                    /\ \A m \in Members : RowKept(request'[q], m)
                    /\ CallsKept(request'[q])
  BY AllRequestsKept
<1>1. request[q] \in RequestState BY DEF TypeOK
<1>2. \/ request'[q] = [request[q] EXCEPT !.outdated = TRUE]
      \/ request'[q] = request[q] /\ request[q].org # o /\ request[q].user \notin us
  BY CommitFacts
<1>3. /\ request'[q].row = request[q].row /\ request'[q].owner = request[q].owner
      /\ request'[q].outdated \/ (request'[q].org # o /\ request'[q].user \notin us)
  BY <1>1, <1>2, OutdatedFacts
<1>4. ASSUME NEW m \in Members PROVE RowKept(request'[q], m)
  <2>1. FreshMember(m) => member[m] = NoRow /\ m # request'[q].row /\ m # request'[q].owner
    BY <1>3 DEF FreshMember
  <2>2. QED BY <1>3, <2>1 DEF RowsMoved, RowKept
<1>5. CallsKept(request'[q]) BY DEF CallsKept
<1>6. QED BY <1>2, <1>4, <1>5

\* A request that comes, moves or ends, and writes nothing.
LEMMA MoveKeeps ==
    ASSUME MemInv, NEW r \in Requests, NEW q \in RequestState, RequestOK(q),
           request' = [request EXCEPT ![r] = q],
           q.user \in Users /\ account[q.user] = "deleted" => q.user \in overtaken \/ q.outdated,
           UNCHANGED <<tables, history>>
    PROVE  MemInv'
<1> USE DEF MemInv, tables, history
<1>1. \A p \in Requests : request'[p] = IF p = r THEN q ELSE request[p] BY DEF TypeOK
<1>2. TypeOK' BY <1>1 DEF TypeOK
<1>3. RequestsOK'
  <2> SUFFICES ASSUME NEW p \in Requests PROVE RequestOK(request[p])'
    BY DEF RequestsOK
  <2>1. RequestOK(request'[p]) BY <1>1 DEF RequestsOK
  <2>2. QED
    BY <2>1 DEF RequestOK, Shape, Known, Stands, FoundAll, Lowers, KnowsOwner, Dead, Owners, MayLeave, Rows, NoOpenCall
<1>4. VenueOfOwnOrg' /\ OneOrgPerApplication' /\ OneOwner' /\ PendingHasApplicant'
  BY DEF VenueOfOwnOrg, OneOrgPerApplication, OneOwner, Owners, PendingHasApplicant
<1>5. NothingLeft'
  <2> SUFFICES ASSUME NEW u \in Users \ overtaken, account[u] = "deleted"
               PROVE  \A p \in Requests : request'[p].user = u => request'[p].outdated
    BY DEF NothingLeft, Rows
  <2>1. \A p \in Requests : request[p].user = u => request[p].outdated BY DEF NothingLeft
  <2>2. QED BY <1>1, <2>1
<1>6. QED BY <1>2, <1>3, <1>4, <1>5

LEMMA FailKeeps ==
    ASSUME MemInv, NEW r \in Requests, Fail(r)
    PROVE  MemInv'
<1>1. Idle.user \notin Users BY NullAssumption DEF Idle
<1>2. QED BY <1>1, IdleIsOK, MoveKeeps DEF Fail, Answer

LEMMA ReceiveKeeps ==
    ASSUME MemInv, NEW r \in Requests, NEW q \in RequestState, Receive(r, q), RequestOK(q),
           q.user \in Users => account[q.user] # "deleted" \/ q.user \in overtaken
    PROVE  MemInv'
BY MoveKeeps DEF Receive

LEMMA UserReceivesKeep ==
    ASSUME MemInv, NEW r \in Requests, NEW u \in Users,
           \/ ReceiveFound(r, u) \/ ReceiveBind(r, u) \/ ReceiveApply(r, u) \/ ReceiveDelete(r, u)
           \/ \E v \in Venues \cup {NoVenue} : ReceiveAlarm(r, u, v)
    PROVE  MemInv'
<1>1. ASSUME NEW at \in {"found", "bind", "apply", "deleteRows"}, account[u] = "active",
             at = "bind" => MayLeave(u), Receive(r, [Idle EXCEPT !.at = at, !.user = u])
      PROVE  MemInv'
  <2> DEFINE q == [Idle EXCEPT !.at = at, !.user = u]
  <2>1. q \in RequestState /\ q.user = u BY DEF Idle, RequestState
  <2>2. RequestOK(q) BY <1>1 DEF Idle, RequestOK, Shape, Known, Stands, FoundAll, Lowers
  <2>3. Receive(r, q) BY <1>1
  <2> HIDE DEF q
  <2>4. QED BY <1>1, <2>1, <2>2, <2>3, ReceiveKeeps
<1>2. ASSUME NEW v \in Venues \cup {NoVenue}, ReceiveAlarm(r, u, v) PROVE MemInv'
  <2>1. PICK o \in Orgs \cup {NoOrg} :
          /\ \/ v # NoVenue /\ MayCallFrom(u, v) /\ o = venueOrg[v]
             \/ v = NoVenue /\ o \in PersonalOrgs(u)
          /\ Receive(r, [Idle EXCEPT !.at = "alarm", !.user = u, !.org = o, !.venue = v])
    BY <1>2 DEF ReceiveAlarm
  <2> DEFINE q == [Idle EXCEPT !.at = "alarm", !.user = u, !.org = o, !.venue = v]
  <2>2. q \in RequestState /\ q.user = u BY DEF Idle, RequestState
  <2>3. v # NoVenue => venue[v] # "absent" /\ venueOrg[v] = o BY <2>1 DEF MayCallFrom
  <2>4. RequestOK(q) BY <2>3 DEF Idle, RequestOK, Shape, Known, Stands, FoundAll, Lowers
  <2>5. Receive(r, q) BY <2>1
  <2> HIDE DEF q
  <2>6. account[u] # "deleted" BY <1>2 DEF ReceiveAlarm
  <2>7. QED BY <2>2, <2>4, <2>5, <2>6, ReceiveKeeps
<1>3. QED BY <1>1, <1>2 DEF ReceiveFound, ReceiveBind, ReceiveApply, ReceiveDelete

LEMMA PanelReceivesKeep ==
    ASSUME MemInv, NEW r \in Requests,
           \/ \E o \in Orgs : ReceiveDeleteOrg(r, o)
           \/ \E o \in Orgs, u \in Users, role \in GivenRoles, v \in Venues \cup {NoVenue} :
                ReceiveAdd(r, o, u, role, v)
           \/ \E m \in Members, role \in GivenRoles \cup {"none"}, v \in Venues \cup {NoVenue} :
                ReceiveUpdate(r, m, role, v)
           \/ \E m \in Members : ReceiveRemove(r, m)
           \/ \E a \in Applications : ReceiveApprove(r, a)
    PROVE  MemInv'
<1> USE DEF MemInv
<1>0. \A m \in Members : member[m] # NoRow =>
         /\ member[m].user \in Users /\ member[m].org \in Orgs
         /\ account[member[m].user] # "deleted" \/ member[m].user \in overtaken
  BY MemberFacts DEF NothingLeft, Rows
<1>1. ASSUME NEW o \in Orgs, ReceiveDeleteOrg(r, o) PROVE MemInv'
  <2> DEFINE q == [Idle EXCEPT !.at = "deleteOrg", !.org = o]
  <2>1. q \in RequestState /\ q.user \notin Users BY NullAssumption DEF Idle, RequestState
  <2>2. NoOpenCall(o) /\ Receive(r, q) BY <1>1 DEF ReceiveDeleteOrg
  <2>3. RequestOK(q) BY <2>2 DEF Idle, RequestOK, Shape, Known, Stands, FoundAll, Lowers
  <2> HIDE DEF q
  <2>4. QED BY <2>1, <2>2, <2>3, ReceiveKeeps
<1>2. ASSUME NEW o \in Orgs, NEW u \in Users, NEW role \in GivenRoles, NEW v \in Venues \cup {NoVenue},
             ReceiveAdd(r, o, u, role, v)
      PROVE  MemInv'
  <2> DEFINE q == [Idle EXCEPT !.at = IF role = "OWNER" THEN "findOwner" ELSE "add",
                               !.user = u, !.org = o, !.role = role, !.venue = v]
  <2>1. role \in OrgMemberRole BY RolesAssumption
  <2>2. /\ q \in RequestState
        /\ q.at = (IF role = "OWNER" THEN "findOwner" ELSE "add") /\ q.user = u /\ q.org = o
        /\ q.role = role /\ q.venue = v /\ q.row = NoMember /\ q.owner = NoMember /\ ~q.outdated
    BY <2>1 DEF Idle, RequestState
  <2>3. account[u] = "active" /\ MayBind(v, o) /\ Receive(r, q) BY <1>2 DEF ReceiveAdd
  <2> HIDE DEF q
  <2>4. RequestOK(q)
    BY <2>1, <2>2, <2>3 DEF RequestOK, Shape, Known, Stands, FoundAll, Lowers, MayBind
  <2>5. QED BY <2>2, <2>3, <2>4, ReceiveKeeps
<1>3. ASSUME NEW m \in Members, NEW role \in GivenRoles \cup {"none"}, NEW v \in Venues \cup {NoVenue},
             ReceiveUpdate(r, m, role, v)
      PROVE  MemInv'
  <2> DEFINE at == IF role = "OWNER" /\ member[m].role # "OWNER" THEN "findOwner" ELSE "update"
             q == [Idle EXCEPT !.at = at, !.user = member[m].user, !.org = member[m].org,
                               !.row = m, !.role = role, !.venue = v]
  <2>1. role \in OrgMemberRole \cup {"none"} BY RolesAssumption
  <2>2. /\ member[m] # NoRow /\ MayBind(v, member[m].org) /\ Receive(r, q)
        /\ member[m].role = "OWNER" => role \in {"OWNER", "none"}
    BY <1>3 DEF ReceiveUpdate
  <2>3. member[m].user \in Users /\ member[m].org \in Orgs BY <1>0, <2>2
  <2>4. /\ q \in RequestState
        /\ q.at = at /\ q.user = member[m].user /\ q.org = member[m].org
        /\ q.role = role /\ q.venue = v /\ q.row = m /\ q.owner = NoMember /\ ~q.outdated
    BY <2>1, <2>3 DEF Idle, RequestState
  <2> HIDE DEF q
  <2>5. Shape(q) /\ Known(q)
    BY <2>2, <2>3, <2>4 DEF Shape, Known, MayBind
  <2>6. Stands(q)
    <3>1. at = "update" /\ role = "OWNER" => m \in Owners(member[m].org) BY DEF Owners
    <3>2. QED BY <2>2, <2>4, <3>1 DEF Stands, FoundAll, Lowers, KnowsOwner
  <2>7. QED BY <1>0, <2>2, <2>4, <2>5, <2>6, ReceiveKeeps DEF RequestOK
<1>4. ASSUME NEW m \in Members, ReceiveRemove(r, m) PROVE MemInv'
  <2> DEFINE q == [Idle EXCEPT !.at = "remove", !.row = m,
                               !.user = member[m].user, !.org = member[m].org]
  <2>1. member[m] # NoRow /\ member[m].role # "OWNER" /\ Receive(r, q) BY <1>4 DEF ReceiveRemove
  <2>2. /\ q \in RequestState
        /\ q.at = "remove" /\ q.user = member[m].user /\ q.org = member[m].org
        /\ q.role = "none" /\ q.venue = NoVenue /\ q.row = m /\ q.owner = NoMember
    BY <1>0, <2>1 DEF Idle, RequestState
  <2> HIDE DEF q
  <2>3. RequestOK(q) BY <1>0, <2>1, <2>2 DEF RequestOK, Shape, Known, Stands, FoundAll, Lowers
  <2>4. QED BY <1>0, <2>1, <2>2, <2>3, ReceiveKeeps
<1>5. ASSUME NEW a \in Applications, ReceiveApprove(r, a) PROVE MemInv'
  <2> DEFINE q == [Idle EXCEPT !.at = "approve", !.app = a, !.user = application[a].user]
  <2>1. application[a].status = "PENDING" /\ Receive(r, q) BY <1>5 DEF ReceiveApprove
  <2>2. application[a].user \in Users BY <2>1 DEF PendingHasApplicant
  <2>3. q \in RequestState /\ q.user = application[a].user BY <2>2 DEF Idle, RequestState
  <2>4. RequestOK(q) BY <2>2 DEF Idle, RequestOK, Shape, Known, Stands, FoundAll, Lowers
  <2> HIDE DEF q
  <2>5. QED BY <2>1, <2>2, <2>3, <2>4, ReceiveKeeps DEF NothingLeft
<1>6. QED BY <1>1, <1>2, <1>3, <1>4, <1>5

\* The first half of demoteCurrentOwner writes nothing.
LEMMA FindOwnerKeeps ==
    ASSUME MemInv, NEW r \in Requests, FindOwner(r)
    PROVE  MemInv'
<1> USE DEF MemInv
<1> DEFINE q == request[r]
<1>0. q \in RequestState /\ RequestOK(q) /\ q.at = "findOwner"
  BY DEF TypeOK, RequestsOK, FindOwner, At
<1>1. PICK m \in IF Owners(q.org) = {} THEN {NoMember} ELSE Owners(q.org) :
        request' = [request EXCEPT ![r].at = IF q.row = NoMember THEN "add" ELSE "update",
                                   ![r].owner = m]
  BY DEF FindOwner
<1> DEFINE at == IF q.row = NoMember THEN "add" ELSE "update"
           n == [q EXCEPT !.at = at, !.owner = m]
<1>2. request' = [request EXCEPT ![r] = n] BY <1>1 DEF TypeOK
<1>3. m \in Members \cup {NoMember} /\ at \in {"add", "update"} BY <1>1 DEF Owners
<1> HIDE DEF at, q
<1>4. /\ n \in RequestState
      /\ n.at = at /\ n.owner = m
      /\ n.user = q.user /\ n.org = q.org /\ n.row = q.row /\ n.role = q.role /\ n.venue = q.venue
      /\ n.app = q.app /\ n.outdated = q.outdated
  BY <1>0, <1>3 DEF RequestState
<1> HIDE DEF n
<1>5. Shape(n)
  BY <1>0, <1>3, <1>4 DEF RequestOK, Shape, RequestState, OrgMemberRole, at
<1>6. Known(n)
  <2>1. m # NoMember => member[m].org = q.org BY <1>1 DEF Owners
  <2>2. QED BY <1>0, <1>4, <2>1 DEF RequestOK, Known
<1>7. Stands(n)
  <2>1. KnowsOwner(n) BY <1>1, <1>4 DEF KnowsOwner
  <2>2. n.role = "OWNER" /\ n.at \in {"add", "update"} BY <1>0, <1>3, <1>4 DEF RequestOK, Shape
  <2>3. QED BY <2>1, <2>2 DEF Stands, FoundAll, Lowers
<1>8. n.user \in Users /\ account[n.user] = "deleted" => n.user \in overtaken \/ n.outdated
  BY <1>4 DEF NothingLeft, q
<1>9. UNCHANGED <<tables, history>> BY DEF FindOwner
<1>10. QED BY <1>2, <1>4, <1>5, <1>6, <1>7, <1>8, <1>9, MoveKeeps DEF RequestOK

-----------------------------------------------------------------------------
(* The plain rows.                                                         *)

\* Rows, owners and requests are as they were.
LEMMA RowsStay ==
    ASSUME TypeOK, TypeOK', RequestsOK, VenuesKept, UNCHANGED <<member, request>>,
           \A r \in Requests : CallsKept(request[r])
    PROVE  RequestsOK'
<1> SUFFICES ASSUME NEW r \in Requests
             PROVE  (\A m \in Members : RowKept(request'[r], m)) /\ CallsKept(request'[r])
  BY AllRequestsKept
<1>1. request'[r] = request[r] OBVIOUS
<1>2. QED BY <1>1 DEF RowKept

LEMMA CreateKeeps ==
    ASSUME MemInv,
           \E o \in Orgs : CreateOrganization(o) \/ \E v \in Venues : CreateVenue(v, o)
    PROVE  MemInv'
<1> USE DEF MemInv, history
<1>1. ASSUME NEW o \in Orgs, CreateOrganization(o) PROVE MemInv'
  <2> USE <1>1 DEF CreateOrganization
  <2>1. TypeOK'
    <3>1. org' \in [Orgs -> {"absent", "live", "deleted"}] BY DEF TypeOK
    <3>2. \A x \in Orgs : org[x] = "live" => org'[x] = "live" BY DEF TypeOK
    <3>3. \A v \in Venues : venue[v] = "live" => org'[venueOrg[v]] = "live"
      BY <3>2, NullAssumption DEF TypeOK
    <3>4. \A m \in Members : member[m] # NoRow => org'[member[m].org] = "live"
      BY <3>2, MemberFacts
    <3>5. QED BY <3>1, <3>3, <3>4 DEF TypeOK
  <2>2. RequestsOK' BY <2>1, RowsStay DEF VenuesKept, CallsKept
  <2>3. QED
    BY <2>1, <2>2 DEF VenueOfOwnOrg, OneOrgPerApplication, OneOwner, Owners, NothingLeft, Rows,
                      PendingHasApplicant
<1>2. ASSUME NEW o \in Orgs, NEW v \in Venues, CreateVenue(v, o) PROVE MemInv'
  <2> USE <1>2 DEF CreateVenue
  <2>1. /\ venue' \in [Venues -> {"absent", "live", "deleted"}]
        /\ venueOrg' \in [Venues -> Orgs \cup {NoOrg}]
        /\ \A x \in Venues : x # v => venue'[x] = venue[x] /\ venueOrg'[x] = venueOrg[x]
        /\ venue'[v] = "live" /\ venueOrg'[v] = o
    BY DEF TypeOK
  <2>2. TypeOK' BY <2>1, NullAssumption DEF TypeOK
  <2>3. VenuesKept BY <2>1 DEF VenuesKept
  <2>4. RequestsOK' BY <2>2, <2>3, RowsStay DEF CallsKept
  <2>5. VenueOfOwnOrg' BY <2>1 DEF VenueOfOwnOrg
  <2>6. QED
    BY <2>2, <2>4, <2>5 DEF OneOrgPerApplication, OneOwner, Owners, NothingLeft, Rows, PendingHasApplicant
<1>3. QED BY <1>1, <1>2

\* Venues that go are taken out of rows and calls; nothing else of those changes.
LEMMA MemberUnbound ==
    ASSUME NEW vs \in SUBSET Venues, NEW f, f \in [Members -> MemberRow \cup {NoRow}],
           NEW g, g = Unbind(vs, f)
    PROVE  /\ g \in [Members -> MemberRow \cup {NoRow}]
           /\ \A m \in Members :
                /\ g[m] = NoRow <=> f[m] = NoRow
                /\ g[m].user = f[m].user /\ g[m].org = f[m].org /\ g[m].role = f[m].role
                /\ g[m].venue = IF f[m].venue \in vs THEN NoVenue ELSE f[m].venue
<1>1. g = [m \in Members |-> IF f[m].venue \in vs THEN [f[m] EXCEPT !.venue = NoVenue] ELSE f[m]]
  BY DEF Unbind
<1>2. ASSUME NEW m \in Members
      PROVE  /\ g[m] \in MemberRow \cup {NoRow}
             /\ g[m] = NoRow <=> f[m] = NoRow
             /\ g[m].user = f[m].user /\ g[m].org = f[m].org /\ g[m].role = f[m].role
             /\ g[m].venue = IF f[m].venue \in vs THEN NoVenue ELSE f[m].venue
  <2>1. CASE f[m].venue \in vs
    <3>1. f[m] \in MemberRow /\ f[m] # NoRow BY <2>1, RowFacts
    <3>2. g[m] = [f[m] EXCEPT !.venue = NoVenue] BY <1>1, <2>1
    <3>3. /\ g[m] \in MemberRow /\ g[m].user = f[m].user /\ g[m].org = f[m].org
          /\ g[m].role = f[m].role /\ g[m].venue = NoVenue
      BY <3>1, <3>2 DEF MemberRow
    <3>4. g[m] # NoRow BY <3>3, RowFacts
    <3>5. QED BY <2>1, <3>1, <3>3, <3>4
  <2>2. CASE f[m].venue \notin vs
    BY <1>1, <2>2
  <2>3. QED BY <2>1, <2>2
<1>3. QED BY <1>1, <1>2

CallRow == [state : {"ABSENT", "OPEN", "CLOSED"}, org : Orgs \cup {NoOrg}, venue : Venues \cup {NoVenue}]

LEMMA CallUnbound ==
    ASSUME NEW vs \in SUBSET Venues, NEW f, f \in [Calls -> CallRow], NEW g, g = Unbind(vs, f)
    PROVE  /\ g \in [Calls -> CallRow]
           /\ \A c \in Calls :
                /\ g[c].state = f[c].state /\ g[c].org = f[c].org
                /\ g[c].venue = IF f[c].venue \in vs THEN NoVenue ELSE f[c].venue
<1>1. g = [c \in Calls |-> IF f[c].venue \in vs THEN [f[c] EXCEPT !.venue = NoVenue] ELSE f[c]]
  BY DEF Unbind
<1>2. ASSUME NEW c \in Calls
      PROVE  /\ g[c] \in CallRow
             /\ g[c].state = f[c].state /\ g[c].org = f[c].org
             /\ g[c].venue = IF f[c].venue \in vs THEN NoVenue ELSE f[c].venue
  <2>1. f[c] \in CallRow OBVIOUS
  <2>2. CASE f[c].venue \in vs
    <3>1. g[c] = [f[c] EXCEPT !.venue = NoVenue] BY <1>1, <2>2
    <3>2. QED BY <2>1, <2>2, <3>1 DEF CallRow
  <2>3. CASE f[c].venue \notin vs BY <1>1, <2>1, <2>3
  <2>4. QED BY <2>2, <2>3
<1>3. QED BY <1>1, <1>2

\* An owner stays (OwnerStays as a predicate on steps).
OwnersKept ==
    \A o \in Orgs :
        Owners(o) # {} /\ org'[o] = "live" /\ o \notin disordered' => Owners(o)' # {}

\* So does an open call's organization (OpenCallKeepsOrg as a predicate on steps).
CallsPlaced ==
    \A c \in Calls :
        call[c].state = "OPEN" /\ call'[c].org # call[c].org =>
            \E r \in Requests : At(r, "deleteOrg") /\ request[r].outdated

\* Rows go or lose their venue, and nothing else.
RowsShrink ==
    /\ member' \in [Members -> MemberRow \cup {NoRow}]
    /\ \A m \in Members :
         \/ member'[m] = NoRow
         \/ /\ member'[m].user = member[m].user
            /\ member'[m].org = member[m].org
            /\ member'[m].role = member[m].role

LEMMA ShrinkFacts ==
    ASSUME TypeOK, RowsShrink
    PROVE  /\ \A m \in Members : member'[m] # NoRow => SameMember(m) /\ member'[m].role = member[m].role
           /\ \A m, n \in Members : member'[m] # NoRow /\ member'[m].user = member'[n].user => m = n
           /\ \A u \in Users : Rows(u)' \subseteq Rows(u)
           /\ \A o \in Orgs : Owners(o)' \subseteq Owners(o)
<1>1. ASSUME NEW m \in Members, member'[m] # NoRow
      PROVE  SameMember(m) /\ member'[m].role = member[m].role /\ member'[m].user \in Users
  <2>1. member'[m] \in MemberRow \cup {NoRow} BY DEF RowsShrink
  <2>2. member'[m].user \in Users BY <1>1, <2>1, RowFacts
  <2>3. member'[m].user = member[m].user BY <1>1 DEF RowsShrink
  <2>4. member[m] # NoRow BY <2>2, <2>3, MemberFacts
  <2>5. QED BY <1>1, <2>2, <2>4 DEF SameMember, RowsShrink
<1>2. ASSUME NEW m \in Members, member'[m].user \in Users \/ member'[m].org \in Orgs
      PROVE  member'[m] # NoRow
  BY <1>2, NullAssumption DEF NoRow
<1>3. ASSUME NEW m \in Members, NEW n \in Members, member'[m] # NoRow, member'[m].user = member'[n].user
      PROVE  m = n
  <2>1. member'[n] # NoRow BY <1>1, <1>2, <1>3
  <2>2. QED BY <1>1, <1>3, <2>1 DEF SameMember, TypeOK
<1>4. ASSUME NEW u \in Users, NEW m \in Rows(u)' PROVE m \in Rows(u)
  <2>1. m \in Members /\ member'[m].user = u BY DEF Rows
  <2>2. SameMember(m) BY <1>1, <1>2, <2>1
  <2>3. QED BY <2>1, <2>2 DEF Rows, SameMember
<1>5. ASSUME NEW o \in Orgs, NEW m \in Owners(o)' PROVE m \in Owners(o)
  <2>1. m \in Members /\ member'[m].org = o /\ member'[m].role = "OWNER" BY DEF Owners
  <2>2. SameMember(m) /\ member'[m].role = member[m].role BY <1>1, <1>2, <2>1
  <2>3. QED BY <2>1, <2>2 DEF Owners, SameMember
<1>6. QED BY <1>1, <1>3, <1>4, <1>5

\* One owner stays one when no owner comes.
LEMMA OneOwnerKept ==
    ASSUME TypeOK, OneOwner,
           \A o \in Orgs : o \notin disordered' =>
              (o \notin disordered /\ Owners(o)' \subseteq Owners(o)) \/ \A m, n \in Owners(o)' : m = n
    PROVE  OneOwner'
BY DEF OneOwner

LEMMA DeleteVenueKeeps ==
    ASSUME MemInv, NEW v \in Venues, DeleteVenue(v)
    PROVE  MemInv' /\ OwnersKept /\ CallsPlaced
<1> USE DEF MemInv, history
<1>1. /\ venue[v] = "live" /\ venue' = [venue EXCEPT ![v] = "deleted"]
      /\ member' = Unbind({v}, member) /\ call' = Unbind({v}, call)
      /\ UNCHANGED <<account, org, venueOrg, application, request, history>>
  BY DEF DeleteVenue
<1>2. /\ member' \in [Members -> MemberRow \cup {NoRow}]
      /\ \A m \in Members :
           /\ member'[m] = NoRow <=> member[m] = NoRow
           /\ member'[m].user = member[m].user /\ member'[m].org = member[m].org
           /\ member'[m].role = member[m].role
           /\ member'[m].venue = IF member[m].venue \in {v} THEN NoVenue ELSE member[m].venue
  <2>1. {v} \in SUBSET Venues /\ member \in [Members -> MemberRow \cup {NoRow}] BY DEF TypeOK
  <2>2. QED BY <1>1, <2>1, MemberUnbound
<1>3. /\ call' \in [Calls -> CallRow]
      /\ \A c \in Calls :
           /\ call'[c].state = call[c].state /\ call'[c].org = call[c].org
           /\ call'[c].venue = IF call[c].venue \in {v} THEN NoVenue ELSE call[c].venue
  <2>1. {v} \in SUBSET Venues /\ call \in [Calls -> CallRow] BY DEF TypeOK, CallRow
  <2>2. QED BY <1>1, <2>1, CallUnbound
<1>4. /\ venue' \in [Venues -> {"absent", "live", "deleted"}]
      /\ \A x \in Venues : venue'[x] = IF x = v THEN "deleted" ELSE venue[x]
  BY <1>1 DEF TypeOK
<1>. RowsShrink BY <1>2 DEF RowsShrink
<1>5. TypeOK'
  <2>1. \A x \in Venues : venue'[x] = "live" => venueOrg'[x] # NoOrg /\ org'[venueOrg'[x]] = "live"
    BY <1>1, <1>4 DEF TypeOK
  <2>2. \A m \in Members : member'[m] # NoRow => org'[member'[m].org] = "live"
    BY <1>1, <1>2, MemberFacts
  <2>3. QED BY <1>1, <1>2, <1>3, <1>4, <2>1, <2>2, ShrinkFacts DEF TypeOK, CallRow
<1>6. RequestsOK'
  <2>1. VenuesKept BY <1>1, <1>4 DEF VenuesKept
  <2>2. ASSUME NEW r \in Requests
        PROVE  /\ request'[r] = request[r]
               /\ \A m \in Members : RowKept(request'[r], m)
               /\ CallsKept(request'[r])
    BY <1>1, <1>2, <1>3 DEF RowKept, SameMember, CallsKept
  <2>3. QED BY <1>5, <2>1, <2>2, AllRequestsKept
<1>7. VenueOfOwnOrg'
  <2>1. ASSUME NEW x \in Venues, NEW m \in Members, member'[m].venue = x
        PROVE  x # v /\ member[m].venue = x /\ member'[m].org = member[m].org
    BY <1>2, <2>1, NullAssumption
  <2>2. ASSUME NEW x \in Venues, NEW c \in Calls, call'[c].venue = x
        PROVE  x # v /\ call[c].venue = x /\ call'[c].org = call[c].org
    BY <1>3, <2>2, NullAssumption
  <2>3. \A x \in Venues : x # v => venue'[x] = venue[x] /\ venueOrg'[x] = venueOrg[x]
    BY <1>1, <1>4
  <2>4. ASSUME NEW x \in Venues, NEW m \in Members, member'[m].venue = x
        PROVE  venue'[x] = "live" /\ venueOrg'[x] = member'[m].org
    BY <2>1, <2>3, <2>4 DEF VenueOfOwnOrg
  <2>5. ASSUME NEW x \in Venues, NEW c \in Calls, call'[c].venue = x
        PROVE  venue'[x] = "live" /\ venueOrg'[x] = call'[c].org
    BY <2>2, <2>3, <2>5 DEF VenueOfOwnOrg
  <2>6. QED BY <2>4, <2>5 DEF VenueOfOwnOrg
<1>8. OneOwner' BY <1>1, OneOwnerKept, ShrinkFacts
<1>9. NothingLeft' BY <1>1, ShrinkFacts DEF NothingLeft
<1>10. OwnersKept /\ CallsPlaced
  BY <1>2, <1>3 DEF OwnersKept, Owners, CallsPlaced
<1>11. QED BY <1>1, <1>5, <1>6, <1>7, <1>8, <1>9, <1>10 DEF OneOrgPerApplication, PendingHasApplicant

LEMMA DeleteOrgKeeps ==
    ASSUME MemInv, NEW r \in Requests, CommitDeleteOrg(r)
    PROVE  MemInv' /\ OwnersKept /\ CallsPlaced
<1> USE DEF MemInv
<1>0. PICK o : o = request[r].org OBVIOUS
<1> DEFINE vs == {v \in Venues : venue[v] = "live" /\ venueOrg[v] = o}
           kept == [m \in Members |-> IF member[m].org = o THEN NoRow ELSE member[m]]
           calls == [c \in Calls |-> IF call[c].org = o THEN [call[c] EXCEPT !.org = NoOrg] ELSE call[c]]
<1>1. /\ At(r, "deleteOrg") /\ org[o] = "live" /\ org' = [org EXCEPT ![o] = "deleted"]
      /\ venue' = [v \in Venues |-> IF v \in vs THEN "deleted" ELSE venue[v]]
      /\ member' = Unbind(vs, kept) /\ call' = Unbind(vs, calls)
      /\ application' = [a \in Applications |->
                           IF application[a].org = o THEN [application[a] EXCEPT !.org = NoOrg]
                           ELSE application[a]]
      /\ origin' = [origin EXCEPT ![o] = NoApplication]
      /\ disordered' = disordered \ {o}
      /\ Answer(r)
      /\ UNCHANGED <<account, venueOrg, overtaken>>
  BY <1>0 DEF CommitDeleteOrg
<1>2. o \in Orgs /\ o # NoOrg
  BY <1>0, <1>1, NullAssumption DEF RequestsOK, RequestOK, Shape, At
<1>3. /\ member' \in [Members -> MemberRow \cup {NoRow}]
      /\ \A m \in Members :
           /\ member[m].org = o => member'[m] = NoRow
           /\ member[m].org # o =>
                /\ member'[m] = NoRow <=> member[m] = NoRow
                /\ member'[m].user = member[m].user /\ member'[m].org = member[m].org
                /\ member'[m].role = member[m].role
                /\ member'[m].venue = IF member[m].venue \in vs THEN NoVenue ELSE member[m].venue
  <2>1. vs \in SUBSET Venues /\ kept \in [Members -> MemberRow \cup {NoRow}] BY DEF TypeOK
  <2>2. \A m \in Members : kept[m] = IF member[m].org = o THEN NoRow ELSE member[m] OBVIOUS
  <2>3. member' = Unbind(vs, kept) BY <1>1
  <2> HIDE DEF vs, kept
  <2>4. /\ member' \in [Members -> MemberRow \cup {NoRow}]
        /\ \A m \in Members :
             /\ member'[m] = NoRow <=> kept[m] = NoRow
             /\ member'[m].user = kept[m].user /\ member'[m].org = kept[m].org
             /\ member'[m].role = kept[m].role
             /\ member'[m].venue = IF kept[m].venue \in vs THEN NoVenue ELSE kept[m].venue
    BY <2>1, <2>3, MemberUnbound
  <2>5. QED BY <2>2, <2>4
<1>. RowsShrink BY <1>3 DEF RowsShrink
<1>4. /\ call' \in [Calls -> CallRow]
      /\ \A c \in Calls :
           /\ call'[c].state = call[c].state
           /\ call'[c].org = IF call[c].org = o THEN NoOrg ELSE call[c].org
           /\ call'[c].venue = IF call[c].venue \in vs THEN NoVenue ELSE call[c].venue
  <2>1. \A c \in Calls : call[c] \in CallRow BY DEF TypeOK, CallRow
  <2>2. /\ calls \in [Calls -> CallRow]
        /\ \A c \in Calls : /\ calls[c].state = call[c].state /\ calls[c].venue = call[c].venue
                            /\ calls[c].org = IF call[c].org = o THEN NoOrg ELSE call[c].org
    BY <2>1 DEF CallRow
  <2>3. vs \in SUBSET Venues OBVIOUS
  <2>4. call' = Unbind(vs, calls) BY <1>1
  <2> HIDE DEF vs, calls
  <2>5. /\ call' \in [Calls -> CallRow]
        /\ \A c \in Calls :
             /\ call'[c].state = calls[c].state /\ call'[c].org = calls[c].org
             /\ call'[c].venue = IF calls[c].venue \in vs THEN NoVenue ELSE calls[c].venue
    <3>1. calls \in [Calls -> CallRow] BY <2>2
    <3>2. QED BY <2>3, <2>4, <3>1, CallUnbound
  <2>6. QED BY <2>2, <2>5
<1>5. /\ application' \in [Applications -> [status : {"ABSENT", "PENDING", "APPROVED", "REJECTED"},
                                            user : Users \cup {NoUser}, org : Orgs \cup {NoOrg}]]
      /\ \A a \in Applications :
           /\ application'[a].status = application[a].status
           /\ application'[a].user = application[a].user
           /\ application'[a].org = IF application[a].org = o THEN NoOrg ELSE application[a].org
  <2>1. \A a \in Applications :
           application[a] \in [status : {"ABSENT", "PENDING", "APPROVED", "REJECTED"},
                               user : Users \cup {NoUser}, org : Orgs \cup {NoOrg}]
    BY DEF TypeOK
  <2>2. \A a \in Applications :
           application'[a] = IF application[a].org = o THEN [application[a] EXCEPT !.org = NoOrg]
                             ELSE application[a]
    BY <1>1
  <2>3. DOMAIN application' = Applications /\ application' = [a \in Applications |-> application'[a]]
    BY <1>1
  <2>4. QED BY <2>1, <2>2, <2>3
<1>6. /\ org' \in [Orgs -> {"absent", "live", "deleted"}]
      /\ \A x \in Orgs : org'[x] = IF x = o THEN "deleted" ELSE org[x]
      /\ venue' \in [Venues -> {"absent", "live", "deleted"}]
      /\ \A v \in Venues : venue'[v] = IF v \in vs THEN "deleted" ELSE venue[v]
      /\ origin' \in [Orgs -> Applications \cup {NoApplication}]
      /\ \A x \in Orgs : origin'[x] = IF x = o THEN NoApplication ELSE origin[x]
  BY <1>1, <1>2 DEF TypeOK
<1>7. /\ request' \in [Requests -> RequestState]
      /\ \A q \in Requests : request'[q] = IF q = r THEN Idle ELSE request[q]
  BY <1>1, AnswerFacts
<1>8. \A v \in Venues : venue'[v] = "live" => venue[v] = "live" /\ venueOrg[v] # o
  BY <1>6
<1>9. \A v \in Venues : venue[v] = "live" /\ venueOrg[v] # o => venue'[v] = "live"
  BY <1>6
<1>10. TypeOK'
  <2>1. \A v \in Venues : venue'[v] = "live" => venueOrg[v] # NoOrg /\ org'[venueOrg[v]] = "live"
    BY <1>6, <1>8 DEF TypeOK
  <2>2. \A m \in Members : member'[m] # NoRow => org'[member'[m].org] = "live"
    BY <1>3, <1>6, MemberFacts
  <2>3. \A m, n \in Members : member'[m] # NoRow /\ member'[m].user = member'[n].user => m = n
    BY ShrinkFacts
  <2>4. member' \in [Members -> MemberRow \cup {NoRow}] BY <1>3
  <2>5. /\ call' \in [Calls -> CallRow]
        /\ application' \in [Applications -> [status : {"ABSENT", "PENDING", "APPROVED", "REJECTED"},
                                              user : Users \cup {NoUser}, org : Orgs \cup {NoOrg}]]
    BY <1>4, <1>5
  <2>6. /\ account' \in [Users -> {"active", "deleted"}]
        /\ org' \in [Orgs -> {"absent", "live", "deleted"}]
        /\ venue' \in [Venues -> {"absent", "live", "deleted"}]
        /\ venueOrg' \in [Venues -> Orgs \cup {NoOrg}]
        /\ origin' \in [Orgs -> Applications \cup {NoApplication}]
        /\ disordered' \subseteq Orgs /\ overtaken' \subseteq Users
    BY <1>1, <1>6 DEF TypeOK
  <2>7. request' \in [Requests -> RequestState] BY <1>7
  <2>8. \A v \in Venues : venue'[v] = "live" => venueOrg'[v] # NoOrg /\ org'[venueOrg'[v]] = "live"
    BY <1>1, <2>1
  <2>9. QED BY <2>2, <2>3, <2>4, <2>5, <2>6, <2>7, <2>8 DEF TypeOK, CallRow
<1> HIDE DEF vs
<1>11. RequestsOK'
  <2>1. VenuesKept BY <1>1, <1>6 DEF VenuesKept
  <2>2. ASSUME NEW q \in Requests, request'[q] # Idle
        PROVE  /\ request'[q] = request[q]
               /\ \A m \in Members : RowKept(request'[q], m)
               /\ CallsKept(request'[q])
    <3>1. request'[q] = request[q] BY <1>7, <2>2
    <3>2. \A m \in Members : RowKept(request'[q], m) BY <1>3 DEF RowKept, SameMember
    <3>3. request[q].at = "deleteOrg" => request[q].org # NoOrg
      BY NullAssumption DEF RequestsOK, RequestOK, Shape
    <3>4. CallsKept(request'[q]) BY <1>4, <3>1, <3>3 DEF CallsKept
    <3>5. QED BY <3>1, <3>2, <3>4
  <2>3. QED BY <1>10, <2>1, <2>2, AllRequestsKept
<1>12. VenueOfOwnOrg'
  <2>1. ASSUME NEW v \in Venues, NEW m \in Members, member'[m].venue = v
        PROVE  venue'[v] = "live" /\ venueOrg[v] = member'[m].org
    <3>1. member'[m] # NoRow
      <4>1. member'[m] \in MemberRow \cup {NoRow} BY <1>3
      <4>2. QED BY <2>1, <4>1, RowFacts
    <3>2. /\ member[m].org # o /\ member[m].venue = v /\ member'[m].org = member[m].org
      BY <1>3, <2>1, <3>1, NullAssumption
    <3>3. QED BY <1>9, <3>2 DEF VenueOfOwnOrg
  <2>2. ASSUME NEW v \in Venues, NEW c \in Calls, call'[c].venue = v
        PROVE  venue'[v] = "live" /\ venueOrg[v] = call'[c].org
    <3>1. call[c].venue = v /\ v \notin vs BY <1>4, <2>2, NullAssumption
    <3>2. venue[v] = "live" /\ venueOrg[v] = call[c].org BY <3>1 DEF VenueOfOwnOrg
    <3>3. call[c].org # o BY <3>1, <3>2 DEF vs
    <3>4. QED BY <1>4, <1>9, <3>2, <3>3
  <2>3. QED BY <1>1, <2>1, <2>2 DEF VenueOfOwnOrg
<1>13. OneOrgPerApplication'
  BY <1>5, <1>6 DEF OneOrgPerApplication, TypeOK
<1>14. OneOwner'
  <2>1. Owners(o)' = {}
    BY <1>2, <1>3, NullAssumption DEF Owners, NoRow
  <2>2. QED BY <1>1, <2>1, OneOwnerKept, ShrinkFacts
<1>15. NothingLeft'
  <2>1. \A u \in Users : Idle.user # u BY NullAssumption DEF Idle
  <2>2. QED BY <1>1, <1>5, <1>7, <2>1, ShrinkFacts DEF NothingLeft
<1>16. PendingHasApplicant' BY <1>5 DEF PendingHasApplicant
<1>17. OwnersKept
  <2>1. ASSUME NEW x \in Orgs, x # o, NEW m \in Owners(x) PROVE m \in Owners(x)'
    BY <1>3, <2>1 DEF Owners
  <2>2. QED BY <1>6, <2>1 DEF OwnersKept
<1>18. CallsPlaced
  <2>1. request[r].outdated \/ NoOpenCall(o)
    BY <1>0, <1>1 DEF RequestsOK, RequestOK, Stands, At
  <2>2. QED BY <1>1, <1>4, <2>1 DEF CallsPlaced, NoOpenCall
<1>19. QED BY <1>10, <1>11, <1>12, <1>13, <1>14, <1>15, <1>16, <1>17, <1>18

LEMMA PlainKeeps ==
    ASSUME MemInv,
           (\E a \in Applications : RejectApplication(a)) \/ \E c \in Calls : CloseCall(c)
    PROVE  MemInv'
<1> USE DEF MemInv, history
<1>1. ASSUME NEW a \in Applications, RejectApplication(a) PROVE MemInv'
  <2> USE <1>1 DEF RejectApplication
  <2>1. /\ application' \in [Applications -> [status : {"ABSENT", "PENDING", "APPROVED", "REJECTED"},
                                              user : Users \cup {NoUser}, org : Orgs \cup {NoOrg}]]
        /\ \A b \in Applications :
             /\ application'[b].user = application[b].user /\ application'[b].org = application[b].org
             /\ application'[b].status = IF b = a THEN "REJECTED" ELSE application[b].status
    BY DEF TypeOK
  <2>2. TypeOK' BY <2>1 DEF TypeOK
  <2>3. RequestsOK' BY <2>2, RowsStay DEF VenuesKept, CallsKept
  <2>4. OneOrgPerApplication' BY <2>1 DEF OneOrgPerApplication, TypeOK
  <2>5. NothingLeft' /\ PendingHasApplicant' BY <2>1 DEF NothingLeft, Rows, PendingHasApplicant
  <2>6. QED BY <2>2, <2>3, <2>4, <2>5 DEF VenueOfOwnOrg, OneOwner, Owners
<1>2. ASSUME NEW c \in Calls, CloseCall(c) PROVE MemInv'
  <2> USE <1>2 DEF CloseCall
  <2>1. /\ call' \in [Calls -> CallRow]
        /\ \A x \in Calls : /\ call'[x].org = call[x].org /\ call'[x].venue = call[x].venue
                            /\ call'[x].state = IF x = c THEN "CLOSED" ELSE call[x].state
    BY DEF TypeOK, CallRow
  <2>2. TypeOK' BY <2>1 DEF TypeOK, CallRow
  <2>3. RequestsOK' BY <2>1, <2>2, RowsStay DEF VenuesKept, CallsKept
  <2>4. VenueOfOwnOrg' BY <2>1 DEF VenueOfOwnOrg
  <2>5. QED
    BY <2>2, <2>3, <2>4 DEF OneOrgPerApplication, OneOwner, Owners, NothingLeft, Rows, PendingHasApplicant
<1>3. QED BY <1>1, <1>2

\* An outdated request that writes for a deleted account is noted.
LEMMA OvertakeFacts ==
    ASSUME MemInv, NEW r \in Requests, Overtake(r), UNCHANGED account
    PROVE  /\ overtaken \subseteq overtaken'
           /\ request[r].user \in Users => overtaken' \subseteq Users
           /\ \A u \in Users : u \notin overtaken' /\ account[u] = "deleted" =>
                 u \notin overtaken /\ request[r].user # u
<1>1. overtaken \subseteq overtaken' BY DEF Overtake
<1>2. request[r].user \in Users => overtaken' \subseteq Users BY DEF Overtake, MemInv, TypeOK
<1>3. ASSUME NEW u \in Users, u \notin overtaken', account[u] = "deleted"
      PROVE  u \notin overtaken /\ request[r].user # u
  <2>1. u \notin overtaken BY <1>1, <1>3
  <2>2. request[r].user = u => request[r].outdated BY <1>3, <2>1 DEF MemInv, NothingLeft
  <2>3. QED BY <1>3, <2>1, <2>2 DEF Overtake
<1>4. QED BY <1>1, <1>2, <1>3

LEMMA ApplyKeeps ==
    ASSUME MemInv, NEW r \in Requests, NEW a \in Applications, CommitApply(r, a)
    PROVE  MemInv'
<1> USE DEF MemInv
<1>1. /\ At(r, "apply") /\ application[a].status = "ABSENT" /\ Answer(r) /\ Overtake(r)
      /\ application' = [application EXCEPT ![a].status = "PENDING", ![a].user = request[r].user]
      /\ UNCHANGED <<account, org, venue, venueOrg, member, call, origin, disordered>>
  BY DEF CommitApply, FreshApplication
<1>2. request[r].user \in Users
  BY <1>1 DEF RequestsOK, RequestOK, Shape, At
<1>3. /\ application' \in [Applications -> [status : {"ABSENT", "PENDING", "APPROVED", "REJECTED"},
                                            user : Users \cup {NoUser}, org : Orgs \cup {NoOrg}]]
      /\ application'[a].status = "PENDING" /\ application'[a].user = request[r].user
      /\ \A b \in Applications : b # a => application'[b] = application[b]
  <2> DEFINE n == [application[a] EXCEPT !.status = "PENDING", !.user = request[r].user]
             S == [status : {"ABSENT", "PENDING", "APPROVED", "REJECTED"},
                   user : Users \cup {NoUser}, org : Orgs \cup {NoOrg}]
  <2>1. application \in [Applications -> S] BY DEF TypeOK
  <2>2. application' = [application EXCEPT ![a] = n] BY <1>1, <2>1
  <2>3. n \in S /\ n.status = "PENDING" /\ n.user = request[r].user BY <1>2, <2>1
  <2> HIDE DEF n, S
  <2>4. application' \in [Applications -> S] /\ application'[a] = n
        /\ \A b \in Applications : b # a => application'[b] = application[b]
    BY <2>1, <2>2, <2>3
  <2>5. QED BY <2>3, <2>4 DEF S
<1>4. /\ request' \in [Requests -> RequestState]
      /\ \A q \in Requests : request'[q] = IF q = r THEN Idle ELSE request[q]
  BY <1>1, AnswerFacts
<1>5. /\ overtaken \subseteq overtaken' /\ overtaken' \subseteq Users
      /\ \A u \in Users : u \notin overtaken' /\ account[u] = "deleted" =>
            u \notin overtaken /\ request[r].user # u
  BY <1>1, <1>2, OvertakeFacts
<1>6. TypeOK' BY <1>1, <1>3, <1>4, <1>5 DEF TypeOK
<1>7. RequestsOK'
  <2>1. VenuesKept BY <1>1 DEF VenuesKept
  <2>2. ASSUME NEW q \in Requests, request'[q] # Idle
        PROVE  /\ request'[q] = request[q]
               /\ \A m \in Members : RowKept(request'[q], m)
               /\ CallsKept(request'[q])
    BY <1>1, <1>4, <2>2 DEF RowKept, CallsKept
  <2>3. QED BY <1>6, <2>1, <2>2, AllRequestsKept
<1>8. OneOrgPerApplication' BY <1>1, <1>3 DEF OneOrgPerApplication, TypeOK
<1>9. NothingLeft'
  <2> SUFFICES ASSUME NEW u \in Users, u \notin overtaken', account[u] = "deleted"
               PROVE  /\ Rows(u)' = {}
                      /\ \A b \in Applications : application'[b].user = u => application'[b].status # "PENDING"
                      /\ \A q \in Requests : request'[q].user = u => request'[q].outdated
    BY <1>1 DEF NothingLeft
  <2>1. u \in Users \ overtaken /\ request[r].user # u BY <1>5
  <2>2. /\ Rows(u) = {}
        /\ \A b \in Applications : application[b].user = u => application[b].status # "PENDING"
        /\ \A q \in Requests : request[q].user = u => request[q].outdated
    BY <2>1 DEF NothingLeft
  <2>3. Idle.user # u BY NullAssumption DEF Idle
  <2>4. QED BY <1>1, <1>3, <1>4, <2>1, <2>2, <2>3 DEF Rows
<1>10. PendingHasApplicant' BY <1>2, <1>3 DEF PendingHasApplicant
<1>11. VenueOfOwnOrg' /\ OneOwner' BY <1>1 DEF VenueOfOwnOrg, OneOwner, Owners
<1>12. QED BY <1>6, <1>7, <1>8, <1>9, <1>10, <1>11

\* A new call's venue is its organization's, as it was when the request came.
LEMMA AlarmKeeps ==
    ASSUME MemInv, NEW r \in Requests, NEW c \in Calls, CommitAlarm(r, c)
    PROVE  MemInv'
<1> USE DEF MemInv
<1>0. PICK o : o = request[r].org OBVIOUS
<1>1. /\ call[c].state = "ABSENT" /\ VenueExists(request[r].venue)
      /\ call' = [call EXCEPT ![c] = [state |-> "OPEN", org |-> o, venue |-> request[r].venue]]
      /\ request' = [q \in Requests |->
                       IF q = r THEN Idle
                       ELSE IF At(q, "deleteOrg") /\ request[q].org = o
                            THEN [request[q] EXCEPT !.outdated = TRUE]
                            ELSE request[q]]
      /\ UNCHANGED <<account, org, venue, venueOrg, member, application, history>>
  BY <1>0 DEF CommitAlarm
<1>2. request[r] \in RequestState /\ RequestOK(request[r]) BY DEF TypeOK, RequestsOK
<1>3. /\ call' \in [Calls -> CallRow]
      /\ call'[c].org = o /\ call'[c].venue = request[r].venue
      /\ \A x \in Calls : x # c => call'[x] = call[x]
  <2>1. o \in Orgs \cup {NoOrg} /\ request[r].venue \in Venues \cup {NoVenue}
    BY <1>0, <1>2 DEF RequestState
  <2>2. [state |-> "OPEN", org |-> o, venue |-> request[r].venue] \in CallRow BY <2>1 DEF CallRow
  <2>3. call \in [Calls -> CallRow] BY DEF TypeOK, CallRow
  <2>4. QED BY <1>1, <2>2, <2>3
<1>4. \A q \in Requests : request[q] \in RequestState /\ [request[q] EXCEPT !.outdated = TRUE] \in RequestState
  BY OutdatedFacts DEF TypeOK
<1>5. request' \in [Requests -> RequestState]
  BY <1>1, <1>4, IdleIsOK
<1>6. TypeOK' BY <1>1, <1>3, <1>5 DEF TypeOK, CallRow, history
<1>7. RequestsOK'
  <2>1. VenuesKept BY <1>1 DEF VenuesKept
  <2>2. ASSUME NEW q \in Requests, request'[q] # Idle
        PROVE  /\ \/ request'[q] = request[q]
                  \/ request'[q] = [request[q] EXCEPT !.outdated = TRUE]
               /\ \A m \in Members : RowKept(request'[q], m)
               /\ CallsKept(request'[q])
    <3>1. \/ request'[q] = request[q] /\ (request[q].at = "deleteOrg" => request[q].org # o)
          \/ request'[q] = [request[q] EXCEPT !.outdated = TRUE]
      BY <1>1, <2>2 DEF At
    <3>2. \/ request'[q].outdated
          \/ request'[q].at = "deleteOrg" => request'[q].org # o
      BY <1>4, <3>1, OutdatedFacts
    <3>3. CallsKept(request'[q]) BY <1>3, <3>2 DEF CallsKept
    <3>4. \A m \in Members : RowKept(request'[q], m) BY <1>1 DEF RowKept
    <3>5. QED BY <3>1, <3>3, <3>4
  <2>3. QED BY <1>6, <2>1, <2>2, AllRequestsKept
<1>8. VenueOfOwnOrg'
  <2>1. ASSUME NEW v \in Venues, call'[c].venue = v
        PROVE  venue[v] = "live" /\ venueOrg[v] = call'[c].org
    <3>1. request[r].venue = v /\ v # NoVenue BY <1>3, <2>1, NullAssumption
    <3>2. QED BY <1>0, <1>1, <1>2, <1>3, <3>1 DEF VenueExists, RequestOK, Known
  <2>2. QED BY <1>1, <1>3, <2>1 DEF VenueOfOwnOrg
<1>9. NothingLeft'
  <2>1. \A u \in Users : Idle.user # u BY NullAssumption DEF Idle
  <2>2. \A q \in Requests : [request[q] EXCEPT !.outdated = TRUE].outdated
    BY <1>4, OutdatedFacts
  <2>3. ASSUME NEW q \in Requests, NEW u \in Users, request'[q].user = u,
               request[q].user = u => request[q].outdated
        PROVE  request'[q].outdated
    BY <1>1, <2>1, <2>2, <2>3
  <2>4. QED BY <1>1, <2>3 DEF NothingLeft, Rows, history
<1>10. QED
  BY <1>1, <1>6, <1>7, <1>8, <1>9 DEF OneOrgPerApplication, OneOwner, Owners, PendingHasApplicant, history

-----------------------------------------------------------------------------
(* The commits that write members.                                         *)

\* What every commit about organization o and the user of its request keeps.
LEMMA RowCommitKeeps ==
    ASSUME MemInv, NEW r \in Requests, NEW o \in Orgs,
           (org[o] = "live" /\ org' = org) \/ org' = [org EXCEPT ![o] = "live"],
           request[r].user \in Users, Commit(r, o, {request[r].user}), Overtake(r),
           UNCHANGED <<account, venue, venueOrg, application, call, origin>>,
           disordered' \subseteq Orgs,
           member' \in [Members -> MemberRow \cup {NoRow}],
           RowsMoved(o, {request[r].user}),
           \A m, n \in Members : member'[m] # NoRow /\ member'[m].user = member'[n].user => m = n,
           \A m \in Members : member'[m].venue \in Venues =>
              venue[member'[m].venue] = "live" /\ venueOrg[member'[m].venue] = member'[m].org,
           OneOwner'
    PROVE  MemInv'
<1> USE DEF MemInv
<1> DEFINE u == request[r].user
<1>1. /\ overtaken' \subseteq Users
      /\ \A x \in Users : x \notin overtaken' /\ account[x] = "deleted" => x \notin overtaken /\ u # x
  BY OvertakeFacts
<1>2. /\ request' \in [Requests -> RequestState]
      /\ \A q \in Requests :
           \/ request'[q] = Idle
           \/ request'[q] = [request[q] EXCEPT !.outdated = TRUE]
           \/ request'[q] = request[q] /\ request[q].org # o /\ request[q].user \notin {u}
  BY CommitFacts
<1>3. TypeOK'
  <2>0. /\ org' \in [Orgs -> {"absent", "live", "deleted"}] /\ org'[o] = "live"
        /\ \A x \in Orgs : org[x] = "live" => org'[x] = "live"
    BY DEF TypeOK
  <2>1. \A m \in Members : member'[m] # NoRow => org'[member'[m].org] = "live"
    <3> SUFFICES ASSUME NEW m \in Members, member'[m] # NoRow PROVE org'[member'[m].org] = "live"
      OBVIOUS
    <3>1. CASE member'[m] = member[m] \/ SameMember(m)
      BY <2>0, <3>1, MemberFacts DEF SameMember
    <3>2. CASE member'[m].org = o
      BY <2>0, <3>2
    <3>3. QED BY <3>1, <3>2 DEF RowsMoved
  <2>2. \A v \in Venues : venue[v] = "live" => org'[venueOrg[v]] = "live"
    BY <2>0, NullAssumption DEF TypeOK
  <2>3. QED BY <1>1, <1>2, <2>0, <2>1, <2>2 DEF TypeOK
<1>4. RequestsOK'
  BY <1>3, CommitKeepsRequests DEF VenuesKept
<1>5. VenueOfOwnOrg' BY DEF VenueOfOwnOrg
<1>6. NothingLeft'
  <2> SUFFICES ASSUME NEW x \in Users, x \notin overtaken', account[x] = "deleted"
               PROVE  /\ \A m \in Members : member'[m].user # x
                      /\ \A q \in Requests : request'[q].user = x => request'[q].outdated
    BY <1>1 DEF NothingLeft, Rows
  <2>1. x \in Users \ overtaken /\ u # x BY <1>1
  <2>2. (\A m \in Members : member[m].user # x) /\ \A q \in Requests : request[q].user = x => request[q].outdated
    BY <2>1 DEF NothingLeft, Rows
  <2>3. NoRow.user # x /\ Idle.user # x BY NullAssumption DEF NoRow, Idle
  <2>4. \A m \in Members : member'[m].user # x
    BY <2>1, <2>2, <2>3 DEF RowsMoved, SameMember
  <2>5. ASSUME NEW q \in Requests, request'[q].user = x PROVE request'[q].outdated
    <3>1. request[q] \in RequestState BY DEF TypeOK
    <3>2. QED BY <1>2, <2>2, <2>3, <2>5, <3>1, OutdatedFacts
  <2>6. QED BY <2>4, <2>5
<1>7. OneOrgPerApplication' /\ PendingHasApplicant' BY DEF OneOrgPerApplication, PendingHasApplicant
<1>8. QED BY <1>3, <1>4, <1>5, <1>6, <1>7

\* What stays in disordered.
LEMMA ExcuseFacts ==
    ASSUME TypeOK, NEW os \in SUBSET Orgs, Excuse(os)
    PROVE  /\ disordered' \subseteq Orgs
           /\ \A o \in Orgs : o \notin disordered' =>
                (o \notin disordered /\ o \notin os) \/ OneOwnerIn(o)'
           /\ \A o \in Orgs : o \notin disordered' =>
                (o \notin disordered /\ o \notin os) \/ \A m, n \in Owners(o)' : m = n
BY DEF Excuse, OneOwnerIn, TypeOK

LEMMA ContestFacts ==
    ASSUME TypeOK, NEW r \in Requests, NEW os \in SUBSET Orgs, Contest(r, os)
    PROVE  /\ disordered' \subseteq Orgs
           /\ \A o \in Orgs : o \notin disordered' =>
                (o \notin disordered /\ (o \in os => ~request[r].outdated)) \/ OneOwnerIn(o)'
           /\ \A o \in Orgs : o \notin disordered' =>
                (o \notin disordered /\ (o \in os => ~request[r].outdated))
                \/ \A m, n \in Owners(o)' : m = n
<1>1. CASE request[r].outdated
  <2>1. Excuse(os) BY <1>1 DEF Contest
  <2>2. QED BY <1>1, <2>1, ExcuseFacts
<1>2. CASE ~request[r].outdated
  <2>1. Excuse({}) BY <1>2 DEF Contest
  <2>2. {} \in SUBSET Orgs OBVIOUS
  <2>3. QED BY <1>2, <2>1, <2>2, ExcuseFacts
<1>3. QED BY <1>1, <1>2

LEMMA RemoveKeeps ==
    ASSUME MemInv, NEW r \in Requests, CommitRemove(r)
    PROVE  MemInv' /\ OwnersKept
<1> USE DEF MemInv
<1>0. PICK k, o, u : k = request[r].row /\ o = request[r].org /\ u = request[r].user OBVIOUS
<1>1. /\ At(r, "remove") /\ member[k] # NoRow /\ member' = [member EXCEPT ![k] = NoRow]
      /\ Contest(r, {o}) /\ Commit(r, o, {u}) /\ Overtake(r)
      /\ UNCHANGED <<account, org, venue, venueOrg, application, call, origin>>
  BY <1>0 DEF CommitRemove
<1>2. k \in Members /\ o \in Orgs /\ u \in Users /\ member[k].org = o
  BY <1>0, <1>1, NullAssumption DEF At, RequestsOK, RequestOK, Shape, Known
<1>3. org[o] = "live" BY <1>1, <1>2, MemberFacts
<1>4. /\ member' \in [Members -> MemberRow \cup {NoRow}]
      /\ \A m \in Members : member'[m] = IF m = k THEN NoRow ELSE member[m]
  BY <1>1, <1>2 DEF TypeOK
<1>5. RowsShrink BY <1>4 DEF RowsShrink
<1>6. RowsMoved(o, {u}) BY <1>4 DEF RowsMoved
<1>7. \A m \in Members : member'[m].venue \in Venues =>
         venue[member'[m].venue] = "live" /\ venueOrg[member'[m].venue] = member'[m].org
  <2>1. NoRow.venue \notin Venues BY NullAssumption DEF NoRow
  <2>2. QED BY <1>4, <2>1 DEF VenueOfOwnOrg
<1>8. disordered' \subseteq Orgs /\ OneOwner'
  <2>1. {o} \in SUBSET Orgs BY <1>2
  <2>2. QED BY <1>1, <1>5, <2>1, ContestFacts, ShrinkFacts, OneOwnerKept
<1>9. \A m, n \in Members : member'[m] # NoRow /\ member'[m].user = member'[n].user => m = n
  BY <1>5, ShrinkFacts
<1>10. OwnersKept
  <2> SUFFICES ASSUME NEW x \in Orgs, NEW n \in Owners(x), x \notin disordered' PROVE Owners(x)' # {}
    BY DEF OwnersKept
  <2>1. n \in Members /\ member[n].org = x /\ member[n].role = "OWNER" BY DEF Owners
  <2>2. {o} \in SUBSET Orgs BY <1>2
  <2>3. (x = o => ~request[r].outdated) \/ OneOwnerIn(x)'
    BY <1>1, <2>2, ContestFacts
  <2>4. ASSUME ~request[r].outdated PROVE n # k
    BY <1>0, <1>1, <2>1, <2>4 DEF At, RequestsOK, RequestOK, Stands, Lowers
  <2>5. n # k => n \in Owners(x)' BY <1>4, <2>1 DEF Owners
  <2>6. x # o => n # k BY <1>2, <2>1
  <2>7. QED BY <2>3, <2>4, <2>5, <2>6 DEF OneOwnerIn
<1>11. MemInv'
  BY <1>0, <1>1, <1>2, <1>3, <1>4, <1>6, <1>7, <1>8, <1>9, RowCommitKeeps
<1>12. QED BY <1>10, <1>11

LEMMA DemotedFacts ==
    ASSUME MemInv, NEW r \in Requests, OwnerIsThere(r), NEW D, D = Demoted(r),
           NEW k, k = request[r].owner
    PROVE  /\ D \in [Members -> MemberRow \cup {NoRow}]
           /\ \A m \in Members : m # k => D[m] = member[m]
           /\ k # NoMember => /\ k \in Members
                              /\ member[k] \in MemberRow /\ D[k] \in MemberRow
                              /\ D[k].user = member[k].user /\ D[k].org = member[k].org
                              /\ D[k].venue = member[k].venue /\ D[k].role = "MANAGER"
                              /\ member[k].org = request[r].org
<1>1. member \in [Members -> MemberRow \cup {NoRow}] /\ k \in Members \cup {NoMember}
  BY DEF MemInv, TypeOK, RequestState
<1>2. CASE k = NoMember
  BY <1>1, <1>2, NullAssumption DEF Demoted
<1>3. CASE k # NoMember
  <2>1. member[k] \in MemberRow
    BY <1>1, <1>3, MemberFacts DEF OwnerIsThere, MemInv
  <2>2. member[k].org = request[r].org
    BY <1>3, <2>1, MemberFacts DEF MemInv, RequestsOK, RequestOK, Known, OwnerIsThere
  <2> DEFINE x == [member[k] EXCEPT !.role = "MANAGER"]
  <2>3. D = [member EXCEPT ![k] = x] BY <1>1, <1>3 DEF Demoted
  <2>4. /\ x \in MemberRow /\ x.user = member[k].user /\ x.org = member[k].org
        /\ x.venue = member[k].venue /\ x.role = "MANAGER"
    BY <2>1 DEF MemberRow, OrgMemberRole
  <2> HIDE DEF x
  <2>5. QED BY <1>1, <1>3, <2>1, <2>2, <2>3, <2>4
<1>4. QED BY <1>2, <1>3

\* The only owner that a request in order may find is the one it knows.
LEMMA KnownOwnerIsIt ==
    ASSUME MemInv, NEW r \in Requests, ~request[r].outdated,
           request[r].at \in {"add", "update"}, request[r].role = "OWNER",
           request[r].org \notin disordered, OwnerIsThere(r),
           request[r].row # NoMember => member[request[r].row] # NoRow,
           NEW m \in Owners(request[r].org)
    PROVE  m = request[r].owner \/ m = request[r].row
<1>1. request[r].org \in Orgs BY DEF MemInv, RequestsOK, RequestOK, Shape
<1>2. KnowsOwner(request[r]) BY DEF MemInv, RequestsOK, RequestOK, Stands
<1>3. ~Dead(request[r]) BY DEF Dead, OwnerIsThere
<1>4. QED BY <1>1, <1>2, <1>3 DEF KnowsOwner, MemInv, OneOwner

LEMMA AddKeeps ==
    ASSUME MemInv, NEW r \in Requests, NEW m \in Members, CommitAdd(r, m)
    PROVE  MemInv' /\ OwnersKept
<1> USE DEF MemInv
<1>0. PICK k, o, u, v, role :
        /\ k = request[r].owner /\ o = request[r].org /\ u = request[r].user
        /\ v = request[r].venue /\ role = request[r].role
  OBVIOUS
<1>1. PICK new, D : new = [user |-> u, org |-> o, role |-> role, venue |-> v] /\ D = Demoted(r)
  OBVIOUS
<1>2. /\ At(r, "add") /\ OrgExists(o) /\ VenueExists(v) /\ FreshMember(m) /\ NoRowYet(u) /\ OwnerIsThere(r)
      /\ member' = [D EXCEPT ![m] = new]
      /\ Contest(r, {o}) /\ Commit(r, o, {u}) /\ Overtake(r)
      /\ UNCHANGED <<account, org, venue, venueOrg, application, call, origin>>
  BY <1>0, <1>1 DEF CommitAdd
<1>3. /\ o \in Orgs /\ u \in Users /\ role \in OrgMemberRole /\ v \in Venues \cup {NoVenue}
      /\ request[r].row = NoMember
  BY <1>0, <1>2 DEF At, RequestsOK, RequestOK, Shape, TypeOK, RequestState
<1>4. /\ new \in MemberRow /\ new.user = u /\ new.org = o /\ new.role = role /\ new.venue = v
  BY <1>1, <1>3 DEF MemberRow
<1>5. /\ D \in [Members -> MemberRow \cup {NoRow}]
      /\ \A n \in Members : n # k => D[n] = member[n]
      /\ k # NoMember => /\ k \in Members
                         /\ member[k] \in MemberRow /\ D[k] \in MemberRow
                         /\ D[k].user = member[k].user /\ D[k].org = member[k].org
                         /\ D[k].venue = member[k].venue /\ D[k].role = "MANAGER"
                         /\ member[k].org = o
  BY <1>0, <1>1, <1>2, DemotedFacts
<1>6. /\ member' \in [Members -> MemberRow \cup {NoRow}]
      /\ member'[m] = new
      /\ \A n \in Members : n # m => member'[n] = D[n]
  BY <1>2, <1>4, <1>5
<1>7. member[m] = NoRow /\ m # k BY <1>0, <1>2 DEF FreshMember
<1>8. ASSUME NEW n \in Members, n # m
      PROVE  /\ member'[n] = NoRow <=> member[n] = NoRow
             /\ member'[n].user = member[n].user /\ member'[n].org = member[n].org
             /\ member'[n].venue = member[n].venue
             /\ n # k => member'[n] = member[n]
             /\ n = k => SameMember(n) /\ member[n].org = o /\ member'[n].role = "MANAGER"
  <2>1. CASE n # k BY <1>5, <1>6, <1>8, <2>1
  <2>2. CASE n = k
    <3>1. k # NoMember BY <2>2, NullAssumption
    <3>2. member[k] # NoRow /\ D[k] # NoRow BY <1>5, <3>1, RowFacts
    <3>3. QED BY <1>5, <1>6, <1>8, <2>2, <3>1, <3>2 DEF SameMember
  <2>3. QED BY <2>1, <2>2
<1>9. RowsMoved(o, {u})
  BY <1>2, <1>4, <1>6, <1>8 DEF RowsMoved
<1>10. \A n, l \in Members : member'[n] # NoRow /\ member'[n].user = member'[l].user => n = l
  <2>1. \A n \in Members : n # m => member'[n].user # u
    BY <1>2, <1>8 DEF NoRowYet, Rows
  <2>2. QED BY <1>4, <1>6, <1>8, <2>1 DEF TypeOK
<1>11. \A n \in Members : member'[n].venue \in Venues =>
          venue[member'[n].venue] = "live" /\ venueOrg[member'[n].venue] = member'[n].org
  <2>1. v \in Venues => venue[v] = "live" /\ venueOrg[v] = o
    BY <1>0, <1>2, NullAssumption DEF VenueExists, RequestsOK, RequestOK, Known
  <2>2. \A n \in Members : n # m /\ member'[n].venue \in Venues =>
          venue[member'[n].venue] = "live" /\ venueOrg[member'[n].venue] = member'[n].org
    BY <1>8 DEF VenueOfOwnOrg
  <2>3. QED BY <1>4, <1>6, <2>1, <2>2
<1>12. disordered' \subseteq Orgs /\ OneOwner'
  <2>1. /\ disordered' \subseteq Orgs
        /\ \A x \in Orgs : x \notin disordered' =>
             (x \notin disordered /\ (x \in {o} => ~request[r].outdated))
             \/ \A n, l \in Owners(x)' : n = l
    <3>1. {o} \in SUBSET Orgs BY <1>3
    <3>2. QED BY <1>2, <3>1, ContestFacts
  <2>2. ASSUME NEW x \in Orgs, NEW n \in Owners(x)'
        PROVE  (n \in Owners(x) /\ n # k) \/ (n = m /\ x = o /\ role = "OWNER")
    BY <1>4, <1>6, <1>8 DEF Owners
  <2>3. ASSUME role = "OWNER", o \notin disordered, ~request[r].outdated, NEW n \in Owners(o)'
        PROVE  n = m
    <3>1. ASSUME n \in Owners(o), n # k PROVE FALSE
      <4>1. n \in Members BY <3>1 DEF Owners
      <4>2. n # NoMember BY <4>1, NullAssumption
      <4>3. n = k \/ n = NoMember
        BY <1>0, <1>2, <1>3, <2>3, <3>1, KnownOwnerIsIt DEF At
      <4>4. QED BY <3>1, <4>2, <4>3
    <3>2. QED BY <1>3, <2>2, <2>3, <3>1
  <2>4. QED BY <1>3, <2>1, <2>2, <2>3, OneOwnerKept
<1>13. OwnersKept
  <2> SUFFICES ASSUME NEW x \in Orgs, NEW n \in Owners(x), x \notin disordered' PROVE Owners(x)' # {}
    BY DEF OwnersKept
  <2>1. n \in Members /\ member[n].org = x /\ member[n].role = "OWNER" BY DEF Owners
  <2>2. n # m
    <3>1. member[m].role # "OWNER" BY <1>7 DEF NoRow
    <3>2. QED BY <2>1, <3>1
  <2>3. n # k => n \in Owners(x)' BY <1>8, <2>1, <2>2 DEF Owners
  <2>4. n = k => x = o /\ role = "OWNER"
    <3>1. k # NoMember => role = "OWNER" BY <1>0 DEF RequestsOK, RequestOK, Shape
    <3>2. QED BY <1>8, <2>1, <2>2, <3>1, NullAssumption
  <2>5. role = "OWNER" => m \in Owners(o)' BY <1>4, <1>6 DEF Owners
  <2>6. QED BY <2>3, <2>4, <2>5
<1>14. MemInv'
  BY <1>0, <1>2, <1>3, <1>6, <1>9, <1>10, <1>11, <1>12, RowCommitKeeps DEF OrgExists
<1>15. QED BY <1>13, <1>14

LEMMA UpdateKeeps ==
    ASSUME MemInv, NEW r \in Requests, CommitUpdate(r)
    PROVE  MemInv' /\ OwnersKept
<1> USE DEF MemInv
<1>0. PICK m, k, o, u, role, D :
        /\ m = request[r].row /\ k = request[r].owner /\ o = request[r].org /\ u = request[r].user
        /\ role = request[r].role /\ D = Demoted(r)
  OBVIOUS
<1>1. PICK v \in IF request[r].venue = NoVenue THEN {member[m].venue, NoVenue} ELSE {request[r].venue} :
        member' = [D EXCEPT ![m].role = IF role = "none" THEN @ ELSE role, ![m].venue = v]
  BY <1>0 DEF CommitUpdate
<1>2. /\ At(r, "update") /\ member[m] # NoRow /\ VenueExists(request[r].venue) /\ OwnerIsThere(r)
      /\ Contest(r, {o}) /\ Commit(r, o, {u}) /\ Overtake(r)
      /\ UNCHANGED <<account, org, venue, venueOrg, application, call, origin>>
  BY <1>0 DEF CommitUpdate
<1>3. request[r] \in RequestState /\ Shape(request[r]) /\ Known(request[r])
  BY DEF RequestsOK, RequestOK, TypeOK
<1>4. /\ m \in Members /\ o \in Orgs /\ u \in Users /\ role \in OrgMemberRole \cup {"none"}
      /\ m # NoMember /\ member[m].user = u /\ member[m].org = o
  BY <1>0, <1>2, <1>3, NullAssumption DEF At, Shape, Known, RequestState
<1>5. /\ D \in [Members -> MemberRow \cup {NoRow}]
      /\ \A n \in Members : n # k => D[n] = member[n]
      /\ k # NoMember => /\ k \in Members
                         /\ member[k] \in MemberRow /\ D[k] \in MemberRow
                         /\ D[k].user = member[k].user /\ D[k].org = member[k].org
                         /\ D[k].venue = member[k].venue /\ D[k].role = "MANAGER"
                         /\ member[k].org = o
  BY <1>0, <1>2, DemotedFacts
<1>6. /\ D[m] \in MemberRow /\ D[m].user = u /\ D[m].org = o
      /\ D[m].role = "OWNER" => member[m].role = "OWNER"
  <2>1. member[m] \in MemberRow BY <1>2, <1>4, MemberFacts
  <2>2. QED BY <1>4, <1>5, <2>1
<1>7. v \in Venues \cup {NoVenue} /\ (v \in Venues => venue[v] = "live" /\ venueOrg[v] = o)
  <2>1. member[m] \in MemberRow BY <1>2, <1>4, MemberFacts
  <2>2. member[m].venue \in Venues \cup {NoVenue} BY <2>1 DEF MemberRow
  <2>3. request[r].venue \in Venues \cup {NoVenue} BY <1>3 DEF RequestState
  <2>4. CASE v = member[m].venue BY <1>4, <2>2, <2>4 DEF VenueOfOwnOrg
  <2>5. CASE v = NoVenue BY <2>5, NullAssumption
  <2>6. CASE v = request[r].venue /\ v # NoVenue
    BY <1>0, <1>2, <1>3, <2>3, <2>6 DEF VenueExists, Known
  <2>7. QED BY <2>4, <2>5, <2>6
<1>8. PICK new, to :
        /\ to = (IF role = "none" THEN D[m].role ELSE role)
        /\ new = [D[m] EXCEPT !.role = to, !.venue = v]
  OBVIOUS
<1>9. to \in OrgMemberRole BY <1>4, <1>6, <1>8 DEF MemberRow
<1>10. /\ new \in MemberRow /\ new.user = u /\ new.org = o /\ new.role = to /\ new.venue = v
  BY <1>6, <1>7, <1>8, <1>9 DEF MemberRow
<1>11. member' = [D EXCEPT ![m] = new]
  BY <1>1, <1>4, <1>5, <1>6, <1>8 DEF MemberRow
<1>12. /\ member' \in [Members -> MemberRow \cup {NoRow}]
       /\ member'[m] = new
       /\ \A n \in Members : n # m => member'[n] = D[n]
  BY <1>4, <1>5, <1>10, <1>11
<1>13. SameMember(m)
  BY <1>2, <1>4, <1>10, <1>12, RowFacts DEF SameMember
<1>14. ASSUME NEW n \in Members, n # m
       PROVE  /\ member'[n] = NoRow <=> member[n] = NoRow
              /\ member'[n].user = member[n].user /\ member'[n].org = member[n].org
              /\ member'[n].venue = member[n].venue
              /\ n # k => member'[n] = member[n]
              /\ n = k => SameMember(n) /\ member[n].org = o /\ member'[n].role = "MANAGER"
  <2>1. CASE n # k BY <1>5, <1>12, <1>14, <2>1
  <2>2. CASE n = k
    <3>1. k # NoMember BY <2>2, NullAssumption
    <3>2. member[k] # NoRow /\ D[k] # NoRow BY <1>5, <3>1, RowFacts
    <3>3. QED BY <1>5, <1>12, <1>14, <2>2, <3>1, <3>2 DEF SameMember
  <2>3. QED BY <2>1, <2>2
<1>15. RowsMoved(o, {u})
  BY <1>4, <1>13, <1>14 DEF RowsMoved
<1>16. \A n, l \in Members : member'[n] # NoRow /\ member'[n].user = member'[l].user => n = l
  <2>1. \A n \in Members : /\ member'[n].user = member[n].user
                           /\ member'[n] # NoRow <=> member[n] # NoRow
    BY <1>13, <1>14 DEF SameMember
  <2>2. QED BY <2>1 DEF TypeOK
<1>17. \A n \in Members : member'[n].venue \in Venues =>
          venue[member'[n].venue] = "live" /\ venueOrg[member'[n].venue] = member'[n].org
  <2>1. \A n \in Members : n # m /\ member'[n].venue \in Venues =>
          venue[member'[n].venue] = "live" /\ venueOrg[member'[n].venue] = member'[n].org
    BY <1>14 DEF VenueOfOwnOrg
  <2>2. QED BY <1>7, <1>10, <1>12, <2>1
<1>18. disordered' \subseteq Orgs /\ OneOwner'
  <2>1. /\ disordered' \subseteq Orgs
        /\ \A x \in Orgs : x \notin disordered' =>
             (x \notin disordered /\ (x \in {o} => ~request[r].outdated))
             \/ \A n, l \in Owners(x)' : n = l
    <3>1. {o} \in SUBSET Orgs BY <1>4
    <3>2. QED BY <1>2, <3>1, ContestFacts
  <2>2. ASSUME NEW x \in Orgs, NEW n \in Owners(x)'
        PROVE  n \in Owners(x) \/ (n = m /\ x = o /\ role = "OWNER")
    <3>1. n \in Members /\ member'[n].org = x /\ member'[n].role = "OWNER" BY DEF Owners
    <3>2. CASE n = m
      BY <1>4, <1>6, <1>8, <1>10, <1>12, <3>1, <3>2 DEF Owners
    <3>3. CASE n # m
      BY <1>14, <3>1, <3>3 DEF Owners
    <3>4. QED BY <3>2, <3>3
  <2>3. ASSUME role = "OWNER", o \notin disordered, ~request[r].outdated, NEW n \in Owners(o)'
        PROVE  n = m
    <3>1. n \in Members /\ member'[n].org = o /\ member'[n].role = "OWNER" BY DEF Owners
    <3>2. ASSUME n # m PROVE FALSE
      <4>1. n \in Owners(o) /\ n # k BY <1>14, <3>1, <3>2 DEF Owners
      <4>2. n = k \/ n = m
        BY <1>0, <1>2, <2>3, <4>1, KnownOwnerIsIt DEF At
      <4>3. QED BY <3>2, <4>1, <4>2
    <3>3. QED BY <3>2
  <2>4. ASSUME NEW x \in Orgs, x \notin disordered'
        PROVE  (x \notin disordered /\ Owners(x)' \subseteq Owners(x)) \/ \A n, l \in Owners(x)' : n = l
    BY <2>1, <2>2, <2>3, <2>4
  <2>5. QED BY <2>1, <2>4, OneOwnerKept
<1>19. org[o] = "live" BY <1>2, <1>4, MemberFacts
<1>20. OwnersKept
  <2> SUFFICES ASSUME NEW x \in Orgs, NEW n \in Owners(x), x \notin disordered' PROVE Owners(x)' # {}
    BY DEF OwnersKept
  <2>1. n \in Members /\ member[n].org = x /\ member[n].role = "OWNER" BY DEF Owners
  <2>2. role = "OWNER" => m \in Owners(o)' BY <1>4, <1>8, <1>10, <1>12 DEF Owners
  <2>3. k # NoMember => role = "OWNER" BY <1>0, <1>3 DEF Shape
  <2>4. CASE n # m
    <3>1. n # k => n \in Owners(x)' BY <1>14, <2>1, <2>4 DEF Owners
    <3>2. n = k => x = o /\ k # NoMember BY <1>14, <2>1, <2>4, NullAssumption
    <3>3. QED BY <2>2, <2>3, <3>1, <3>2
  <2>5. CASE n = m
    <3>1. x = o BY <1>4, <2>1, <2>5
    <3>2. CASE role = "OWNER" BY <2>2, <3>1, <3>2
    <3>3. CASE role = "none"
      <4>1. k = NoMember BY <2>3, <3>3
      <4>2. D[m] = member[m] BY <1>4, <1>5, <4>1
      <4>3. QED BY <1>4, <1>8, <1>10, <1>12, <2>1, <2>5, <3>1, <3>3, <4>2 DEF Owners
    <3>4. CASE role \notin {"OWNER", "none"}
      <4>1. request[r].outdated
        BY <1>0, <1>2, <2>1, <2>5, <3>4 DEF At, RequestsOK, RequestOK, Stands, Lowers
      <4>2. {o} \in SUBSET Orgs BY <1>4
      <4>3. OneOwnerIn(x)' BY <1>2, <3>1, <4>1, <4>2, ContestFacts
      <4>4. QED BY <4>3 DEF OneOwnerIn
    <3>5. QED BY <3>2, <3>3, <3>4
  <2>6. QED BY <2>4, <2>5
<1>21. MemInv'
  BY <1>0, <1>2, <1>4, <1>12, <1>15, <1>16, <1>17, <1>18, <1>19, RowCommitKeeps
<1>22. QED BY <1>20, <1>21

LEMMA OrgsOfTyped ==
    ASSUME TypeOK, NEW u
    PROVE  OrgsOf(Rows(u)) \in SUBSET Orgs
<1>1. \A n \in Members : member[n].org \in Orgs \cup {NoOrg} BY MemberFacts
<1>2. QED BY <1>1 DEF OrgsOf, Rows

\* When the rows of u go and u's request was outdated, or u owned nothing, every
\* organization has an owner left or is excused.
LEMMA LeavingKeepsOwners ==
    ASSUME TypeOK, NEW u \in Users, NEW m,
           m \in Members => member[m] = NoRow,
           \A n \in Members : n # m /\ member[n].user # u => member'[n] = member[n],
           \A x \in Orgs : x \notin disordered' =>
              x \notin OrgsOf(Rows(u)) \/ MayLeave(u) \/ OneOwnerIn(x)'
    PROVE  OwnersKept
<1> SUFFICES ASSUME NEW x \in Orgs, NEW n \in Owners(x), x \notin disordered' PROVE Owners(x)' # {}
  BY DEF OwnersKept
<1>1. n \in Members /\ member[n].org = x /\ member[n].role = "OWNER" BY DEF Owners
<1>2. n # m BY <1>1 DEF NoRow
<1>3. CASE member[n].user # u
  BY <1>1, <1>2, <1>3 DEF Owners
<1>4. CASE member[n].user = u
  <2>1. n \in Rows(u) BY <1>1, <1>4 DEF Rows
  <2>2. x \in OrgsOf(Rows(u)) BY <1>1, <2>1, NullAssumption DEF OrgsOf
  <2>3. ~MayLeave(u) BY <1>1, <2>1 DEF MayLeave
  <2>4. QED BY <2>2, <2>3 DEF OneOwnerIn
<1>5. QED BY <1>3, <1>4

LEMMA BindKeeps ==
    ASSUME MemInv, NEW r \in Requests, NEW m \in Members, NEW o \in Orgs,
           NEW v \in Venues \cup {NoVenue}, CommitBind(r, o, v, m)
    PROVE  MemInv' /\ OwnersKept
<1> USE DEF MemInv
<1>0. PICK u, new : /\ u = request[r].user
                    /\ new = [user |-> u, org |-> o, role |-> "MEMBER", venue |-> v]
  OBVIOUS
<1>1. /\ At(r, "bind") /\ OrgExists(o) /\ MayBind(v, o) /\ FreshMember(m)
      /\ member' = [n \in Members |-> CASE n = m -> new
                                        [] n \in Rows(u) -> NoRow
                                        [] OTHER -> member[n]]
      /\ Contest(r, OrgsOf(Rows(u))) /\ Commit(r, o, {u}) /\ Overtake(r)
      /\ UNCHANGED <<account, org, venue, venueOrg, application, call, origin>>
  BY <1>0 DEF CommitBind
<1>2. u \in Users BY <1>0, <1>1 DEF At, RequestsOK, RequestOK, Shape
<1>3. /\ new \in MemberRow /\ new.user = u /\ new.org = o /\ new.role = "MEMBER" /\ new.venue = v
  BY <1>0, <1>2 DEF MemberRow, OrgMemberRole
<1>4. \A n \in Members : member'[n] = IF n = m THEN new ELSE IF member[n].user = u THEN NoRow ELSE member[n]
  <2>1. \A n \in Members : n \in Rows(u) <=> member[n].user = u BY DEF Rows
  <2>2. ASSUME NEW n \in Members
        PROVE  member'[n] = CASE n = m -> new
                              [] n \in Rows(u) -> NoRow
                              [] OTHER -> member[n]
    BY <1>1
  <2>3. m \notin Rows(u)
    BY <1>1, <1>2, <2>1, NullAssumption DEF FreshMember, NoRow
  <2>4. ASSUME NEW n \in Members
        PROVE  member'[n] = IF n = m THEN new ELSE IF n \in Rows(u) THEN NoRow ELSE member[n]
    <3>1. CASE n = m BY <2>2, <2>3, <3>1
    <3>2. CASE n # m /\ n \in Rows(u) BY <2>2, <3>2
    <3>3. CASE n # m /\ n \notin Rows(u) BY <2>2, <3>3
    <3>4. QED BY <3>1, <3>2, <3>3
  <2>5. QED BY <2>1, <2>4
<1>5. member' \in [Members -> MemberRow \cup {NoRow}]
  BY <1>1, <1>3 DEF TypeOK
<1>6. NoRow.user # u /\ NoRow.venue \notin Venues /\ NoRow.role # "OWNER"
  BY <1>2, NullAssumption DEF NoRow
<1>7. RowsMoved(o, {u}) BY <1>1, <1>3, <1>4 DEF RowsMoved
<1>8. \A n, l \in Members : member'[n] # NoRow /\ member'[n].user = member'[l].user => n = l
  <2>1. \A n \in Members : n # m => member'[n].user # u BY <1>4, <1>6
  <2>2. ASSUME NEW n \in Members, NEW l \in Members, n # m, l # m, member'[n] # NoRow,
               member'[n].user = member'[l].user
        PROVE  n = l
    <3>1. member'[n] = member[n] BY <1>4, <2>2
    <3>2. member[n].user \in Users BY <2>2, <3>1, MemberFacts
    <3>3. member'[l] = member[l] BY <1>4, <2>2, <3>1, <3>2, NullAssumption DEF NoRow
    <3>4. QED BY <2>2, <3>1, <3>3 DEF TypeOK
  <2>3. QED BY <1>3, <1>4, <2>1, <2>2
<1>9. \A n \in Members : member'[n].venue \in Venues =>
         venue[member'[n].venue] = "live" /\ venueOrg[member'[n].venue] = member'[n].org
  <2>1. v \in Venues => venue[v] = "live" /\ venueOrg[v] = o BY <1>1, NullAssumption DEF MayBind
  <2>2. QED BY <1>3, <1>4, <1>6, <2>1 DEF VenueOfOwnOrg
<1>10. disordered' \subseteq Orgs /\ OneOwner'
  <2>1. OrgsOf(Rows(u)) \in SUBSET Orgs BY OrgsOfTyped
  <2>2. \A x \in Orgs : Owners(x)' \subseteq Owners(x)
    BY <1>3, <1>4, <1>6 DEF Owners
  <2>3. QED BY <1>1, <2>1, <2>2, ContestFacts, OneOwnerKept
<1>11. OwnersKept
  <2>1. ~request[r].outdated => MayLeave(u)
    BY <1>0, <1>1 DEF At, RequestsOK, RequestOK, Stands
  <2>2. \A x \in Orgs : x \notin disordered' =>
           (x \in OrgsOf(Rows(u)) => ~request[r].outdated) \/ OneOwnerIn(x)'
    BY <1>1, OrgsOfTyped, ContestFacts
  <2>3. member[m] = NoRow BY <1>1 DEF FreshMember
  <2>4. QED BY <1>2, <1>4, <2>1, <2>2, <2>3, LeavingKeepsOwners
<1>12. MemInv'
  BY <1>0, <1>1, <1>2, <1>5, <1>7, <1>8, <1>9, <1>10, RowCommitKeeps DEF OrgExists
<1>13. QED BY <1>11, <1>12

\* An organization that does not exist yet has no rows.
LEMMA AbsentHasNoRows ==
    ASSUME TypeOK, NEW o \in Orgs, org[o] # "live", NEW m \in Members
    PROVE  member[m].org # o
BY MemberFacts, NullAssumption

LEMMA FoundKeeps ==
    ASSUME MemInv, NEW r \in Requests, NEW m \in Members, NEW o \in Orgs, CommitFound(r, o, m)
    PROVE  MemInv' /\ OwnersKept
<1> USE DEF MemInv
<1>0. PICK u, new : /\ u = request[r].user
                    /\ new = [user |-> u, org |-> o, role |-> "OWNER", venue |-> NoVenue]
  OBVIOUS
<1>1. /\ At(r, "found") /\ org[o] = "absent" /\ FreshMember(m) /\ NoRowYet(u)
      /\ org' = [org EXCEPT ![o] = "live"] /\ member' = [member EXCEPT ![m] = new]
      /\ Commit(r, o, {u}) /\ Overtake(r)
      /\ UNCHANGED <<account, venue, venueOrg, application, call, origin, disordered>>
  BY <1>0 DEF CommitFound
<1>2. u \in Users BY <1>0, <1>1 DEF At, RequestsOK, RequestOK, Shape
<1>3. /\ new \in MemberRow /\ new.user = u /\ new.org = o /\ new.role = "OWNER" /\ new.venue = NoVenue
  BY <1>0, <1>2 DEF MemberRow, OrgMemberRole
<1>4. /\ member' \in [Members -> MemberRow \cup {NoRow}]
      /\ \A n \in Members : member'[n] = IF n = m THEN new ELSE member[n]
  BY <1>1, <1>3 DEF TypeOK
<1>5. RowsMoved(o, {u}) BY <1>1, <1>3, <1>4 DEF RowsMoved
<1>6. \A n, l \in Members : member'[n] # NoRow /\ member'[n].user = member'[l].user => n = l
  <2>1. \A n \in Members : member[n].user # u BY <1>1 DEF NoRowYet, Rows
  <2>2. QED BY <1>3, <1>4, <2>1 DEF TypeOK
<1>7. \A n \in Members : member'[n].venue \in Venues =>
         venue[member'[n].venue] = "live" /\ venueOrg[member'[n].venue] = member'[n].org
  BY <1>3, <1>4, NullAssumption DEF VenueOfOwnOrg
<1>8. disordered' \subseteq Orgs /\ OneOwner'
  <2>1. \A n \in Members : member[n].org # o BY <1>1, AbsentHasNoRows
  <2>2. \A x \in Orgs : x # o => Owners(x)' \subseteq Owners(x) BY <1>3, <1>4 DEF Owners
  <2>3. \A n \in Owners(o)' : n = m BY <1>4, <2>1 DEF Owners
  <2>4. QED BY <1>1, <2>2, <2>3, OneOwnerKept DEF TypeOK
<1>9. OwnersKept
  <2>1. member[m] = NoRow /\ NoRow.role # "OWNER" BY <1>1 DEF FreshMember, NoRow
  <2>2. ASSUME NEW x \in Orgs, NEW n \in Owners(x) PROVE n \in Owners(x)'
    BY <1>4, <2>1 DEF Owners
  <2>3. QED BY <2>2 DEF OwnersKept
<1>10. MemInv' BY <1>0, <1>1, <1>2, <1>4, <1>5, <1>6, <1>7, <1>8, RowCommitKeeps
<1>11. QED BY <1>9, <1>10

LEMMA ApproveKeeps ==
    ASSUME MemInv, NEW r \in Requests, NEW m \in Members, NEW o \in Orgs,
           NEW vs \in SUBSET Venues, CommitApprove(r, o, vs, m)
    PROVE  MemInv' /\ OwnersKept
<1> USE DEF MemInv
<1>0. PICK a, u, new : /\ a = request[r].app /\ u = application[a].user
                       /\ new = [user |-> u, org |-> o, role |-> "OWNER", venue |-> NoVenue]
  OBVIOUS
<1>1. /\ At(r, "approve") /\ application[a].status = "PENDING" /\ org[o] = "absent"
      /\ \A v \in vs : venue[v] = "absent"
      /\ FreshMember(m)
      /\ org' = [org EXCEPT ![o] = "live"]
      /\ venue' = [v \in Venues |-> IF v \in vs THEN "live" ELSE venue[v]]
      /\ venueOrg' = [v \in Venues |-> IF v \in vs THEN o ELSE venueOrg[v]]
      /\ member' = [n \in Members |-> CASE n = m -> new
                                        [] n \in Rows(u) -> NoRow
                                        [] OTHER -> member[n]]
      /\ application' = [application EXCEPT ![a].status = "APPROVED", ![a].org = o]
      /\ origin' = [origin EXCEPT ![o] = a]
      /\ Excuse(OrgsOf(Rows(u))) /\ Commit(r, o, {u})
      /\ UNCHANGED <<account, call, overtaken>>
  BY <1>0 DEF CommitApprove, StillPending
<1>2. a \in Applications /\ u \in Users
  BY <1>0, <1>1 DEF At, RequestsOK, RequestOK, Shape, PendingHasApplicant
<1>3. /\ new \in MemberRow /\ new.user = u /\ new.org = o /\ new.role = "OWNER" /\ new.venue = NoVenue
  BY <1>0, <1>2 DEF MemberRow, OrgMemberRole
<1>4. /\ member' \in [Members -> MemberRow \cup {NoRow}]
      /\ \A n \in Members :
           member'[n] = IF n = m THEN new ELSE IF member[n].user = u THEN NoRow ELSE member[n]
  <2>1. \A n \in Members : n \in Rows(u) <=> member[n].user = u BY DEF Rows
  <2>2. ASSUME NEW n \in Members
        PROVE  member'[n] = CASE n = m -> new
                              [] n \in Rows(u) -> NoRow
                              [] OTHER -> member[n]
    BY <1>1
  <2>3. m \notin Rows(u)
    BY <1>1, <1>2, <2>1, NullAssumption DEF FreshMember, NoRow
  <2>4. ASSUME NEW n \in Members
        PROVE  member'[n] = IF n = m THEN new ELSE IF n \in Rows(u) THEN NoRow ELSE member[n]
    <3>1. CASE n = m BY <2>2, <2>3, <3>1
    <3>2. CASE n # m /\ n \in Rows(u) BY <2>2, <3>2
    <3>3. CASE n # m /\ n \notin Rows(u) BY <2>2, <3>3
    <3>4. QED BY <3>1, <3>2, <3>3
  <2>5. \A n \in Members : member'[n] \in MemberRow \cup {NoRow} BY <1>3, <2>4 DEF TypeOK
  <2>6. member' = [n \in Members |-> member'[n]] BY <1>1
  <2>7. QED BY <2>1, <2>4, <2>5, <2>6
<1>5. NoRow.user \notin Users /\ NoRow.venue \notin Venues /\ NoRow.role # "OWNER"
  BY NullAssumption DEF NoRow
<1>6. RowsMoved(o, {u}) BY <1>1, <1>3, <1>4 DEF RowsMoved
<1>7. /\ org' \in [Orgs -> {"absent", "live", "deleted"}] /\ org'[o] = "live"
      /\ \A x \in Orgs : org[x] = "live" => org'[x] = "live"
      /\ venue' \in [Venues -> {"absent", "live", "deleted"}]
      /\ venueOrg' \in [Venues -> Orgs \cup {NoOrg}]
      /\ \A v \in Venues : v \in vs => venue[v] = "absent" /\ venue'[v] = "live" /\ venueOrg'[v] = o
      /\ \A v \in Venues : v \notin vs => venue'[v] = venue[v] /\ venueOrg'[v] = venueOrg[v]
      /\ origin' \in [Orgs -> Applications \cup {NoApplication}] /\ origin'[o] = a
      /\ \A x \in Orgs : x # o => origin'[x] = origin[x]
  BY <1>1, <1>2 DEF TypeOK
<1>8. /\ application' \in [Applications -> [status : {"ABSENT", "PENDING", "APPROVED", "REJECTED"},
                                            user : Users \cup {NoUser}, org : Orgs \cup {NoOrg}]]
      /\ application'[a].status = "APPROVED" /\ application'[a].user = u /\ application'[a].org = o
      /\ \A b \in Applications : b # a => application'[b] = application[b]
  <2> DEFINE n == [application[a] EXCEPT !.status = "APPROVED", !.org = o]
             S == [status : {"ABSENT", "PENDING", "APPROVED", "REJECTED"},
                   user : Users \cup {NoUser}, org : Orgs \cup {NoOrg}]
  <2>1. application \in [Applications -> S] BY DEF TypeOK
  <2>2. application' = [application EXCEPT ![a] = n] BY <1>1, <2>1
  <2>3. n \in S /\ n.status = "APPROVED" /\ n.user = u /\ n.org = o BY <1>0, <1>2, <2>1
  <2> HIDE DEF n, S
  <2>4. application' \in [Applications -> S] /\ application'[a] = n
        /\ \A b \in Applications : b # a => application'[b] = application[b]
    BY <1>2, <2>1, <2>2, <2>3
  <2>5. QED BY <2>3, <2>4 DEF S
<1>9. \A n, l \in Members : member'[n] # NoRow /\ member'[n].user = member'[l].user => n = l
  <2>1. \A n \in Members : n # m => member'[n].user # u BY <1>2, <1>4, <1>5
  <2>2. ASSUME NEW n \in Members, NEW l \in Members, n # m, l # m, member'[n] # NoRow,
               member'[n].user = member'[l].user
        PROVE  n = l
    <3>1. member'[n] = member[n] BY <1>4, <2>2
    <3>2. member[n].user \in Users BY <2>2, <3>1, MemberFacts
    <3>3. member'[l] = member[l] BY <1>4, <1>5, <2>2, <3>1, <3>2
    <3>4. QED BY <2>2, <3>1, <3>3 DEF TypeOK
  <2>3. QED BY <1>3, <1>4, <2>1, <2>2
<1>10. /\ request' \in [Requests -> RequestState]
       /\ \A q \in Requests :
            \/ request'[q] = Idle
            \/ request'[q] = [request[q] EXCEPT !.outdated = TRUE]
            \/ request'[q] = request[q] /\ request[q].org # o /\ request[q].user \notin {u}
  BY <1>1, CommitFacts
<1>11. disordered' \subseteq Orgs /\ OneOwner'
  <2>1. /\ disordered' \subseteq Orgs
        /\ \A x \in Orgs : x \notin disordered' => x \notin disordered \/ \A n, l \in Owners(x)' : n = l
    BY <1>1, OrgsOfTyped, ExcuseFacts
  <2>2. \A n \in Members : member[n].org # o BY <1>1, AbsentHasNoRows
  <2>3. \A x \in Orgs : x # o => Owners(x)' \subseteq Owners(x) BY <1>3, <1>4, <1>5 DEF Owners
  <2>4. \A n \in Owners(o)' : n = m BY <1>4, <1>5, <2>2 DEF Owners
  <2>5. QED BY <2>1, <2>3, <2>4, OneOwnerKept
<1>12. TypeOK'
  <2>1. \A n \in Members : member'[n] # NoRow => org'[member'[n].org] = "live"
    <3> SUFFICES ASSUME NEW n \in Members, member'[n] # NoRow PROVE org'[member'[n].org] = "live"
      OBVIOUS
    <3>1. CASE n = m BY <1>3, <1>4, <1>7, <3>1
    <3>2. CASE n # m
      <4>1. member'[n] = member[n] /\ member[n] # NoRow BY <1>4, <3>2
      <4>2. QED BY <1>7, <4>1, MemberFacts
    <3>3. QED BY <3>1, <3>2
  <2>2. \A v \in Venues : venue'[v] = "live" => venueOrg'[v] # NoOrg /\ org'[venueOrg'[v]] = "live"
    BY <1>7, NullAssumption DEF TypeOK
  <2>3. /\ account' \in [Users -> {"active", "deleted"}] /\ overtaken' \subseteq Users
        /\ call' \in [Calls -> [state : {"ABSENT", "OPEN", "CLOSED"},
                                org : Orgs \cup {NoOrg}, venue : Venues \cup {NoVenue}]]
    BY <1>1 DEF TypeOK
  <2>4. QED BY <1>4, <1>7, <1>8, <1>9, <1>10, <1>11, <2>1, <2>2, <2>3 DEF TypeOK
<1>13. RequestsOK'
  <2>1. VenuesKept BY <1>7 DEF VenuesKept
  <2>2. QED BY <1>1, <1>6, <1>12, <2>1, CommitKeepsRequests
<1>14. VenueOfOwnOrg'
  <2>1. ASSUME NEW v \in Venues, NEW n \in Members, member'[n].venue = v
        PROVE  member[n].venue = v /\ member'[n].org = member[n].org
    BY <1>3, <1>4, <1>5, <2>1, NullAssumption
  <2>2. ASSUME NEW v \in Venues, venue[v] = "live"
        PROVE  venue'[v] = "live" /\ venueOrg'[v] = venueOrg[v]
    BY <1>7, <2>2
  <2>3. QED BY <1>1, <2>1, <2>2 DEF VenueOfOwnOrg
<1>15. OneOrgPerApplication' BY <1>1, <1>7, <1>8 DEF OneOrgPerApplication, TypeOK
<1>16. NothingLeft'
  <2> SUFFICES ASSUME NEW x \in Users \ overtaken, account[x] = "deleted"
               PROVE  /\ \A n \in Members : member'[n].user # x
                      /\ \A b \in Applications : application'[b].user = x => application'[b].status # "PENDING"
                      /\ \A q \in Requests : request'[q].user = x => request'[q].outdated
    BY <1>1 DEF NothingLeft, Rows
  <2>1. /\ \A n \in Members : member[n].user # x
        /\ \A b \in Applications : application[b].user = x => application[b].status # "PENDING"
        /\ \A q \in Requests : request[q].user = x => request[q].outdated
    BY DEF NothingLeft, Rows
  <2>2. u # x BY <1>0, <1>1, <1>2, <2>1
  <2>3. \A n \in Members : member'[n].user # x BY <1>3, <1>4, <1>5, <2>1, <2>2
  <2>4. \A b \in Applications : application'[b].user = x => application'[b].status # "PENDING"
    BY <1>8, <2>1
  <2>5. ASSUME NEW q \in Requests, request'[q].user = x PROVE request'[q].outdated
    <3>1. request[q] \in RequestState BY DEF TypeOK
    <3>2. Idle.user # x BY NullAssumption DEF Idle
    <3>3. QED BY <1>10, <2>1, <2>5, <3>1, <3>2, OutdatedFacts
  <2>6. QED BY <2>3, <2>4, <2>5
<1>17. PendingHasApplicant' BY <1>8 DEF PendingHasApplicant
<1>18. OwnersKept
  <2>1. \A x \in Orgs : x \notin disordered' => x \notin OrgsOf(Rows(u)) \/ OneOwnerIn(x)'
    BY <1>1, OrgsOfTyped, ExcuseFacts
  <2>2. member[m] = NoRow BY <1>1 DEF FreshMember
  <2>3. QED BY <1>2, <1>4, <2>1, <2>2, LeavingKeepsOwners
<1>19. QED BY <1>11, <1>12, <1>13, <1>14, <1>15, <1>16, <1>17, <1>18

\* The first two statements of a deletion write nothing that others see yet.
LEMMA DeletionMovesKeep ==
    ASSUME MemInv, NEW r \in Requests, DeleteRows(r) \/ DeleteApplications(r)
    PROVE  MemInv'
<1> USE DEF MemInv
<1>0. /\ request[r] \in RequestState /\ RequestOK(request[r]) /\ request[r].user \in Users
      /\ request \in [Requests -> RequestState]
      /\ UNCHANGED <<tables, history>>
  BY DEF TypeOK, RequestsOK, RequestOK, Shape, At, DeleteRows, DeleteApplications
<1>1. PICK u : u = request[r].user OBVIOUS
<1>2. account[u] = "deleted" => u \in overtaken \/ request[r].outdated
  BY <1>0, <1>1 DEF NothingLeft
<1>3. CASE DeleteRows(r)
  <2>1. PICK m \in IF Rows(u) = {} THEN {NoMember} ELSE Rows(u) :
          request' = [request EXCEPT ![r].at = "deleteApplications", ![r].row = m]
    BY <1>1, <1>3 DEF DeleteRows
  <2>2. PICK q : q = [request[r] EXCEPT !.at = "deleteApplications", !.row = m] OBVIOUS
  <2>3. m \in Members \cup {NoMember} /\ (m # NoMember => member[m].user = u) BY <2>1 DEF Rows
  <2>8. Rows(u) \subseteq {m}
    <3> SUFFICES ASSUME NEW n \in Rows(u) PROVE n = m OBVIOUS
    <3>1. n \in Members /\ member[n].user = u /\ m \in Members /\ member[m].user = u
      BY <2>1 DEF Rows
    <3>2. member[n] # NoRow BY <1>0, <1>1, <3>1, NullAssumption DEF NoRow
    <3>3. QED BY <3>1, <3>2 DEF TypeOK
  <2>4. /\ q \in RequestState /\ q.at = "deleteApplications" /\ q.row = m /\ q.user = u
        /\ q.owner = request[r].owner /\ q.org = request[r].org /\ q.venue = request[r].venue
        /\ q.role = request[r].role /\ q.outdated = request[r].outdated
    BY <1>0, <1>1, <2>2, <2>3 DEF RequestState
  <2>5. request' = [request EXCEPT ![r] = q] BY <1>0, <2>1, <2>2
  <2>6. RequestOK(q)
    BY <1>0, <1>1, <2>3, <2>4, <2>8 DEF RequestOK, Shape, Known, Stands, FoundAll, Lowers
  <2>7. QED BY <1>0, <1>2, <2>4, <2>5, <2>6, MoveKeeps
<1>4. CASE DeleteApplications(r)
  <2>1. /\ request[r].at = "deleteApplications"
        /\ request' = [request EXCEPT ![r].at = "deleteUser", ![r].apps = Pending(u)]
    BY <1>1, <1>4 DEF DeleteApplications, At
  <2>2. PICK q : q = [request[r] EXCEPT !.at = "deleteUser", !.apps = Pending(u)] OBVIOUS
  <2>3. Pending(u) \in SUBSET Applications BY DEF Pending
  <2>4. /\ q \in RequestState /\ q.at = "deleteUser" /\ q.row = request[r].row /\ q.user = u
        /\ q.owner = request[r].owner /\ q.org = request[r].org /\ q.venue = request[r].venue
        /\ q.role = request[r].role /\ q.outdated = request[r].outdated
    BY <1>0, <1>1, <2>2, <2>3 DEF RequestState
  <2>5. request' = [request EXCEPT ![r] = q] BY <1>0, <2>1, <2>2
  <2>6. RequestOK(q)
    BY <1>0, <1>1, <2>1, <2>4 DEF RequestOK, Shape, Known, Stands, FoundAll, Lowers
  <2>7. QED BY <1>0, <1>2, <2>4, <2>5, <2>6, MoveKeeps
<1>5. QED BY <1>3, <1>4

LEMMA DeleteKeeps ==
    ASSUME MemInv, NEW r \in Requests, CommitDelete(r)
    PROVE  MemInv' /\ OwnersKept
<1> USE DEF MemInv
<1>0. PICK u, gone : u = request[r].user /\ gone = Rows(u) \cap {request[r].row} OBVIOUS
<1>1. /\ At(r, "deleteUser")
      /\ account' = [account EXCEPT ![u] = "deleted"]
      /\ member' = [n \in Members |-> IF n \in gone THEN NoRow ELSE member[n]]
      /\ application' = Without(Pending(u) \cap request[r].apps)
      /\ Excuse(OrgsOf(gone)) /\ Commit(r, NoOrg, {u})
      /\ overtaken' = IF Rows(u) \subseteq {request[r].row} /\ Pending(u) \subseteq request[r].apps
                      THEN overtaken ELSE overtaken \cup {u}
      /\ UNCHANGED <<org, venue, venueOrg, call, origin>>
  BY <1>0 DEF CommitDelete
<1>2. u \in Users BY <1>0, <1>1 DEF At, RequestsOK, RequestOK, Shape
<1>3. /\ member' \in [Members -> MemberRow \cup {NoRow}]
      /\ \A n \in Members : member'[n] = IF n \in gone THEN NoRow ELSE member[n]
      /\ \A n \in gone : n \in Members /\ member[n].user = u
  BY <1>0, <1>1 DEF TypeOK, Rows
<1>4. RowsShrink BY <1>3 DEF RowsShrink
<1>5. RowsMoved(NoOrg, {u}) BY <1>3 DEF RowsMoved
<1>6. /\ application' \in [Applications -> [status : {"ABSENT", "PENDING", "APPROVED", "REJECTED"},
                                            user : Users \cup {NoUser}, org : Orgs \cup {NoOrg}]]
      /\ \A b \in Applications :
           \/ application'[b] = application[b] /\ b \notin Pending(u) \cap request[r].apps
           \/ application[b].status = "PENDING" /\ application'[b].status = "ABSENT"
  BY <1>1 DEF Without, Pending, TypeOK
<1>7. /\ request' \in [Requests -> RequestState]
      /\ \A q \in Requests :
           \/ request'[q] = Idle
           \/ request'[q] = [request[q] EXCEPT !.outdated = TRUE]
           \/ request'[q] = request[q] /\ request[q].org # NoOrg /\ request[q].user \notin {u}
  BY <1>1, CommitFacts
<1>8. /\ disordered' \subseteq Orgs /\ OneOwner'
      /\ \A x \in Orgs : x \notin disordered' => x \notin OrgsOf(gone) \/ OneOwnerIn(x)'
  <2>1. gone \subseteq Rows(u) BY <1>0
  <2>2. OrgsOf(gone) \in SUBSET Orgs BY <2>1, OrgsOfTyped DEF OrgsOf
  <2>3. QED BY <1>1, <1>4, <2>2, ExcuseFacts, ShrinkFacts, OneOwnerKept
<1>9. TypeOK'
  <2>1. \A n \in Members : member'[n] # NoRow => org[member'[n].org] = "live"
    BY <1>3, MemberFacts
  <2>2. \A n, l \in Members : member'[n] # NoRow /\ member'[n].user = member'[l].user => n = l
    BY <1>4, ShrinkFacts
  <2>3. account' \in [Users -> {"active", "deleted"}] /\ overtaken' \subseteq Users
    BY <1>1, <1>2 DEF TypeOK
  <2>4. QED BY <1>1, <1>3, <1>6, <1>7, <1>8, <2>1, <2>2, <2>3 DEF TypeOK
<1>10. RequestsOK'
  <2>1. VenuesKept BY <1>1 DEF VenuesKept
  <2>2. QED BY <1>1, <1>5, <1>9, <2>1, CommitKeepsRequests
<1>11. VenueOfOwnOrg'
  <2>1. NoRow.venue \notin Venues BY NullAssumption DEF NoRow
  <2>2. QED BY <1>1, <1>3, <2>1 DEF VenueOfOwnOrg
<1>12. OneOrgPerApplication'
  <2>1. \A b \in Applications : application[b].status = "APPROVED" => application'[b] = application[b]
    BY <1>6
  <2>2. origin' = origin /\ \A o \in Orgs : origin[o] \in Applications \cup {NoApplication}
    BY <1>1 DEF TypeOK
  <2>3. QED BY <2>1, <2>2 DEF OneOrgPerApplication
<1>13. NothingLeft'
  <2> SUFFICES ASSUME NEW x \in Users \ overtaken', account'[x] = "deleted"
               PROVE  /\ \A n \in Members : member'[n].user # x
                      /\ \A b \in Applications : application'[b].user = x => application'[b].status # "PENDING"
                      /\ \A q \in Requests : request'[q].user = x => request'[q].outdated
    BY <1>1 DEF NothingLeft, Rows
  <2>0. /\ x \notin overtaken
        /\ x = u => Rows(u) \subseteq gone /\ Pending(u) \subseteq request[r].apps
    BY <1>0, <1>1
  <2>1. x # u =>
          /\ \A n \in Members : member[n].user # x
          /\ \A b \in Applications : application[b].user = x => application[b].status # "PENDING"
          /\ \A q \in Requests : request[q].user = x => request[q].outdated
    BY <1>1, <2>0 DEF NothingLeft, Rows, TypeOK
  <2>2. NoRow.user # x /\ Idle.user # x BY NullAssumption DEF NoRow, Idle
  <2>3. \A n \in Members : member'[n].user # x BY <1>3, <2>0, <2>1, <2>2 DEF Rows
  <2>4. \A b \in Applications : application'[b].user = x => application'[b].status # "PENDING"
    BY <1>6, <2>0, <2>1 DEF Pending
  <2>5. ASSUME NEW q \in Requests, request'[q].user = x PROVE request'[q].outdated
    <3>1. request[q] \in RequestState BY DEF TypeOK
    <3>2. QED BY <1>7, <2>1, <2>2, <2>5, <3>1, OutdatedFacts
  <2>6. QED BY <2>3, <2>4, <2>5
<1>14. PendingHasApplicant' BY <1>6 DEF PendingHasApplicant
<1>15. OwnersKept
  <2> SUFFICES ASSUME NEW x \in Orgs, NEW n \in Owners(x), x \notin disordered' PROVE Owners(x)' # {}
    BY DEF OwnersKept
  <2>1. n \in Members /\ member[n].org = x BY DEF Owners
  <2>2. CASE n \in gone
    <3>1. x \in OrgsOf(gone) BY <2>1, <2>2, NullAssumption DEF OrgsOf
    <3>2. QED BY <1>8, <3>1 DEF OneOwnerIn
  <2>3. CASE n \notin gone
    <3>1. member'[n] = member[n] BY <1>3, <2>1, <2>3
    <3>2. QED BY <3>1 DEF Owners
  <2>4. QED BY <2>2, <2>3
<1>16. QED BY <1>8, <1>9, <1>10, <1>11, <1>12, <1>13, <1>14, <1>15

-----------------------------------------------------------------------------
(* The theorems.                                                           *)

\* Steps that leave the rows and the calls' organizations alone.
LEMMA NothingMoves ==
    ASSUME member' = member, \A c \in Calls : call'[c].org = call[c].org \/ call[c].state # "OPEN"
    PROVE  OwnersKept /\ CallsPlaced
BY DEF OwnersKept, Owners, CallsPlaced

LEMMA SameCalls ==
    ASSUME call' = call
    PROVE  CallsPlaced
BY DEF CallsPlaced

LEMMA CommitsKeep ==
    ASSUME MemInv, NEW r \in Requests, Commits(r)
    PROVE  MemInv' /\ OwnersKept /\ CallsPlaced
<1>1. CASE FindOwner(r)
  BY <1>1, FindOwnerKeeps, NothingMoves DEF FindOwner, tables
<1>2. CASE CommitUpdate(r)
  BY <1>2, UpdateKeeps, SameCalls DEF CommitUpdate
<1>3. CASE CommitRemove(r)
  BY <1>3, RemoveKeeps, SameCalls DEF CommitRemove
<1>4. CASE CommitDelete(r)
  BY <1>4, DeleteKeeps, SameCalls DEF CommitDelete
<1>5. CASE CommitDeleteOrg(r)
  BY <1>5, DeleteOrgKeeps
<1>13. CASE DeleteRows(r) \/ DeleteApplications(r)
  BY <1>13, DeletionMovesKeep, NothingMoves DEF DeleteRows, DeleteApplications, tables
<1>6. ASSUME NEW m \in Members, CommitAdd(r, m) PROVE MemInv' /\ OwnersKept /\ CallsPlaced
  BY <1>6, AddKeeps, SameCalls DEF CommitAdd
<1>7. ASSUME NEW m \in Members, NEW o \in Orgs, CommitFound(r, o, m)
      PROVE  MemInv' /\ OwnersKept /\ CallsPlaced
  BY <1>7, FoundKeeps, SameCalls DEF CommitFound
<1>8. ASSUME NEW m \in Members, NEW o \in Orgs, NEW v \in Venues \cup {NoVenue}, CommitBind(r, o, v, m)
      PROVE  MemInv' /\ OwnersKept /\ CallsPlaced
  BY <1>8, BindKeeps, SameCalls DEF CommitBind
<1>9. ASSUME NEW m \in Members, NEW o \in Orgs, NEW vs \in SUBSET Venues, CommitApprove(r, o, vs, m)
      PROVE  MemInv' /\ OwnersKept /\ CallsPlaced
  BY <1>9, ApproveKeeps, SameCalls DEF CommitApprove
<1>10. ASSUME NEW a \in Applications, CommitApply(r, a) PROVE MemInv' /\ OwnersKept /\ CallsPlaced
  BY <1>10, ApplyKeeps, NothingMoves DEF CommitApply
<1>11. ASSUME NEW c \in Calls, CommitAlarm(r, c) PROVE MemInv' /\ OwnersKept /\ CallsPlaced
  <2>1. member' = member /\ \A x \in Calls : call'[x].org = call[x].org \/ call[x].state # "OPEN"
    BY <1>11 DEF CommitAlarm, MemInv, TypeOK
  <2>2. QED BY <1>11, <2>1, AlarmKeeps, NothingMoves
<1>12. QED
  BY <1>1, <1>2, <1>3, <1>4, <1>5, <1>6, <1>7, <1>8, <1>9, <1>10, <1>11, <1>13 DEF Commits

LEMMA NextKeeps ==
    ASSUME MemInv, [Next]_vars
    PROVE  MemInv' /\ [OwnersKept]_vars /\ [CallsPlaced]_vars
<1>1. ASSUME NEW r \in Requests, Receives(r) PROVE MemInv' /\ OwnersKept /\ CallsPlaced
  <2>1. MemInv' BY <1>1, UserReceivesKeep, PanelReceivesKeep DEF Receives
  <2>2. UNCHANGED tables
    BY <1>1 DEF Receives, ReceiveFound, ReceiveBind, ReceiveApply, ReceiveDelete, ReceiveAlarm,
                ReceiveDeleteOrg, ReceiveAdd, ReceiveUpdate, ReceiveRemove, ReceiveApprove, Receive
  <2>3. QED BY <2>1, <2>2, NothingMoves DEF tables
<1>2. ASSUME NEW r \in Requests, Commits(r) PROVE MemInv' /\ OwnersKept /\ CallsPlaced
  BY <1>2, CommitsKeep
<1>3. ASSUME NEW r \in Requests, Fail(r) PROVE MemInv' /\ OwnersKept /\ CallsPlaced
  BY <1>3, FailKeeps, NothingMoves DEF Fail, tables
<1>4. ASSUME \E o \in Orgs : CreateOrganization(o) \/ \E v \in Venues : CreateVenue(v, o)
      PROVE  MemInv' /\ OwnersKept /\ CallsPlaced
  BY <1>4, CreateKeeps, NothingMoves DEF CreateOrganization, CreateVenue
<1>5. ASSUME NEW v \in Venues, DeleteVenue(v) PROVE MemInv' /\ OwnersKept /\ CallsPlaced
  BY <1>5, DeleteVenueKeeps
<1>6. ASSUME NEW a \in Applications, RejectApplication(a) PROVE MemInv' /\ OwnersKept /\ CallsPlaced
  BY <1>6, PlainKeeps, NothingMoves DEF RejectApplication
<1>7. ASSUME NEW c \in Calls, CloseCall(c) PROVE MemInv' /\ OwnersKept /\ CallsPlaced
  <2>1. member' = member /\ \A x \in Calls : call'[x].org = call[x].org
    BY <1>7 DEF CloseCall, MemInv, TypeOK
  <2>2. QED BY <1>7, <2>1, PlainKeeps, NothingMoves
<1>8. CASE UNCHANGED vars
  <2>1. UNCHANGED <<tables, request, history>> BY <1>8 DEF vars
  <2> USE <2>1 DEF MemInv, tables, history
  <2>2. TypeOK' BY DEF TypeOK
  <2>3. RequestsOK' BY <2>2, RowsStay DEF VenuesKept, CallsKept
  <2>4. QED
    BY <1>8, <2>2, <2>3 DEF VenueOfOwnOrg, OneOrgPerApplication, OneOwner, Owners, NothingLeft, Rows,
                            PendingHasApplicant
<1>9. QED BY <1>1, <1>2, <1>3, <1>4, <1>5, <1>6, <1>7, <1>8 DEF Next

\* MemInv holds throughout: what the requests under way rely on, and what the
\* rows keep to, are kept together by every step.
THEOREM Invariance == Spec => []MemInv
<1>1. MemInv /\ [Next]_vars => MemInv' BY NextKeeps
<1>2. QED BY InitMemInv, <1>1, PTL DEF Spec

\* Every variable keeps its type; a person has one row at most, no row outlives
\* its organization, and no live venue does.
THEOREM TypeCorrect == Spec => []TypeOK
<1>1. MemInv => TypeOK BY DEF MemInv
<1>2. QED BY <1>1, Invariance, PTL

\* Members and calls stand in venues of their own organization, through every
\* deletion, cascade and late commit.
THEOREM VenuesMatch == Spec => []VenueOfOwnOrg
<1>1. MemInv => VenueOfOwnOrg BY DEF MemInv
<1>2. QED BY <1>1, Invariance, PTL

\* An application makes one organization at most.
THEOREM ApprovedOnce == Spec => []OneOrgPerApplication
<1>1. MemInv => OneOrgPerApplication BY DEF MemInv
<1>2. QED BY <1>1, Invariance, PTL

\* An organization has one owner at most, unless an outdated request has written.
THEOREM OwnerIsOne == Spec => []OneOwner
<1>1. MemInv => OneOwner BY DEF MemInv
<1>2. QED BY <1>1, Invariance, PTL

\* A deleted account belongs nowhere, whatever commits before, between and after
\* the statements of the deletion, unless it is excused: a request about it came
\* after the commit, or its row or application between the statements.
THEOREM DeletedIsOut == Spec => []DeletedBelongsNowhere
<1>1. MemInv => DeletedBelongsNowhere BY DEF MemInv, NothingLeft, DeletedBelongsNowhere
<1>2. QED BY <1>1, Invariance, PTL

\* An organization that has an owner keeps one, with the same exception.
THEOREM OwnerIsKept == Spec => OwnerStays
<1>1. MemInv /\ [Next]_vars => [OwnersKept]_vars BY NextKeeps
<1>2. QED BY <1>1, Invariance, PTL DEF Spec, OwnerStays, OwnersKept

\* An open call keeps its organization, unless it was raised after the calls of
\* the organization were counted.
THEOREM OpenCallStays == Spec => OpenCallKeepsOrg
<1>1. MemInv /\ [Next]_vars => [CallsPlaced]_vars BY NextKeeps
<1>2. QED BY <1>1, Invariance, PTL DEF Spec, OpenCallKeepsOrg, CallsPlaced

-----------------------------------------------------------------------------
(* What the comments promise, and what it takes.                           *)

\* No outdated request commits, as under serializable isolation.
UpToDate == \A r \in Requests : request[r].outdated => ~Commits(r)

\* Nothing but the commit of its deletion ends an account.
LEMMA AccountsEnd ==
    ASSUME Next, TypeOK, NEW u \in Users, account'[u] # account[u]
    PROVE  \E r \in Requests : CommitDelete(r) /\ request[r].user = u
<1>1. ASSUME UNCHANGED account PROVE FALSE BY <1>1
<1>2. ASSUME NEW r \in Requests, Receives(r) \/ Fail(r) PROVE FALSE
  BY <1>1, <1>2 DEF Receives, ReceiveFound, ReceiveBind, ReceiveApply, ReceiveDelete, ReceiveAlarm,
                    ReceiveDeleteOrg, ReceiveAdd, ReceiveUpdate, ReceiveRemove, ReceiveApprove,
                    Receive, Fail, tables
<1>3. ASSUME NEW r \in Requests, Commits(r) PROVE CommitDelete(r)
  BY <1>1, <1>3 DEF Commits, FindOwner, CommitUpdate, CommitRemove, CommitDeleteOrg, DeleteRows,
                    DeleteApplications, CommitAdd, CommitFound, CommitBind, CommitApprove,
                    CommitApply, CommitAlarm, tables
<1>4. ASSUME \/ \E o \in Orgs : CreateOrganization(o) \/ \E v \in Venues : CreateVenue(v, o)
             \/ \E v \in Venues : DeleteVenue(v)
             \/ \E a \in Applications : RejectApplication(a)
             \/ \E c \in Calls : CloseCall(c)
      PROVE  FALSE
  BY <1>1, <1>4 DEF CreateOrganization, CreateVenue, DeleteVenue, RejectApplication, CloseCall
<1>5. PICK r \in Requests : CommitDelete(r) BY <1>2, <1>3, <1>4 DEF Next
<1>6. request[r].user = u BY <1>5 DEF CommitDelete, TypeOK
<1>7. QED BY <1>5, <1>6

\* "Related cascading rows are removed": then no membership is left when a deletion
\* commits.  What comes in between its statements outdates it.
THEOREM DeletionTakesAll == Spec /\ [][UpToDate]_vars => DeletionIsComplete
<1> DEFINE Complete == \A u \in Users : account[u] = "active" /\ account'[u] = "deleted" => Rows(u)' = {}
<1>1. ASSUME MemInv, [Next]_vars, [UpToDate]_vars PROVE [Complete]_vars
  <2> SUFFICES ASSUME Next, UpToDate, NEW u \in Users, account[u] = "active", account'[u] = "deleted"
               PROVE  Rows(u)' = {}
    BY <1>1 DEF vars, tables
  <2>1. PICK r \in Requests : CommitDelete(r) /\ request[r].user = u
    BY <1>1, AccountsEnd DEF MemInv
  <2>2. ~request[r].outdated BY <2>1 DEF UpToDate, Commits
  <2>3. At(r, "deleteUser") /\ Rows(u) \subseteq {request[r].row}
    BY <1>1, <2>1, <2>2 DEF MemInv, RequestsOK, RequestOK, Stands, FoundAll, CommitDelete, At
  <2>4. \A n \in Members : member'[n] = IF n \in Rows(u) THEN NoRow ELSE member[n]
    BY <2>1, <2>3 DEF CommitDelete
  <2>5. NoRow.user # u BY NullAssumption DEF NoRow
  <2>6. QED BY <2>4, <2>5 DEF Rows
<1>2. MemInv /\ [Next]_vars /\ [UpToDate]_vars => [Complete]_vars BY <1>1
<1>3. QED BY <1>2, Invariance, PTL DEF Spec, DeletionIsComplete

\* Nobody deletes the account of an owner, or approves an owner's application.
OwnersAreLeft ==
    \A r \in Requests :
        /\ CommitDelete(r) => MayLeave(request[r].user)
        /\ \A m \in Members, o \in Orgs, vs \in SUBSET Venues :
             CommitApprove(r, o, vs, m) => MayLeave(application[request[r].app].user)

\* Then only an organization that has no owner is ever excused.
Unowned == \A o \in disordered : org[o] = "live" /\ Owners(o) = {}

StillUnowned ==
    \A o \in disordered' : Owners(o) = {} /\ org'[o] = "live" /\ Owners(o)' = {}

\* OwnerNeverLost as a predicate on steps.
OwnersNeverLost == \A o \in Orgs : Owners(o) # {} /\ org'[o] = "live" => Owners(o)' # {}

LEMMA NoOwnerComes ==
    ASSUME Unowned, disordered' \subseteq disordered,
           \A o \in disordered' : org'[o] = org[o] /\ Owners(o)' \subseteq Owners(o)
    PROVE  StillUnowned
BY DEF Unowned, StillUnowned

LEMMA OneOwnerComes ==
    ASSUME TypeOK, Unowned, NEW m \in Members, Excuse({}), org' = org,
           \A o \in Orgs : Owners(o)' \subseteq Owners(o) \cup {m}
    PROVE  StillUnowned
<1> SUFFICES ASSUME NEW o \in disordered'
             PROVE  Owners(o) = {} /\ org'[o] = "live" /\ Owners(o)' = {}
  BY DEF StillUnowned
<1>1. o \in disordered /\ ~OneOwnerIn(o)' BY DEF Excuse
<1>2. o \in Orgs /\ org[o] = "live" /\ Owners(o) = {} BY <1>1 DEF TypeOK, Unowned
<1>3. Owners(o)' \subseteq {m} BY <1>2
<1>4. Owners(o)' # {m} BY <1>1 DEF OneOwnerIn
<1>5. QED BY <1>2, <1>3, <1>4

\* Rows of somebody who owns nothing go.
LEMMA NoOwnerGoes ==
    ASSUME TypeOK, OneOwner, Unowned, NEW u \in Users, NEW ms \in SUBSET Rows(u), Excuse(OrgsOf(ms)),
           \A o \in Orgs : org[o] = "live" => org'[o] = "live" /\ Owners(o)' = Owners(o)
    PROVE  StillUnowned
<1> SUFFICES ASSUME NEW o \in disordered'
             PROVE  Owners(o) = {} /\ org'[o] = "live" /\ Owners(o)' = {}
  BY DEF StillUnowned
<1>1. (o \in disordered \/ o \in OrgsOf(ms)) /\ ~OneOwnerIn(o)' BY DEF Excuse
<1>2. CASE o \in disordered
  <2>1. o \in Orgs /\ org[o] = "live" /\ Owners(o) = {} BY <1>2 DEF TypeOK, Unowned
  <2>2. QED BY <2>1
<1>3. CASE o \notin disordered
  <2>1. PICK n \in Members : member[n].org = o /\ o # NoOrg BY <1>1, <1>3 DEF OrgsOf, Rows
  <2>2. o \in Orgs /\ org[o] = "live" BY <2>1, MemberFacts
  <2>3. Owners(o)' = Owners(o) /\ org'[o] = "live" BY <2>2
  <2>4. ASSUME NEW k \in Owners(o) PROVE FALSE
    <3>1. Owners(o) = {k} /\ k \in Members BY <1>3, <2>2 DEF OneOwner, Owners
    <3>2. OneOwnerIn(o)' BY <2>3, <3>1 DEF OneOwnerIn
    <3>3. QED BY <1>1, <3>2
  <2>5. QED BY <2>3, <2>4
<1>4. QED BY <1>2, <1>3

\* A request that is up to date excuses nothing.
LEMMA ExcusesNothing ==
    ASSUME UpToDate, NEW r \in Requests, Commits(r), NEW os, Contest(r, os)
    PROVE  Excuse({})
BY DEF UpToDate, Contest

LEMMA ExcuseShrinks ==
    ASSUME Excuse({})
    PROVE  disordered' \subseteq disordered
BY DEF Excuse

LEMMA RowsStayUnowned ==
    ASSUME MemInv, Unowned, UpToDate, NEW r \in Requests, Commits(r),
           CommitRemove(r) \/ CommitDeleteOrg(r)
    PROVE  StillUnowned
<1> USE DEF MemInv
<1>1. CASE CommitRemove(r)
  <2>1. disordered' \subseteq disordered /\ org' = org
    BY <1>1, ExcusesNothing, ExcuseShrinks DEF CommitRemove
  <2>2. RowsShrink BY <1>1 DEF CommitRemove, RowsShrink, TypeOK
  <2>3. \A o \in Orgs : Owners(o)' \subseteq Owners(o) BY <2>2, ShrinkFacts
  <2>4. QED BY <2>1, <2>3, NoOwnerComes DEF TypeOK
<1>2. CASE CommitDeleteOrg(r)
  <2>0. PICK o : o = request[r].org OBVIOUS
  <2> DEFINE vs == {v \in Venues : venue[v] = "live" /\ venueOrg[v] = o}
             kept == [m \in Members |-> IF member[m].org = o THEN NoRow ELSE member[m]]
  <2>1. member' = Unbind(vs, kept) /\ disordered' = disordered \ {o}
        /\ org' = [org EXCEPT ![o] = "deleted"]
    BY <1>2, <2>0 DEF CommitDeleteOrg
  <2>2. vs \in SUBSET Venues /\ kept \in [Members -> MemberRow \cup {NoRow}] BY DEF TypeOK
  <2>3. \A m \in Members : kept[m] = NoRow \/ kept[m] = member[m] OBVIOUS
  <2> HIDE DEF vs, kept
  <2>4. /\ member' \in [Members -> MemberRow \cup {NoRow}]
        /\ \A m \in Members : /\ member'[m] = NoRow <=> kept[m] = NoRow
                              /\ member'[m].user = kept[m].user /\ member'[m].org = kept[m].org
                              /\ member'[m].role = kept[m].role
    BY <2>1, <2>2, MemberUnbound
  <2>5. RowsShrink BY <2>3, <2>4 DEF RowsShrink
  <2>6. \A x \in Orgs : Owners(x)' \subseteq Owners(x) BY <2>5, ShrinkFacts
  <2>7. QED BY <2>1, <2>6, NoOwnerComes DEF TypeOK
<1>3. QED BY <1>1, <1>2

LEMMA AddUnowned ==
    ASSUME MemInv, Unowned, UpToDate, NEW r \in Requests, Commits(r),
           NEW m \in Members, CommitAdd(r, m) \/ (CommitUpdate(r) /\ m = request[r].row)
    PROVE  StillUnowned
<1> USE DEF MemInv
<1>1. Excuse({}) /\ org' = org /\ OwnerIsThere(r)
  BY ExcusesNothing DEF CommitAdd, CommitUpdate
<1>2. PICK D, k : D = Demoted(r) /\ k = request[r].owner OBVIOUS
<1>3. /\ D \in [Members -> MemberRow \cup {NoRow}]
      /\ \A n \in Members : n # k => D[n] = member[n]
      /\ k # NoMember => k \in Members /\ D[k].role = "MANAGER"
  BY <1>1, <1>2, DemotedFacts
<1>4. \A n \in Members : n # m => member'[n] = D[n]
  BY <1>2, <1>3 DEF CommitAdd, CommitUpdate
<1>5. \A n \in Members : n # m /\ member'[n].role = "OWNER" => member'[n] = member[n]
  BY <1>3, <1>4, NullAssumption
<1>6. \A o \in Orgs : Owners(o)' \subseteq Owners(o) \cup {m} BY <1>5 DEF Owners
<1>7. QED BY <1>1, <1>6, OneOwnerComes

LEMMA BindUnowned ==
    ASSUME MemInv, Unowned, UpToDate, NEW r \in Requests, Commits(r), NEW m \in Members,
           NEW o \in Orgs, NEW v \in Venues \cup {NoVenue}, CommitBind(r, o, v, m)
    PROVE  StillUnowned
<1> USE DEF MemInv
<1>1. Excuse({}) /\ org' = org
  BY ExcusesNothing DEF CommitBind
<1>2. ASSUME NEW n \in Members, member'[n].role = "OWNER" PROVE member'[n] = member[n]
  <2> DEFINE new == [user |-> request[r].user, org |-> o, role |-> "MEMBER", venue |-> v]
  <2>1. member'[n] = CASE n = m -> new
                       [] n \in Rows(request[r].user) -> NoRow
                       [] OTHER -> member[n]
    BY DEF CommitBind
  <2>2. new.role # "OWNER" /\ NoRow.role # "OWNER" BY DEF NoRow
  <2> HIDE DEF new
  <2>3. CASE n = m /\ n \notin Rows(request[r].user) BY <1>2, <2>1, <2>2, <2>3
  <2>4. CASE n # m /\ n \in Rows(request[r].user) BY <1>2, <2>1, <2>2, <2>4
  <2>5. CASE n # m /\ n \notin Rows(request[r].user) BY <2>1, <2>5
  <2>6. CASE n = m /\ n \in Rows(request[r].user)
    BY <1>2, <2>1, <2>2, <2>6
  <2>7. QED BY <2>3, <2>4, <2>5, <2>6
<1>3. \A x \in Orgs : Owners(x)' \subseteq Owners(x) BY <1>2 DEF Owners
<1>4. QED BY <1>1, <1>3, ExcuseShrinks, NoOwnerComes DEF TypeOK

LEMMA FoundUnowned ==
    ASSUME MemInv, Unowned, NEW r \in Requests, NEW m \in Members, NEW o \in Orgs, CommitFound(r, o, m)
    PROVE  StillUnowned
<1> USE DEF MemInv
<1> DEFINE new == [user |-> request[r].user, org |-> o, role |-> "OWNER", venue |-> NoVenue]
<1>1. /\ org[o] = "absent" /\ org' = [org EXCEPT ![o] = "live"]
      /\ member' = [member EXCEPT ![m] = new] /\ disordered' = disordered
  BY DEF CommitFound
<1>2. new.org = o OBVIOUS
<1> HIDE DEF new
<1>3. \A x \in disordered : x \in Orgs /\ x # o /\ org'[x] = org[x] BY <1>1 DEF Unowned, TypeOK
<1>4. \A x \in Orgs : x # o => Owners(x)' \subseteq Owners(x) BY <1>1, <1>2 DEF Owners, TypeOK
<1>5. QED BY <1>1, <1>3, <1>4, NoOwnerComes

LEMMA ApproveUnowned ==
    ASSUME MemInv, Unowned, OwnersAreLeft, NEW r \in Requests, NEW m \in Members, NEW o \in Orgs,
           NEW vs \in SUBSET Venues, CommitApprove(r, o, vs, m)
    PROVE  StillUnowned
<1> USE DEF MemInv
<1>0. PICK a, u, new : /\ a = request[r].app /\ u = application[a].user
                       /\ new = [user |-> u, org |-> o, role |-> "OWNER", venue |-> NoVenue]
  OBVIOUS
<1>1. /\ At(r, "approve") /\ application[a].status = "PENDING" /\ org[o] = "absent" /\ FreshMember(m)
      /\ org' = [org EXCEPT ![o] = "live"]
      /\ member' = [n \in Members |-> CASE n = m -> new
                                        [] n \in Rows(u) -> NoRow
                                        [] OTHER -> member[n]]
      /\ Excuse(OrgsOf(Rows(u)))
  BY <1>0 DEF CommitApprove, StillPending
<1>2. MayLeave(u) /\ a \in Applications /\ u \in Users
  <2>1. MayLeave(u) BY <1>0 DEF OwnersAreLeft
  <2>2. QED BY <1>0, <1>1, <2>1 DEF At, RequestsOK, RequestOK, Shape, PendingHasApplicant
<1>3. new.org = o BY <1>0
<1>4. member[m] = NoRow /\ NoRow.role # "OWNER" /\ NoRow.user # u
  BY <1>1, <1>2, NullAssumption DEF FreshMember, NoRow
<1>5. ASSUME NEW n \in Members
      PROVE  member'[n] = IF n = m THEN new ELSE IF member[n].user = u THEN NoRow ELSE member[n]
  <2>1. member'[n] = CASE n = m -> new
                       [] n \in Rows(u) -> NoRow
                       [] OTHER -> member[n]
    BY <1>1
  <2>2. n \in Rows(u) <=> member[n].user = u BY DEF Rows
  <2>3. n = m => n \notin Rows(u) BY <1>4, <2>2
  <2>4. CASE n = m BY <2>1, <2>3, <2>4
  <2>5. CASE n # m /\ n \in Rows(u) BY <2>1, <2>2, <2>5
  <2>6. CASE n # m /\ n \notin Rows(u) BY <2>1, <2>2, <2>6
  <2>7. QED BY <2>4, <2>5, <2>6
<1>6. \A n \in Members : member[n].user = u => member[n].role # "OWNER" BY <1>2 DEF MayLeave, Rows
<1>7. ASSUME NEW x \in Orgs, org[x] = "live" PROVE org'[x] = "live" /\ Owners(x)' = Owners(x)
  <2>1. x # o /\ org'[x] = "live" BY <1>1, <1>7 DEF TypeOK
  <2>2. ASSUME NEW n \in Members
        PROVE  member'[n].org = x /\ member'[n].role = "OWNER" <=> member[n].org = x /\ member[n].role = "OWNER"
    BY <1>3, <1>4, <1>5, <1>6, <2>1
  <2>3. QED BY <2>1, <2>2 DEF Owners
<1>8. QED BY <1>1, <1>2, <1>7, NoOwnerGoes

LEMMA DeleteUnowned ==
    ASSUME MemInv, Unowned, OwnersAreLeft, NEW r \in Requests, CommitDelete(r)
    PROVE  StillUnowned
<1> USE DEF MemInv
<1>0. PICK u, gone : u = request[r].user /\ gone = Rows(u) \cap {request[r].row} OBVIOUS
<1>1. /\ At(r, "deleteUser") /\ org' = org
      /\ member' = [n \in Members |-> IF n \in gone THEN NoRow ELSE member[n]]
      /\ Excuse(OrgsOf(gone)) /\ MayLeave(u)
  BY <1>0 DEF CommitDelete, OwnersAreLeft
<1>2. u \in Users BY <1>0, <1>1 DEF At, RequestsOK, RequestOK, Shape
<1>3. \A n \in gone : member[n].role # "OWNER" BY <1>0, <1>1 DEF MayLeave
<1>4. NoRow.role # "OWNER" BY DEF NoRow
<1>5. \A x \in Orgs : Owners(x)' = Owners(x) BY <1>1, <1>3, <1>4 DEF Owners
<1>6. gone \subseteq Rows(u) BY <1>0
<1>7. QED BY <1>1, <1>2, <1>5, <1>6, NoOwnerGoes

LEMMA NextUnowned ==
    ASSUME MemInv, Unowned, [Next]_vars, [UpToDate]_vars, [OwnersAreLeft]_vars
    PROVE  Unowned' /\ [OwnersNeverLost]_vars
<1>1. CASE UNCHANGED vars
  <2>1. UNCHANGED <<disordered, org, member>> BY <1>1 DEF vars, tables, history
  <2>2. QED BY <1>1, <2>1 DEF Unowned, Owners
<1>2. CASE Next /\ UpToDate /\ OwnersAreLeft
  <2>1. ASSUME disordered' = disordered, member' = member,
               \A o \in disordered : org'[o] = org[o]
        PROVE  StillUnowned
    BY <2>1, NoOwnerComes DEF Owners
  <2>2. ASSUME NEW r \in Requests, Receives(r) \/ Fail(r) PROVE StillUnowned
    <3>1. CASE Receives(r)
      BY <2>1, <3>1 DEF Receives, ReceiveFound, ReceiveBind, ReceiveApply, ReceiveDelete, ReceiveAlarm,
                        ReceiveDeleteOrg, ReceiveAdd, ReceiveUpdate, ReceiveRemove, ReceiveApprove,
                        Receive, tables, history
    <3>2. CASE Fail(r) BY <2>1, <3>2 DEF Fail, tables, history
    <3>3. QED BY <2>2, <3>1, <3>2
  <2>3. ASSUME NEW r \in Requests, Commits(r) PROVE StillUnowned
    <3>1. CASE FindOwner(r) BY <2>1, <3>1 DEF FindOwner, tables, history
    <3>2. CASE CommitUpdate(r)
      <4>1. request[r].row \in Members
        BY <3>2 DEF CommitUpdate, At, MemInv, RequestsOK, RequestOK, Shape
      <4>2. QED BY <1>2, <2>3, <3>2, <4>1, AddUnowned
    <3>12. CASE DeleteRows(r) \/ DeleteApplications(r)
      BY <2>1, <3>12 DEF DeleteRows, DeleteApplications, tables, history
    <3>3. CASE CommitRemove(r) \/ CommitDeleteOrg(r) BY <1>2, <2>3, <3>3, RowsStayUnowned
    <3>4. CASE CommitDelete(r) BY <1>2, <3>4, DeleteUnowned
    <3>5. ASSUME NEW m \in Members, CommitAdd(r, m) PROVE StillUnowned
      BY <1>2, <2>3, <3>5, AddUnowned
    <3>6. ASSUME NEW m \in Members, NEW o \in Orgs, CommitFound(r, o, m) PROVE StillUnowned
      BY <3>6, FoundUnowned
    <3>7. ASSUME NEW m \in Members, NEW o \in Orgs, NEW v \in Venues \cup {NoVenue}, CommitBind(r, o, v, m)
          PROVE  StillUnowned
      BY <1>2, <2>3, <3>7, BindUnowned
    <3>8. ASSUME NEW m \in Members, NEW o \in Orgs, NEW vs \in SUBSET Venues, CommitApprove(r, o, vs, m)
          PROVE  StillUnowned
      BY <1>2, <3>8, ApproveUnowned
    <3>9. ASSUME NEW a \in Applications, CommitApply(r, a) PROVE StillUnowned
      BY <2>1, <3>9 DEF CommitApply
    <3>10. ASSUME NEW c \in Calls, CommitAlarm(r, c) PROVE StillUnowned
      BY <2>1, <3>10 DEF CommitAlarm, history
    <3>11. QED
      BY <2>3, <3>1, <3>2, <3>3, <3>4, <3>5, <3>6, <3>7, <3>8, <3>9, <3>10, <3>12 DEF Commits
  <2>4. ASSUME NEW o \in Orgs, CreateOrganization(o) PROVE StillUnowned
    BY <2>1, <2>4 DEF CreateOrganization, history, Unowned, MemInv, TypeOK
  <2>5. ASSUME NEW v \in Venues, DeleteVenue(v) PROVE StillUnowned
    <3>1. /\ member' = Unbind({v}, member) /\ UNCHANGED <<org, disordered>>
          /\ {v} \in SUBSET Venues /\ member \in [Members -> MemberRow \cup {NoRow}]
      BY <2>5 DEF DeleteVenue, history, MemInv, TypeOK
    <3>2. RowsShrink BY <3>1, MemberUnbound DEF RowsShrink
    <3>3. \A o \in Orgs : Owners(o)' \subseteq Owners(o) BY <3>2, ShrinkFacts DEF MemInv
    <3>4. QED BY <3>1, <3>3, NoOwnerComes DEF MemInv, TypeOK
  <2>6. ASSUME NEW o \in Orgs, NEW v \in Venues, CreateVenue(v, o) PROVE StillUnowned
    BY <2>1, <2>6 DEF CreateVenue, history
  <2>7. ASSUME NEW a \in Applications, RejectApplication(a) PROVE StillUnowned
    BY <2>1, <2>7 DEF RejectApplication, history
  <2>8. ASSUME NEW c \in Calls, CloseCall(c) PROVE StillUnowned
    BY <2>1, <2>8 DEF CloseCall, history
  <2>9. StillUnowned BY <1>2, <2>2, <2>3, <2>4, <2>5, <2>6, <2>7, <2>8 DEF Next
  <2>10. OwnersKept \/ UNCHANGED vars BY NextKeeps
  <2>11. QED BY <1>1, <2>9, <2>10 DEF StillUnowned, Unowned, OwnersKept, OwnersNeverLost
<1>3. QED BY <1>1, <1>2

\* "An organization without an owner cannot be managed": none loses its owner, if
\* no outdated request commits and no owner is deleted or given another
\* organization.
THEOREM OwnerIsNeverLost ==
    Spec /\ [][UpToDate]_vars /\ [][OwnersAreLeft]_vars => OwnerNeverLost
<1>1. Init => Unowned BY DEF Init, Unowned
<1>2. MemInv /\ Unowned /\ [Next]_vars /\ [UpToDate]_vars /\ [OwnersAreLeft]_vars
         => Unowned' /\ [OwnersNeverLost]_vars
  BY NextUnowned
<1>3. QED BY <1>1, <1>2, Invariance, PTL DEF Spec, OwnerNeverLost, OwnersNeverLost
=============================================================================
