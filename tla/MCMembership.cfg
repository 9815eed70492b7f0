\* Two people, so that one can take over from the other; two organizations, so
\* that one can leave for the other; three member rows, so that a new one is
\* never one that a request in flight has read; OWNER and one lesser role to
\* hand out (MEMBER comes with an invite code, MANAGER with a demotion).
CONSTANTS
    Users = {u1, u2}
    Orgs = {o1, o2}
    Venues = {v1}
    Members = {m1, m2, m3}
    Applications = {a1}
    Calls = {c1}
    Requests = {r1, r2}
    GivenRoles = {"OWNER", "STAFF"}
    NoUser = NoUser
    NoOrg = NoOrg
    NoVenue = NoVenue
    NoMember = NoMember
    NoApplication = NoApplication
SYMMETRY Symmetry
\* With everybody deleted and every organization gone nothing is left to do.
CHECK_DEADLOCK FALSE
SPECIFICATION MCSpec
INVARIANTS
    TypeOK
    VenueOfOwnOrg
    OneOrgPerApplication
    OneOwner
    DeletedBelongsNowhere
PROPERTIES
    OwnerStays
    OpenCallKeepsOrg
