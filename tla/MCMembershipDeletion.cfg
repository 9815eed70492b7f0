\* The account is deleted while an organization is made for its owner: the worlds
\* of MCMembership.cfg.
CONSTANTS
    Users = {u1, u2}
    Orgs = {o1, o2}
    Venues = {v1}
    Members = {m1, m2, m3}
    Applications = {a1}
    Calls = {c1}
    Requests = {r1, r2}
    GivenRoles = {"OWNER", "STAFF"}
    NoUser = NoUser
    NoOrg = NoOrg
    NoVenue = NoVenue
    NoMember = NoMember
    NoApplication = NoApplication
SYMMETRY Symmetry
\* With everybody deleted and every organization gone nothing is left to do.
CHECK_DEADLOCK FALSE
SPECIFICATION MCSpec
PROPERTY
    DeletionIsComplete
