\* One person with two requests, two handlers, one worker whose lock may expire
\* under it, four moments: asked, granted, lapsed, renewed.
CONSTANTS
    Users = {u1}
    Rows = {q1, q2}
    Handlers = {h1, h2}
    Workers = {w1}
    MaxNow = 4
    Production = FALSE
    NoUser = NoUser
    NoRow = NoRow
    Nobody = Nobody
    LostReply = LostReply
SPECIFICATION FairSpec
INVARIANTS
    InForce
    ToldTheTruth
    DeletedNotEntitled
PROPERTIES
    DecidedOnce
    FlagGoesOut
