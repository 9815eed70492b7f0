\* One user (the keys and sessions of two never meet) and three calls in flight,
\* so that a lock can expire under one, be taken by the next and be waited for
\* by a third; three sessions, so that two more can follow a closed one.  No
\* symmetry: RetriesGetThrough is a liveness property.
CONSTANTS
    Users = {u1}
    Sessions = {s1, s2, s3}
    Calls = {c1, c2, c3}
    NoUser = NoUser
    NoCall = NoCall
\* Once every account is deleted nothing is left to happen.
CHECK_DEADLOCK FALSE
SPECIFICATION FairSosSpec
INVARIANTS
    OneOpenSession
    LockProtectsDecision
PROPERTY
    RetriesGetThrough
