\* One operator and two workers that may outlast the lock.
CONSTANTS
    Operators = {op1}
    Calls = {c1}
    Workers = {w1, w2}
    NoOperator = NoOperator
    Nobody = Nobody
    LostReply = LostReply
    ReclaimAfter = 1
    DropAfter = 2
    HeartbeatTTL = 2
    LockTTL = 1
SPECIFICATION FairSpec
INVARIANTS
    OverlapNeedsExpiry
PROPERTIES
    SilentLosesCall
    DeadShiftEnds
