\* Two operators, so that a cron run can fail between them; two sockets of the
\* one who can connect; two requests that overlap or do not.
CONSTANTS
    Operators = {op1, op2}
    Sockets = {k1, k2}
    Requests = {r1, r2}
    NoOperator = NoOperator
SYMMETRY Symmetry
SPECIFICATION MCSpec
INVARIANTS
    RoomFollowsShift
    DeletedAreDisconnected
