\* Two operators, two calls, two requests in flight: the smallest instance in
\* which two transactions compete for one operator and for one call.
CONSTANTS
    Operators = {op1, op2}
    Sessions = {s1, s2}
    Requests = {r1, r2}
    NoOperator = NoOperator
    NoSession = NoSession
SYMMETRY Symmetry
SPECIFICATION Spec
INVARIANTS
    OneCallPerOperator
    OpenCallHeldOnShift
    RowLockProtectsChecks
PROPERTIES
    NeverGivenToDeleted
    ImplementsCallBoard
