\* Two operators, so that a call can change hands, and two handlers in flight, so
\* that one's events can overtake the other's.
CONSTANTS
    Operators = {op1, op2}
    Requests = {r1, r2}
    NoOperator = NoOperator
SYMMETRY Symmetry
SPECIFICATION Spec
INVARIANTS
    TypeOK
    KnowsOwnCall
    OffersAreFree
    FreeCallIsOffered
