\* Two operators and one worker: reassignments, a list with several operators.
CONSTANTS
    Operators = {op1, op2}
    Calls = {c1}
    Workers = {w1}
    NoOperator = NoOperator
    Nobody = Nobody
    LostReply = LostReply
    ReclaimAfter = 1
    DropAfter = 2
    HeartbeatTTL = 3
    LockTTL = 1
SYMMETRY Symmetry
SPECIFICATION Spec
PROPERTIES
    OnlySilentLoseCalls
    ConnectedKeepsCall
    ImplementsCallBoard
