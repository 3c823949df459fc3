\* Two writes and a read share two slots; thread creation may fail.
SPECIFICATION Spec
CONSTANTS
    w1 = w1
    w2 = w2
    r1 = r1
    Calls <- ThreeCalls
    Writes <- TwoWrites
    Capacity = 2
    Statuses <- AnyStatus
    StartMayFail = TRUE
SYMMETRY WritesAlike
INVARIANTS
    TypeOK
    SlotAccounting
    TruthfulOutcome
    PutNeverBlocks
PROPERTY ImplementsDependencyCall
\* Every call is made once: the system rests when all have returned.
CHECK_DEADLOCK FALSE
