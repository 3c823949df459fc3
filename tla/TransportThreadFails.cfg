\* A write and a read share one slot; the thread of either may fail to start.
SPECIFICATION Spec
CONSTANTS
    w1 = w1
    w2 = w2
    r1 = r1
    Calls <- TwoCalls
    Writes <- OneWrite
    Capacity = 1
    Statuses <- AuthStatus
    StartMayFail = TRUE
PROPERTY
    RefusalMeansBusy
\* Every call is made once: the system rests when all have returned.
CHECK_DEADLOCK FALSE
