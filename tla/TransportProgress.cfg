\* A write and a read share one slot; threads start.  Workers may hang.
SPECIFICATION CallerSpec
CONSTANTS
    w1 = w1
    w2 = w2
    r1 = r1
    Calls <- TwoCalls
    Writes <- OneWrite
    Capacity = 1
    Statuses <- AuthStatus
    StartMayFail = FALSE
PROPERTIES
    RefusalMeansBusy
    EveryCallReturns
    CapacityComesBack
\* Every call is made once: the system rests when all have returned.
CHECK_DEADLOCK FALSE
