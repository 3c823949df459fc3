\* A server that has two threads in its one process: two calls in two seconds.
SPECIFICATION Spec
CONSTANTS
    c1 = c1
    c2 = c2
    c3 = c3
    c4 = c4
    k1 = k1
    k2 = k2
    Checks <- FourChecks
    Keys <- TwoKeys
    MaxCalls = 2
    PerSeconds = 2
    Threads = 2
    MaxTime = 4
SYMMETRY Alike
INVARIANT WindowBound
\* Every call is made once and the clock stops at MaxTime.
CHECK_DEADLOCK FALSE
