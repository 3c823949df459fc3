\* A server that has two threads in its one process: two calls in two seconds; two
\* apps, asked by two requests.
SPECIFICATION ProcessSpec
CONSTANTS
    c1 = c1
    c2 = c2
    c3 = c3
    c4 = c4
    k1 = k1
    k2 = k2
    Checks <- FourChecks
    Keys <- TwoKeys
    MaxCalls = 2
    PerSeconds = 2
    Threads = 2
    MaxTime = 4
    Apps = {a1, a2}
    Requests = {q1, q2}
    Hosts = {hq, staging}
    Absolute = {hq, staging}
    Default = hq
    Secrets = {s1, s2}
    Blank = Blank
    None = None
SYMMETRY SomeAlike
INVARIANTS
    TypeOK
    SerialWindowBound
    RefusalJustified
    CoreTypeOK
    RequestsFollowSnapshot
    AskedBaseIsUsed
PROPERTY SnapshotStays
\* Every call is made once, the clock stops at MaxTime, and start-up may fail.
CHECK_DEADLOCK FALSE
