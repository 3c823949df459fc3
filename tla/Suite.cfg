\* Three attempts with clocks a tick apart; three audited writes, one of them with
\* an invalid event, over two connections, one of them to a server; the payloads of MCSuite.
SPECIFICATION SuiteSpec
CONSTANTS
    Attempts = 3
    StaleAfter = 1
    Skew = 1
    MaxTime = 5
    w1 = w1
    w2 = w2
    w3 = w3
    c1 = c1
    c2 = c2
    NoConn = NoConn
    Writes <- ThreeWrites
    Invalid <- OneInvalid
    Conns <- TwoConns
    Remote <- OneServer
    Reports = TRUE
    day = day
    Absent = Absent
    Null = Null
    Other = Other
    Ids <- TwoIds
    Instants <- TwoInstants
    Days <- OneDay
    Texts <- OneText
    Destinations <- OneDestination
    SafeInteger = 3
    MaxItems = 2
    Snapshots <- SomeSnapshots
INVARIANTS
    TypeOK
    FreshnessTruthful
    AuditedTypeOK
    AuditedTogether
    NothingSmuggled
    ReadingsAgree
PROPERTIES
    SuccessAdvances
    RunsEnd
    ImplementsAtomicWrite
\* The clock stops at MaxTime, attempts are few, and every call is made once.
CHECK_DEADLOCK FALSE
