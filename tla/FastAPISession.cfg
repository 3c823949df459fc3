\* Two overlapping requests of one browser, two people, two logins.
SPECIFICATION Spec
CONSTANTS
    q1 = q1
    q2 = q2
    ann = ann
    bob = bob
    NoUser = NoUser
    Requests <- TwoRequests
    Users <- TwoUsers
    TTL = 2
    MaxLatency = 1
    MaxLogins = 2
    MaxTime = 3
SYMMETRY Alike
INVARIANT TypeOK FormKeepsItsUser
PROPERTY StaleIdentityBound
\* The clock stops at MaxTime and every request may have been answered.
CHECK_DEADLOCK FALSE
