\* Two overlapping requests of one browser, two people.
SPECIFICATION Spec
CONSTANTS
    q1 = q1
    q2 = q2
    ann = ann
    bob = bob
    NoUser = NoUser
    Requests <- TwoRequests
    Users <- TwoUsers
    TTL = 2
    MaxLatency = 1
    MaxTime = 4
SYMMETRY RequestsAlike
INVARIANT LogoutSticks
\* The clock stops at MaxTime and every request may have been answered.
CHECK_DEADLOCK FALSE
