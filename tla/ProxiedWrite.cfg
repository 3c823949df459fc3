\* A Flask application, whose client has no transport; two attempts at one write.
SPECIFICATION Spec
CONSTANTS
    Attempts = 2
    Bounded = FALSE
    Statuses <- SomeStatuses
    RetriesOn <- Trusting
INVARIANT AppliedAtMostOnce
\* The person stops after the last attempt.
CHECK_DEADLOCK FALSE
