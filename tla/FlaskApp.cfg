\* An administrator and another person, two tokens, one upset per click, two
\* attempts at a write.
SPECIFICATION Spec
CONSTANTS
    alice = alice
    bob = bob
    t1 = t1
    t2 = t2
    NoUser = NoUser
    NoToken = NoToken
    Unset = Unset
    Users <- TwoUsers
    Level <- AliceIsAdmin
    Tokens <- TwoTokens
    MaxUpsets = 1
    Attempts = 2
    Statuses <- SomeStatuses
    RetriesOn <- Cautious
INVARIANTS
    TypeOK
    RedirectsBounded
    TokenLeavesAddress
    FetchesStayInApp
    OutageIsTold
    AppliedAtMostOnce
CHECK_DEADLOCK FALSE
PROPERTIES
    ClientKeepsPromise
    EveryClickIsAnswered
