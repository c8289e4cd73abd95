\* Three concurrent calls with two attempts each and a budget that cannot pay
\* for all of them.  The client stops when every call has ended.
SPECIFICATION Spec
CONSTANTS
    Calls = {c1, c2, c3}
    MaxRetries = 1
    Budget = 4
CHECK_DEADLOCK FALSE
INVARIANTS
    TypeOK
    BudgetNeverExceeded
    RefusalMeansSpent
    RetriesBounded
    MetricsAccountForAttempts
PROPERTIES
    ImplementsContract
    EveryCallEnds
