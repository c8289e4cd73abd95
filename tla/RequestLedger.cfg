\* Calls of two attempts, strata of two pages, chunks of two, three invocations.
\* The process of the last one may be gone for good.
SPECIFICATION Spec
CONSTANTS
    AttemptsPerCall = 2
    PagesPerStratum = 2
    Concurrency = 2
    Ceilings = {8, 12}
    MaxInvocations = 3
CHECK_DEADLOCK FALSE
INVARIANTS
    TypeOK
    UnsavedBounded
    OverrunBounded
    CleanEndsExact
PROPERTIES
    LedgerNeverDecreases
