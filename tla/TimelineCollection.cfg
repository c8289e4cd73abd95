\* Two tasks at a time for three matches that the sources may select in two steps; the
\* ceiling may be too low for them and may change; two invocations.
SPECIFICATION Spec
CONSTANTS
    a = a
    b = b
    c = c
    Absent = Absent
    Matches = {a, b, c}
    Versions = {1, 2}
    Selections <- MCSelections
    Ceilings = {2, 3}
    Concurrency = 2
    AttemptsPerCall = 2
    MaxInvocations = 2
CHECK_DEADLOCK FALSE
INVARIANTS
    TypeOK
    DownloadsReadable
    SentIsCharged
    ReturnIsComplete
PROPERTIES
    CeilingHolds
    TerminalIsFinal
    InvocationEnds
