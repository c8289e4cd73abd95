CONSTANTS
    foreign = foreign
    own = own
    p = p
    q = q
    first = first
    Absent = Absent
    Matches <- MCMatches
    Foreign <- MCForeign
    Malformed <- MCMalformed
    NumParts = 2
    Processors = {p, q}
    Directories = {first}
    MaxProcessing = 2
    MaxRuns = 2
SPECIFICATION Spec
CHECK_DEADLOCK FALSE
INVARIANTS
    RepairTypeOK
    TornIsRecoverable
    ReportedRepairHolds
PROPERTIES
    FailedRepairRestores
    OwnCreditKept
    ProcessedIsFinal
    EveryMatchIsSettled
