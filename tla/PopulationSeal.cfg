SPECIFICATION Spec
CONSTANTS
    p1 = p1
    p2 = p2
    m1 = m1
    m2 = m2
    m3 = m3
    m4 = m4
    Absent = Absent
    Players <- MCPlayers
    Matches <- MCMatches
    Schedule <- MCSchedule
    TierOf <- MCTierOf
    MinPlayersPerTier = 1
    History <- MCHistory
    Worlds <- NextPatch
    Grants = {1, 6}
    Targets = {1, 2}
    MaxPlayers = 2
    MaxMatchIds = 3
    MaxRequests = 6
    BatchSize = 2
    MaxHistory = 3
    OlderStop = 2
    Concurrency = 2
    StopOnNewer = TRUE
    AttemptsPerCall = 1
    MaxInvocations = 2
CHECK_DEADLOCK FALSE
INVARIANT
    SealMeansNewer
