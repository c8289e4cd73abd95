SPECIFICATION Spec
CONSTANTS
    TeamSize = 2
    ShortGame = 5
    Platform = platform
    Other = other
    Platforms = {platform, other}
    TargetPatch = 2
    Missing = missing
    Nothing = nothing
    Refused = refused
    Positions = {"TOP", "MID"}
    MaxPreviousPatches = 1
    ViabilityShare = 10
    ViabilityGames = 1
    Top = "TOP"
    PrimaryMinutes = {10, 15}
    HistoryMinute = 10
    TowerMinute = 15
    Lateness = 1
    RecentDays = 2
    TargetEligible = 12
    TrainingPatch = 1
    EvaluationPatch = 2
    SelectionFolds = 2
    OuterBlocks <- MCOuterBlocks
    InnerFolds = 1
    Day = 1
    FinalCutoff = 6
    MinimumTraining = 2
    MinimumPerPlatform = 1
    HoldoutStart = 6
    Sealed <- MCSealed
    Candidates <- MCCandidates
    MaxApproved = 3
    MaxStudies = 2
CHECK_DEADLOCK FALSE
INVARIANTS
    AggregatesAreCounted
    LeaveOutIsTheRest
    PredictionsAreBlind
    HistoryIsStrictlyPast
