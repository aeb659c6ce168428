SPECIFICATION Spec
CONSTANTS
    Ids = {1, 2, 3}
    Tolerance = 1
    Floor = 100
    RrfK = 60
    VectorWeight = 6
    KeywordWeight = 4
    EntityBoost = 15
    CandidateK = 3
    RerankCandidates = 3
    FinalK = 2
    SkipMargin = 25
    Threshold = 30
    Break <- MCBreak
    Space <- MCSpace
    Size = 4
    Overlap = 2
    MaxCaption = 3
    KeyShaped <- MCKeyShaped
    AutoAccept = 92
    Disambiguate = 78
    MaxSuggestions = 3
    MaxCandidates = 3
    FailureStops = {"cap_reached", "timeout", "no_new_evidence"}
    Hidden = {"chunks"}
    CostBudget = 20
    AbstainMarkers <- MCMarkers
    SlowMs = 20
    MonthLengths <- MCMonths
    FirstWeekday = 0
    Limit = 2
    Window = 3
    Columns <- MCColumns
    Denied <- MCDenied
    JoinKeys <- MCJoinKeys
    TimeColumns <- MCTimeColumns
    Guarded = "telemetry"
    Flag = "flag"
    MaxJoins = 3
    MaxDepth = 2
    DefaultLimit = 100
    MaxLimit = 1000
    Rows <- MCRows
INVARIANTS
    GroundedMeansBacked
    SearchesAreFair
    ChunksAreWhole
    
    
    TurnsAreTraced
    StatementsAreSafe
    VerdictsHold
CHECK_DEADLOCK FALSE
