SPECIFICATION FairSpec
CONSTANTS
    MaxTurns = 2
    Hasty = FALSE
    Drafts = 2
INVARIANTS
    OneDraftShown
    FlagsPointBack
PROPERTY
    EveryStreamCloses
CHECK_DEADLOCK FALSE
