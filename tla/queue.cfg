SPECIFICATION FairSpec
CONSTANTS
    c1 = c1
    c2 = c2
    c3 = c3
    big = big
    NoCall = NoCall
    Model = big
    Calls = {c1, c2, c3}
    Limit <- SameLimits
    Estimate <- Estimates
    UnderCeiling = {c2}
    RealTokens = {1, 3}
    Budget = 3
    Window = 3
    MaxConcurrent = 2
INVARIANTS
    WithinBudget
    InTime
PROPERTIES
    QueuesAsFailoverSays
    EveryWaitEnds
