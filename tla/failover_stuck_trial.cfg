SPECIFICATION FairSpec
CONSTANTS
    c1 = c1
    c2 = c2
    c3 = c3
    big = big
    small = small
    Calls = {c1, c2}
    Models = {big}
    Targets <- TwoOfOneModel
    PrimaryOnly = {c1}
    Streams = {c2}
    UnderCeiling = {c2}
    Threshold = 2
    MaxConcurrent = 2
PROPERTIES
    RecoveredPrimaryCloses
