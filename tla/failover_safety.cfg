SPECIFICATION Spec
CONSTANTS
    c1 = c1
    c2 = c2
    c3 = c3
    big = big
    small = small
    Calls = {c1, c2, c3}
    Models = {big, small}
    Targets <- TwoTiers
    PrimaryOnly = {}
    Streams = {c1, c2}
    UnderCeiling = {c1, c2, c3}
    Threshold = 2
    MaxConcurrent = 2
SYMMETRY Alike
INVARIANTS
    SlotAccounting
PROPERTIES
    
    CycleOfBig
