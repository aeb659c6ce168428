SPECIFICATION Spec
CONSTANTS
    Docs = {A}
    Contents = {"c1", "c2"}
    Invalid = {}
    Codes = {}
    CodesOf <- NoCodes
    Models = {"m1"}
    Dim <- OneWidth
    Workers = {w1}
    ModelOf <- Configured
    NewModel = "m1"
    Built = {"m1"}
    MaxStamp = 1
    None = None
    Callers = {x, y}
    Keys = {p, q}
    MaxEntries = 2
    MaxCalls = 4
INVARIANTS
    
    RecentlyUsedKept
SYMMETRY Symmetry
CHECK_DEADLOCK FALSE
