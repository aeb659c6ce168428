SPECIFICATION CorpusSpec
CONSTANTS
    Docs = {A, B}
    Contents = {"c1", "c2", "c3", "c4"}
    Invalid = {"c4"}
    Codes = {"k1", "k2"}
    CodesOf <- MCCodesOf
    Models = {"m0", "m1", "m2"}
    Dim <- MCDim
    Workers = {w1, w2}
    ModelOf <- Restarted
    NewModel = "m2"
    Built = {"m0", "m1", None}
    MaxStamp = 3
    None = None
INVARIANTS
    
    CodesAreCurrent
    UnsharedCodesFound
SYMMETRY Symmetry
CHECK_DEADLOCK FALSE
