SPECIFICATION FairSpec
CONSTANTS
    t1 = t1
    t2 = t2
    t3 = t3
    Calls = {t1, t2, t3}
    Retries = 1
    MaxGen = 2
INVARIANTS
    InflightCounted
    NoneForgotten
    
PROPERTIES
    NotCutOff
    
