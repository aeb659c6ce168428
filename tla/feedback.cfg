SPECIFICATION Spec
CONSTANTS
    CaseIds = {t1, hand}
    Start = {hand}
    Prune = FALSE
    Systems = {s1, s2}
    MaxRuns = 1
    MaxLines = 2
    NoReport = NoReport
    Turns = {t1}
    Raters = {r1}
    Reviewers = {v1}
    MaxFlags = 2
    None = None
INVARIANTS
    
    
    ScoredOnce
    CompleteMeansScored
SYMMETRY Symmetry
CHECK_DEADLOCK FALSE
