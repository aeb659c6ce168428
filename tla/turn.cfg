SPECIFICATION FairSpec
CONSTANTS
    q1 = q1
    q2 = q2
    q3 = q3
    q4 = q4
    ToolCalls = {q1, q2, q3, q4}
    MaxIterations = 3
    MaxCallsPerLap = 2
    MaxEntries = 2
    MaxEvidence = 7
    RecursionLimit = 17
CHECK_DEADLOCK FALSE
INVARIANTS
    NoCallTwice
    WithinRecursionLimit
    PartialUnlessComplete
    ShippedAsChecked
PROPERTIES
    TurnEnds
