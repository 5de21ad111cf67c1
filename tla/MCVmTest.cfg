SPECIFICATION TestFairSpec
CONSTANTS
    t1 = t1
    t2 = t2
    Callers <- TwoCallers
    Reporting = {8}
    Thresholds = {1, 2}
    Masks = {1, 4}
    MaxErrors = 2
INVARIANTS
    TestTypeOK
    GoesOnBelowThreshold
PROPERTIES
    PhasesInOrder
    OncePerCaller
    ReturnsComplete
    RunEnds
