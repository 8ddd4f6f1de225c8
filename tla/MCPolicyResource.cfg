SPECIFICATION FairSpec
CONSTANTS
    Contents = {a, b, c}
    None = None
    StaleReads = TRUE
    MaxOps = 2
    MaxOther = 1
    MaxCrashes = 1
CHECK_DEADLOCK FALSE
INVARIANTS
    DiagnosticTruth
PROPERTIES
    RefusedCreateNeverAdopts
    StateIsTruthful
    HandlerAdvances
    HandlerEnds
