SPECIFICATION FairSpec
CONSTANTS
    k1 = k1
    k2 = k2
    v1 = v1
    v2 = v2
    Keys <- MCKeys
    Values = {v1, v2}
    Absent = Absent
    Missing = Missing
    NoState = NoState
    Defaults <- OneDefault
    StaleReads = TRUE
    ConfigFailures = {"rejected", "uncertain"}
    MaxOps = 2
    MaxOther = 1
    MaxCrashes = 1
CHECK_DEADLOCK FALSE
INVARIANTS
    SuccessWasConverged
    AdoptionWasExact
PROPERTIES
    RemovalsStayManaged
    StateIsTruthful
    HandlerEnds
