SPECIFICATION Spec
CONSTANTS
    k1 = k1
    k2 = k2
    v1 = v1
    v2 = v2
    Keys <- MCKeys
    Values = {v1, v2}
    Absent = Absent
    Missing = Missing
    NoState = NoState
    Defaults <- OneDefault
    StaleReads = FALSE
    ConfigFailures = {"notfound"}
    MaxOps = 2
    MaxOther = 0
    MaxCrashes = 0
CHECK_DEADLOCK FALSE
PROPERTIES
    RemovedOnlyIfMissing
