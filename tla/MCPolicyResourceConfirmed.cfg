SPECIFICATION Spec
CONSTANTS
    Contents = {a, b}
    None = None
    StaleReads = TRUE
    MaxOps = 2
    MaxOther = 0
    MaxCrashes = 0
CHECK_DEADLOCK FALSE
INVARIANTS
    PreviousRemainsIsConfirmed
