SPECIFICATION Spec
CONSTANTS
    a = a
    b = b
    c = c
    d = d
    e = e
    New = New
    First = First
    NoDefault = NoDefault
    MaxColumns = 4
    Names = {a, b, c, d, e}
    Types = {"t1", "t2", "row"}
    Composite = {"row"}
    Unset = Unset
    Defaults = {"v1"}
    Tables <- MCTables
    Configs <- MCConfigs
    MaxFieldID = 5
INVARIANTS
    RejectedOnlyForPartition
    AppliedIsPlanned
    RefusedOnlyForCycle
    NewIDsAreFresh
    DataFollowsIdentity
