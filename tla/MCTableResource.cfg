SPECIFICATION FairSpec
CONSTANTS
    mutable = mutable
    immutable = immutable
    type = type
    pk = pk
    v1 = v1
    v2 = v2
    low = low
    upper = upper
    a = a
    spaced = spaced
    empty = empty
    s1 = s1
    s1x = s1x
    s2 = s2
    A = A
    Keys = {mutable, immutable, type, pk}
    Values = {v1, v2, low, upper, a, spaced, empty}
    Absent = Absent
    PrimaryKey = pk
    TypeKey = type
    Immutable = {immutable, type, pk}
    DefaultType = low
    Folded <- MCFolded
    KeyLists = {NoKeys, A}
    NoKeys = NoKeys
    Parsed <- MCParsed
    Joined <- MCJoined
    Schemas = {s1, s1x, s2}
    Shape <- MCShape
    Alterable <- MCAlterable
    Plans <- MCPlans
    Defaults <- MCDefaults
    OtherTables <- MCOtherTables
    Missing = Missing
    NoState = NoState
    Unknown = Unknown
    StaleReads = TRUE
    MaxOps = 2
    MaxOther = 1
    MaxCrashes = 1
CHECK_DEADLOCK FALSE
INVARIANTS
    OneMutationEach
    SuccessIsThePlan
    AdoptionWasExact
    InPlaceIsAlterable
    OthersArePreserved
PROPERTIES
    RemovalsStayManaged
    StateIsTruthful
    HandlerEnds
