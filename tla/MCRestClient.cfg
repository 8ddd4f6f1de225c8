SPECIFICATION FairSpec
CONSTANTS
    Calls = {c1, c2}
    Nobody = Nobody
    Unset = Unset
    v1 = v1
    v2 = v2
    Settings <- MCSettings
    Values <- MCValues
    UserSettings <- MCUserSettings
    ServerConfigs <- MCServerConfigs
    MaxAttempts = 3
INVARIANTS
    MutationSentOnce
    DefiniteOutcomes
    SameSettings
PROPERTIES
    ImplementsRemoteCalls
    CallReturns
