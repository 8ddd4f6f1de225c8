SPECIFICATION Spec
CONSTANTS
    None = None
    Pairs <- MCPairs
    Columns <- MCColumns
    KnownIDs <- MCKnownIDs
    MaxFieldID = 9
INVARIANTS
    SpellingMakesNoDifference
