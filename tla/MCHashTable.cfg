CONSTANTS
    Keys     <- MCKeys
    Values   = {v1, v2}
    NULL     = NULL
    WordBits = 8
    HASHTABLE_MIN_SIZE = 2
SPECIFICATION Spec
INVARIANTS
    WellPlaced
    BlocksExact
PROPERTY
    ImplementsTable
