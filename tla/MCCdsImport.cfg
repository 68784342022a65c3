CONSTANTS
    Names     <- MCNames
    Parent    <- MCParent
    Threads   = {1, 2}
    Programs  <- MCPrograms
    None      = None
    OtherKind = "extension"
SPECIFICATION SpecCds
INVARIANTS
    TypeOK
    RecordsAreOfOneExecution
    LoadedAreShared
PROPERTIES
    ImplementsPython
