CONSTANTS
    Graphs       <- MCGraphs
    LoadBases    <- MCLoadBases
    InternTables <- MCInternTables
    Environments <- MCEnvironments
    DumpBase     = 1024
    Span         = 8
    IdStrs       = {3}
    ListedStrs   = {2}
    StaticAtoms  = {1}
SPECIFICATION Spec
INVARIANTS
    TypeOK
    PublishedIsComplete
    OneCopyPerString
    StringRefsExact
    StringRefsSound
    LoadedEqualsDumped
    LoadedStringsInterned
    NeverFreed
    SlotsOwnReferences
PROPERTIES
    ImplementsStore
    SourceKeepsValue
    CallsEnd
