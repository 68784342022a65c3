CONSTANTS
    Graphs       <- MCGraphs
    LoadBases    <- MCLoadBases
    InternTables <- MCInternTables
    Environments <- SmallHeap
    DumpBase     = 1024
    Span         = 8
    IdStrs       = {3}
    ListedStrs   = {2}
    StaticAtoms  = {1}
SPECIFICATION Spec
INVARIANT HeapFullIsReported
