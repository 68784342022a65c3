CONSTANTS
    ModeArgs    <- MCModeArgs
    VerboseArgs <- MCVerboseArgs
    MaxFd       = 4
SPECIFICATION Spec
INVARIANTS
    TypeOK
    OneArchivePerProcess
    MappingMatchesMode
    NoDescriptorLeak
    StaleOnlyAfterMoveIn
    LoadOnlyComplete
PROPERTIES
    ForeignFdsKept
    ModeIsFinal
