CONSTANTS
    ModeArgs     <- MCModeArgs
    VerboseArgs  <- MCVerboseArgs
    Environments <- MCEnvironments
    MaxFd        = 3
SPECIFICATION SpecPackage
INVARIANTS
    InitFollowsEnvironment
    OneRole
    NeverFollowsStaleHandle
    ExitZeroMeans
