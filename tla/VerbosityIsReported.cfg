CONSTANTS
    ModeArgs     <- MCModeArgs
    VerboseArgs  <- MCVerboseArgs
    Environments <- MCEnvironments
    MaxFd        = 3
SPECIFICATION SpecPackage
INVARIANT VerbosityIsReported
