CONSTANTS
    ModeArgs    <- MCModeArgs
    VerboseArgs <- MCVerboseArgs
    MaxFd       = 4
SPECIFICATION Spec
INVARIANT SecondMoveInRefused
