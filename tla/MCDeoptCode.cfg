CONSTANTS
    Opcodes <- MCOpcodes
    Deopt <- MCDeopt
    Caches <- MCCaches
    Warmup <- MCWarmup
    Sources <- MCSources
    Instructions = 3
SPECIFICATION Spec
INVARIANTS
    TypeOK
    MeaningKept
    ColdBehind
    CopyIsFresh
CHECK_DEADLOCK FALSE
