CONSTANTS
    CDS_MAX_IMG_SIZE = 8192
    MaxAlloc         = 6
    Sizes            <- MCSizes
SPECIFICATION Spec
\* The dumping process ends.
CHECK_DEADLOCK FALSE
INVARIANTS
    BlocksApart
    BlocksInHeap
    BlocksInFile
    LoaderMapsBlocks
    FailureUndone
