\* Every reconcile interleaved with one edit of the CR and one fault.
SPECIFICATION FairSpec
CONSTANTS
    MaxChunk = 2
    chunkShardNumber = 1
    scaleDownWaitTime = 1
    MaxEdits = 1
    MaxFaults = 1
INVARIANTS
    TypeOK
    RestsOnlyWhenDone
PROPERTIES
    ShrinkOnlyDrained
    Convergence
\* The operator rests when the work is done.
CHECK_DEADLOCK FALSE
