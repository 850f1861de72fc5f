\* Three edits of the CR at any moments, then convergence or a stranded migration.
SPECIFICATION FairSpec
CONSTANTS
    MaxChunk = 2
    chunkShardNumber = 1
    scaleDownWaitTime = 1
    MaxEdits = 3
    MaxFaults = 0
PROPERTY Convergence
\* The operator rests when the work is done.
CHECK_DEADLOCK FALSE
