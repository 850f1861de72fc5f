\* The wait before a scale-down is skipped.
SPECIFICATION ClaimSpec
CONSTANTS
    MaxChunk = 2
    chunkShardNumber = 1
    scaleDownWaitTime = 1
    MaxEdits = 3
    MaxFaults = 0
PROPERTY WaitsBeforeScaleDown
CHECK_DEADLOCK FALSE
