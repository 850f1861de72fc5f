\* Slots move to a pod that terminates.
SPECIFICATION ClaimSpec
CONSTANTS
    MaxChunk = 2
    chunkShardNumber = 1
    scaleDownWaitTime = 1
    MaxEdits = 2
    MaxFaults = 0
PROPERTY ScalesAfterTermination
CHECK_DEADLOCK FALSE
