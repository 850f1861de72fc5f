\* A new template while a pod is not ready, with a probe that waits for every
\* byte.
SPECIFICATION FairSpec
CONSTANTS
    ChunkNumber = 1
    Nodes = {n1, n2}
    NoNode = NoNode
    serverProxyShutdownTime = 2
    OFFSET_THRESHOLD = 1
    FullOffset = 2
    MaxRolls = 1
    MaxFaults = 0
PROPERTIES
    RebootsAfterSync
CHECK_DEADLOCK FALSE
