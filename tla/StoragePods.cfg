\* One chunk on two nodes: creation, a rolling update and two faults, at any moment
\* and as many as the preStop hook has tries.
SPECIFICATION FairSpec
CONSTANTS
    ChunkNumber = 1
    Nodes = {n1, n2}
    NoNode = NoNode
    serverProxyShutdownTime = 2
    OFFSET_THRESHOLD = 2
    FullOffset = 3
    MaxRolls = 1
    MaxFaults = 2
INVARIANTS
    TypeOK
    MasterReplicaApart
    ShardKept
    HandsOverBeforeShutdown
PROPERTIES
    RebootsAfterProbe
    RollingUpdateEnds
\* The pods are at rest when the updates are over.
CHECK_DEADLOCK FALSE
