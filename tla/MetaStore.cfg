\* Two brokers, three requests at a time, one of them given up or lost.
SPECIFICATION FairSpec
CONSTANTS
    Brokers = {b1, b2}
    Handlers = {h1, h2, h3}
    MaxChanges = 1
    MaxFaults = 1
INVARIANTS
    TypeOK
    NoLostUpdate
PROPERTIES
    AtomicRegister
    EveryChangeStored
\* Brokers stop when all their changes are stored.
CHECK_DEADLOCK FALSE
