\* Two brokers and two coordinators, one fault at any moment.
SPECIFICATION FairSpec
CONSTANTS
    Brokers = {b1, b2}
    Coordinators = {c1, c2}
    None = None
    MaxEpoch = 1
    MaxFaults = 1
INVARIANTS
    TypeOK
    SplitBrainIsTemporary
PROPERTIES
    MasterAgreed
    FailoverCompletes
