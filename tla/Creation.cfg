\* The CR is created, deleted and created again; one fault.
SPECIFICATION FairSpec
CONSTANTS
    Kinds <- MCKinds
    MaxCRs = 2
    MaxFaults = 1
INVARIANTS
    TypeOK
    RestsOnlyWhenCreated
PROPERTIES
    OwnedInTheEnd
