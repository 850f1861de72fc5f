\* Two edits of the image, the second at any moment of the update the first
\* one brings, or one edit and one fault; one pod per component.
SPECIFICATION FairSpec
CONSTANTS
    brokerNum = 1
    coordinatorNum = 1
    storageNum = 1
    Editable = {"image"}
    MaxEdits = 2
    MaxFaults = 1
    MaxEvents = 2
INVARIANTS
    TypeOK
    UpgradeOrder
    RestsOnlyWhenUpdated
PROPERTIES
    OrderedUpgrade
    RollingUpdateCompletes
\* The operator rests when the work is done.
CHECK_DEADLOCK FALSE
