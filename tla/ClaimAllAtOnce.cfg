\* An edit of the image has all three components restart their pods.
SPECIFICATION Spec
CONSTANTS
    brokerNum = 2
    coordinatorNum = 2
    storageNum = 2
    Editable = {"image", "limit", "broker", "coordinator", "storage"}
    MaxEdits = 2
    MaxFaults = 0
    MaxEvents = 2
INVARIANT NotAllAtTheSameTime
CHECK_DEADLOCK FALSE
