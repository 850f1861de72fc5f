\* Two checkers with three keys each, two checks that write between them, and
\* one value that the cluster loses.
SPECIFICATION FairSpec
CONSTANTS
    Checkers = {0, 1}
    slotNumber = 1
    slotKeysNum = 2
    luaKeysNum = 1
    keysNum = 2
    monitorEnabled = TRUE
    maxRetryTimes = 2
    MaxWrites = 2
    MaxLosses = 1
INVARIANTS
    TypeOK
    NoFalseAlarm
PROPERTIES
    LossIsFound
    ErrorEndsAll
\* All checkers have returned and the dump is written.
CHECK_DEADLOCK FALSE
