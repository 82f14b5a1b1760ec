\* Three sources of up to three frames each.
CONSTANTS
    MaxOpens = 3
    MaxFrames = 3
SPECIFICATION FairSpec
INVARIANTS
    TypeOK
    RecordsOpenDevice
    SeenIsPosed
    StatusIsFlagged
PROPERTIES
    PosesAdvance
    LatchedIsPosed
