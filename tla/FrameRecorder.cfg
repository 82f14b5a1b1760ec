SPECIFICATION FairSpec
CONSTANTS
    RequestedDepth = 2
    MaxFrames = 4
    MaxStarts = 2
INVARIANTS
    TypeOK
    FramesAccounted
    StopDrains
    NoLostWakeup
PROPERTIES
    QueueIsServed
    StopReturns
    ImplementsRecording
