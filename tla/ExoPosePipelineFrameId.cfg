\* One source of two frames.
CONSTANTS
    MaxOpens = 1
    MaxFrames = 2
SPECIFICATION FairSpec
PROPERTY FrameIdOfPose
