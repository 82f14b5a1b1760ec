\* The joints, times and views of ExoPoseEstimator.cfg.
SPECIFICATION Spec
CONSTANTS
    Joints = {"pelvis", "knee"}
    Parent <- Skeleton
    Rotations <- CubeRotations
    Identity <- CubeIdentity
    Compose <- Product
    Conjugate <- Inverted
    Twist <- TwistAboutX
    Distance <- Angle
    Slerp <- Interpolated
    Weights = {"half"}
    Options <- BothOrNeither
    Views <- StillBody
    Ranges <- StillRanges
    MaxHold = 1
    ResetGap = 1
    MaxTime = 2
PROPERTY LostStaysLost
