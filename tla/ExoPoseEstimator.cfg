\* A pelvis and a knee; a joint is held for one unit of time and reseeded after
\* more than one, and a frame may come at any of three times.
SPECIFICATION Spec
CONSTANTS
    Joints = {"pelvis", "knee"}
    Parent <- Skeleton
    Rotations <- CubeRotations
    Identity <- CubeIdentity
    Compose <- Product
    Conjugate <- Inverted
    Twist <- TwistAboutX
    Distance <- Angle
    Slerp <- Interpolated
    Weights = {"half"}
    Options <- Edited
    Views <- StillBody
    Ranges <- StillRanges
    MaxHold = 1
    ResetGap = 1
    MaxTime = 2
INVARIANTS TypeOK RotationsAgree PresentWithinHold
PROPERTIES RestIsNeutral TrackIsKept
