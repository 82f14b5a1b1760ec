SPECIFICATION Spec
CONSTANTS
    RequestedDepth = 1
    MaxFrames = 2
    MaxStarts = 1
INVARIANT DurationNotNegative
