\* Two sources of one frame each.
CONSTANTS
    MaxOpens = 2
    MaxFrames = 1
SPECIFICATION Spec
INVARIANT RestOfOpenSource
