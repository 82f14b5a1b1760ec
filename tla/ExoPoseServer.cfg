\* Two sources of one frame each; a client and one that is one too many.
CONSTANTS
    MaxOpens = 2
    MaxFrames = 1
    Sockets = {s1, s2}
SPECIFICATION FairSpec
INVARIANTS
    ClientInformed
    ReleasedWithClient
PROPERTIES
    StatusArrives
    ImplementsPipeline
