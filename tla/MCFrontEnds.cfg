\* Two sources of up to three frames into rings of two samples; four records or
\* clearings of two severities and two texts in a sink of two; three messages under
\* way in each direction of a socket.
CONSTANTS
    Capacity = 2
    MaxTime = 2
    MaxOpens = 2
    MaxFrames = 3
    Levels = {"trace", "info"}
    Trace = "trace"
    Texts = {"a", "b"}
    Buffered = 2
    MaxVersion = 4
    MaxQueue = 3
SPECIFICATION MCSpec
INVARIANTS
    JointsAreRecent
    OneCommandAtATime
PROPERTIES
    PlotsAreHistories
    RowsAreFiltered
    StatusResyncs
