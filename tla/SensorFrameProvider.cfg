\* One observer, every command, a device or a recording of three frames.
CONSTANTS
    RecordingLength = 3
    Observers = {o1}
    Kinds = {"device", "recording"}
    Commands = {"play", "pause", "seek", "speed", "autoRepeat", "observe"}
SPECIFICATION FairSpec
\* A closed provider stops, and so does the process when its device fails.
CHECK_DEADLOCK FALSE
INVARIANTS
    TypeOK
    NoFrameAfterEnd
    OneStraggler
    OneFrameAfterPause
    PlaysInRealTime
PROPERTIES
    CloseReturns
    PlaybackEnds
