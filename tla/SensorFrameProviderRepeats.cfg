\* One observer that only watches a repeated recording of three frames.
CONSTANTS
    RecordingLength = 3
    Observers = {o1}
    Kinds = {"recording"}
    Commands = {}
SPECIFICATION FairSpec
\* A closed provider stops, and so does the process when its device fails.
CHECK_DEADLOCK FALSE
INVARIANT RepeatsInRealTime
