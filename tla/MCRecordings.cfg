\* Every recording of up to three messages, positions before, in and behind it; four
\* images written, headers below, at and over an int's limit; three captures
\* converted; two cameras.
CONSTANTS
    Files <- Recordings
    Micro = 2
    Targets = {0, 1, 2}
    Cols = 2
    Rows = 1
    IntLimit = 8
    Headers = {0, 1, 3, 6, 9, 15}
    MaxImages = 4
    MaxCaptures = 3
    Cameras = {0, 1}
    Capturers = {p1, p2}
    Values = {"manual"}
    Automatic = "auto"
    None = none
SPECIFICATION MCSpec
INVARIANTS
    SeekLandsRight
    ShownIsFoundAgain
    ReadsBackWhatWasWritten
    ConversionComplete
    CameraIsAsAsked
PROPERTIES
    ImplementsPlayback
