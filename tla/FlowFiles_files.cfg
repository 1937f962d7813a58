SPECIFICATION FilesSpec
CONSTANTS
    None = None
    ev1 = ev1
    ev2 = ev2
    id1 = id1
    id2 = id2
    id3 = id3
    EV <- OneEV
    MaxSent = 1
    MaxStarts = 2
    Faults = TRUE
    IDs <- ThreeIDs
    MaxGrids = 3
    MaxGlitches = 1
INVARIANTS
    CacheFresh
    NoneMissed
    NothingLost
PROPERTIES
    WeightsArrive
    NoneTwice
CHECK_DEADLOCK FALSE
