SPECIFICATION FairSpec
CONSTANTS
    ana = ana
    Users = {ana}
    Segments = 2
    SkipAfterFails = 1
    BanCycles = 2
    MaxZeroByte = 1
    Failures = 2
    Faults = 1
    Stops = 1
INVARIANTS
    LookedDuringMeansSpared
    OneAlbum
PROPERTIES
    BanNeedsSilence
    EveryRecordingIsQueued
    StopEnds
CHECK_DEADLOCK FALSE
