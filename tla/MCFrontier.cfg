SPECIFICATION FairSpec
CONSTANTS
    LastDay = 4
    Backlog = {1}
    OnDisk = {1}
    AbortAfter = 1
    Platforms = {"x", "instagram", "tiktok"}
    SweepAfterRun = TRUE
    FaultBound = 2
INVARIANTS
    GroundIsKept
PROPERTIES
    EveryPostIsDelivered
CHECK_DEADLOCK FALSE
