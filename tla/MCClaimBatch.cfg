SPECIFICATION FairClaimSpec
CONSTANTS
    m = m
    d = d
    p = p
    n = n
    zone = zone
    alice = alice
    Row = {m, n, d, p}
    Owner <- MixOwner
    Source <- MixSource
    Label <- MixLabel
    Dest <- MixDest
    Media <- MixMedia
    Priority <- MixPriority
    Size <- MixSize
    SplitLabel = {}
    MinBatch <- MixMinBatch
    Flushing = {alice}
    AlbumMax = 2
    ByteCap = 2
    RetryBudget = 2
    Backlog = {m, d}
    MaxSecond = 1
    FaultBound = 1
PROPERTIES
    FirstSeenFirstServed
    NoStarvation
CHECK_DEADLOCK FALSE
