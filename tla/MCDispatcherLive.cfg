SPECIFICATION FairSpec
CONSTANTS
    a = a
    b = b
    c = c
    h = h
    k = k
    Item = {a, b}
    Content = {h, k}
    NoHash = NoHash
    NoItem = NoItem
    Hash <- TwinHash
    Group <- OwnGroup
    Orphaned = {b}
    Protected = {a}
    DeleteAfter = {a, b}
    MaxRetries = 1
    AlbumMax = 2
    AutoRetry = TRUE
    TripAt = 1
    SendTries = 1
    PostBound = 1
    FaultBound = 1
    CommandBound = 1
PROPERTIES
    ClaimsAreResolved
