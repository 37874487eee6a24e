SPECIFICATION Spec
CONSTANTS
    a = a
    b = b
    c = c
    h = h
    k = k
    Item = {a, b}
    Content = {h, k}
    NoHash = NoHash
    NoItem = NoItem
    Hash <- TwinHash
    Group <- TwinGroup
    Orphaned = {}
    Protected = {}
    DeleteAfter = {a, b}
    MaxRetries = 2
    AlbumMax = 2
    AutoRetry = FALSE
    TripAt = 2
    SendTries = 2
    PostBound = 2
    FaultBound = 1
    CommandBound = 1
INVARIANTS
    RemovedOnlyAfterDelivery
    SentOnlyAfterDelivery
    NoLeakedClaim
    HeldBehindSurvivor
    AtMostOnceUnlessExcused
PROPERTIES
    CancelSurvivesSingleWrites
    KeepsPromise
