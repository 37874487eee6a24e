SPECIFICATION FairSpec
CONSTANTS
    x = x
    y = y
    z = z
    b = b
    arch = arch
    rec = rec
    orph = orph
    Path = {x, y, z}
    Content = {b}
    Bytes <- SameBytes
    Ident <- OwnIdent
    Rank <- YWins
    DropZone = {z}
    Protected = {}
    Worker = {arch, rec, orph}
    Reconciles = {arch}
    Sweeps <- Meeting
    NoHash = NoHash
    NoPath = NoPath
    NoTwin = NoTwin
    MaxRows = 3
    ArriveBound = 3
    AbortBound = 1
    CommandBound = 1
CHECK_DEADLOCK FALSE
INVARIANTS
    NeverLosesBytes
    PostedHomeOnce
PROPERTIES
    EveryFileIsHandled
