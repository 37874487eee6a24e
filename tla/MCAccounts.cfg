SPECIFICATION AccountsSpec
CONSTANTS
    u = u
    f = f
    g = g
    User = {u}
    File = {f, g}
    Owner <- OneOwner
    NoAccount = NoAccount
    NoFile = NoFile
    CommandBound = 2
    FaultBound = 2
SYMMETRY FileSymmetry
CHECK_DEADLOCK FALSE
INVARIANTS
    RowsFollowFolder
    TrashSparesQueuedWork
PROPERTIES
    PurgeDropsNoWork
