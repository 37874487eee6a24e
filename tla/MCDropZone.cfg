SPECIFICATION Spec
CONSTANTS
    Sources <- MCSources
    Folder <- MCFolder
    Scenarios <- MCScenarios
    MaxDrops = 2
INVARIANTS
    PostedOnce
    BytesKept
PROPERTY EveryDropIsPosted
CHECK_DEADLOCK FALSE
