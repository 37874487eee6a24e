SPECIFICATION FairSpec
CONSTANTS
    Parts = 3
    Connections = 2
    PartAttempts = 2
    MaxRetries = 2
    AlbumItems = 2
INVARIANTS
    UploadEndsWithAttempt
    PipelineMoves
    CopiesAreExplained
CHECK_DEADLOCK FALSE
