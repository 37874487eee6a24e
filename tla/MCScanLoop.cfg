SPECIFICATION LoopSpec
CONSTANTS
    Users <- MCUsers
    Scenarios <- MCScenarios
    Threshold = 3
    DeathThreshold = 3
    MaxFails = 2
    Changes = 2
INVARIANTS
    NoFalseAlarm
    HollowStampsAreFew
PROPERTY EveryUserIsScanned
CHECK_DEADLOCK FALSE
