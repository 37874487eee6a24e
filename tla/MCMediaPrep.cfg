CONSTANT Recordings <- AllRecordings
SPECIFICATION FairSpec
INVARIANTS FootageSurvives PostedOnce
PROPERTY Delivered
CONSTRAINT Uncontended
CHECK_DEADLOCK FALSE
