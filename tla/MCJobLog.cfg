CONSTANTS
    Recorded <- MCRecorded
    MaxLevel = 2
    MaxLog = 5
SPECIFICATION Spec
INVARIANTS
    RollbackIsErasure
    LevelCoversEveryScan
PROPERTY
    OnlyPeopleRelax
CHECK_DEADLOCK FALSE
