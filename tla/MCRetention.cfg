CONSTANTS
    s1 = s1
    s2 = s2
    NoMark = NoMark
    Dirs = {1, 2}
    Sweeps = {s1}
    Categories <- Kinds
    Grace <- Days
    IdleAfter = 1
    Probed = TRUE
    Courses = {}
    MaxDay = 2
    MaxFaults = 1
SPECIFICATION Spec
INVARIANTS
    TypeOK
    RemovedByRight
    HalfRemovedIsRecorded
CHECK_DEADLOCK FALSE
