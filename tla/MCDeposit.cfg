CONSTANTS
    pa = pa
    pb = pb
    na = na
    nb = nb
    Jobs = {j1, j2}
    Callers = {c1}
    Material <- Two
    BaseName <- Apart
    Nothing = Nothing
    Courses = {"settled"}
    MaxFaults = 2
    MaxRecord = 2
    MaxLog = 8
SPECIFICATION Spec
INVARIANTS
    TypeOK
    OneRecord
    DepositedIsPublic
    IntendedFirst
PROPERTIES
    DepositedAsReviewed
CHECK_DEADLOCK FALSE
