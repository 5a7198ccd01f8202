CONSTANTS
    c1 = c1
    c2 = c2
    Callers = {c1}
    Submissions <- Planned
    MaxAttempts = 2
    MaxFaults = 0
    MaxAgain = 1
    Questions = {"plan", "redaction"}
    Courses = {}
SPECIFICATION FairSpec
PROPERTIES
    OfferedAtLast
