CONSTANTS
    c1 = c1
    c2 = c2
    Callers = {c1}
    Submissions <- Unsure
    MaxAttempts = 2
    MaxFaults = 1
    MaxAgain = 1
    Questions = {"plan", "redaction"}
    Courses = {}
SPECIFICATION FairSpec
PROPERTIES
    OfferedAtLast
