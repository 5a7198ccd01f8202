CONSTANTS
    c1 = c1
    c2 = c2
    Callers = {c1}
    Submissions <- Imaged
    MaxAttempts = 2
    MaxFaults = 2
    MaxAgain = 1
    Questions = {}
    Courses = {"unstaged"}
SPECIFICATION Spec
INVARIANTS
    ReadyIsComplete
    
PROPERTIES
    UpstreamFirst
    NothingBehindUnread
