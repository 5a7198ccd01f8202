CONSTANTS
    local = local
    near = near
    far = far
    j1 = j1
    c1 = c1
    c2 = c2
    table = table
    photo = photo
    NoBackend = NoBackend
    Jobs = {j1}
    Callers = {c1}
    Backends = {local, near, far}
    Policy <- Tiers
    Residence <- Places
    Seeing = {local, near}
    Preferences <- Ceilings
    Documents = {table}
    Images = {photo}
    Holds <- Material
    Cost <- Bytes
    Dearest = 1
    MaxBytes = 1
    MaxArtefactBytes = 1
    MaxReleases = 2
    MaxChunks = 1
    Found = TRUE
    Courses = {"meanwhile"}
SPECIFICATION Spec
INVARIANTS
    TypeOK
    
    BudgetKept
    SentWasPermitted
    
PROPERTY
    UnseenIsSensitive
CHECK_DEADLOCK FALSE
