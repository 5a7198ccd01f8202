CONSTANTS
    People = {p1, p2}
    Requests = {r1, r2}
    Ids = {i1, i2}
    States = {s1}
    Nobody = Nobody
    None = None
    Torn = Torn
    Ways = {"orcid", "local", "operator"}
SYMMETRY Alike
SPECIFICATION Spec
INVARIANTS
    AnsweredIsKept
    EndedStaysEnded
PROPERTY NeverUsedAgain
CHECK_DEADLOCK FALSE
