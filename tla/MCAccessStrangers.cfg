CONSTANTS
    p1 = p1
    p2 = p2
    People = {p1, p2, a1}
    Auditors = {a1}
    Jobs = {j1}
    Requests = {r1}
    NoOne = NoOne
    MaxLog = 3
SYMMETRY Alike
SPECIFICATION AccessSpec
INVARIANT StrangersLearnNothing
CHECK_DEADLOCK FALSE
