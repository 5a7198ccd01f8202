CONSTANTS
    c1 = c1
    c2 = c2
    c3 = c3
    r1 = r1
    r2 = r2
    Cores = {c1, c2, c3}
    Readmes = {r1, r2}
    Invalid = {c3}
    Own = Own
    Blank = Blank
    Courses = {"redraft", "docs-again", "repeat", "edited", "rerun-revised",
               "recheck-fails", "model-fails", "eager", "meanwhile"}
    MaxDrafts = 3
SYMMETRY Symmetry
SPECIFICATION Spec
INVARIANTS
    UnreadSlippedThrough
PROPERTIES
    
    BuiltOnWhatWasRead
    SettledForEver
CHECK_DEADLOCK FALSE
