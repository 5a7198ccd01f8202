CONSTANTS
    Procs = {p1, p2}
    Digests = {d1, d2}
    NoDigest = NoDigest
    Nobody = Nobody
    MaxEvents = 2
SPECIFICATION FairSpec
INVARIANTS
    TypeOK
    NeverForked
    NeverSeenBroken
    ReturnedSurvives
PROPERTIES
    KeepsPromise
    LockIsReleased
