SPECIFICATION Spec
CONSTANTS
    film = film
    copy = copy
    NoPath = NoPath
    Paths = {film}
    Callers = {"scan", "hook", "user"}
    MaxVersions = 3
    MaxEvents = 2
    MaxFaults = 1
INVARIANTS
    TypeOK
    ProvenanceDerived
    MissingWasGone
    StatImpliesFingerprint
    PassedOverComplies
