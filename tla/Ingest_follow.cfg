SPECIFICATION FairSpec
CONSTANTS
    film = film
    copy = copy
    NoPath = NoPath
    Paths = {film, copy}
    Callers = {"scan"}
    MaxVersions = 2
    MaxEvents = 3
    MaxFaults = 1
PROPERTIES
    SafetyNet
