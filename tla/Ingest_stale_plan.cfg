SPECIFICATION Spec
CONSTANTS
    film = film
    copy = copy
    NoPath = NoPath
    Paths = {film}
    Callers = {"scan"}
    MaxVersions = 2
    MaxEvents = 2
    MaxFaults = 0
PROPERTIES
    PlanIsOfContent
