SPECIFICATION Spec
CONSTANTS
    f1 = f1
    f2 = f2
    c1 = c1
    c2 = c2
    Files <- OneFile
    Clients <- OneClient
    EnqueuePriorities <- OnePriority
    MaxJobs = 2
    MaxAutoAttempts = 1
    MaxCrashes = 0
    MaxStamps = 2
PROPERTIES
    CancelIsFinal
