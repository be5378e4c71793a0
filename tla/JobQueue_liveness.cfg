SPECIFICATION FairSpec
CONSTANTS
    f1 = f1
    f2 = f2
    c1 = c1
    c2 = c2
    Files <- TwoFiles
    Clients <- NoClients
    EnqueuePriorities <- OnePriority
    MaxJobs = 2
    MaxAutoAttempts = 1
    MaxCrashes = 2
    MaxStamps = 3
PROPERTIES
    QueuedIsServed
    SlotEmpties
