SPECIFICATION StreamForeverSpec
CONSTANTS
    f1 = f1
    f2 = f2
    c1 = c1
    c2 = c2
    Files <- OneFile
    Clients <- OneClient
    EnqueuePriorities <- OnePriority
    MaxJobs = 2
    MaxAutoAttempts = 1
    MaxCrashes = 2
    MaxStamps = 2
INVARIANTS
    TypeOK
    OneActivePerFile
    
    AttemptCap
    
    StagingFollowsRows
PROPERTIES
    CancelReturns
    
    
    
