SPECIFICATION Spec
CONSTANTS
    MaxVersions = 3
    MaxJobs = 2
    MaxCrashes = 1
    MaxOutside = 0
    MaxAnalyses = 1
    ByHand = FALSE
PROPERTY
    IntactIsTheSource
