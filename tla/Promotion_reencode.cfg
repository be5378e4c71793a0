SPECIFICATION Spec
CONSTANTS
    MaxVersions = 3
    MaxJobs = 2
    MaxCrashes = 0
    MaxOutside = 0
    MaxAnalyses = 0
    ByHand = TRUE
PROPERTY
    NeverEncodesOwnOutput
