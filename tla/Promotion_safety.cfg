SPECIFICATION Spec
CONSTANTS
    MaxVersions = 3
    MaxJobs = 2
    MaxCrashes = 2
    MaxOutside = 1
    MaxAnalyses = 1
    ByHand = TRUE
INVARIANTS
    TypeOK
    LibraryAlwaysPlayable
    WrittenIsRecorded
PROPERTIES
    ReplacesOnlyWhatWasAnalysed
