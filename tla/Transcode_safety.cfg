SPECIFICATION FairSpec
CONSTANTS
    Sources <- AllFiles
    Caches <- SomeCaches
    Works <- SomeWorks
    SampleRates = {0, 7000}
INVARIANTS
    TypeOK
    OutputComplies
    
    RecordNamesOutput
    FallbackIsExhaustive
    EncoderIsFed
    SoundOutputPasses
PROPERTIES
    JobEnds
CHECK_DEADLOCK FALSE
