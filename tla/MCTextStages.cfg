\* Two segments that are split or merged, two faults, one model installed
\* over another.
CONSTANTS
    MaxDuration = 4
    MaxTokens = 4
    MandatoryMerge = 2
    ShortMerge = 3
    MaxMergeGap = 1
    Segments = 2
    Gaps = {0, 2}
    Lengths = {1, 2, 6}
    Sizes = {2, 5}
    MaxFaults = 2
    MaxModels = 1
SPECIFICATION FairSpec
INVARIANTS
    OneTranscript
    SealedIsOne
    SealedSaysAll
    CrashIsNotFatal
PROPERTIES
    WorkIsKept
    StagesFinish
\* The job ends.
CHECK_DEADLOCK FALSE
