\* Two jobs of one release; one error of a backend, one stop by the user.
CONSTANTS
    j1 = j1
    j2 = j2
    Jobs = {j1, j2}
    MaxErrors = 1
    MaxStops = 1
    MaxApiCrashes = 1
SPECIFICATION Spec
SYMMETRY Symmetry
INVARIANTS
    RunningIsOwned
    AcknowledgedRuns
    CancelOutlivesCalls
    CreatedIsOwned
PROPERTIES
    PausedOnlyByUser
    ImplementsLifecycle
\* All jobs may have ended.
CHECK_DEADLOCK FALSE
