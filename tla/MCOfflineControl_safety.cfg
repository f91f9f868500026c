\* Two jobs, each process killed once, one SIGTERM.
CONSTANTS
    j1 = j1
    j2 = j2
    Jobs = {j1, j2}
    MaxCrashes = 1
    MaxStops = 1
    MaxApiCrashes = 1
    MaxRewrites = 1
SPECIFICATION Spec
SYMMETRY Symmetry
INVARIANTS
    TypeOK
    FlagOnlyWhileCancelling
    WorkerHoldsSlot
    DeathOnlyByCancel
PROPERTIES
    FlagDefersFinalize
    ImplementsLifecycle
