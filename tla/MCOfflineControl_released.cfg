\* One job, nothing killed.
CONSTANTS
    j1 = j1
    Jobs = {j1}
    MaxCrashes = 0
    MaxStops = 0
    MaxApiCrashes = 0
    MaxRewrites = 0
SPECIFICATION Spec
INVARIANTS
    CancelledMeansReleased
