\* One job, every process killed or stopped once.
CONSTANTS
    j1 = j1
    Jobs = {j1}
    MaxCrashes = 1
    MaxStops = 1
    MaxApiCrashes = 1
    MaxRewrites = 1
SPECIFICATION FairSpec
INVARIANTS
    CancelHasOwner
PROPERTIES
    CancelSettles
    WorkSettles
