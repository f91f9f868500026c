\* One job, the worker killed once.
CONSTANTS
    j1 = j1
    Jobs = {j1}
    MaxCrashes = 1
    MaxStops = 0
    MaxApiCrashes = 0
    MaxRewrites = 0
SPECIFICATION FairSpec
PROPERTIES
    MarkedCancelSettles
