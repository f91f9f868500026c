\* One job, two errors of a backend, the API killed once.
CONSTANTS
    j1 = j1
    Jobs = {j1}
    MaxErrors = 2
    MaxStops = 1
    MaxApiCrashes = 1
SPECIFICATION FairSpec
PROPERTIES
    CancelSettles
    StartSettles
CHECK_DEADLOCK FALSE
