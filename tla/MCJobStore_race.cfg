\* One job, two clients that both act on what they read earlier.
CONSTANTS
    j1 = j1
    c1 = c1
    c2 = c2
    Jobs = {j1}
    Clients = {c1, c2}
SPECIFICATION Spec
SYMMETRY Symmetry
INVARIANTS
    CancelFlagAgrees
    ParkedRemembers
    StaleReadsBounded
PROPERTIES
    CancelSticks
