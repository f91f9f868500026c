\* Two jobs that compete for the slot, one client between read and write.
CONSTANTS
    j1 = j1
    j2 = j2
    c1 = c1
    Jobs = {j1, j2}
    Clients = {c1}
SPECIFICATION Spec
SYMMETRY Symmetry
INVARIANTS
    OneHeavyJob
PROPERTIES
    ImplementsLifecycle
