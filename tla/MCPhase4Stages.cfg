\* Two blocks, two rewrites and two semantic ones, two faults.
CONSTANTS
    Blocks = 2
    Longest = 3
    Window = 1
    Capacity = 2
    Slack = 1
    MaxAttempts = 2
    SemanticAttempts = 2
    MaxFaults = 2
SPECIFICATION FairSpec
INVARIANTS
    OutputIsOne
    NeverIllegal
    SemanticIsBounded
PROPERTIES
    NarrationIsKept
    Phase4Finishes
\* The job ends.
CHECK_DEADLOCK FALSE
