\* Two contents to tell apart, three writes of the row, two faults.
CONSTANTS
    c1 = c1
    c2 = c2
    Contents = {c1, c2}
    MaxRevisions = 3
    MaxFaults = 2
SPECIFICATION FairSpec
INVARIANTS
    JobKeepsItsSources
PROPERTIES
    LivingFilesStay
    AbandonedIsSwept
\* A session may be lost half removed, and the job ends.
CHECK_DEADLOCK FALSE
