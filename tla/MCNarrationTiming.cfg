\* Three blocks; ten units are three samples.
CONSTANTS
    Unit = 10
    MaxSpeed = 12
    Slowdown = 8
    Delta = 1
    Rate = 3
    Second = 10
    Borrow = 2
    SilentBorrow = 6
    Guard = 1
    Drift = 3
    Number = 3
    Gaps = {0, 3, 9}
    Lengths = {4, 6}
    Works = {10, 24, 47}
SPECIFICATION Spec
INVARIANTS
    PlanIsSound
    SilenceOnlyIsLent
    RefusedIsOvercrowded
\* The track is written, or a rewrite is asked for.
CHECK_DEADLOCK FALSE
