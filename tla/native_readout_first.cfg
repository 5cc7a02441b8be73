\* A kernel whose readout is declared before the contraction.
CONSTANTS
    r1 = r1
    r2 = r2
    Readers = {r1, r2}
    Copy = Copy
    Issue = Issue
    Schedules <- ReadoutFirst

SPECIFICATION Spec
CHECK_DEADLOCK FALSE

INVARIANT
    ReadoutFollowsPublication
