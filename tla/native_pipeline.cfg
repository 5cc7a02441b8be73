\* Kernels whose readout is declared after the contraction.
CONSTANTS
    r1 = r1
    r2 = r2
    Readers = {r1, r2}
    Copy = Copy
    Issue = Issue
    Schedules <- ReadoutLast

SPECIFICATION FairSpec
CHECK_DEADLOCK FALSE

INVARIANTS
    BarriersOutliveTheirUsers
    StageHeldUntilExecuted
    AccumulatorHeldWhileRead
PROPERTIES
    KernelEnds
    ImplementsContraction
