\* A state load that reads more than its program updates.
CONSTANTS
    Schedules <- Families

SPECIFICATION Spec
CHECK_DEADLOCK FALSE

INVARIANTS
    StateReadsInitial
