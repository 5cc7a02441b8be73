\* Every Schedule of three families, its verdict and its launch.
CONSTANTS
    Schedules <- Families

SPECIFICATION Spec
CHECK_DEADLOCK FALSE

INVARIANTS
    RegionsAreOwned
    WrittenWhole
    InBounds
    DependenciesMet
