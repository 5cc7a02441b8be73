\* Two executions, each of which may die anywhere, and one audit of one prepared Study.
CONSTANTS
    e1 = e1
    e2 = e2
    Executors = {e1, e2}
    Condition <- Pair
    Contrasts <- Effects
    Results = {"success", "no_success", "protocol_fault", "unverified", "refused"}
    MaxDeaths = 2
    MaxReports = 1

SPECIFICATION Spec
SYMMETRY Symmetry
CHECK_DEADLOCK FALSE

INVARIANTS
    NoReplacement
    EstimandIsOfOneExecutor
