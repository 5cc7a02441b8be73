\* Two evaluations on one node, two run identifiers.
CONSTANTS
    r1 = r1
    r2 = r2
    j1 = j1
    j2 = j2
    Requests = {r1, r2}
    Jobs = {j1, j2}
    NoJob = NoJob

SPECIFICATION FairSpec
CHECK_DEADLOCK FALSE

INVARIANTS
    ReceiptIsOwn
PROPERTIES
    ImplementsCall
    EvaluationEnds
