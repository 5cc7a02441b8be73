\* The append/seal protocol: threads, auditor, faults, crash, power loss (no symmetry: liveness).
CONSTANTS
    w1 = w1
    w2 = w2
    NoWriter = NoWriter
    observed = observed
    qualified = qualified
    missing = missing
    Writers = {w1, w2}
    Observations = {observed}
    Terminals = {qualified, missing}
    MaxCalls = 2
    MaxFaults = 1

SPECIFICATION FairSpec
CHECK_DEADLOCK FALSE

INVARIANTS
    WitnessedChain
    AcknowledgedKept
    TrustedAuditIsFinal
    SealedRunAuditsClean
PROPERTIES
    SealedRunIsImmutable
    CallsEnd
    PendingSealRecovers
    ImplementsLog
