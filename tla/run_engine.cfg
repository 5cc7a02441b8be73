\* Two turns of up to two candidates under one native compilation permit, every survivor profiled.
CONSTANTS
    c1 = c1
    c2 = c2
    c3 = c3
    Candidates = {c1, c2, c3}
    NoCandidate = NoCandidate
    Program <- Spellings
    Latencies = {1, 2}
    MaximumTurns = 2
    MaximumCompilations = 1
    Limit = 3
    Unlimited = Unlimited
    Checkpoints <- TwoCheckpoints
    SearchWall = 100
    ConfirmationWall = 100
    AuthoringLimit = 100
    SearchLimit = 3
    ConfirmatoryLimit = 1
    AttributionLimit = 3
    SearchesPerTurn = 2
    Attribution = "each"
    NormalTerminal = TRUE
    Grid = 1
    Durations = {1}
    TokenSpends = {2}
    Submissions <- Turns
    MaxPermits = 1

SPECIFICATION Spec
CHECK_DEADLOCK FALSE

INVARIANTS
    TurnReservation
    SealedRunReplays
    OmissionIsRefused
PROPERTY
    NoBackfill
    ImplementsProtocol
