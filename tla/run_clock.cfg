\* Clocks that records round, limits between two records, overshooting calls, the legacy profile of a confirmed winner.
CONSTANTS
    c1 = c1
    c2 = c2
    c3 = c3
    Candidates = {c1, c2, c3}
    NoCandidate = NoCandidate
    Program <- Spellings
    Latencies = {1}
    MaximumTurns = 2
    MaximumCompilations = 9
    Limit = Unlimited
    Unlimited = Unlimited
    Checkpoints <- NoCheckpoint
    SearchWall = 10
    ConfirmationWall = 6
    AuthoringLimit = 4
    SearchLimit = 1
    ConfirmatoryLimit = 1
    AttributionLimit = 1
    SearchesPerTurn = 1
    Attribution = "selected"
    NormalTerminal = TRUE
    Grid = 3
    Durations = {0, 2, 4}
    TokenSpends = {1}
    Submissions <- Singles
    MaxPermits = 0

SPECIFICATION FairSpec
CHECK_DEADLOCK FALSE

INVARIANTS
    SearchStopIsDeclared
    QualifiedWithinBudget
PROPERTY
    RunEnds
