\* A reader of one cell meets the promotion of another.
CONSTANTS
    p1 = p1
    p2 = p2
    k1 = k1
    k2 = k2
    c1 = c1
    c2 = c2
    own = own
    shared = shared
    Nobody = Nobody
    Processes = {p1, p2}
    Cells = {k1, k2}
    Candidates = {c1, c2}
    Starter = c1
    Objects = {own, shared}
    Artifacts <- Contents
    MaxCampaigns = 2
    MaxInterruptions = 1

SPECIFICATION Spec
CHECK_DEADLOCK FALSE

INVARIANT CellsAreIndependent
