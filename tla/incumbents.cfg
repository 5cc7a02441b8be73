\* Promotions and readers of two cells, three Campaigns, with one kill or error.
CONSTANTS
    p1 = p1
    p2 = p2
    k1 = k1
    k2 = k2
    c1 = c1
    c2 = c2
    own = own
    shared = shared
    Nobody = Nobody
    Processes = {p1, p2}
    Cells = {k1, k2}
    Candidates = {c1, c2}
    Starter = c1
    Objects = {shared}
    Artifacts <- SameContents
    MaxCampaigns = 3
    MaxInterruptions = 1

SPECIFICATION FairSpec
CHECK_DEADLOCK FALSE

INVARIANTS
    SealedIsReadable
    AdmittedAgainstCurrent
    PromoterMeetsNoHalfPromotion
PROPERTIES
    AbandonedIsNeverRepaired
    ImplementsChain
    PromotionsEnd
