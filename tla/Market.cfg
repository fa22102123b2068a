\* Two commands or builds overlap on two offers, in processes of their own or of one.
SPECIFICATION Spec
CONSTANTS
    Processes = {p1, p2}
    Offers = {1, 2}
    Markets = {m1}
    FreshUntil <- MCFreshUntil
    Established = {1, 2}
    Requests <- MCRequests
    Volatile = {2}
    Ttl = 1
    MaxOffers = 1
    MaxTime = 1
    MaxReviews = 2
    MaxDecisions = 3
    MaxDrawn = 6
    None = None
SYMMETRY Symmetry
CONSTRAINT Bounded
INVARIANTS DecisionsChained ConsumptionsBacked SnapshotFaithful
PROPERTY HistoryKept
