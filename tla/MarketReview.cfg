\* A published observation is reviewed again.
SPECIFICATION Spec
CONSTANTS
    Processes = {p1, p2}
    Offers = {1, 2}
    Markets = {m1}
    FreshUntil <- MCFreshUntil
    Established = {1, 2}
    Requests <- MCAgain
    Volatile = {2}
    Ttl = 1
    MaxOffers = 1
    MaxTime = 1
    MaxReviews = 2
    MaxDecisions = 1
    MaxDrawn = 5
    None = None
SYMMETRY Symmetry
INVARIANT ShownUnderItsReview
