\* Crashes, stale locks and reclaiming.
SPECIFICATION FairSpec
CONSTANTS
    Runs = {r1, r2}
    NoOwner = NoOwner
    StaleAfter = 1
    MaxAge = 2
    RenameMayFail = FALSE
PROPERTY OrphanRecovered
CHECK_DEADLOCK FALSE
