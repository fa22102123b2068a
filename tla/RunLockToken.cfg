\* Nothing is stale and nothing crashes; a heartbeat is still in flight.
SPECIFICATION Spec
CONSTANTS
    Runs = {r1, r2}
    NoOwner = NoOwner
    StaleAfter = 1
    MaxAge = 1
    RenameMayFail = FALSE
INVARIANT TokenOnDisk
CHECK_DEADLOCK FALSE
