\* Three runs, every live heartbeat in time, one crash.
SPECIFICATION TimelySpec
CONSTANTS
    Runs = {r1, r2, r3}
    NoOwner = NoOwner
    StaleAfter = 1
    MaxAge = 2
    RenameMayFail = FALSE
INVARIANT OneWriter
CHECK_DEADLOCK FALSE
