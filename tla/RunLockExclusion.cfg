\* Three runs; stale locks, reclaiming, crashes and late heartbeats.
SPECIFICATION Spec
CONSTANTS
    Runs = {r1, r2, r3}
    NoOwner = NoOwner
    StaleAfter = 1
    MaxAge = 2
    RenameMayFail = TRUE
SYMMETRY Symmetry
VIEW View
INVARIANTS MutualExclusion
PROPERTIES SingleWriterPromise FirstTakenByReclaim
CHECK_DEADLOCK FALSE
