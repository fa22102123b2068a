\* Two live commands and the operator overlap; two local days.
SPECIFICATION Spec
CONSTANTS
    Processes = {p1, p2}
    Mandates = {m1, m2}
    Artifacts = {a1, a2}
    MaxDay = 2
    MaxAttempts = 3
    MaxCommands = 4
    None = None
SYMMETRY Symmetry
INVARIANTS LineageReceipted RefreshedUnderAuthority EveryReattemptApproved CompletedRoutineApplied OneCompletedPerDay
CHECK_DEADLOCK FALSE
