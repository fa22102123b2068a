\* An approved reattempt, and the routine of its day.
SPECIFICATION Spec
CONSTANTS
    Processes = {p1, p2}
    Mandates = {m1}
    Artifacts = {a1, a2}
    MaxDay = 2
    MaxAttempts = 3
    MaxCommands = 4
    None = None
PROPERTIES ApprovedReattemptProceeds
CHECK_DEADLOCK FALSE
