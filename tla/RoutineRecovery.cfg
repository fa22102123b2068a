\* A command recovers an acquisition that is completed.
SPECIFICATION Spec
CONSTANTS
    Processes = {p1, p2}
    Mandates = {m1}
    Artifacts = {a1, a2}
    MaxDay = 2
    MaxAttempts = 3
    MaxCommands = 4
    None = None
INVARIANTS RecoveryCallsNoProvider
CHECK_DEADLOCK FALSE
