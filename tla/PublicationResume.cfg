SPECIFICATION Spec
CONSTANTS
    Processes = {p1, p2}
    Candidates = {1, 2}
    FreshUntil <- Fresh2
    MandateUntil = 3
    DayLength = 2
    MaxTime = 2
    MaxEvents = 1
    Decisions = {"ENABLED", "PAUSED"}
    None = None
SYMMETRY Symmetry
PROPERTY InterruptedResumes
CHECK_DEADLOCK FALSE
