\* Two invocations and two candidates; the bounds are in the README.
SPECIFICATION Spec
CONSTANTS
    Processes = {p1, p2}
    Candidates = {1, 2}
    FreshUntil <- Fresh2
    MandateUntil = 3
    DayLength = 1
    MaxTime = 1
    MaxEvents = 1
    Decisions = {"PAUSED"}
    None = None
SYMMETRY Symmetry
INVARIANTS ReleasedOnce AcceptedIsLive OneAcceptedPerDay InvokedOnce
PROPERTIES FailedIsFinal
CHECK_DEADLOCK FALSE
