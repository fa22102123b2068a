\* START and RESUME overlap on one member; crashes, supervision, dispositions; RESUME is given until it runs.
SPECIFICATION RetrySpec
CONSTANTS
    Processes = {p1, p2}
    Members = {1}
    Authorizations = {a1}
    NoAuthorization = NoAuthorization
    NoMember = NoMember
    Overlap = TRUE
    Faults = TRUE
    Supervision = TRUE
INVARIANTS OneTaskPerMember DispositionFinal RecordedTaskFound CheckpointsBacked
PROPERTIES PaidTaskRecovered ProgressionNeverBuys
CHECK_DEADLOCK FALSE
