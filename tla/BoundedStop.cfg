\* Supervision of one member writes over a FAILED run.
SPECIFICATION Spec
CONSTANTS
    Processes = {p1}
    Members = {1, 2}
    Authorizations = {a1}
    NoAuthorization = NoAuthorization
    NoMember = NoMember
    Overlap = FALSE
    Faults = FALSE
    Supervision = TRUE
PROPERTY SystemicStopKept
CHECK_DEADLOCK FALSE
