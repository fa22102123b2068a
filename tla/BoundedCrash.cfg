\* START and RESUME one at a time; crashes, failing writes, supervision, dispositions.
SPECIFICATION Spec
CONSTANTS
    Processes = {p1, p2}
    Members = {1, 2}
    Authorizations = {a1}
    NoAuthorization = NoAuthorization
    NoMember = NoMember
    Overlap = FALSE
    Faults = TRUE
    Supervision = TRUE
SYMMETRY Symmetry
INVARIANTS CheckpointsBacked
PROPERTIES ProgressionNeverBuys
CHECK_DEADLOCK FALSE
