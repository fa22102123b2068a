\* A child is disposed of while a process that consumed it has still to buy.
SPECIFICATION Spec
CONSTANTS
    Processes = {p1, p2}
    Members = {1}
    Authorizations = {a1}
    NoAuthorization = NoAuthorization
    NoMember = NoMember
    Overlap = TRUE
    Faults = FALSE
    Supervision = FALSE
INVARIANT DispositionTaskless
CHECK_DEADLOCK FALSE
