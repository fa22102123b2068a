\* RESUME after the authority has expired, with a task that is recorded.
SPECIFICATION Spec
CONSTANTS
    Processes = {p1}
    Members = {1}
    Authorizations = {a1}
    NoAuthorization = NoAuthorization
    NoMember = NoMember
    Overlap = FALSE
    Faults = TRUE
    Supervision = FALSE
INVARIANT ExpiryStrandsNothing
CHECK_DEADLOCK FALSE
