\* Two commands overlap, in processes of their own or of one.
SPECIFICATION Spec
CONSTANTS
    Processes = {p1, p2}
    Evidence = {e1}
    Offers = {o1}
    Bindings = {b1, b2}
    Ttl = 1
    Retention = 1
    MaxTime = 1
    MaxId = 2
    MaxGeneration = 1
    None = None
SYMMETRY Symmetry
CONSTRAINT Bounded
INVARIANTS OneLiveAuthorization Readable ConsumptionsTruthful NothingExpiredReturned
PROPERTY AcceptedForGood
