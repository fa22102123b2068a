\* Two commands overlap, each a process with a queue of its own: an accepted observation is lost.
SPECIFICATION Spec
CONSTANTS
    Processes = {p1, p2}
    Evidence = {e1}
    Offers = {o1}
    Bindings = {b1}
    Ttl = 1
    Retention = 1
    MaxTime = 1
    MaxId = 2
    MaxGeneration = 0
    None = None
SYMMETRY Symmetry
PROPERTY EnvelopesRemain
