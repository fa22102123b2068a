\* Two processes race for one authorization and one of them crashes.
SPECIFICATION Spec
CONSTANTS
    r1 = r1
    r2 = r2
    r3 = r3
    k1 = k1
    k2 = k2
    k3 = k3
    NoRequest = NoRequest
    Processes = {p1, p2}
    Requests = {r1, r2, r3}
    Keys = {k1, k2, k3}
    KeyOf <- MCKeyOf
    WithIntent = {r3}
    EstimatedCost = 1
    Costs = {1, 2}
    Overcharge = 1
    MaxRun = 3
    MaxDay = 4
    LastDay = 2
    Overlap = TRUE
    Faults = TRUE
SYMMETRY Symmetry
INVARIANT PaidOnce
CHECK_DEADLOCK FALSE
