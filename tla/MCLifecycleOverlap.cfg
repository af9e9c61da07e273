CONSTANTS
    p1 = p1
    p2 = p2
    p3 = p3
    None = None
    Procs = {p1, p2, p3}
    Clients = {}
    Events = {"daemon", "stop"}
    Overlap = TRUE
    MaxPolls = 1
    MaxTries = 1
SYMMETRY Symmetry
SPECIFICATION Spec
INVARIANTS
    OneServing
CHECK_DEADLOCK FALSE
