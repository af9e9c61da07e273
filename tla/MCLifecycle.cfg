CONSTANTS
    p1 = p1
    p2 = p2
    c1 = c1
    None = None
    Procs = {p1, p2}
    Clients = {c1}
    Events = {"daemon", "stop", "signal", "kill", "define"}
    Overlap = FALSE
    MaxPolls = 2
    MaxTries = 2
SPECIFICATION FairSpec
INVARIANTS
    TypeOK
    ServingReachable
    IdentityKept
PROPERTIES
    StartsSettle
    StopsSettle
    FrontendsSettle
    EndpointsReleased
CHECK_DEADLOCK FALSE
