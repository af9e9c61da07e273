CONSTANTS
    c1 = c1
    c2 = c2
    Main = Main
    Clients = {c1, c2}
    Kinds = {"shared", "ping", "stop"}
    Ops = {"display", "call"}
    MaxReqs = 2
    MaxTotal = 2
    MaxOps = 2
    MaxMsgs = 2
SYMMETRY Symmetry
SPECIFICATION Spec
INVARIANTS
    TypeOK
    SinkFollowsLock
    ReplyRouted
    ResponsesInOrder
PROPERTIES
    ServiceSpec
CHECK_DEADLOCK FALSE
