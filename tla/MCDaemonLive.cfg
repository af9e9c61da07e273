CONSTANTS
    c1 = c1
    c2 = c2
    Main = Main
    Clients = {c1, c2}
    Kinds = {"shared", "stop", "refused"}
    Ops = {"display", "call"}
    MaxReqs = 1
    MaxTotal = 2
    MaxOps = 1
    MaxMsgs = 1
SPECIFICATION FairSpec
PROPERTIES
    EvalsAnswered
    HandlersEnd
    RegisteredCallReturns
    StopCompletes
CHECK_DEADLOCK FALSE
