CONSTANTS
    c1 = c1
    c2 = c2
    Main = Main
    Clients = {c1}
    Kinds = {"shared"}
    Ops = {"call"}
    MaxReqs = 1
    MaxTotal = 1
    MaxOps = 1
    MaxMsgs = 1
SPECIFICATION ReplyingSpec
PROPERTIES
    EveryCallReturns
CHECK_DEADLOCK FALSE
