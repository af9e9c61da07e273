CONSTANTS
    c1 = c1
    c2 = c2
    Main = Main
    Clients = {c1, c2}
    Kinds = {"shared", "isolated", "reset", "dump", "dot"}
    Ops = {"define", "io"}
    MaxReqs = 3
    MaxTotal = 3
    MaxOps = 2
    MaxMsgs = 0
SYMMETRY Symmetry
CONSTRAINT StaysUp
SPECIFICATION Spec
INVARIANTS
    DumpsAreSound
CHECK_DEADLOCK FALSE
