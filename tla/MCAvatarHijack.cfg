CONSTANTS
    lamp = lamp
    bag = bag
    box = box
    Room = Room
    Me = Me
    Gone = Gone
    None = None
    Things = {lamp}
    Chests = {bag, box}
    Commands = {"take", "drop"}
    MaxCmds = 3
SYMMETRY Symmetry
SPECIFICATION Spec
INVARIANTS
    NeverHijacked
CHECK_DEADLOCK FALSE
