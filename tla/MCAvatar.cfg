CONSTANTS
    lamp = lamp
    bag = bag
    box = box
    Room = Room
    Me = Me
    Gone = Gone
    None = None
    Things = {lamp}
    Chests = {bag, box}
    Commands = {"take", "take-from", "find", "equip", "keep", "unequip",
                "drop", "put", "forge", "recycle", "reload"}
    MaxCmds = 4
SYMMETRY Symmetry
SPECIFICATION Spec
INVARIANTS
    InventoryNotHeld
    HandIsMine
    NothingMislaid
CHECK_DEADLOCK FALSE
