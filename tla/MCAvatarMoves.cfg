CONSTANTS
    hall = hall
    yard = yard
    you = you
    Me = Me
    None = None
    Home = hall
    Rooms = {hall, yard}
    Others = {you}
    Commands = {"go", "enter", "look", "leave", "dig", "fill"}
    MaxCmds = 2
    MaxChanges = 1
SPECIFICATION Spec
INVARIANTS
    CacheIsExact
    PresentOnce
CHECK_DEADLOCK FALSE
