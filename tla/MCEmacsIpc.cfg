CONSTANTS
    MaxJobs = 5
    MaxDisplays = 2
    MaxConns = 2
    MaxEvals = 3
    None = None
SPECIFICATION Spec
INVARIANTS
    AnswersItsOwn
    OutputComplete
    NothingLost
PROPERTIES
    Heard
CHECK_DEADLOCK FALSE
