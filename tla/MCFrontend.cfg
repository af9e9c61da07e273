CONSTANTS
    Me = Me
    Lines <- MCLines
    Scripts <- MCScripts
    Backends = {"daemon", "local"}
    MaxTyped = 3
    MaxDisplays = 2
    MaxJunk = 1
SPECIFICATION FairSpec
INVARIANTS
    SubmitsWholeExpressions
    NothingTypedIsLost
    AnswersItsOwn
    PromptOnItsOwnLine
PROPERTIES
    EvaluationsEnd
CHECK_DEADLOCK FALSE
