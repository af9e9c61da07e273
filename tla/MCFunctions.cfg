CONSTANTS
    box = box
    red = red
    Thing = Thing
    Other = Other
    Me = Me
    None = None
    Keyword = box
    Words = {red, box}
    Actors = {Thing, Other, Me}
    Sample <- MCSample
    MaxWords = 4
    MaxPool = 2
    Values <- MCValues
    Data <- MCData
    Terms <- MCTerms
    Foreign <- MCForeign
    Depth <- MCDepth
    MaxDepth = 4
    Keys <- MCKeys
    Verb = ":verb"
    MaxArgs = 2
    Bits = 2
    Paths <- MCPaths
    MaxDots = 4
INIT FunctionsInit
NEXT FunctionsNext
INVARIANTS
    ObjectIsTheOnlyOne
    MissingIsMissing
    NickFirst
    RecipientIsAnother
    SplitIsExact
    EchoIsExact
    RepliesKeepTheirMeaning
    DotReadsLastWrite
CHECK_DEADLOCK FALSE
