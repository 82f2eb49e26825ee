CONSTANTS
    Files <- MCFiles
    ScrapLength = 3
    ShortScrap = 2
SPECIFICATION Spec
INVARIANTS
    NothingIsLost
    LoopsMakeProgress
    ProgramsAreUnderstood
CHECK_DEADLOCK FALSE
