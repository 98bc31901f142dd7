SPECIFICATION FairSpec
CONSTANTS
    Other = Other
    None = None
    Texts <- UpToThree
    MaxPool = 12
    Default = 2
    Tries = 2
    Faults = {"dir", "open", "pages", "close"}
INVARIANTS PoolAsAsked ClosesOrKilled
PROPERTIES StopHeeded AskingEnds ParentStopEnds
CHECK_DEADLOCK FALSE
