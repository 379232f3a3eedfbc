CONSTANTS
    Horizon = 6
    Pictures = 6
    Sounds = 1
    Ahead = 2
    Room = 2
    Ops = {"pause", "resume"}
    Targets = {}
    MaxCalls = 2
    MayLeave = FALSE
SPECIFICATION FairSpec
CHECK_DEADLOCK FALSE
PROPERTIES PlaysToItsEnd
