CONSTANTS
    Horizon = 4
    Pictures = 4
    Sounds = 2
    Ahead = 2
    Room = 2
    Ops = {"pause", "resume", "seek", "step"}
    Targets = {0, 1}
    MaxCalls = 2
    MayLeave = TRUE
SPECIFICATION FairSpec
CHECK_DEADLOCK FALSE
INVARIANTS NeverAheadOfSound
PROPERTIES NoJumpBack SeekLands PlaysToItsEnd
