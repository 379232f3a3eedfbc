CONSTANTS
    Lines = {l1}
    Depth = 1
    Capacity = 1
    Length = 2
    Targets = {0, 1}
    Seekable = TRUE
    LateBranch = FALSE
    Callers = {c1, c2}
    Ops = {"pause", "resume", "seek", "stop", "finish"}
    MaxOps = 2
    MaxFailures = 0
    Timeouts = FALSE
    l1 = l1
    l2 = l2
    c1 = c1
    c2 = c2
SPECIFICATION FairSpec
PROPERTIES CallReturns
CHECK_DEADLOCK FALSE
