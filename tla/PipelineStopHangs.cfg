CONSTANTS
    Lines = {l1}
    Depth = 1
    Capacity = 1
    Length = 1
    Targets = {0}
    Seekable = FALSE
    LateBranch = FALSE
    Callers = {c1}
    Ops = {"pause", "stop"}
    MaxOps = 2
    MaxFailures = 0
    Timeouts = FALSE
    l1 = l1
    l2 = l2
    c1 = c1
    c2 = c2
SPECIFICATION FairSpec
PROPERTIES CallReturns
CHECK_DEADLOCK FALSE
