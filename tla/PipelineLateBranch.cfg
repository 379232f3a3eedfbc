CONSTANTS
    Lines = {l1}
    Depth = 2
    Capacity = 1
    Length = 1
    Targets = {0}
    Seekable = TRUE
    LateBranch = TRUE
    Callers = {c1}
    Ops = {"pause", "stop", "finish"}
    MaxOps = 2
    MaxFailures = 0
    Timeouts = FALSE
    l1 = l1
    l2 = l2
    c1 = c1
    c2 = c2
SPECIFICATION Spec
INVARIANTS NoTerminalUnfinished
CHECK_DEADLOCK FALSE
