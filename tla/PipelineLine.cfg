CONSTANTS
    Lines = {l1}
    Depth = 2
    Capacity = 1
    Length = 2
    Targets = {0}
    Seekable = TRUE
    LateBranch = FALSE
    Callers = {c1, c2}
    Ops = {"pause", "resume", "seek", "stop", "finish"}
    MaxOps = 2
    MaxFailures = 1
    Timeouts = TRUE
    l1 = l1
    l2 = l2
    c1 = c1
    c2 = c2
SPECIFICATION Spec
SYMMETRY Symmetry
INVARIANTS ReadyIsAtTarget EndedIsDrained NoTerminalUnfinished
PROPERTIES StreamInOrder PausedIsStill
CHECK_DEADLOCK FALSE
