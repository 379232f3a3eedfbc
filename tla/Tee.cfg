CONSTANTS
    Branches = {1, 2, 3}
    Initial = {1, 2}
    Takes <- SecondNone
    Callers = {c1}
    Length = 3
    Targets = {0}
    MaxOwed = 1
    Ops = {"seek", "step", "resume"}
    MaxOps = 2
    MaxCalls = 1
    MaxFailures = 1
    c1 = c1
    c2 = c2
SPECIFICATION FairSpec
CHECK_DEADLOCK FALSE
INVARIANTS StreamInOrder NothingIsKeptBack NoEndIsMissed
PROPERTIES HeldAtItsSample EndIsLastOfHandedOut FinishedIsEarned OpReturns
