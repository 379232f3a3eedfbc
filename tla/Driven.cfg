CONSTANTS
    Outputs = {1, 2}
    Budget = 2
    MaxInterleave = 1
    MaxParked = 2
    MaxWait = 2
    MaxDone = 3
SPECIFICATION Spec
CHECK_DEADLOCK FALSE
INVARIANTS EachInOrder WholeAtItsEnd WakeIsOnItsWay AsAsked EveryOutputIsOver HeldIsLookedAt
