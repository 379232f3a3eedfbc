CONSTANTS
    Capacity = 0
    DropNewest = TRUE
    Limited = FALSE
    MaxItems = 1
    MaxRequests = 2
    MaxBusy = 1
    MaxPanics = 1
SPECIFICATION FairSpec
CHECK_DEADLOCK FALSE
PROPERTIES RequestReturns ProducerReturns PauseIsLeft
