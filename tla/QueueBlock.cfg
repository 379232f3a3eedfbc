CONSTANTS
    Capacity = 1
    DropNewest = FALSE
    Limited = TRUE
    MaxItems = 2
    MaxRequests = 2
    MaxBusy = 1
    MaxPanics = 1
SPECIFICATION FairSpec
CHECK_DEADLOCK FALSE
INVARIANTS EndsOwedExact OwedEndIsDelivered ToldGoneOnce PausedIsStill
PROPERTIES KeepsContract ProducerReturns
