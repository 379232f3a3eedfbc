CONSTANTS
    Readers = {"r1"}
    Ways = {"waker", "bell"}
    Wakers = {"w1", "w2"}
    Tracks = {0, 1}
    KeyTracks <- VideoOrNone
    Times = {0, 2}
    Retain = 1
    Withins <- WithinAny
    MaxHeld = 2
    MaxPackets = 3
    MaxPublications = 1
    MaxSeeks = 0
    MaxDrops = 1
    MaxJoins = 1
SPECIFICATION Spec
CHECK_DEADLOCK FALSE
INVARIANTS TypeOK PositionsAreHeld NoWakeIsLost StartsAtKeyInOrder NothingIsMissed RecentIsKept
