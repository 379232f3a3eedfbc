CONSTANTS
    Readers = {"r1"}
    Ways = {"waker"}
    Wakers = {"w1"}
    Tracks = {0, 1}
    KeyTracks = {0}
    Times = {0}
    Retain = 1
    Withins <- AnyTime
    MaxHeld = 2
    MaxPackets = 2
    MaxPublications = 2
    MaxSeeks = 1
    MaxDrops = 0
    MaxJoins = 1
SPECIFICATION Spec
CHECK_DEADLOCK FALSE
INVARIANTS OneTimeline EndedIsTheEnd
