SPECIFICATION Safety
CONSTANTS
    Peers <- AllPeers
    ClientOf <- Reconnecting
    Speakers = {x, y}
    InitialSlots = 1
    SlotGrowth = 1
    MaxRequests = 0
    MaxBadAnswers = 1
    MaxFailures = 0
    None = none
    x = x
    y = y
    z = z
    me = me
    them = them
INVARIANT TypeOK
INVARIANT SlotsSettle
INVARIANT OwnerAnnounced
INVARIANT GoneIsForgotten
CHECK_DEADLOCK FALSE
