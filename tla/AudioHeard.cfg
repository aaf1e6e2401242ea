SPECIFICATION Spec
CONSTANTS
    Peers <- TwoPeers
    ClientOf <- Distinct
    Speakers = {x}
    InitialSlots = 1
    SlotGrowth = 1
    MaxRequests = 1
    MaxBadAnswers = 1
    MaxFailures = 1
    None = none
    x = x
    y = y
    z = z
    me = me
    them = them
PROPERTY TracksAreHeard
CHECK_DEADLOCK FALSE
