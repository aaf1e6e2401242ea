SPECIFICATION Spec
CONSTANTS
    Peers <- TwoPeers
    Clients <- MCClients
    Anonymous = nobody
    ClientOf <- OfTwo
    Lurkers = {}
    Cap = 1
    Names = {given}
    GivenName = given
    MaxNamed = 0
    MaxEvents = 1
    Unnamed = unnamed
    MaxUpdates = 1
    MaxCloses = 1
    Absent = absent
    x = x
    y = y
    z = z
    me = me
    them = them
    nobody = nobody
PROPERTY CancelledLeaves
PROPERTY ShutdownDrains
CHECK_DEADLOCK FALSE
