SPECIFICATION Safety
CONSTANTS
    Peers <- MCPeers
    Clients <- MCClients
    Anonymous = nobody
    ClientOf <- Reconnecting
    Lurkers = {x}
    Cap = 3
    Names = {given, other}
    GivenName = given
    MaxNamed = 1
    MaxEvents = 2
    Unnamed = unnamed
    MaxUpdates = 2
    MaxCloses = 0
    Absent = absent
    x = x
    y = y
    z = z
    me = me
    them = them
    nobody = nobody
INVARIANT RosterTrue
CHECK_DEADLOCK FALSE
