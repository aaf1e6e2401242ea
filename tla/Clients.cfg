SPECIFICATION ClientsSpec
CONSTANTS
    Peers <- MCPeers
    Clients <- MCClientIds
    Anonymous = nobody
    ClientOf <- Reconnecting
    Lurkers = {}
    Cap = 1
    Names = {given}
    GivenName = given
    MaxNamed = 0
    MaxEvents = 1
    Unnamed = unnamed
    MaxUpdates = 1
    MaxCloses = 1
    Absent = absent
    Subs = {tab}
    OutBuf = 2
    tab = tab
    x = x
    y = y
    z = z
    them = them
    me = me
    nobody = nobody
    Users = {me, them}
    Msgs = {m1}
    AuthorOf <- OwnMessages
    MaxSockets <- SocketsOf
    MaxEchoes = 2
    Servers = {server}
    NoServer = noserver
    MaxVersion = 2
    Checks = {c1, c2}
    Keys = {"lctrl", "rctrl", "m"}
    Label <- KeyLabel
    Modifiers = {"Ctrl"}
    Bindings <- ThreeBindings
    Default <- CtrlM
    None = none
    Missing = missing
    Cooldown = 2
    MaxLag = 1
INVARIANTS TypesOK PresenceTrue ChatHolds UpdatesHold HotkeyHolds
CHECK_DEADLOCK FALSE
