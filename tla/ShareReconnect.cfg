SPECIFICATION Safety
CONSTANTS
    a = a
    b = b
    cl = cl
    v1 = v1
    v2 = v2
    Peers = {a, b, v1}
    Publishers = {a, b, v1}
    Viewers = {}
    Sessions = {s1, s2}
    Subs = {}
    Fragile = {s1}
    Streaming = {}
    ClientOf <- Reconnecting
    NoClient = NoClient
    NoPeer = NoPeer
    NoSession = NoSession
    NoSub = NoSub
INVARIANT OwnedShareIsLive
INVARIANT OwnerKnowsItsShare
INVARIANT ArmedWindowIsHeld
PROPERTY ImplementsLifecycle
CHECK_DEADLOCK FALSE
