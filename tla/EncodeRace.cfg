SPECIFICATION Safety
CONSTANTS
    a = a
    b = b
    cl = cl
    v1 = v1
    v2 = v2
    Peers = {a, v1}
    Publishers = {a}
    Viewers = {v1}
    Sessions = {s1}
    Subs = {u1}
    Fragile = {}
    Streaming = {s1}
    ClientOf <- Anonymous
    NoClient = NoClient
    NoPeer = NoPeer
    NoSession = NoSession
    NoSub = NoSub
INVARIANT WatchedShareIsEncoding
CHECK_DEADLOCK FALSE
