SPECIFICATION Spec
CONSTANTS
    a = a
    b = b
    cl = cl
    v1 = v1
    v2 = v2
    Peers = {a, v1}
    Publishers = {a, v1}
    Viewers = {v1}
    Sessions = {s1}
    Subs = {u1}
    Fragile = {s1, u1}
    Streaming = {s1}
    ClientOf <- Anonymous
    NoClient = NoClient
    NoPeer = NoPeer
    NoSession = NoSession
    NoSub = NoSub
PROPERTY EndCompletes
PROPERTY HandlersReturn
PROPERTY OrphanIsSettled
CHECK_DEADLOCK FALSE
