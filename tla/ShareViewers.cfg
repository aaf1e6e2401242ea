SPECIFICATION Safety
CONSTANTS
    a = a
    b = b
    cl = cl
    v1 = v1
    v2 = v2
    Peers = {a, v1, v2}
    Publishers = {a}
    Viewers = {v1, v2}
    Sessions = {s1}
    Subs = {u1, u2, u3}
    Fragile = {}
    Streaming = {}
    ClientOf <- ReturningViewer
    NoClient = NoClient
    NoPeer = NoPeer
    NoSession = NoSession
    NoSub = NoSub
INVARIANT NoDeadViewer
INVARIANT NoForgottenPc
INVARIANT ClosedShareHasNoViewers
SYMMETRY SymViewers
CHECK_DEADLOCK FALSE
