--------------------------- MODULE MCScreenShare ---------------------------
(* Small rooms for the screen-share model.                                  *)
EXTENDS ScreenShare, TLC

CONSTANTS a, b, v1, v2, cl

\* a reconnects as b under the same client_id; viewers send none.
Reconnecting == [p \in Peers |-> IF p \in {a, b} THEN cl ELSE NoClient]

\* v1 reconnects as v2.
ReturningViewer == [p \in Peers |-> IF p \in {v1, v2} THEN cl ELSE NoClient]

\* Nobody sends a client_id, so nobody is ever evicted.
Anonymous == [p \in Peers |-> NoClient]

\* PeerConnections are interchangeable, and so are two viewers.
SymSubs == Permutations(Subs)
SymViewers == Permutations(Subs) \cup Permutations(Viewers)
=============================================================================
