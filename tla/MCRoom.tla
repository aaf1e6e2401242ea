------------------------------- MODULE MCRoom -------------------------------
(***************************************************************************)
(* Small rooms: one client with two sessions, x and y, and a third peer z. *)
(***************************************************************************)
EXTENDS Room

CONSTANTS x, y, z, me, them, nobody

MCPeers == {x, y, z}
TwoPeers == {x, z}
MCClients == {me, them, nobody}

\* y is the second session of the client of x; z is another client.
Reconnecting == [p \in MCPeers |-> IF p = z THEN them ELSE me]

OfTwo == [p \in TwoPeers |-> IF p = z THEN them ELSE me]

=============================================================================
