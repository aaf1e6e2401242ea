---------------------------- MODULE MCAudioSlots ----------------------------
(***************************************************************************)
(* Small rooms for AudioSlots: one client with two sessions, x and y, and  *)
(* a third peer z; or just x and z.                                        *)
(***************************************************************************)
EXTENDS AudioSlots

CONSTANTS x, y, z, me, them

AllPeers == {x, y, z}
TwoPeers == {x, z}
Reconnecting == [p \in AllPeers |-> IF p = z THEN them ELSE me]
Distinct == [p \in AllPeers |-> p]
=============================================================================
