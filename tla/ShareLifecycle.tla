-------------------------- MODULE ShareLifecycle --------------------------
(***************************************************************************)
(* What the room promises about screen shares, whatever threads run and    *)
(* whichever locks they hold: a share belongs to one connected peer, a     *)
(* connected peer owns at most one, a share outlives its owner's connection *)
(* only to be claimed by another, and a share that ended stays ended.      *)
(***************************************************************************)
CONSTANTS Peers, Sessions, NoPeer

VARIABLES
    here,    \* connected peers
    gone,    \* peers that were connected and will not be again
    stage,   \* of each share: "none", "live" or "ended"
    owner    \* of each share that is not "none"

vars == <<here, gone, stage, owner>>

Init ==
    /\ here = {}
    /\ gone = {}
    /\ stage = [s \in Sessions |-> "none"]
    /\ owner = [s \in Sessions |-> NoPeer]

Owns(p) == {s \in Sessions : stage[s] = "live" /\ owner[s] = p}

\* A connection may replace earlier ones of the same client.
Arrive(p) ==
    /\ p \notin here \cup gone
    /\ \E replaced \in SUBSET here :
        /\ here' = (here \ replaced) \cup {p}
        /\ gone' = gone \cup replaced
    /\ UNCHANGED <<stage, owner>>

Depart(p) ==
    /\ p \in here
    /\ here' = here \ {p}
    /\ gone' = gone \cup {p}
    /\ UNCHANGED <<stage, owner>>

Begin(s, p) ==
    /\ stage[s] = "none"
    /\ p \in here /\ Owns(p) = {}
    /\ stage' = [stage EXCEPT ![s] = "live"]
    /\ owner' = [owner EXCEPT ![s] = p]
    /\ UNCHANGED <<here, gone>>

\* Only a share whose owner is gone changes hands.
Claim(s, p) ==
    /\ stage[s] = "live"
    /\ owner[s] \in gone
    /\ p \in here /\ Owns(p) = {}
    /\ owner' = [owner EXCEPT ![s] = p]
    /\ UNCHANGED <<here, gone, stage>>

Finish(s) ==
    /\ stage[s] = "live"
    /\ stage' = [stage EXCEPT ![s] = "ended"]
    /\ UNCHANGED <<here, gone, owner>>

Next ==
    \/ \E p \in Peers : Arrive(p) \/ Depart(p)
    \/ \E s \in Sessions : \/ Finish(s)
                           \/ \E p \in Peers : Begin(s, p) \/ Claim(s, p)

Spec == Init /\ [][Next]_vars
=============================================================================
