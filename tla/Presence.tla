------------------------------ MODULE Presence ------------------------------
(***************************************************************************)
(* The presence hub (backend/src/presence.rs) above the room whose changes *)
(* it fans out (sfu/mod.rs), and the lobby list a browser keeps from it    *)
(* (frontend/src/hooks/useRoomPeers.ts).                                   *)
(*                                                                         *)
(* A handler of the room pushes its frames last, long after it released    *)
(* the room's lock.  A subscriber has a bounded queue: a frame that does   *)
(* not fit is replaced, with all that waits, by a snapshot of the room as  *)
(* it is then.                                                             *)
(***************************************************************************)
EXTENDS Room

CONSTANTS
    Subs,           \* streams of /api/presence
    OutBuf          \* OUT_BUF_LEN

ASSUME PresenceConstants == OutBuf \in Nat \ {0}

VARIABLES
    pushes,         \* the frames each peer's handler still has to push
    sub,            \* whether the stream is subscribed
    queue,          \* Subscriber.queue
    shown,          \* the list the browser shows
    late            \* history: peers whose leaving was pushed before something else about them

presVars == <<pushes, sub, queue, shown, late>>
allVars == <<vars, presVars>>

NoOne == [q \in Peers |-> Absent]

Frame ==
    [event : {"left"}, id : Peers]
        \union [event : {"joined", "updated"}, id : Peers, info : Info]
        \union [event : {"snapshot"}, peers : Roster]

PresenceInit ==
    /\ Init
    /\ pushes = [p \in Peers |-> <<>>]
    /\ sub = [s \in Subs |-> FALSE]
    /\ queue = [s \in Subs |-> <<>>]
    /\ shown = [s \in Subs |-> NoOne]
    /\ late = {}

-----------------------------------------------------------------------------
(* The room's handlers, with what they will push when they have sent. *)

Frames(event, set, i) ==
    [k \in 1 .. Cardinality(set) |->
        IF event = "left" THEN [event |-> event, id |-> SetToSeq(set)[k]]
        ELSE [event |-> event, id |-> SetToSeq(set)[k], info |-> i]]

WillPush(p, frames) ==
    /\ pushes' = [pushes EXCEPT ![p] = frames]
    /\ UNCHANGED <<sub, queue, shown, late>>

JoinPushes(p) ==
    /\ Join(p)
    /\ WillPush(p, Frames("left", peers \ peers', info[p]) \o Frames("joined", {p}, info[p]))

LeavePushes(p) == Leave(p) /\ WillPush(p, Frames("left", {p} \intersect peers, info[p]))

UpdatePushes(p) ==
    /\ SetState(p) \/ SetDisplayName(p)
    /\ WillPush(p, Frames("updated", {p} \intersect peers, info'[p]))

DonePushing(p) == pushes[p] = <<>> /\ Done(p) /\ UNCHANGED presVars

-----------------------------------------------------------------------------
(* The hub. *)

\* Mutant: what did not fit is lost and what waits is kept.
EnqueueOrDrop(q, f) == IF Len(q) < OutBuf THEN Append(q, f) ELSE q

\* Mutant: a slow stream's queue has no end.
EnqueueAlways(q, f) == Append(q, f)

Enqueue(q, f) ==
    IF Len(q) < OutBuf THEN Append(q, f)
    ELSE <<[event |-> "snapshot", peers |-> Snapshot(peers)]>>

\* Another handler has yet to push that q is there.
Announces(h, q) == \E i \in DOMAIN pushes[h] : pushes[h][i].event # "left" /\ pushes[h][i].id = q

\* push: one frame to every subscriber, under the hub's lock.
Push(p) ==
    /\ todo[p] = <<>> /\ pushes[p] # <<>>
    /\ LET f == Head(pushes[p]) IN
       /\ queue' = [s \in Subs |-> IF sub[s] THEN Enqueue(queue[s], f) ELSE queue[s]]
       /\ late' = IF f.event = "left" /\ \E h \in Peers : Announces(h, f.id)
                  THEN late \union {f.id} ELSE late
    /\ pushes' = [pushes EXCEPT ![p] = Tail(@)]
    /\ UNCHANGED <<vars, sub, shown>>

\* subscribe: the snapshot is taken under the hub's lock.
Subscribe(s) ==
    /\ ~sub[s] /\ shut = "up"
    /\ sub' = [sub EXCEPT ![s] = TRUE]
    /\ queue' = [queue EXCEPT ![s] = <<[event |-> "snapshot", peers |-> Snapshot(peers)]>>]
    /\ UNCHANGED <<vars, pushes, shown, late>>

\* The page is hidden, the stream breaks, or the server cancels it.
Unsubscribe(s) ==
    /\ sub[s]
    /\ sub' = [sub EXCEPT ![s] = FALSE]
    /\ queue' = [queue EXCEPT ![s] = <<>>]
    /\ shown' = [shown EXCEPT ![s] = NoOne]
    /\ UNCHANGED <<vars, pushes, late>>

\* Both kinds of announcement insert or replace; a snapshot replaces everything.
Merge(list, f) ==
    CASE f.event = "snapshot" -> f.peers
      [] f.event = "left" -> [list EXCEPT ![f.id] = Absent]
      [] OTHER -> [list EXCEPT ![f.id] = f.info]

Show(s) ==
    /\ queue[s] # <<>>
    /\ shown' = [shown EXCEPT ![s] = Merge(@, Head(queue[s]))]
    /\ queue' = [queue EXCEPT ![s] = Tail(@)]
    /\ UNCHANGED <<vars, pushes, sub, late>>

-----------------------------------------------------------------------------
HandlePushes(p) ==
    \/ (SendNext(p) \/ CancelEvicted(p)) /\ UNCHANGED presVars
    \/ LeavePushes(p) \/ Push(p) \/ DonePushing(p)

PresenceNext ==
    \/ \E p \in Peers :
        \/ JoinPushes(p) \/ UpdatePushes(p) \/ HandlePushes(p)
        \/ (Accept(p) \/ Register(p) \/ NoHello(p) \/ Deliver(p) \/ Disconnect(p)) /\ UNCHANGED presVars
    \/ \E s \in Subs : Subscribe(s) \/ Unsubscribe(s) \/ Show(s)
    \/ (Voice \/ Close \/ CancelNext \/ DisconnectAll) /\ UNCHANGED presVars

PresenceSpec == PresenceInit /\ [][PresenceNext]_allVars

-----------------------------------------------------------------------------
PresenceTypeOK ==
    /\ \A p \in Peers : \A i \in DOMAIN pushes[p] : pushes[p][i] \in Frame
    /\ sub \in [Subs -> BOOLEAN]
    /\ \A s \in Subs : Len(queue[s]) <= OutBuf /\ \A i \in DOMAIN queue[s] : queue[s][i] \in Frame
    /\ shown \in [Subs -> Roster]
    /\ late \subseteq Peers

\* Nothing is under way to the subscriber.
Settled(s) == sub[s] /\ queue[s] = <<>> /\ \A p \in Peers : pushes[p] = <<>>

\* A browser that has read everything shows the room as it is, whatever queues overflowed
\* and however snapshots and frames crossed; only a peer evicted while its own handler was
\* about to announce it may be wrong (push and subscribe in presence.rs, useRoomPeers.ts).
PresenceTrue ==
    \A s \in Subs : Settled(s) =>
        \A q \in Peers \ late : shown[s][q] = IF q \in peers THEN info[q] ELSE Absent

\* What presence.rs:4-5 says: clients merge idempotently, so in the end they show the room.
\* Not kept: the left of an evicted peer may be pushed before its own joined.
PresenceSettles ==
    \A s \in Subs : Settled(s) =>
        \A q \in Peers : shown[s][q] = IF q \in peers THEN info[q] ELSE Absent
=============================================================================
