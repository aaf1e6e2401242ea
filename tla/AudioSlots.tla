----------------------------- MODULE AudioSlots -----------------------------
(***************************************************************************)
(* Who hears whom: backend/src/sfu/audio.rs (AudioPeer) and the track      *)
(* table of sfu/mod.rs.  A peer's audio PC has a pool of slots; the tracks *)
(* of the others are put into open slots, and when slots run out an offer  *)
(* asks the client for more.  Every change of the tracks is followed by a  *)
(* sweep that syncs every peer; sweeps run in the handlers and in spawned  *)
(* tasks, and a sync waits while an offer is pending.                      *)
(*                                                                         *)
(* A peer publishes at most one track, so a track is named by its owner.   *)
(***************************************************************************)
EXTENDS Integers, Sequences, SequencesExt, FiniteSets

CONSTANTS
    Peers,          \* voice connections
    ClientOf,       \* the client ID of each
    Speakers,       \* the peers whose microphone ever sends
    InitialSlots,   \* INITIAL_SLOTS
    SlotGrowth,     \* SLOT_GROWTH
    MaxRequests,    \* bound on the renegotiations asked for
    MaxBadAnswers,  \* bound on the answers that do not apply
    MaxFailures,    \* bound on the disconnects and dead PCs
    None

ASSUME AudioConstants ==
    /\ InitialSlots \in Nat \ {0} /\ SlotGrowth \in Nat \ {0}
    /\ MaxRequests \in Nat /\ MaxBadAnswers \in Nat /\ MaxFailures \in Nat
    /\ IsFiniteSet(Peers) /\ Speakers \subseteq Peers
    /\ None \notin Peers

VARIABLES
    at,             \* where each connection's task is
    peers,          \* Room::state.peers
    tracks,         \* Room::state.tracks
    published,      \* AudioPeer::track is set
    closed,         \* the audio PC is closed
    cancelled,      \* the peer's token
    slots,          \* SyncState::slots
    pending,        \* SyncState::pending
    sync,           \* the holder of the sync lock and its locals
    subs,           \* AudioTrack::subs, as pairs of a peer and a slot
    sweep,          \* each thread in signal_all: the peers it has yet to sync
    leaver,         \* whose peer-left the handler has to queue
    telling,        \* to whom
    told,           \* history: the last owner of a slot queued to the client
    requests, bad, failures     \* counters of the bounds

connVars == <<at, peers, tracks, published, closed, cancelled>>
slotVars == <<slots, pending, sync, subs, told>>
tellVars == <<leaver, telling>>
bounds == <<requests, bad, failures>>
vars == <<connVars, slotVars, sweep, tellVars, bounds>>

\* The handler of a peer, and the tasks its first packet and its close spawn.
Threads == {"handler", "publish", "unpublish"} \X Peers

Slot == [owner : Peers \union {None}, open : BOOLEAN]
NewSlot == [owner |-> None, open |-> FALSE]
Free == [at |-> "free", by |-> None, want |-> {}, fresh |-> {}]
Idle == [at |-> "idle", todo |-> {}]
Due == [at |-> "due", todo |-> {}]
Handler(p) == <<"handler", p>>

Init ==
    /\ at = [p \in Peers |-> "new"]
    /\ peers = {} /\ tracks = {}
    /\ published = [p \in Peers |-> FALSE]
    /\ closed = [p \in Peers |-> FALSE]
    /\ cancelled = [p \in Peers |-> FALSE]
    /\ slots = [p \in Peers |-> <<>>]
    /\ pending = [p \in Peers |-> FALSE]
    /\ sync = [p \in Peers |-> Free]
    /\ subs = [t \in Peers |-> {}]
    /\ sweep = [k \in Threads |-> Idle]
    /\ leaver = [p \in Peers |-> None]
    /\ telling = [p \in Peers |-> {}]
    /\ told = [p \in Peers |-> <<>>]
    /\ requests = 0 /\ bad = 0 /\ failures = 0

-----------------------------------------------------------------------------
(* A sync: under the peer's sync lock from its first to its last step. *)

Owners(p) == {slots[p][i].owner : i \in DOMAIN slots[p]} \ {None}

Wants(p) == tracks \ {p}

\* Reconcile begins in thread k; a dead PC needs nothing.
Reconcile(p, k) ==
    sync' = IF closed[p] \/ cancelled[p] THEN sync
            ELSE [sync EXCEPT ![p] = [Free EXCEPT !.at = "announce", !.by = k,
                                                  !.want = Wants(p)]]

\* The place of an index among the indexes of a set, in their order.
Place(S, i) == Cardinality({j \in S : j <= i})

\* The owners waiting for a slot, in a fixed order; the slots that are or become free.
Waiting(p) == SetToSeq(sync[p].want \ Owners(p))
FreeIndexes(p) == {i \in DOMAIN slots[p] : slots[p][i].owner \notin sync[p].want}

\* The slots of departed tracks are freed, and free slots go to the waiting tracks.
NewOwners(p) ==
    [i \in DOMAIN slots[p] |->
        LET k == Place(FreeIndexes(p), i) IN
        IF i \notin FreeIndexes(p) THEN slots[p][i].owner
        ELSE IF k <= Len(Waiting(p)) THEN Waiting(p)[k] ELSE None]

\* Mutant: a freed slot is not unsubscribed.
NoneDeparted(p) == {}
Departed(p) == Owners(p) \ sync[p].want

\* Departed tracks stop feeding, and the client is told of every change at once.
Announce(p) ==
    /\ sync[p].at = "announce"
    /\ LET owners == NewOwners(p)
           changed == {i \in DOMAIN slots[p] : owners[i] # slots[p][i].owner} IN
       /\ subs' = [t \in Peers |->
            IF t \in Departed(p) THEN {s \in subs[t] : s[1] # p} ELSE subs[t]]
       /\ slots' = [slots EXCEPT ![p] = [i \in DOMAIN @ |-> [@[i] EXCEPT !.owner = owners[i]]]]
       /\ told' = IF p \in peers /\ ~cancelled[p] /\ changed # {}
                  THEN [told EXCEPT ![p] = owners] ELSE told
       /\ sync' = [sync EXCEPT ![p].at = "feed",
                               ![p].fresh = {i \in changed : owners[i] # None}]
    /\ UNCHANGED <<connVars, pending, sweep, tellVars, bounds>>

\* Mutant: the pool grows for tracks that have a slot, too.
GrowForAll(p) == IF slots[p] = <<>> THEN InitialSlots ELSE Cardinality(sync[p].want)

\* The size of the next offer.
Grow(p) ==
    LET waiting == Len(Waiting(p)) IN
    IF slots[p] = <<>>
    THEN IF waiting > InitialSlots THEN waiting ELSE InitialSlots
    ELSE ((waiting + SlotGrowth - 1) \div SlotGrowth) * SlotGrowth

\* The new owners feed their slots, and an offer asks for the slots that are missing.
Feed(p) ==
    /\ sync[p].at = "feed"
    /\ subs' = [t \in Peers |->
            subs[t] \union {<<p, i>> : i \in {j \in sync[p].fresh : slots[p][j].owner = t}}]
    /\ slots' = [slots EXCEPT ![p] = @ \o [i \in 1 .. Grow(p) |-> NewSlot]]
    /\ pending' = [pending EXCEPT ![p] = Grow(p) > 0]
    /\ sync' = [sync EXCEPT ![p] = Free]
    /\ UNCHANGED <<connVars, told, sweep, tellVars, bounds>>

SyncStep(p) == Announce(p) \/ Feed(p)

-----------------------------------------------------------------------------
(* A sweep: signal_all syncs the peers of a moment, one after the other. *)

Syncing(k) == \E p \in Peers : sync[p].by = k

Visiting(todo) == IF todo = {} THEN Idle ELSE [at |-> "visit", todo |-> todo]

SweepBegins(k) ==
    /\ sweep[k].at = "due"
    /\ sweep' = [sweep EXCEPT ![k] = Visiting(peers)]
    /\ UNCHANGED <<connVars, slotVars, tellVars, bounds>>

\* Under the lock a pending offer leaves the sync to its answer.
Visit(k, p) ==
    /\ sweep[k].at = "visit" /\ p \in sweep[k].todo /\ ~Syncing(k)
    /\ sync[p] = Free
    /\ sweep' = [sweep EXCEPT ![k] = Visiting(@.todo \ {p})]
    /\ IF pending[p] THEN UNCHANGED sync ELSE Reconcile(p, k)
    /\ UNCHANGED <<connVars, slots, pending, subs, told, tellVars, bounds>>

Sweep(k) == SweepBegins(k) \/ (\E p \in Peers : Visit(k, p))

-----------------------------------------------------------------------------
(* The handlers. *)

InHandler(p) == sweep[Handler(p)] = Idle /\ ~Syncing(Handler(p))
Evicted(p) == {q \in peers : ClientOf[q] = ClientOf[p]}

Join(p) ==
    /\ at[p] = "new"
    /\ peers' = (peers \ Evicted(p)) \union {p}
    /\ tracks' = tracks \ Evicted(p)
    /\ IF Evicted(p) = {}
       THEN /\ at' = [at EXCEPT ![p] = "in"]
            /\ sweep' = [sweep EXCEPT ![Handler(p)] = Due]
            /\ UNCHANGED <<leaver, telling>>
       ELSE /\ at' = [at EXCEPT ![p] = "evict"]
            /\ leaver' = [leaver EXCEPT ![p] = CHOOSE q \in Evicted(p) : TRUE]
            /\ telling' = [telling EXCEPT ![p] = peers \ Evicted(p)]
            /\ UNCHANGED sweep
    /\ UNCHANGED <<published, closed, cancelled, slotVars, bounds>>

\* The evicted session is cancelled before the others hear of it.
Evict(p) ==
    /\ at[p] = "evict"
    /\ cancelled' = [cancelled EXCEPT ![leaver[p]] = TRUE]
    /\ at' = [at EXCEPT ![p] = "tell of eviction"]
    /\ UNCHANGED <<peers, tracks, published, closed, slotVars, sweep, tellVars, bounds>>

\* peer-left is queued to one more peer.
Tell(p) ==
    /\ at[p] \in {"tell of eviction", "tell of leave"}
    /\ \E q \in telling[p] :
        /\ telling' = [telling EXCEPT ![p] = @ \ {q}]
    /\ UNCHANGED <<connVars, slotVars, sweep, leaver, bounds>>

\* Then the handler sweeps; a join that evicted sweeps once for that, once for itself.
Told(p) ==
    /\ at[p] \in {"tell of eviction", "tell of leave"} /\ telling[p] = {}
    /\ sweep' = [sweep EXCEPT ![Handler(p)] = Due]
    /\ leaver' = [leaver EXCEPT ![p] = None]
    /\ at' = [at EXCEPT ![p] = IF @ = "tell of leave" THEN "close" ELSE "join"]
    /\ UNCHANGED <<peers, tracks, published, closed, cancelled, slotVars, telling, bounds>>

Joined(p) ==
    /\ at[p] = "join" /\ InHandler(p)
    /\ at' = [at EXCEPT ![p] = "in"]
    /\ sweep' = [sweep EXCEPT ![Handler(p)] = Due]
    /\ UNCHANGED <<peers, tracks, published, closed, cancelled, slotVars, tellVars, bounds>>

\* A renegotiate message, outside its cooldown.
Renegotiate(p) ==
    /\ at[p] = "in" /\ InHandler(p) /\ ~cancelled[p]
    /\ p \in peers
    /\ requests < MaxRequests
    /\ requests' = requests + 1
    /\ sweep' = [sweep EXCEPT ![Handler(p)] = Due]
    /\ UNCHANGED <<connVars, slotVars, tellVars, bad, failures>>

\* Mutant: the answer opens its slots and leaves them to the next sweep.
NoReconcile(p, k) == UNCHANGED sync
ReconcileAfter(p, k) == Reconcile(p, k)

\* The slots that are open, in their order.
Retained(s) ==
    LET open == {i \in DOMAIN s : s[i].open} IN
    [k \in 1 .. Cardinality(open) |-> s[CHOOSE i \in open : Place(open, i) = k]]

\* accept_answer: the offered slots open, or go when the answer does not apply.
Answer(p, ok) ==
    /\ at[p] = "in" /\ InHandler(p) /\ ~cancelled[p]
    /\ sync[p] = Free
    /\ pending[p]
    /\ pending' = [pending EXCEPT ![p] = FALSE]
    /\ slots' = [slots EXCEPT ![p] =
            IF ok THEN [i \in DOMAIN @ |-> [@[i] EXCEPT !.open = TRUE]]
            ELSE Retained(@)]
    /\ ok \/ bad < MaxBadAnswers
    /\ bad' = IF ok THEN bad ELSE bad + 1
    /\ ReconcileAfter(p, Handler(p))
    /\ UNCHANGED <<connVars, subs, told, sweep, tellVars, requests, failures>>

\* The first packet of a microphone, over an answered offer.
Publish(p) ==
    /\ p \in Speakers
    /\ \E i \in DOMAIN slots[p] : slots[p][i].open
    /\ ~closed[p] /\ ~published[p]
    /\ published' = [published EXCEPT ![p] = TRUE]
    /\ tracks' = tracks \union {p}
    /\ sweep' = [sweep EXCEPT ![<<"publish", p>>] = Due]
    /\ UNCHANGED <<at, peers, closed, cancelled, slotVars, tellVars, bounds>>

\* A later packet: closed PCs among the subscribers are dropped.
Forward(p) ==
    /\ published[p] /\ ~closed[p]
    /\ \E s \in subs[p] : closed[s[1]]
    /\ subs' = [subs EXCEPT ![p] = {s \in @ : ~closed[s[1]]}]
    /\ UNCHANGED <<connVars, slots, pending, sync, told, sweep, tellVars, bounds>>

\* The connection ends, by the client's doing or the network's.
Disconnect(p) ==
    /\ at[p] = "in" /\ ~cancelled[p]
    /\ failures < MaxFailures /\ failures' = failures + 1
    /\ cancelled' = [cancelled EXCEPT ![p] = TRUE]
    /\ UNCHANGED <<at, peers, tracks, published, closed, slotVars, sweep, tellVars, requests, bad>>

\* The audio PC dies; its on_closed cancels the peer.
PcFails(p) ==
    /\ at[p] # "new" /\ ~closed[p]
    /\ failures < MaxFailures /\ failures' = failures + 1
    /\ closed' = [closed EXCEPT ![p] = TRUE]
    /\ cancelled' = [cancelled EXCEPT ![p] = TRUE]
    /\ UNCHANGED <<at, peers, tracks, published, slotVars, sweep, tellVars, requests, bad>>

\* remove_peer; for a peer already evicted there is nothing left to remove.
Leave(p) ==
    /\ at[p] = "in" /\ InHandler(p)
    /\ cancelled[p]
    /\ IF p \in peers
       THEN /\ peers' = peers \ {p}
            /\ tracks' = tracks \ {p}
            /\ leaver' = [leaver EXCEPT ![p] = p]
            /\ telling' = [telling EXCEPT ![p] = peers \ {p}]
            /\ at' = [at EXCEPT ![p] = "tell of leave"]
       ELSE /\ at' = [at EXCEPT ![p] = "close"]
            /\ UNCHANGED <<peers, tracks, leaver, telling>>
    /\ UNCHANGED <<published, closed, cancelled, slotVars, sweep, bounds>>

\* AudioPeer::close, first the PC,
ClosePc(p) ==
    /\ at[p] = "close" /\ InHandler(p)
    /\ closed' = [closed EXCEPT ![p] = TRUE]
    /\ cancelled' = [cancelled EXCEPT ![p] = TRUE]
    /\ at' = [at EXCEPT ![p] = "unpublish"]
    /\ UNCHANGED <<peers, tracks, published, slotVars, sweep, tellVars, bounds>>

\* Mutant: remove_peer is trusted to have removed the track.
KeepTrack(p) == UNCHANGED <<tracks, sweep>>

\* then its track, which a packet may have published after the peer was removed,
DropTrack(p) ==
    IF published[p] /\ p \in tracks
    THEN /\ tracks' = tracks \ {p}
         /\ sweep' = [sweep EXCEPT ![<<"unpublish", p>>] = Due]
    ELSE UNCHANGED <<tracks, sweep>>

Unpublish(p) ==
    /\ at[p] = "unpublish"
    /\ DropTrack(p)
    /\ at' = [at EXCEPT ![p] = "unsubscribe"]
    /\ UNCHANGED <<peers, published, closed, cancelled, slotVars, tellVars, bounds>>

\* then, under the sync lock, what it heard. Nobody uses its slots again.
Unsubscribe(p) ==
    /\ at[p] = "unsubscribe" /\ sync[p] = Free
    /\ subs' = [t \in Peers |->
            IF t \in Owners(p) THEN {s \in subs[t] : s[1] # p} ELSE subs[t]]
    /\ at' = [at EXCEPT ![p] = "gone"]
    /\ slots' = [slots EXCEPT ![p] = <<>>]
    /\ told' = [told EXCEPT ![p] = <<>>]
    /\ pending' = [pending EXCEPT ![p] = FALSE]
    /\ UNCHANGED <<peers, tracks, published, closed, cancelled, sync, sweep, tellVars, bounds>>

-----------------------------------------------------------------------------
HandlerStep(p) ==
    \/ Evict(p) \/ Tell(p) \/ Told(p) \/ Joined(p)
    \/ Leave(p) \/ ClosePc(p) \/ Unpublish(p) \/ Unsubscribe(p)

Next ==
    \/ \E p \in Peers :
        \/ SyncStep(p) \/ Join(p) \/ HandlerStep(p)
        \/ Renegotiate(p) \/ Answer(p, TRUE) \/ Answer(p, FALSE)
        \/ Publish(p) \/ Forward(p) \/ Disconnect(p) \/ PcFails(p)
    \/ \E k \in Threads : Sweep(k)

Safety == Init /\ [][Next]_vars

\* Threads and tasks run; a client answers the offers it gets.
Spec ==
    /\ Safety
    /\ \A p \in Peers :
        WF_vars(SyncStep(p)) /\ WF_vars(HandlerStep(p)) /\ WF_vars(Answer(p, TRUE))
    /\ \A k \in Threads : WF_vars(Sweep(k))

-----------------------------------------------------------------------------
\* The variables have their types, and a pool does not grow past what the voices need.
TypeOK ==
    /\ at \in [Peers -> {"new", "evict", "tell of eviction", "join", "in", "tell of leave",
                         "close", "unpublish", "unsubscribe", "gone"}]
    /\ peers \subseteq Peers /\ tracks \subseteq Peers
    /\ published \in [Peers -> BOOLEAN]
    /\ closed \in [Peers -> BOOLEAN]
    /\ cancelled \in [Peers -> BOOLEAN]
    /\ \A p \in Peers :
        /\ \A i \in DOMAIN slots[p] : slots[p][i] \in Slot
        /\ Len(slots[p]) <= InitialSlots + SlotGrowth * Cardinality(Peers)
    /\ pending \in [Peers -> BOOLEAN]
    /\ \A p \in Peers :
        /\ sync[p].at \in {"free", "announce", "feed"}
        /\ sync[p].by \in Threads \union {None}
        /\ sync[p].want \subseteq Peers
        /\ sync[p].fresh \subseteq DOMAIN slots[p]
        /\ \A s \in subs[p] : s[1] \in Peers /\ s[2] \in Nat
    /\ sweep \in [Threads -> [at : {"idle", "due", "visit"}, todo : SUBSET Peers]]
    /\ leaver \in [Peers -> Peers \union {None}]
    /\ telling \in [Peers -> SUBSET Peers]
    /\ requests \in 0 .. MaxRequests /\ bad \in 0 .. MaxBadAnswers
    /\ failures \in 0 .. MaxFailures

-----------------------------------------------------------------------------
(* What the pool of slots promises. *)

Live(p) == p \in peers /\ ~closed[p] /\ ~cancelled[p]
Quiet(p) == sync[p] = Free /\ ~pending[p]
            /\ \A k \in Threads : sweep[k].at # "due" /\ p \notin sweep[k].todo

\* When no sweep is to come and no offer is pending, a live peer's slots carry the room's
\* tracks but its own, each in one slot: no sync that found the offer pending, read the tracks
\* just before a change, or followed an answer that failed is lost.
SlotsSettle ==
    \A p \in Peers :
        Live(p) /\ Quiet(p) /\ at[p] = "in" /\ InHandler(p)
            /\ (\A q \in Peers : at[q] \notin {"evict", "tell of eviction", "tell of leave"})
        => /\ Owners(p) = tracks \ {p}
           /\ \A i, j \in DOMAIN slots[p] :
                slots[p][i].owner = slots[p][j].owner /\ i # j => slots[p][i].owner = None

\* A track is forwarded into a slot of a peer only after the peer was told whose voice the
\* slot carries, and no longer than that: free and assign go through the client's queue.
OwnerAnnounced ==
    \A t, p \in Peers : \A s \in subs[t] :
        s[1] = p /\ Live(p) => s[2] \in DOMAIN told[p] /\ told[p][s[2]] = t

\* A connection that has returned is in no track's list of subscribers and publishes none,
\* whatever its PC did while it was being removed.
GoneIsForgotten ==
    \A p \in Peers : at[p] = "gone" =>
        p \notin tracks /\ \A t \in Peers : \A s \in subs[t] : s[1] # p

\* A published track gets a slot at every live peer that answers its offers.
TracksAreHeard ==
    \A p, t \in Peers : p # t =>
        (t \in tracks /\ Live(p) ~> t \in Owners(p) \/ t \notin tracks \/ ~Live(p))

\* What protocol.ts:108-109 says of audio-slots: a slot's change is announced after the
\* peer-left of the owner it had. Not kept: a
\* sweep in another thread may find the track gone before the peer-left is queued.
AnnouncedAfterLeft ==
    [][\A p \in Peers : \A i \in DOMAIN told[p] \intersect DOMAIN told'[p] :
        p \in peers /\ told'[p][i] # told[p][i] =>
            \A h \in Peers : leaver[h] = told[p][i] => p \notin telling[h]]_vars
=============================================================================
