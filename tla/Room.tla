-------------------------------- MODULE Room --------------------------------
(***************************************************************************)
(* Membership of one room: backend/src/sfu/mod.rs (serve_ws, add_peer,     *)
(* remove_peer, set_state, set_display_name, close, Peer::send), and the   *)
(* participant list a browser builds from what the room sends it           *)
(* (frontend/src/hooks/sfu-handlers.ts, store/useStore.ts).                *)
(*                                                                         *)
(* The room's lock is held to change the membership and to take the list   *)
(* of recipients; the messages are queued after it is released, one        *)
(* recipient at a time, while the handlers of other peers do the same.     *)
(* So the order in which two messages reach one client is not the order in *)
(* which the room changed.                                                 *)
(*                                                                         *)
(* The voices come beside that (sfu/audio.rs): a sync of one peer's slots  *)
(* reads whose tracks there are and names them to the client later, and    *)
(* the client lists whom it is to hear.                                    *)
(***************************************************************************)
EXTENDS Naturals, Sequences, SequencesExt, FiniteSets

CONSTANTS
    Peers,          \* connections; a peer ID is random and never reused
    Clients,        \* client IDs of the hello messages
    Anonymous,      \* the empty client ID
    ClientOf,       \* the client ID each connection says hello with
    Lurkers,        \* the chat-only connections
    Cap,            \* PEER_OUT_BUF_LEN
    Names,          \* display names
    GivenName,      \* the name in every hello
    MaxUpdates,     \* bound on the updates the peers send
    MaxCloses,      \* 1 when the server may shut down
    MaxNamed,       \* bound on the slots named
    MaxEvents,      \* bound on both together
    Unnamed,        \* the name user-x a client makes up
    Absent          \* no entry

ASSUME RoomConstants ==
    /\ Anonymous \in Clients
    /\ ClientOf \in [Peers -> Clients]
    /\ IsFiniteSet(Peers) /\ Lurkers \subseteq Peers
    /\ Cap \in Nat \ {0}
    /\ GivenName \in Names
    /\ MaxUpdates \in Nat /\ MaxNamed \in Nat /\ MaxEvents \in Nat
    /\ MaxCloses \in {0, 1}

VARIABLES
    at,             \* where the connection's task is
    peers,          \* Room::state.peers
    info,           \* the entry of each peer: its name and mute flag
    todo,           \* what the peer's handler still has to do, in order
    out,            \* the queue of messages to the peer
    cancelled,      \* the peer's token
    updates,        \* number of updates sent so far
    roster,         \* the participant list of the peer's client
    shut,           \* progress of the shutdown
    toCancel,       \* the peers the shutdown has yet to cancel
    early,          \* history: who was told of whom before the welcome, or before the joining
    naming,         \* who is to be told that a slot of theirs carries whose voice
    named,          \* number of slots named so far
    ghosts          \* history: who was told of the slot of a peer whose leaving came before

voices == <<naming, named, ghosts>>
vars == <<at, peers, info, todo, out, cancelled, updates, roster, shut, toCancel, early, voices>>

Info == [muted : BOOLEAN, name : Names]
Roster == [Peers -> Info \union {Absent}]

\* What a client may list: peers as they were announced, or only heard.
Listed == [muted : BOOLEAN, name : Names \union {Unnamed}]
Listing == [Peers -> Listed \union {Absent}]

ASSUME AbsentIsNoEntry == Absent \notin Listed /\ Unnamed \notin Names

NewInfo == [muted |-> FALSE, name |-> GivenName]
HeardOnly == [muted |-> FALSE, name |-> Unnamed]

Message ==
    [event : {"peer-left"}, id : Peers]
        \union [event : {"peer-joined", "peer-state", "peer-info"}, id : Peers, info : Info]
        \union [event : {"welcome"}, id : Peers, peers : Roster]

\* A client is also sent the owners of its slots.
Delivery == Message \union [event : {"audio-slots"}, id : Peers]

\* A handler's work: cancel an evicted peer, or queue a message to each of a set.
Work == [cancel : Peers] \union [msg : Message, to : SUBSET Peers]

SameClient(p, q) == ClientOf[p] = ClientOf[q] /\ ClientOf[p] # Anonymous

Registered(p) == at[p] \in {"hello", "busy", "in", "leaving"}

Init ==
    /\ at = [p \in Peers |-> "new"]
    /\ peers = {}
    /\ info = [p \in Peers |-> NewInfo]
    /\ todo = [p \in Peers |-> <<>>]
    /\ out = [p \in Peers |-> <<>>]
    /\ cancelled = [p \in Peers |-> FALSE]
    /\ updates = 0
    /\ roster = [p \in Peers |-> [q \in Peers |-> Absent]]
    /\ shut = "up"
    /\ toCancel = {}
    /\ early = {}
    /\ naming = {} /\ named = 0 /\ ghosts = {}

-----------------------------------------------------------------------------
(* The connection before it is a peer. *)

\* The request for the WebSocket is checked against the room, then upgraded.
Accept(p) ==
    /\ at[p] = "new"
    /\ shut = "up"
    /\ at' = [at EXCEPT ![p] = "accepted"]
    /\ UNCHANGED <<peers, info, todo, out, cancelled, updates, roster, shut, toCancel, early, voices>>

\* The upgraded socket enters the registry.
Register(p) ==
    /\ at[p] = "accepted"
    /\ at' = [at EXCEPT ![p] = "hello"]
    /\ UNCHANGED <<peers, info, todo, out, cancelled, updates, roster, shut, toCancel, early, voices>>

\* No hello in time, another message, or the connection ends.
NoHello(p) ==
    /\ at[p] = "hello"
    /\ at' = [at EXCEPT ![p] = "gone"]
    /\ UNCHANGED <<peers, info, todo, out, cancelled, updates, roster, shut, toCancel, early, voices>>

-----------------------------------------------------------------------------
(* Messages. *)

Tell(m, to) == IF to = {} THEN <<>> ELSE <<[msg |-> m, to |-> to]>>

Others(p) == peers \ {p}

\* Mutant: a welcome announces every peer as it joined.
SnapshotAsJoined(members) ==
    [q \in Peers |-> IF q \in members THEN NewInfo ELSE Absent]

\* The list of participants a welcome carries.
Snapshot(members) == [q \in Peers |-> IF q \in members THEN info[q] ELSE Absent]

\* The writer stops at once, dropping the queue; what the client showed no longer matters.
Cancel(p) ==
    /\ cancelled' = [cancelled EXCEPT ![p] = TRUE]
    /\ out' = [out EXCEPT ![p] = <<>>]
    /\ roster' = [roster EXCEPT ![p] = [q \in Peers |-> Absent]]

\* Mutant: the queue is not bounded.
UnboundedSend(p, m) ==
    /\ out' = IF cancelled[p] THEN out ELSE [out EXCEPT ![p] = Append(@, m)]
    /\ UNCHANGED <<cancelled, roster>>

\* Mutant: a send to a full queue waits for room in it.
BlockingSend(p, m) ==
    /\ cancelled[p] \/ Len(out[p]) < Cap
    /\ out' = IF cancelled[p] THEN out ELSE [out EXCEPT ![p] = Append(@, m)]
    /\ UNCHANGED <<cancelled, roster>>

\* Peer::send never waits: a full queue cancels the peer.
Send(p, m) ==
    IF cancelled[p] THEN UNCHANGED <<out, cancelled, roster>>
    ELSE IF Len(out[p]) < Cap
         THEN out' = [out EXCEPT ![p] = Append(@, m)] /\ UNCHANGED <<cancelled, roster>>
         ELSE Cancel(p)

\* Some handler has yet to queue to c the message of this event about q.
Owed(c, event, q) ==
    \E h \in Peers : \E i \in DOMAIN todo[h] :
        /\ "msg" \in DOMAIN todo[h][i]
        /\ c \in todo[h][i].to
        /\ todo[h][i].msg.event = event /\ todo[h][i].msg.id = q

\* The message to c that this one should have followed: c's welcome, which wipes out what
\* comes before it, or the joining of the peer that leaves.
Overtaken(c, m) ==
    (IF m.event # "welcome" /\ Owed(c, "welcome", c) THEN {"welcome"} ELSE {})
        \union (IF m.event = "peer-left" /\ Owed(c, "peer-joined", m.id) THEN {"joined"} ELSE {})

\* The handler of p queues its current message to one more recipient, in any order.
SendNext(p) ==
    /\ todo[p] # <<>>
    /\ LET w == Head(todo[p]) IN
       /\ "msg" \in DOMAIN w
       /\ \E c \in w.to :
            /\ Send(c, w.msg)
            /\ todo' = [todo EXCEPT ![p] = Tell(w.msg, w.to \ {c}) \o Tail(@)]
            /\ early' = early \union ({c} \X {w.msg.id} \X Overtaken(c, w.msg))
    /\ UNCHANGED <<at, peers, info, updates, shut, toCancel, voices>>

\* A join cancels the session it evicted.
CancelEvicted(p) ==
    /\ todo[p] # <<>>
    /\ "cancel" \in DOMAIN Head(todo[p])
    /\ Cancel(Head(todo[p]).cancel)
    /\ todo' = [todo EXCEPT ![p] = Tail(@)]
    /\ UNCHANGED <<at, peers, info, updates, shut, toCancel, early, voices>>

\* The handler has nothing left to send.
Done(p) ==
    /\ at[p] \in {"busy", "leaving"} /\ todo[p] = <<>>
    /\ at' = [at EXCEPT ![p] = IF @ = "busy" THEN "in" ELSE "gone"]
    /\ UNCHANGED <<peers, info, todo, out, cancelled, updates, roster, shut, toCancel, early, voices>>

-----------------------------------------------------------------------------
(* The handlers, each up to the release of the room's lock. *)

\* add_peer evicts the other sessions of the client, then the new peer is in.
Join(p) ==
    /\ at[p] = "hello"
    /\ LET evicted == {q \in peers : SameClient(p, q)}
           others == peers \ evicted IN
       \E order \in SetToSeqs(evicted) :
           /\ peers' = others \union {p}
           /\ todo' = [todo EXCEPT ![p] =
                FlattenSeq([i \in DOMAIN order |->
                    <<[cancel |-> order[i]]>>
                        \o Tell([event |-> "peer-left", id |-> order[i]], others)])
                \o Tell([event |-> "welcome", id |-> p, peers |-> Snapshot(others)], {p})
                \o Tell([event |-> "peer-joined", id |-> p, info |-> info[p]], others)]
    /\ at' = [at EXCEPT ![p] = "busy"]
    /\ UNCHANGED <<info, out, cancelled, updates, roster, shut, toCancel, early, voices>>

\* The connection's loop ends and remove_peer runs; an evicted peer is already out.
Leave(p) ==
    /\ at[p] = "in"
    /\ cancelled[p]
    /\ IF p \in peers
       THEN /\ peers' = peers \ {p}
            /\ todo' = [todo EXCEPT ![p] =
                    Tell([event |-> "peer-left", id |-> p], Others(p))]
       ELSE UNCHANGED <<peers, todo>>
    /\ at' = [at EXCEPT ![p] = "leaving"]
    /\ UNCHANGED <<info, out, cancelled, updates, roster, shut, toCancel, early, voices>>

\* A voice peer's update: the entry changes and the others are told.
Update(p, event, new) ==
    /\ at[p] = "in"
    /\ ~cancelled[p]
    /\ p \notin Lurkers
    /\ updates < MaxUpdates /\ updates + named < MaxEvents
    /\ updates' = updates + 1
    /\ IF p \in peers
       THEN /\ info' = [info EXCEPT ![p] = new]
            /\ todo' = [todo EXCEPT ![p] =
                    Tell([event |-> event, id |-> p, info |-> new], Others(p))]
            /\ at' = [at EXCEPT ![p] = "busy"]
       ELSE UNCHANGED <<info, todo, at>>
    /\ UNCHANGED <<peers, out, cancelled, roster, shut, toCancel, early, voices>>

SetState(p) ==
    \E muted \in BOOLEAN : Update(p, "peer-state", [info[p] EXCEPT !.muted = muted])

SetDisplayName(p) ==
    \E name \in Names : Update(p, "peer-info", [info[p] EXCEPT !.name = name])

-----------------------------------------------------------------------------
(* The connection and the client. *)

Named(e) == e # Absent /\ e.name # Unnamed

\* upsertParticipant: the entry of a client replaces its other entries, those known to be its.
Upsert(r, q, i) ==
    [k \in Peers |-> IF k = q THEN i ELSE IF SameClient(k, q) /\ Named(r[k]) THEN Absent ELSE r[k]]

\* What the client of c makes of a message. A lurker ignores the updates.
Apply(c, m) ==
    LET r == roster[c] IN
    CASE m.event = "welcome" -> [m.peers EXCEPT ![c] = NewInfo]
      [] m.event = "peer-joined" -> Upsert(r, m.id, m.info)
      [] m.event = "peer-left" -> [r EXCEPT ![m.id] = Absent]
      [] m.event = "audio-slots" -> IF r[m.id] = Absent THEN [r EXCEPT ![m.id] = HeardOnly] ELSE r
      [] OTHER ->
            IF c \in Lurkers \/ r[m.id] = Absent THEN r
            ELSE IF m.event = "peer-state" THEN [r EXCEPT ![m.id].muted = m.info.muted]
                 ELSE [r EXCEPT ![m.id].name = m.info.name]

\* The writer sends the head of the queue and the client handles it.
Deliver(p) ==
    /\ ~cancelled[p]
    /\ out[p] # <<>>
    /\ out' = [out EXCEPT ![p] = Tail(@)]
    /\ roster' = [roster EXCEPT ![p] = Apply(p, Head(out[p]))]
    /\ UNCHANGED <<at, peers, info, todo, cancelled, updates, shut, toCancel, early, voices>>

\* The client goes, a write or a pong fails, or an administrator disconnects it.
Disconnect(p) ==
    /\ Registered(p)
    /\ ~cancelled[p]
    /\ Cancel(p)
    /\ UNCHANGED <<at, peers, info, todo, updates, shut, toCancel, early, voices>>

-----------------------------------------------------------------------------
(* The voices. *)

\* The join of p is done, so its client may have answered the offer of its audio.
Answering(p) ==
    /\ at[p] \in {"busy", "in", "leaving"}
    /\ ~Owed(p, "welcome", p) /\ \A c \in Peers : ~Owed(c, "peer-joined", p)

\* A sync of c reads the tracks, q's among them: while q's connection is not gone, its
\* microphone may publish a track, in the room or out of it.
ReadTrack(c, q) ==
    /\ named < MaxNamed /\ updates + named < MaxEvents /\ named' = named + 1
    /\ c # q /\ c \notin Lurkers /\ q \notin Lurkers
    /\ c \in peers /\ ~cancelled[c] /\ Answering(c) /\ Answering(q)
    /\ naming' = naming \union {<<c, q>>}
    /\ UNCHANGED <<at, peers, info, todo, out, cancelled, updates, roster, shut, toCancel, early, ghosts>>

\* Then it names q to c. No leaving that is still to come takes back what comes after it.
NameSlot(c, q) ==
    /\ <<c, q>> \in naming
    /\ naming' = naming \ {<<c, q>>}
    /\ IF c \in peers
       THEN /\ Send(c, [event |-> "audio-slots", id |-> q])
            /\ ghosts' = IF q \in peers \/ Owed(c, "peer-left", q) THEN ghosts
                         ELSE ghosts \union {<<c, q>>}
       ELSE UNCHANGED <<out, cancelled, roster, ghosts>>
    /\ UNCHANGED <<at, peers, info, todo, updates, shut, toCancel, early, named>>

Voice == \E c, q \in Peers : ReadTrack(c, q) \/ NameSlot(c, q)

-----------------------------------------------------------------------------
(* Shutdown: the room is closed, then the registry is disconnected. *)

Close ==
    /\ shut = "up" /\ MaxCloses = 1
    /\ shut' = "room"
    /\ toCancel' = peers
    /\ UNCHANGED <<at, peers, info, todo, out, cancelled, updates, roster, early, voices>>

\* Mutant: only a connection that is a peer by now is cancelled.
CancelsMember(p) == IF p \in peers THEN Cancel(p) ELSE UNCHANGED <<cancelled, out, roster>>
CancelToken(p) == Cancel(p)

CancelNext ==
    /\ \E p \in toCancel :
        /\ CancelToken(p)
        /\ toCancel' = toCancel \ {p}
    /\ UNCHANGED <<at, peers, info, todo, updates, shut, early, voices>>

RegisteredPeers == {p \in Peers : Registered(p)}

DisconnectAll ==
    /\ shut = "room"
    /\ toCancel = {}
    /\ shut' = "registry"
    /\ toCancel' = RegisteredPeers
    /\ UNCHANGED <<at, peers, info, todo, out, cancelled, updates, roster, early, voices>>

-----------------------------------------------------------------------------
Handle(p) == SendNext(p) \/ CancelEvicted(p) \/ Done(p) \/ Leave(p)

Next ==
    \/ \E p \in Peers :
        \/ Accept(p) \/ Register(p) \/ NoHello(p) \/ Join(p) \/ Handle(p)
        \/ SetState(p) \/ SetDisplayName(p) \/ Deliver(p) \/ Disconnect(p)
    \/ Voice \/ Close \/ CancelNext \/ DisconnectAll

Safety == Init /\ [][Next]_vars

\* The runtime runs every task and the wait for a hello has a timeout. Nothing says that a
\* client reads what it is sent.
Spec ==
    /\ Safety
    /\ \A p \in Peers : WF_vars(Handle(p)) /\ WF_vars(NoHello(p) \/ Join(p))
    /\ WF_vars(CancelNext)

-----------------------------------------------------------------------------
\* The variables have their types, and no client's queue is ever longer than its capacity.
TypeOK ==
    /\ at \in [Peers -> {"new", "accepted", "hello", "busy", "in", "leaving", "gone"}]
    /\ peers \subseteq Peers
    /\ info \in [Peers -> Info]
    /\ \A p \in Peers :
        /\ \A i \in DOMAIN todo[p] : todo[p][i] \in Work
        /\ \A i \in DOMAIN out[p] : out[p][i] \in Delivery
        /\ Len(out[p]) <= Cap
    /\ cancelled \in [Peers -> BOOLEAN]
    /\ updates \in 0 .. MaxUpdates
    /\ roster \in [Peers -> Listing]
    /\ shut \in {"up", "room", "registry"}
    /\ toCancel \subseteq Peers
    /\ early \subseteq Peers \X Peers \X {"welcome", "joined"}
    /\ naming \subseteq Peers \X Peers /\ ghosts \subseteq Peers \X Peers /\ named \in 0 .. MaxNamed

-----------------------------------------------------------------------------
(* What the room promises. *)

\* The client of c has handled everything that will ever be sent to it so far.
AtRest(c) ==
    /\ c \in peers /\ ~cancelled[c]
    /\ out[c] = <<>>
    /\ \A h \in Peers : \A i \in DOMAIN todo[h] :
        "msg" \in DOMAIN todo[h][i] => c \notin todo[h][i].to

\* c was told of q, or of another session of its client, in the wrong order.
ToldEarly(c, q) == \E e \in early : e[1] = c /\ (e[2] = q \/ SameClient(e[2], q))

\* A client at rest shows who is in the room, a voice client as they are, except for the
\* peers it was told of in the wrong order, and for those it was told to hear after it was told
\* of their leaving: nothing else in the locking of the room, in the interleaving of its
\* broadcasts with each other and with the slots, or in the client's handlers loses a change.
RosterTrue ==
    \A c \in Peers : AtRest(c) =>
        \A q \in Peers \ {c} : ~ToldEarly(c, q) =>
            IF q \notin peers THEN roster[c][q] = Absent \/ <<c, q>> \in ghosts
            ELSE IF c \in Lurkers THEN roster[c][q] # Absent
                 ELSE roster[c][q] = info[q]

\* A cancelled peer, a slow one included, is out of the room in the end: no handler waits
\* for a client that does not read.
CancelledLeaves == \A p \in Peers : p \in peers /\ cancelled[p] ~> p \notin peers

\* Every connection in the registry when the shutdown disconnects it ends, whatever it was
\* doing: waiting for its hello, joining, or queueing a broadcast.
ShutdownDrains == \A p \in Peers : (shut = "registry" /\ p \in toCancel) ~> at[p] = "gone"

\* What protocol.ts:140 says of a lurker: its welcome holds all current peers. So once it has
\* handled all it was sent, nobody in the room is missing. Not kept: a delta queued before the
\* welcome is wiped out by it.
LurkerSeesAll ==
    \A c \in Lurkers : AtRest(c) => \A q \in peers \ {c} : roster[c][q] # Absent

\* Who has left is not shown, except for peers told of in the wrong order. Not kept: a sync
\* that read the tracks before a peer left may name it afterwards (audio.rs:310), and the
\* client makes a participant of whom a slot is named to (client.ts:166-180).
LeftIsGone ==
    \A c \in Peers : AtRest(c) =>
        \A q \in Peers \ peers : ToldEarly(c, q) \/ roster[c][q] = Absent

\* What useStore.ts:323-326 says of the entries of one client: the new session replaces the
\* old one however loose the order of the broadcasts. So a client that was told nothing before
\* its welcome does not show a session that was replaced. Not kept: a join may evict a session
\* that is still being announced.
EvictionMirrored ==
    \A c, y \in peers : \A x \in Peers \ peers :
        /\ AtRest(c) /\ SameClient(x, y)
        /\ \A e \in early : e[1] = c => e[3] = "joined"
        => roster[c][x] = Absent

\* What the comment on close says: it stops accepting peers and tears down every session. Not
\* kept: a connection past the check joins the closed room.
CloseTearsDown ==
    shut = "registry" /\ toCancel = {} => \A p \in peers : cancelled[p]
=============================================================================
