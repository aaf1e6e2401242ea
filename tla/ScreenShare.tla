---------------------------- MODULE ScreenShare ----------------------------
(***************************************************************************)
(* Screen-share sessions of the SFU (sfu/screen.rs, and the parts of       *)
(* sfu/mod.rs that add and remove peers).  A session outlives its          *)
(* publisher's WebSocket; the publisher's entry, the token table, the      *)
(* session and the viewers' entries are guarded by different locks, which  *)
(* a handler takes one after the other.  One action is one lock section,   *)
(* with the sends and wake-ups after it that touch nothing else modelled.  *)
(* Threads: a connection runs its handlers one at a time (handler); a      *)
(* subscriber PC runs on_closed once (closer); the thread that closes a    *)
(* session carries its teardown on (ending); a session's first video packet *)
(* (video); the task spawned when its publisher PC closes (lost); the      *)
(* grace task armed by a peer's removal (timer).                           *)
(***************************************************************************)
EXTENDS FiniteSets, Naturals

CONSTANTS
    Peers,        \* connections; each gets a fresh peer ID and joins once
    Publishers,   \* those whose clients share their screen
    Viewers,      \* those whose clients watch
    Sessions,     \* screen sessions, each known by its resume token
    Subs,         \* subscriber PeerConnections, each used once
    Fragile,      \* the sessions and subscribers whose PC may die by itself
    Streaming,    \* the sessions whose first video packet may arrive
    ClientOf,     \* Hello.client_id of a connection
    NoClient,     \* the empty client_id, which evicts nobody
    NoPeer, NoSession, NoSub

ASSUME ShareConstants ==
    /\ Publishers \subseteq Peers /\ Viewers \subseteq Peers
    /\ NoPeer \notin Peers /\ NoSession \notin Sessions /\ NoSub \notin Subs

VARIABLES
    conn,          \* serve_ws: "new", "open" (handling messages) or "gone"
    peers,         \* the keys of State.peers
    screenSession, \* Entry.screen_session
    screenSubs,    \* Entry.screen_subs, by publisher peer ID
    tokens,        \* the keys of State.sessions_by_token
    session,       \* ScreenSession
    timer,         \* grace tasks, by the peer whose removal armed them
    sub,           \* ScreenSub
    encode,        \* the last encode command queued to a peer for its share
    handler, closer, ending, video, lost    \* the threads

roomVars == <<conn, peers, screenSession, screenSubs, tokens>>
vars == <<roomVars, session, timer, sub, encode, handler, closer, ending, video, lost>>

SubOrNone     == Subs \cup {NoSub}
SessionOrNone == Sessions \cup {NoSession}
PeerOrNone    == Peers \cup {NoPeer}
PcState       == {"none", "open", "closed"}

Session == [publisherId : PeerOrNone, closed : BOOLEAN, grace : PeerOrNone,
            subscribers : [Peers -> SubOrNone], pc : PcState]

\* What a connection is doing: the session, publisher and PC it holds, the window it
\* has taken, the PC whose on_closed it runs, the PCs still to close, first or went_idle.
Handler == [at : {"idle", "evict", "leave", "startSetup", "stop", "ending", "resumeCancel",
                  "resume", "resumeDetach", "subPublisher", "subInsert", "subAttach",
                  "subEncode", "viewerGone", "unsub", "dropOnly", "dropAny", "closing"},
            session : SessionOrNone, publisher : PeerOrNone, sub : SubOrNone,
            grace : PeerOrNone, wait : SubOrNone, todo : SUBSET Subs, flag : BOOLEAN]

Closer == [at : {"no", "lookup", "detach", "drop", "pause", "done"},
           publisher : PeerOrNone, session : SessionOrNone]

Ending == [at : {"no", "cancel", "close", "subs", "detach", "done"}, publisher : PeerOrNone,
           sub : SubOrNone, grace : PeerOrNone, wait : SubOrNone, todo : SUBSET Subs]

Task == [state : {"none", "armed", "cancelled", "expired", "done"}, session : SessionOrNone]

ScreenSub == [pc : PcState, peer : PeerOrNone, session : SessionOrNone]

FirstPacket == [at : {"no", "check", "read", "announce", "idleCheck", "pause", "done"},
                publisher : PeerOrNone]

TypeOK ==
    /\ conn \in [Peers -> {"new", "open", "gone"}]
    /\ peers \in SUBSET Peers
    /\ screenSession \in [Peers -> SessionOrNone]
    /\ screenSubs \in [Peers -> [Peers -> SubOrNone]]
    /\ tokens \in SUBSET Sessions
    /\ session \in [Sessions -> Session]
    /\ timer \in [Peers -> Task]
    /\ sub \in [Subs -> ScreenSub]
    /\ encode \in [Peers -> {"none", "pause", "resume"}]
    /\ handler \in [Peers -> Handler]
    /\ closer \in [Subs -> Closer]
    /\ ending \in [Sessions -> Ending]
    /\ video \in [Sessions -> FirstPacket]
    /\ lost \in [Sessions -> {"no", "find", "end", "done"}]

NoSubs == [q \in Peers |-> NoSub]

Idle == [at |-> "idle", session |-> NoSession, publisher |-> NoPeer, sub |-> NoSub,
         grace |-> NoPeer, wait |-> NoSub, todo |-> {}, flag |-> FALSE]

CloserAt(step) == [at |-> step, publisher |-> NoPeer, session |-> NoSession]

EndingAt(step, g, todo) == [at |-> step, publisher |-> NoPeer, sub |-> NoSub, grace |-> g,
                            wait |-> NoSub, todo |-> todo]

Init ==
    /\ conn = [p \in Peers |-> "new"]
    /\ peers = {}
    /\ screenSession = [p \in Peers |-> NoSession]
    /\ screenSubs = [p \in Peers |-> NoSubs]
    /\ tokens = {}
    /\ session = [s \in Sessions |-> [publisherId |-> NoPeer, closed |-> FALSE,
                                      grace |-> NoPeer, subscribers |-> NoSubs, pc |-> "none"]]
    /\ timer = [p \in Peers |-> [state |-> "none", session |-> NoSession]]
    /\ sub = [u \in Subs |-> [pc |-> "none", peer |-> NoPeer, session |-> NoSession]]
    /\ encode = [p \in Peers |-> "none"]
    /\ handler = [p \in Peers |-> Idle]
    /\ closer = [u \in Subs |-> CloserAt("no")]
    /\ ending = [s \in Sessions |-> EndingAt("no", NoPeer, {})]
    /\ video = [s \in Sessions |-> [at |-> "no", publisher |-> NoPeer]]
    /\ lost = [s \in Sessions |-> "no"]

-----------------------------------------------------------------------------
\* The session found through a publisher's entry.
SessionOf(k) == IF k \in peers THEN screenSession[k] ELSE NoSession

PcsIn(f) == {f[v] : v \in Peers} \ {NoSub}

\* send_encode: to whoever is in the room under that peer ID, or to nobody.
SendEncode(k, cmd) == encode' = IF k \in peers THEN [encode EXCEPT ![k] = cmd] ELSE encode

\* Pc::close on a subscriber: on_closed runs in the closing thread, once per PC.
\* A caller that finds the PC closed goes on at once; the others wait for it.
ClosePc(u) ==
    IF sub[u].pc = "open"
    THEN /\ sub' = [sub EXCEPT ![u].pc = "closed"]
         /\ closer' = [closer EXCEPT ![u].at = "lookup"]
    ELSE UNCHANGED <<sub, closer>>

RunsOnClosed(u) == IF sub[u].pc = "open" THEN u ELSE NoSub

Returned(w) == w # NoSub => closer[w].at = "done"

\* Mutant: a resume or an end that leaves the window alone.
CancelNothing(tasks, g) == tasks

\* Cancels a grace task that has not expired; g may be NoPeer.
Cancel(tasks, g) ==
    [p \in Peers |-> IF p = g /\ tasks[p].state = "armed"
                     THEN [tasks[p] EXCEPT !.state = "cancelled"] ELSE tasks[p]]

\* The session without its viewer v, as remove_screen_sub leaves it.
Without(s, v) == [session EXCEPT ![s].subscribers[v] = NoSub]
LastViewer(s, v) == \A q \in Peers \ {v} : session[s].subscribers[q] = NoSub

-----------------------------------------------------------------------------
(* ScreenSub::on_closed, which is remove_screen_sub for this very PC.       *)

\* The session is held weakly: once it has ended it may be gone.
CloserLookup(u) ==
    LET s == sub[u].session IN
    /\ closer[u].at = "lookup"
    /\ \/ closer' = [closer EXCEPT ![u].at = "detach", ![u].publisher = session[s].publisherId]
       \/ ending[s].at = "done" /\ closer' = [closer EXCEPT ![u] = CloserAt("done")]
    /\ UNCHANGED <<roomVars, session, timer, sub, encode, handler, ending, video, lost>>

\* Mutant: nothing is left to do when the viewer's entry has let go of it already.
CloserDetachHeld(u) ==
    LET k == closer[u].publisher
        v == sub[u].peer IN
    /\ closer[u].at = "detach"
    /\ screenSubs' = IF screenSubs[v][k] = u
                     THEN [screenSubs EXCEPT ![v][k] = NoSub] ELSE screenSubs
    /\ closer' = IF SessionOf(k) = NoSession \/ screenSubs[v][k] # u
                 THEN [closer EXCEPT ![u] = CloserAt("done")]
                 ELSE [closer EXCEPT ![u].at = "drop", ![u].session = SessionOf(k)]
    /\ UNCHANGED <<conn, peers, screenSession, tokens, session, timer, sub, encode,
                   handler, ending, video, lost>>

\* Room lock: the viewer's entry lets go of this PC, not of a newer one.
CloserDetach(u) ==
    LET k == closer[u].publisher
        v == sub[u].peer IN
    /\ closer[u].at = "detach"
    /\ screenSubs' = IF screenSubs[v][k] = u
                     THEN [screenSubs EXCEPT ![v][k] = NoSub] ELSE screenSubs
    /\ closer' = IF SessionOf(k) = NoSession
                 THEN [closer EXCEPT ![u] = CloserAt("done")]
                 ELSE [closer EXCEPT ![u].at = "drop", ![u].session = SessionOf(k)]
    /\ UNCHANGED <<conn, peers, screenSession, tokens, session, timer, sub, encode,
                   handler, ending, video, lost>>

\* Session lock: the last viewer leaving makes the share idle.
CloserDrop(u) ==
    LET s == closer[u].session
        v == sub[u].peer
        mine == session[s].subscribers[v] = u IN
    /\ closer[u].at = "drop"
    /\ session' = IF mine THEN Without(s, v) ELSE session
    /\ closer' = IF mine /\ LastViewer(s, v) THEN [closer EXCEPT ![u].at = "pause"]
                 ELSE [closer EXCEPT ![u] = CloserAt("done")]
    /\ UNCHANGED <<roomVars, timer, sub, encode, handler, ending, video, lost>>

CloserPause(u) ==
    /\ closer[u].at = "pause"
    /\ SendEncode(closer[u].publisher, "pause")
    /\ closer' = [closer EXCEPT ![u] = CloserAt("done")]
    /\ UNCHANGED <<roomVars, session, timer, sub, handler, ending, video, lost>>

\* Mutants: on_closed needs a lock that the ending, or the closing, handler holds.
OnClosedBehindEnd(u) ==
    /\ sub[u].pc = "closed" /\ ending[sub[u].session].at \in {"no", "done"}
    /\ CloserLookup(u) \/ CloserDetach(u) \/ CloserDrop(u) \/ CloserPause(u)
OnClosedBehindCloser(u) ==
    /\ \A p \in Peers : handler[p].wait # u
    /\ CloserLookup(u) \/ CloserDetach(u) \/ CloserDrop(u) \/ CloserPause(u)

OnClosed(u) == CloserLookup(u) \/ CloserDetach(u) \/ CloserDrop(u) \/ CloserPause(u)

\* A viewer's PC dies by itself, once it has been offered.
SubPcFails(u) ==
    /\ u \in Fragile
    /\ sub[u].pc = "open"
    /\ \A p \in Peers : handler[p].sub = u => handler[p].at \notin {"subInsert", "subAttach"}
    /\ ClosePc(u)
    /\ UNCHANGED <<roomVars, session, timer, encode, handler, ending, video, lost>>

-----------------------------------------------------------------------------
(* end_screen_share_session.                                                *)

\* Mutant: the viewers are drained, but not closed.
EndBeginForgetsPcs(s) ==
    \/ session[s].closed /\ UNCHANGED <<session, ending>>
    \/ /\ ~session[s].closed
       /\ session' = [session EXCEPT ![s].closed = TRUE, ![s].grace = NoPeer,
                                     ![s].subscribers = NoSubs]
       /\ ending' = [ending EXCEPT ![s] = EndingAt("cancel", session[s].grace, {})]

\* Session lock: the first caller marks the session closed, takes its window and its
\* viewers and goes on with EndCancel; any later one returns.
EndBegin(s) ==
    \/ session[s].closed /\ UNCHANGED <<session, ending>>
    \/ /\ ~session[s].closed
       /\ session' = [session EXCEPT ![s].closed = TRUE, ![s].grace = NoPeer,
                                     ![s].subscribers = NoSubs]
       /\ ending' = [ending EXCEPT ![s] = EndingAt("cancel", session[s].grace,
                                                   PcsIn(session[s].subscribers))]

\* No lock: the window taken above is cancelled.
EndCancel(s) ==
    /\ ending[s].at = "cancel"
    /\ timer' = Cancel(timer, ending[s].grace)
    /\ ending' = [ending EXCEPT ![s].at = "close", ![s].grace = NoPeer]
    /\ UNCHANGED <<roomVars, session, sub, encode, handler, closer, video, lost>>

\* Closing the publisher PC waits for a packet it delivers; the call that closes
\* it spawns its on_closed task.
EndClose(s) ==
    /\ ending[s].at = "close"
    /\ video[s].at \in {"no", "done"}
    /\ session' = [session EXCEPT ![s].pc = "closed"]
    /\ lost' = IF session[s].pc = "open" THEN [lost EXCEPT ![s] = "find"] ELSE lost
    /\ ending' = [ending EXCEPT ![s].at = "subs", ![s].publisher = session[s].publisherId]
    /\ UNCHANGED <<roomVars, timer, sub, encode, handler, closer, video>>

EndCloseSub(s) ==
    /\ ending[s].at = "subs"
    /\ \E u \in ending[s].todo :
        /\ ClosePc(u)
        /\ ending' = [ending EXCEPT ![s].at = "detach", ![s].sub = u,
                                    ![s].wait = RunsOnClosed(u), ![s].todo = @ \ {u}]
    /\ UNCHANGED <<roomVars, session, timer, encode, handler, video, lost>>

\* Room lock: the viewer's entry lets go of what it has under the publisher's ID.
EndDetachSub(s) ==
    /\ ending[s].at = "detach"
    /\ Returned(ending[s].wait)
    /\ screenSubs' = [screenSubs EXCEPT ![sub[ending[s].sub].peer][ending[s].publisher] = NoSub]
    /\ ending' = [ending EXCEPT ![s].at = "subs", ![s].sub = NoSub, ![s].wait = NoSub]
    /\ UNCHANGED <<conn, peers, screenSession, tokens, session, timer, sub, encode,
                   handler, closer, video, lost>>

\* Room lock: the token goes, and the publisher's flag if it is for this session.
EndClear(s) ==
    LET p == ending[s].publisher IN
    /\ ending[s].at = "subs" /\ ending[s].todo = {}
    /\ tokens' = tokens \ {s}
    /\ screenSession' = IF screenSession[p] = s
                        THEN [screenSession EXCEPT ![p] = NoSession] ELSE screenSession
    /\ ending' = [ending EXCEPT ![s] = EndingAt("done", NoPeer, {})]
    /\ UNCHANGED <<conn, peers, screenSubs, session, timer, sub, encode, handler, closer,
                   video, lost>>

EndSession(s) == \/ EndCancel(s) \/ EndClose(s)
                 \/ EndCloseSub(s) \/ EndDetachSub(s) \/ EndClear(s)

\* The grace task: its select picks the sleep, and it then ends the session.  A cancel
\* that comes after the sleep has been picked changes nothing.
TimerExpires(p) ==
    /\ timer[p].state = "armed"
    /\ timer' = [timer EXCEPT ![p].state = "expired"]
    /\ UNCHANGED <<roomVars, session, sub, encode, handler, closer, ending, video, lost>>

TimerEnds(p) ==
    /\ timer[p].state = "expired"
    /\ timer' = [timer EXCEPT ![p].state = "done"]
    /\ EndBegin(timer[p].session)
    /\ UNCHANGED <<roomVars, sub, encode, handler, closer, video, lost>>

Timer(p) == TimerExpires(p) \/ TimerEnds(p)

\* The publisher PC dies by itself: ICE lost for 30 s, or closed by the client.
PubPcFails(s) ==
    /\ s \in Fragile
    /\ session[s].pc = "open"
    /\ video[s].at \in {"no", "done"}
    /\ session' = [session EXCEPT ![s].pc = "closed"]
    /\ lost' = [lost EXCEPT ![s] = "find"]
    /\ UNCHANGED <<roomVars, timer, sub, encode, handler, closer, ending, video>>

\* ScreenSession::on_closed: the spawned task finds the session by its token ...
PubLostFind(s) ==
    /\ lost[s] = "find"
    /\ lost' = [lost EXCEPT ![s] = IF s \in tokens THEN "end" ELSE "done"]
    /\ UNCHANGED <<roomVars, session, timer, sub, encode, handler, closer, ending, video>>

\* ... and ends it.
PubLostEnds(s) ==
    /\ lost[s] = "end"
    /\ lost' = [lost EXCEPT ![s] = "done"]
    /\ EndBegin(s)
    /\ UNCHANGED <<roomVars, timer, sub, encode, handler, closer, video>>

PubLost(s) == PubLostFind(s) \/ PubLostEnds(s)

-----------------------------------------------------------------------------
(* first_screen_video_ready, in the thread that delivers the first packet.  *)

VideoAt(s, step) == video' = [video EXCEPT ![s].at = step]
VideoDone(s) == video' = [video EXCEPT ![s] = [at |-> "done", publisher |-> NoPeer]]

FirstVideo(s) ==
    /\ s \in Streaming
    /\ video[s].at = "no" /\ session[s].pc = "open"
    /\ VideoAt(s, "check")
    /\ UNCHANGED <<roomVars, session, timer, sub, encode, handler, closer, ending, lost>>

VideoCheck(s) ==
    /\ video[s].at = "check"
    /\ IF session[s].closed THEN VideoDone(s) ELSE VideoAt(s, "read")
    /\ UNCHANGED <<roomVars, session, timer, sub, encode, handler, closer, ending, lost>>

VideoRead(s) ==
    /\ video[s].at = "read"
    /\ video' = [video EXCEPT ![s] = [at |-> "announce", publisher |-> session[s].publisherId]]
    /\ UNCHANGED <<roomVars, session, timer, sub, encode, handler, closer, ending, lost>>

\* Room lock: peer-info and screen-share-available go to everyone else.
VideoAnnounce(s) ==
    /\ video[s].at = "announce"
    /\ IF video[s].publisher \in peers THEN VideoAt(s, "idleCheck") ELSE VideoDone(s)
    /\ UNCHANGED <<roomVars, session, timer, sub, encode, handler, closer, ending, lost>>

VideoIdleCheck(s) ==
    /\ video[s].at = "idleCheck"
    /\ IF PcsIn(session[s].subscribers) = {} THEN VideoAt(s, "pause") ELSE VideoDone(s)
    /\ UNCHANGED <<roomVars, session, timer, sub, encode, handler, closer, ending, lost>>

VideoPause(s) ==
    /\ video[s].at = "pause"
    /\ SendEncode(video[s].publisher, "pause")
    /\ VideoDone(s)
    /\ UNCHANGED <<roomVars, session, timer, sub, handler, closer, ending, lost>>

Video(s) == \/ VideoCheck(s) \/ VideoRead(s) \/ VideoAnnounce(s)
            \/ VideoIdleCheck(s) \/ VideoPause(s)

-----------------------------------------------------------------------------
(* serve_ws: joining and leaving.                                           *)

Ready(p) == conn[p] = "open" /\ handler[p].at = "idle"
Return(p) == handler' = [handler EXCEPT ![p] = Idle]
SubsOf(ps) == UNION {PcsIn(screenSubs[p]) : p \in ps}
Evicted(p) == {q \in peers : ClientOf[p] # NoClient /\ ClientOf[q] = ClientOf[p]}

\* The entries of ps go, and what they held with them.
RemoveEntries(ps) ==
    /\ screenSession' = [p \in Peers |-> IF p \in ps THEN NoSession ELSE screenSession[p]]
    /\ screenSubs' = [p \in Peers |-> IF p \in ps THEN NoSubs ELSE screenSubs[p]]

\* add_peer: the client's earlier entries are replaced, and their sessions left
\* to the token table.
Join(p) ==
    /\ conn[p] = "new"
    /\ conn' = [conn EXCEPT ![p] = "open"]
    /\ peers' = (peers \ Evicted(p)) \cup {p}
    /\ RemoveEntries(Evicted(p))
    /\ handler' = [handler EXCEPT ![p].at = "evict", ![p].todo = SubsOf(Evicted(p))]
    /\ UNCHANGED <<tokens, session, timer, sub, encode, closer, ending, video, lost>>

\* remove_peer: nothing is left to do for an evicted peer.
Leave(p) ==
    /\ Ready(p)
    /\ peers' = peers \ {p}
    /\ RemoveEntries({p})
    /\ IF p \in peers
       THEN /\ handler' = [handler EXCEPT ![p].at = "leave", ![p].session = screenSession[p],
                                          ![p].todo = SubsOf({p})]
            /\ UNCHANGED conn
       ELSE conn' = [conn EXCEPT ![p] = "gone"] /\ UNCHANGED handler
    /\ UNCHANGED <<tokens, session, timer, sub, encode, closer, ending, video, lost>>

\* The PCs the removed entries held are closed one after the other.
CloseHeld(p) ==
    /\ handler[p].at \in {"evict", "leave"}
    /\ Returned(handler[p].wait)
    /\ \E u \in handler[p].todo :
        /\ ClosePc(u)
        /\ handler' = [handler EXCEPT ![p].wait = RunsOnClosed(u), ![p].todo = @ \ {u}]
    /\ UNCHANGED <<roomVars, session, timer, encode, ending, video, lost>>

AllClosed(p) == handler[p].todo = {} /\ Returned(handler[p].wait)

Joined(p) ==
    /\ handler[p].at = "evict" /\ AllClosed(p)
    /\ Return(p)
    /\ UNCHANGED <<roomVars, session, timer, sub, encode, closer, ending, video, lost>>

\* Mutant: the removal arms nothing.
ArmNothing(s, p) == UNCHANGED <<session, timer>>

\* start_screen_share_grace, under the session lock.
ArmGrace(s, p) ==
    IF s = NoSession \/ session[s].closed
    THEN UNCHANGED <<session, timer>>
    ELSE /\ session' = [session EXCEPT ![s].grace = p]
         /\ timer' = [Cancel(timer, session[s].grace) EXCEPT
                          ![p] = [state |-> "armed", session |-> s]]

Left(p) ==
    /\ handler[p].at = "leave" /\ AllClosed(p)
    /\ ArmGrace(handler[p].session, p)
    /\ conn' = [conn EXCEPT ![p] = "gone"]
    /\ Return(p)
    /\ UNCHANGED <<peers, screenSession, screenSubs, tokens, sub, encode, closer, ending,
                   video, lost>>

-----------------------------------------------------------------------------
(* screen-share-start and -stop.  Bound: as many starts as there are fresh  *)
(* sessions.                                                                *)

Fresh == {s \in Sessions : session[s].pc = "none"}

Start(p) ==
    /\ Ready(p)
    /\ p \in Publishers /\ SessionOf(p) = NoSession
    /\ Cardinality({q \in Peers : handler[q].at = "startSetup"}) < Cardinality(Fresh)
    /\ handler' = [handler EXCEPT ![p].at = "startSetup"]
    /\ UNCHANGED <<roomVars, session, timer, sub, encode, closer, ending, video, lost>>

\* setup_screen_pub refuses the offer.
StartFails(p) ==
    /\ handler[p].at = "startSetup"
    /\ Return(p)
    /\ UNCHANGED <<roomVars, session, timer, sub, encode, closer, ending, video, lost>>

\* Room lock: an entry without a session gets this one; otherwise its PC is closed.
Register(p) ==
    /\ handler[p].at = "startSetup"
    /\ \E s \in Fresh :
        IF p \in peers /\ screenSession[p] = NoSession
        THEN /\ screenSession' = [screenSession EXCEPT ![p] = s]
             /\ tokens' = tokens \cup {s}
             /\ session' = [session EXCEPT ![s].publisherId = p, ![s].pc = "open"]
             /\ encode' = [encode EXCEPT ![p] = "none"]
             /\ UNCHANGED lost
        ELSE /\ session' = [session EXCEPT ![s].publisherId = p, ![s].pc = "closed"]
             /\ lost' = [lost EXCEPT ![s] = "find"]
             /\ UNCHANGED <<screenSession, tokens, encode>>
    /\ Return(p)
    /\ UNCHANGED <<conn, peers, screenSubs, timer, sub, closer, ending, video>>

Stop(p) ==
    /\ Ready(p)
    /\ SessionOf(p) # NoSession
    /\ handler' = [handler EXCEPT ![p].at = "stop", ![p].session = SessionOf(p)]
    /\ UNCHANGED <<roomVars, session, timer, sub, encode, closer, ending, video, lost>>

StopEnds(p) ==
    /\ handler[p].at = "stop"
    /\ EndBegin(handler[p].session)
    /\ IF session[handler[p].session].closed THEN Return(p)
       ELSE handler' = [handler EXCEPT ![p].at = "ending"]
    /\ UNCHANGED <<roomVars, timer, sub, encode, closer, video, lost>>

Stopped(p) ==
    /\ handler[p].at = "ending"
    /\ ending[handler[p].session].at = "done"
    /\ Return(p)
    /\ UNCHANGED <<roomVars, session, timer, sub, encode, closer, ending, video, lost>>

-----------------------------------------------------------------------------
(* screen-share-resume.                                                     *)

\* Mutants: the checks of handle_screen_share_resume dropped one by one.
MayClaimInUse(p, s) == /\ s \in tokens /\ ~session[s].closed
                       /\ p \in peers /\ screenSession[p] \in {NoSession, s}
MayClaimSecond(p, s) == /\ s \in tokens /\ ~session[s].closed /\ p \in peers
                        /\ session[s].publisherId \in peers => session[s].publisherId = p
MayClaimEnded(p, s) == /\ s \in tokens
                       /\ session[s].publisherId \in peers => session[s].publisherId = p
                       /\ p \in peers /\ screenSession[p] \in {NoSession, s}

\* The token is the proof of ownership; it is refused while another connected
\* peer publishes, or if the claimant shares something else.
MayClaim(p, s) ==
    /\ s \in tokens /\ ~session[s].closed
    /\ session[s].publisherId \in peers => session[s].publisherId = p
    /\ p \in peers /\ screenSession[p] \in {NoSession, s}

\* Room and session locks held together: the window and the viewers are taken.
Resume(p) ==
    /\ Ready(p) /\ p \in Publishers
    /\ \E s \in Sessions :
        /\ MayClaim(p, s)
        /\ session' = [session EXCEPT ![s].publisherId = p, ![s].grace = NoPeer,
                                      ![s].subscribers = NoSubs]
        /\ screenSession' = [screenSession EXCEPT ![p] = s]
        /\ handler' = [handler EXCEPT ![p].at = "resumeCancel",
                                      ![p].publisher = session[s].publisherId,
                                      ![p].grace = session[s].grace,
                                      ![p].todo = PcsIn(session[s].subscribers)]
    /\ UNCHANGED <<conn, peers, screenSubs, tokens, timer, sub, encode, closer, ending,
                   video, lost>>

\* No lock: the window taken above is cancelled.
ResumeCancel(p) ==
    /\ handler[p].at = "resumeCancel"
    /\ timer' = Cancel(timer, handler[p].grace)
    /\ handler' = [handler EXCEPT ![p].at = "resume", ![p].grace = NoPeer]
    /\ UNCHANGED <<roomVars, session, sub, encode, closer, ending, video, lost>>

\* Viewers' PCs are closed: they subscribe again under the new peer ID.
ResumeClose(p) ==
    /\ handler[p].at = "resume"
    /\ \E u \in handler[p].todo :
        /\ ClosePc(u)
        /\ handler' = [handler EXCEPT ![p].at = "resumeDetach", ![p].sub = u,
                                      ![p].wait = RunsOnClosed(u), ![p].todo = @ \ {u}]
    /\ UNCHANGED <<roomVars, session, timer, encode, ending, video, lost>>

ResumeDetach(p) ==
    LET u == handler[p].sub IN
    /\ handler[p].at = "resumeDetach"
    /\ Returned(handler[p].wait)
    /\ screenSubs' = [screenSubs EXCEPT ![sub[u].peer][handler[p].publisher] = NoSub]
    /\ handler' = [handler EXCEPT ![p].at = "resume", ![p].sub = NoSub, ![p].wait = NoSub]
    /\ UNCHANGED <<conn, peers, screenSession, tokens, session, timer, sub, encode, closer,
                   ending, video, lost>>

Resumed(p) ==
    /\ handler[p].at = "resume" /\ handler[p].todo = {}
    /\ Return(p)
    /\ UNCHANGED <<roomVars, session, timer, sub, encode, closer, ending, video, lost>>

-----------------------------------------------------------------------------
(* screen-share-subscribe.  Bound: as many as there are unused PCs.         *)

Unused == {u \in Subs : sub[u].pc = "none"}

\* Room lock: the publisher's session, unless this viewer has a PC for it.
Subscribe(p, k) ==
    /\ Ready(p) /\ p \in Viewers
    /\ SessionOf(k) # NoSession
    /\ p \in peers => screenSubs[p][k] = NoSub
    /\ Cardinality({q \in Peers : handler[q].at = "subPublisher"}) < Cardinality(Unused)
    /\ handler' = [handler EXCEPT ![p].at = "subPublisher", ![p].session = SessionOf(k)]
    /\ UNCHANGED <<roomVars, session, timer, sub, encode, closer, ending, video, lost>>

\* The publisher's ID is read from the session, and the PC made.
SubBuild(p) ==
    LET s == handler[p].session IN
    /\ handler[p].at = "subPublisher"
    /\ \E u \in Unused :
        /\ sub' = [sub EXCEPT ![u] = [pc |-> "open", peer |-> p, session |-> s]]
        /\ handler' = [handler EXCEPT ![p].at = "subInsert", ![p].sub = u,
                                      ![p].publisher = session[s].publisherId]
    /\ UNCHANGED <<roomVars, session, timer, encode, closer, ending, video, lost>>

\* Mutant: subscribe trusts the session it looked up earlier.
TakesAnyViewer(s) == TRUE
TakesViewers(s) == ~session[s].closed

\* Session lock: an ended session takes no viewer.
SubInsert(p) ==
    LET s == handler[p].session
        u == handler[p].sub IN
    /\ handler[p].at = "subInsert"
    /\ IF TakesViewers(s)
       THEN /\ session' = [session EXCEPT ![s].subscribers[p] = u]
            /\ handler' = [handler EXCEPT ![p].at = "subAttach", ![p].flag = LastViewer(s, p)]
            /\ UNCHANGED <<sub, closer>>
       ELSE /\ ClosePc(u)
            /\ handler' = [handler EXCEPT ![p].at = "closing", ![p].wait = RunsOnClosed(u)]
            /\ UNCHANGED session
    /\ UNCHANGED <<roomVars, timer, encode, ending, video, lost>>

\* Room lock: the viewer's entry holds the PC, if it is still there.
SubAttach(p) ==
    /\ handler[p].at = "subAttach"
    /\ IF p \in peers
       THEN /\ screenSubs' = [screenSubs EXCEPT ![p][handler[p].publisher] = handler[p].sub]
            /\ handler' = [handler EXCEPT ![p].at = "subEncode"]
       ELSE /\ handler' = [handler EXCEPT ![p].at = "viewerGone"]
            /\ UNCHANGED screenSubs
    /\ UNCHANGED <<conn, peers, screenSession, tokens, session, timer, sub, encode, closer,
                   ending, video, lost>>

\* The first viewer wakes the encoder.
SubEncode(p) ==
    /\ handler[p].at = "subEncode"
    /\ IF handler[p].flag THEN SendEncode(handler[p].publisher, "resume") ELSE UNCHANGED encode
    /\ Return(p)
    /\ UNCHANGED <<roomVars, session, timer, sub, closer, ending, video, lost>>

-----------------------------------------------------------------------------
(* remove_screen_sub, from a handler: for one PC when the viewer left while *)
(* subscribing, for any on screen-share-unsubscribe.                        *)

\* Room lock: no entry holds the PC; the session is that of the publisher's entry.
ViewerGone(p) ==
    LET s == SessionOf(handler[p].publisher) IN
    /\ handler[p].at = "viewerGone"
    /\ handler' = [handler EXCEPT ![p].session = s, ![p].flag = FALSE,
                                  ![p].at = IF s = NoSession THEN "closing" ELSE "dropOnly"]
    /\ UNCHANGED <<roomVars, session, timer, sub, encode, closer, ending, video, lost>>

Unsubscribe(p, k) ==
    LET held == IF p \in peers THEN screenSubs[p][k] ELSE NoSub IN
    /\ Ready(p) /\ p \in Viewers
    /\ held # NoSub \/ SessionOf(k) # NoSession
    /\ screenSubs' = [screenSubs EXCEPT ![p][k] = NoSub]
    /\ handler' = [handler EXCEPT ![p].at = "unsub", ![p].publisher = k, ![p].sub = held,
                                  ![p].session = SessionOf(k)]
    /\ UNCHANGED <<conn, peers, screenSession, tokens, session, timer, sub, encode, closer,
                   ending, video, lost>>

UnsubClose(p) ==
    LET u == handler[p].sub IN
    /\ handler[p].at = "unsub"
    /\ IF u = NoSub THEN UNCHANGED <<sub, closer>> ELSE ClosePc(u)
    /\ handler' = [handler EXCEPT
                     ![p].wait = IF u = NoSub THEN NoSub ELSE RunsOnClosed(u),
                     ![p].at = IF handler[p].session = NoSession THEN "closing" ELSE "dropAny"]
    /\ UNCHANGED <<roomVars, session, timer, encode, ending, video, lost>>

\* Session lock: the viewer goes, and the PC the session had for it is closed.
Drop(p) ==
    LET s == handler[p].session
        u == session[s].subscribers[p]
        mine == u # NoSub /\ (handler[p].at = "dropOnly" => u = handler[p].sub) IN
    /\ handler[p].at \in {"dropOnly", "dropAny"}
    /\ Returned(handler[p].wait)
    /\ IF mine
       THEN /\ session' = Without(s, p)
            /\ ClosePc(u)
            /\ handler' = [handler EXCEPT ![p].at = "closing", ![p].wait = RunsOnClosed(u),
                                          ![p].flag = LastViewer(s, p)]
       ELSE /\ handler' = [handler EXCEPT ![p].at = "closing", ![p].wait = NoSub]
            /\ UNCHANGED <<session, sub, closer>>
    /\ UNCHANGED <<roomVars, timer, encode, ending, video, lost>>

Closing(p) ==
    /\ handler[p].at = "closing"
    /\ Returned(handler[p].wait)
    /\ IF handler[p].flag THEN SendEncode(handler[p].publisher, "pause") ELSE UNCHANGED encode
    /\ Return(p)
    /\ UNCHANGED <<roomVars, session, timer, sub, closer, ending, video, lost>>

-----------------------------------------------------------------------------
\* The messages a connection may handle next.
Message(p) == \/ Start(p) \/ Stop(p) \/ Resume(p)
              \/ \E k \in Publishers : Subscribe(p, k) \/ Unsubscribe(p, k)

HandlerStep(p) ==
    \/ CloseHeld(p) \/ Joined(p) \/ Left(p)
    \/ StartFails(p) \/ Register(p) \/ StopEnds(p) \/ Stopped(p)
    \/ ResumeCancel(p) \/ ResumeClose(p) \/ ResumeDetach(p) \/ Resumed(p)
    \/ SubBuild(p) \/ SubInsert(p) \/ SubAttach(p) \/ SubEncode(p)
    \/ ViewerGone(p) \/ UnsubClose(p) \/ Drop(p) \/ Closing(p)

Next ==
    \/ \E p \in Peers : Join(p) \/ Leave(p) \/ Message(p) \/ HandlerStep(p) \/ Timer(p)
    \/ \E s \in Sessions : \/ FirstVideo(s) \/ Video(s) \/ PubPcFails(s) \/ PubLost(s)
                           \/ EndSession(s)
    \/ \E u \in Subs : SubPcFails(u) \/ OnClosed(u)

\* Threads keep running; clients, PCs and packets owe nobody a next step.
Fairness ==
    /\ \A p \in Peers : WF_vars(HandlerStep(p)) /\ WF_vars(Timer(p))
    /\ \A s \in Sessions : WF_vars(Video(s)) /\ WF_vars(PubLost(s)) /\ WF_vars(EndSession(s))
    /\ \A u \in Subs : WF_vars(OnClosed(u))

Safety == Init /\ [][Next]_vars
Spec == Safety /\ Fairness

-----------------------------------------------------------------------------
(* Properties.                                                              *)

\* A share that end_screen_share_session has not begun to end.
Live(s) == s \in tokens /\ ~session[s].closed

\* The viewer of u has, or had, another PC for the same share.
SubscribedAgain(u) ==
    \E w \in Subs \ {u} : /\ sub[w].session = sub[u].session
                          /\ sub[w].peer = sub[u].peer

\* No thread is in the middle of anything; an armed window may still be open.
Quiescent ==
    /\ \A p \in Peers : handler[p].at = "idle" /\ timer[p].state # "expired"
    /\ \A u \in Subs : closer[u].at \in {"no", "done"}
    /\ \A s \in Sessions : /\ ending[s].at \in {"no", "done"}
                           /\ video[s].at \in {"no", "done"}
                           /\ lost[s] \in {"no", "done"}

\* A connected peer flagged as publisher owns that session and its token resolves,
\* through evictions, resumes and ends that race (Entry.screen_session against
\* ScreenSession.publisher_id and sessions_by_token, three locks).
OwnedShareIsLive ==
    \A p \in peers : screenSession[p] # NoSession =>
        session[screenSession[p]].publisherId = p /\ screenSession[p] \in tokens

\* Conversely, a live share of a connected peer is the one its entry shows: a
\* resume never leaves a second peer, or nobody, believing it publishes.
OwnerKnowsItsShare ==
    \A s \in tokens : (Live(s) /\ session[s].publisherId \in peers) =>
        screenSession[session[s].publisherId] = s

\* An ended session never holds a viewer again, though subscribe takes the session
\* from the room and inserts under another lock (the closed check of subscribe).
ClosedShareHasNoViewers ==
    \A s \in Sessions : session[s].closed => session[s].subscribers = NoSubs

\* Who has the token of the window that p's removal armed.
TokenHeld(p) ==
    LET s == timer[p].session IN
    \/ session[s].grace = p /\ ~session[s].closed
    \/ ending[s].at = "cancel" /\ ending[s].grace = p
    \/ \E q \in Peers : handler[q].at = "resumeCancel" /\ handler[q].grace = p

\* A grace task that still waits has somebody who will cancel it: its session, which is
\* live, or the resume or the end that took its token under the locks and cancels it after
\* them (start_screen_share_grace, handle_screen_share_resume, end_screen_share_session).
\* So no two windows of a share are open, and the only window that can end a share that
\* was resumed in time is one whose sleep was over before the cancel came.
ArmedWindowIsHeld == \A p \in Peers : timer[p].state = "armed" => TokenHeld(p)

\* Once every thread is done, an open viewer PC is one its live session holds, and
\* that an unsubscribe, a resume or the end will close; only a viewer that has
\* subscribed to that share again may have left one behind (inner.subscribers.insert).
NoForgottenPc ==
    Quiescent => \A u \in Subs : sub[u].pc = "open" =>
        \/ Live(sub[u].session) /\ session[sub[u].session].subscribers[sub[u].peer] = u
        \/ SubscribedAgain(u)

\* Conversely, once every thread is done, the viewers in the table of a connected publisher's
\* live share are PCs that are open: each was taken out by its on_closed, though that finds
\* the session through the publisher's entry, whoever has it by then, and the viewer's own
\* entry may be gone.  One left behind would keep the last viewer from being the last, and
\* the encoder running for nobody.
NoDeadViewer ==
    Quiescent => \A s \in Sessions, v \in Peers :
        (Live(s) /\ session[s].publisherId \in peers /\ session[s].subscribers[v] # NoSub) =>
            sub[session[s].subscribers[v]].pc = "open"

\* "Closes the publisher and every subscriber PC" (end_screen_share_session). Not kept:
\* a resume clears the viewers' entries by publisher ID after it closed their PCs, so a
\* viewer that is back in between subscribes twice, and the end finds the second PC only.
EndClosesEveryPc ==
    Quiescent => \A u \in Subs : sub[u].pc = "open" => ~session[sub[u].session].closed

\* A live share whose publisher is gone has its 5 s window armed, or would stay for
\* ever (remove_peer arms it). Not kept: add_peer's eviction removes an entry too.
OrphanHasWindow ==
    Quiescent => \A s \in Sessions : (Live(s) /\ session[s].publisherId \notin peers) =>
        \E p \in Peers : timer[p] = [state |-> "armed", session |-> s]

\* "Resume cancels it": the share of a connected publisher is not about to be ended
\* by a window. Not kept: remove_peer arms it after its lock, when a resume may be over.
OwnedShareHasNoWindow ==
    Quiescent => \A s \in Sessions : (Live(s) /\ session[s].publisherId \in peers) =>
        session[s].grace = NoPeer

\* "Resume cancels it": a window ends no share but one that still holds it. Not kept: one
\* that fired just before the resume is past its select, and ends the share resumed.
WindowEndsItsShare ==
    [][\A p \in Peers : (timer[p].state = "expired" /\ timer'[p].state = "done") =>
         LET s == timer[p].session IN session[s].closed \/ session[s].grace = p]_vars

\* The encoder is paused only "until somebody watches" (first_screen_video_ready).
WatchedShareIsEncoding ==
    Quiescent => \A s \in Sessions :
        (Live(s) /\ session[s].publisherId \in peers /\ session[s].subscribers # NoSubs) =>
            encode[session[s].publisherId] # "pause"

\* A viewer whose screen-share-subscribe is ignored as a duplicate is watching. Not
\* kept: a resume that drops the viewers between the two inserts leaves an entry.
NoDeadSubscription ==
    Quiescent => \A v \in peers, k \in peers :
        (screenSubs[v][k] # NoSub /\ screenSession[k] # NoSession) =>
            session[screenSession[k]].subscribers[v] = screenSubs[v][k]

\* Ending never deadlocks with the closes it waits for, and returns.
EndCompletes == \A s \in Sessions : session[s].closed ~> ending[s].at = "done"

\* Every message, join and leave is handled to its end.
HandlersReturn == \A p \in Peers : handler[p].at # "idle" ~> handler[p].at = "idle"

\* A share whose publisher left is claimed or ended.
OrphanIsSettled ==
    \A s \in Sessions : (Live(s) /\ session[s].publisherId \notin peers) ~>
        (session[s].closed \/ session[s].publisherId \in peers)

\* The locks and threads above implement the promise of ShareLifecycle.
Stage(s) == IF session[s].closed THEN "ended" ELSE IF s \in tokens THEN "live" ELSE "none"

Lifecycle == INSTANCE ShareLifecycle WITH
    here  <- peers,
    gone  <- {p \in Peers : conn[p] # "new"} \ peers,
    stage <- [s \in Sessions |-> Stage(s)],
    owner <- [s \in Sessions |-> IF Stage(s) = "none" THEN NoPeer ELSE session[s].publisherId]

ImplementsLifecycle == Lifecycle!Spec
=============================================================================
