-------------------------- MODULE ScreenShare_proofs --------------------------
(***************************************************************************)
(* Ownership of screen shares, for any number of peers, shares and PCs: the *)
(* publisher's entry, the token table and the session agree, no viewer's PC *)
(* is forgotten, and the lock sections of ScreenShare implement             *)
(* ShareLifecycle.                                                          *)
(***************************************************************************)
EXTENDS ScreenShare, TLAPS

-------------------------------------------------------------------------------
(* The types of ScreenShare's variables, and the links between its threads *)
(* and the sessions and PCs they hold, are kept by every action.           *)

Tasks == [Peers -> Task]

\* What makes TypeOK inductive: a PC that was made has a session, on_closed runs for
\* a PC that was made, and a handler or a grace task that will use its session has one.
SubLinked == \A u \in Subs : sub[u].pc # "none" => sub[u].session \in Sessions
CloserLinked == \A u \in Subs : closer[u].at # "no" => sub[u].pc # "none"
HandlerLinked == \A p \in Peers :
    handler[p].at \in {"subPublisher", "stop", "dropOnly", "dropAny"} =>
        handler[p].session \in Sessions
TimerLinked == \A p \in Peers :
    timer[p].state \in {"armed", "expired"} => timer[p].session \in Sessions
Linked == SubLinked /\ CloserLinked /\ HandlerLinked /\ TimerLinked

-----------------------------------------------------------------------------
(* Types, one variable at a time, so that a step cites those it reads.      *)

\* TypeOK for conn.
LEMMA ConnType ==
  ASSUME TypeOK PROVE conn \in [Peers -> {"new", "open", "gone"}]
  BY DEF TypeOK

\* TypeOK for peers.
LEMMA PeersType ==
  ASSUME TypeOK PROVE peers \in SUBSET Peers
  BY DEF TypeOK

\* TypeOK for screenSession.
LEMMA ScreenSessionType ==
  ASSUME TypeOK PROVE screenSession \in [Peers -> SessionOrNone]
  BY DEF TypeOK

\* TypeOK for screenSubs.
LEMMA ScreenSubsType ==
  ASSUME TypeOK PROVE screenSubs \in [Peers -> [Peers -> SubOrNone]]
  BY DEF TypeOK

\* TypeOK for tokens.
LEMMA TokensType ==
  ASSUME TypeOK PROVE tokens \in SUBSET Sessions
  BY DEF TypeOK

\* TypeOK for session.
LEMMA SessionType ==
  ASSUME TypeOK PROVE session \in [Sessions -> Session]
  BY DEF TypeOK

\* TypeOK for sub.
LEMMA SubType ==
  ASSUME TypeOK PROVE sub \in [Subs -> ScreenSub]
  BY DEF TypeOK

\* TypeOK for encode.
LEMMA EncodeType ==
  ASSUME TypeOK PROVE encode \in [Peers -> {"none", "pause", "resume"}]
  BY DEF TypeOK

\* TypeOK for handler.
LEMMA HandlerType ==
  ASSUME TypeOK PROVE handler \in [Peers -> Handler]
  BY DEF TypeOK

\* TypeOK for closer.
LEMMA CloserType ==
  ASSUME TypeOK PROVE closer \in [Subs -> Closer]
  BY DEF TypeOK

\* TypeOK for ending.
LEMMA EndingType ==
  ASSUME TypeOK PROVE ending \in [Sessions -> Ending]
  BY DEF TypeOK

\* TypeOK for video.
LEMMA VideoType ==
  ASSUME TypeOK PROVE video \in [Sessions -> FirstPacket]
  BY DEF TypeOK

\* TypeOK for lost.
LEMMA LostType ==
  ASSUME TypeOK PROVE lost \in [Sessions -> {"no", "find", "end", "done"}]
  BY DEF TypeOK

\* TypeOK for timer.
LEMMA TasksType ==
  ASSUME TypeOK PROVE timer \in Tasks
  BY DEF TypeOK, Tasks

-----------------------------------------------------------------------------
(* What the operators the actions share return.                             *)

\* The PCs a viewer map names are PCs.
LEMMA PcsTyped == ASSUME NEW f \in [Peers -> SubOrNone] PROVE PcsIn(f) \in SUBSET Subs
  BY DEF PcsIn, SubOrNone

\* The PCs that removed entries held are PCs.
LEMMA SubsOfTyped == ASSUME TypeOK, NEW ps \in SUBSET Peers PROVE SubsOf(ps) \in SUBSET Subs
  <1>1. \A p \in ps : PcsIn(screenSubs[p]) \in SUBSET Subs
    BY PcsTyped DEF TypeOK
  <1> QED BY <1>1 DEF SubsOf

\* A connection between two messages.
LEMMA IdleTyped == Idle \in Handler
  BY DEF Idle, Handler, SubOrNone, SessionOrNone, PeerOrNone

\* Looking a session up through an entry (SessionOf).
LEMMA SessionOfTyped == ASSUME TypeOK, NEW k PROVE SessionOf(k) \in SessionOrNone
  BY DEF TypeOK, SessionOf, SessionOrNone

\* The PC whose on_closed a closing thread runs, or none.
LEMMA RunsTyped == ASSUME NEW u \in SubOrNone PROVE RunsOnClosed(u) \in SubOrNone
  BY DEF RunsOnClosed, SubOrNone

\* Cancelling a grace task leaves grace tasks.
LEMMA CancelTyped == ASSUME NEW tasks \in Tasks, NEW g PROVE Cancel(tasks, g) \in Tasks
  BY DEF Tasks, Task, Cancel

\* Pc::close on a viewer's PC.
LEMMA ClosePcTyped ==
  ASSUME TypeOK, NEW u, ClosePc(u)
  PROVE /\ sub' \in [Subs -> ScreenSub]
        /\ closer' \in [Subs -> Closer]
  <1>1. sub \in [Subs -> ScreenSub]
    BY DEF TypeOK
  <1>2. closer \in [Subs -> Closer]
    BY DEF TypeOK
  <1>3. sub' \in [Subs -> ScreenSub]
    BY <1>1 DEF ClosePc, PcState, ScreenSub
  <1>4. closer' \in [Subs -> Closer]
    BY <1>2 DEF ClosePc, Closer
  <1> QED BY <1>3, <1>4

\* remove_screen_sub leaves sessions.
LEMMA WithoutTyped ==
  ASSUME TypeOK, NEW s, NEW v PROVE Without(s, v) \in [Sessions -> Session]
  <1>1. session \in [Sessions -> Session]
    BY DEF TypeOK
  <1> QED BY <1>1 DEF Without, Session, SubOrNone

\* A session without viewers.
LEMMA NoSubsTyped == NoSubs \in [Peers -> SubOrNone]
  BY DEF NoSubs, SubOrNone

\* The first section of end_screen_share_session leaves sessions and teardowns.
LEMMA EndBeginTyped ==
  ASSUME TypeOK, NEW s \in Sessions, EndBegin(s)
  PROVE session' \in [Sessions -> Session] /\ ending' \in [Sessions -> Ending]
  <1>1. session \in [Sessions -> Session] /\ ending \in [Sessions -> Ending]
    BY DEF TypeOK
  <1>2. CASE session[s].closed
    BY <1>1, <1>2 DEF EndBegin
  <1>3. CASE ~session[s].closed
    <2>1. session' \in [Sessions -> Session]
      <3>1. session' = [session EXCEPT ![s].closed = TRUE, ![s].grace = NoPeer,
                                       ![s].subscribers = NoSubs]
        BY <1>3 DEF EndBegin
      <3> QED BY <1>1, <3>1, NoSubsTyped, ZenonT(40) DEF Session, PeerOrNone
    <2>2. ending' \in [Sessions -> Ending]
      <3>1. PcsIn(session[s].subscribers) \in SUBSET Subs /\ session[s].grace \in PeerOrNone
        BY <1>1, PcsTyped DEF Session
      <3>2. EndingAt("cancel", session[s].grace, PcsIn(session[s].subscribers)) \in Ending
        BY <3>1 DEF EndingAt, Ending, SubOrNone, PeerOrNone
      <3> QED BY <1>1, <1>3, <3>2 DEF EndBegin
    <2> QED BY <2>1, <2>2
  <1> QED BY <1>2, <1>3

\* Cancelling touches the state of one task, and never arms one.
LEMMA CancelKeeps ==
  ASSUME NEW tasks \in Tasks, NEW g, NEW p \in Peers
  PROVE /\ Cancel(tasks, g)[p].session = tasks[p].session
        /\ Cancel(tasks, g)[p].state \in {tasks[p].state, "cancelled"}
        /\ Cancel(tasks, g)[p].state = "armed" => p # g
  BY DEF Cancel

\* Closing a viewer's PC keeps its session, and only a PC that was made has its
\* on_closed run.
LEMMA ClosePcLinked ==
  ASSUME TypeOK, Linked, NEW u, ClosePc(u) PROVE SubLinked' /\ CloserLinked'
  <1>1. \A x \in Subs : /\ sub'[x].session = sub[x].session
                        /\ sub'[x].pc = "none" <=> sub[x].pc = "none"
    BY SubType DEF ClosePc, ScreenSub
  <1>2. \A x \in Subs : closer'[x].at = closer[x].at \/ sub[x].pc # "none"
    BY CloserType DEF ClosePc
  <1> QED BY <1>1, <1>2 DEF Linked, SubLinked, CloserLinked

-----------------------------------------------------------------------------
(* One lemma per action.                                                    *)

\* add_peer: the new entry, the replaced ones and the PCs they leave to close.
LEMMA JoinTyped ==
  ASSUME TypeOK, Linked, NEW p \in Peers, Join(p)
  PROVE TypeOK' /\ Linked'
  <1>1. conn' \in [Peers -> {"new", "open", "gone"}]
    BY ConnType DEF Join
  <1>2. peers' \in SUBSET Peers
    BY PeersType DEF Join
  <1>3. screenSession' \in [Peers -> SessionOrNone]
    BY ScreenSessionType DEF SessionOrNone, Join, RemoveEntries
  <1>4. screenSubs' \in [Peers -> [Peers -> SubOrNone]]
    BY ScreenSubsType DEF SubOrNone, Join, RemoveEntries, NoSubs
  <1>5. handler' \in [Peers -> Handler]
    <2>1. handler' = [handler EXCEPT ![p].at = "evict", ![p].todo = SubsOf(Evicted(p))]
      BY DEF Join
    <2>2. SubsOf(Evicted(p)) \in SUBSET Subs
      BY SubsOfTyped DEF Evicted, TypeOK
    <2> QED BY HandlerType, <2>1, <2>2, ZenonT(40) DEF Handler
  <1>6. HandlerLinked'
    BY HandlerType DEF Linked, Join, HandlerLinked
  <1>7. TypeOK'
    BY <1>1, <1>2, <1>3, <1>4, <1>5 DEF TypeOK, Join
  <1> QED BY <1>7, <1>6 DEF Linked, SubLinked, CloserLinked, TimerLinked, Join

\* remove_peer's room section; an evicted peer has nothing left to remove.
LEMMA LeaveTyped ==
  ASSUME TypeOK, Linked, NEW p \in Peers, Leave(p)
  PROVE TypeOK' /\ Linked'
  <1>1. conn' \in [Peers -> {"new", "open", "gone"}]
    BY ConnType DEF Leave
  <1>2. peers' \in SUBSET Peers
    BY PeersType DEF Leave
  <1>3. screenSession' \in [Peers -> SessionOrNone]
    BY ScreenSessionType DEF SessionOrNone, Leave, RemoveEntries
  <1>4. screenSubs' \in [Peers -> [Peers -> SubOrNone]]
    BY ScreenSubsType DEF SubOrNone, Leave, RemoveEntries, NoSubs
  <1>5. handler' \in [Peers -> Handler]
    <2>1. \/ handler' = handler
         \/ handler' = [handler EXCEPT ![p].at = "leave",
                                       ![p].session = screenSession[p],
                                       ![p].todo = SubsOf({p})]
      BY DEF Leave
    <2>2. SubsOf({p}) \in SUBSET Subs
      BY SubsOfTyped
    <2> QED BY HandlerType, <2>1, <2>2 DEF Handler
  <1>6. HandlerLinked'
    BY HandlerType DEF Linked, Leave, HandlerLinked, Handler
  <1>7. TypeOK'
    BY <1>1, <1>2, <1>3, <1>4, <1>5 DEF TypeOK, Leave
  <1> QED BY <1>7, <1>6 DEF Linked, SubLinked, CloserLinked, TimerLinked, Leave

\* screen-share-start passes its check and goes to set up a PC.
LEMMA StartTyped ==
  ASSUME TypeOK, Linked, NEW p \in Peers, Start(p)
  PROVE TypeOK' /\ Linked'
  <1>1. handler' \in [Peers -> Handler]
    BY HandlerType DEF Handler, Start
  <1>2. HandlerLinked'
    BY DEF Linked, Start, HandlerLinked
  <1>3. TypeOK'
    BY <1>1 DEF TypeOK, roomVars, Start
  <1> QED BY <1>3, <1>2 DEF Linked, SubLinked, CloserLinked, TimerLinked, Start

\* screen-share-stop holds the session of its own entry.
LEMMA StopTyped ==
  ASSUME TypeOK, Linked, NEW p \in Peers, Stop(p)
  PROVE TypeOK' /\ Linked'
  <1>1. handler' \in [Peers -> Handler]
    <2>1. handler' = [handler EXCEPT ![p].at = "stop", ![p].session = SessionOf(p)]
      BY DEF Stop
    <2>2. SessionOf(p) \in SessionOrNone
      BY SessionOfTyped
    <2> QED BY HandlerType, <2>1, <2>2, ZenonT(40) DEF Handler
  <1>2. HandlerLinked'
    <2>1. handler'[p].at = "stop" /\ handler'[p].session = SessionOf(p)
      BY HandlerType DEF Stop
    <2>2. \A q \in Peers \ {p} : handler'[q] = handler[q]
      BY HandlerType DEF Stop
    <2>3. SessionOf(p) \in Sessions
      BY SessionOfTyped DEF Stop, SessionOrNone
    <2> QED BY <2>1, <2>2, <2>3 DEF Linked, HandlerLinked
  <1>3. TypeOK'
    BY <1>1 DEF TypeOK, roomVars, Stop
  <1> QED BY <1>3, <1>2 DEF Linked, SubLinked, CloserLinked, TimerLinked, Stop

\* screen-share-resume takes over a session and its viewers.
LEMMA ResumeTyped ==
  ASSUME TypeOK, Linked, NEW p \in Peers, Resume(p)
  PROVE TypeOK' /\ Linked'
  <1>1. screenSession' \in [Peers -> SessionOrNone]
    BY ScreenSessionType DEF SessionOrNone, Resume
  <1>2. session' \in [Sessions -> Session]
    <2>1. PICK s \in Sessions : session' = [session EXCEPT ![s].publisherId = p,
                                                                    ![s].grace = NoPeer,
                                                                    ![s].subscribers = NoSubs]
      BY DEF Resume
    <2> QED BY SessionType, <2>1, NoSubsTyped, ZenonT(40) DEF Session, PeerOrNone
  <1>4. handler' \in [Peers -> Handler]
    <2>1. PICK s \in Sessions :
            handler' = [handler EXCEPT ![p].at = "resumeCancel",
                                       ![p].publisher = session[s].publisherId,
                                       ![p].grace = session[s].grace,
                                       ![p].todo = PcsIn(session[s].subscribers)]
      BY DEF Resume
    <2>2. /\ session[s].publisherId \in PeerOrNone
          /\ session[s].grace \in PeerOrNone
          /\ session[s].subscribers \in [Peers -> SubOrNone]
      BY SessionType DEF Session
    <2>3. PcsIn(session[s].subscribers) \in SUBSET Subs
      BY <2>2, PcsTyped
    <2>4. [handler[p] EXCEPT !.at = "resumeCancel",
                             !.publisher = session[s].publisherId,
                             !.grace = session[s].grace,
                             !.todo = PcsIn(session[s].subscribers)] \in Handler
      BY HandlerType, <2>2, <2>3 DEF Handler
    <2> QED BY HandlerType, <2>1, <2>4
  <1>5. SubLinked'
    BY DEF Linked, Resume, SubLinked
  <1>6. HandlerLinked'
    BY HandlerType DEF Linked, Resume, HandlerLinked
  <1>7. TypeOK'
    BY <1>1, <1>2, <1>4 DEF TypeOK, Resume
  <1> QED BY <1>7, <1>5, <1>6 DEF Linked, CloserLinked, TimerLinked, Resume

\* A resume cancels the window it took.
LEMMA ResumeCancelTyped ==
  ASSUME TypeOK, Linked, NEW p \in Peers, ResumeCancel(p)
  PROVE TypeOK' /\ Linked'
  <1>1. timer' \in Tasks
    BY TasksType, CancelTyped DEF ResumeCancel
  <1>2. handler' \in [Peers -> Handler]
    <2>1. handler' = [handler EXCEPT ![p] =
                        [handler[p] EXCEPT !.at = "resume", !.grace = NoPeer]]
      BY HandlerType DEF ResumeCancel, Handler
    <2>2. [handler[p] EXCEPT !.at = "resume", !.grace = NoPeer] \in Handler
      BY HandlerType DEF Handler, PeerOrNone
    <2> QED BY <2>1, <2>2, HandlerType
  <1>3. HandlerLinked'
    BY HandlerType DEF Linked, ResumeCancel, HandlerLinked
  <1>4. TimerLinked'
    BY TasksType, CancelKeeps DEF Linked, ResumeCancel, TimerLinked
  <1>5. TypeOK'
    BY <1>1, <1>2 DEF TypeOK, roomVars, ResumeCancel, Tasks
  <1> QED BY <1>5, <1>3, <1>4 DEF Linked, SubLinked, CloserLinked, ResumeCancel

\* screen-share-subscribe holds the session of the publisher's entry.
LEMMA SubscribeTyped ==
  ASSUME TypeOK, Linked, NEW p \in Peers, NEW k \in Publishers, Subscribe(p, k)
  PROVE TypeOK' /\ Linked'
  <1>1. handler' \in [Peers -> Handler]
    <2>1. handler' = [handler EXCEPT ![p].at = "subPublisher", ![p].session = SessionOf(k)]
      BY DEF Subscribe
    <2>2. SessionOf(k) \in SessionOrNone
      BY SessionOfTyped
    <2> QED BY HandlerType, <2>1, <2>2, ZenonT(40) DEF Handler
  <1>2. HandlerLinked'
    <2>1. handler'[p].at = "subPublisher" /\ handler'[p].session = SessionOf(k)
      BY HandlerType DEF Subscribe
    <2>2. \A q \in Peers \ {p} : handler'[q] = handler[q]
      BY HandlerType DEF Subscribe
    <2>3. SessionOf(k) \in Sessions
      BY SessionOfTyped DEF Subscribe, SessionOrNone
    <2> QED BY <2>1, <2>2, <2>3 DEF Linked, HandlerLinked
  <1>3. TypeOK'
    BY <1>1 DEF TypeOK, roomVars, Subscribe
  <1> QED BY <1>3, <1>2 DEF Linked, SubLinked, CloserLinked, TimerLinked, Subscribe

\* screen-share-unsubscribe takes the PC its entry held.
LEMMA UnsubscribeTyped ==
  ASSUME TypeOK, Linked, NEW p \in Peers, NEW k \in Publishers, Unsubscribe(p, k)
  PROVE TypeOK' /\ Linked'
  <1>1. screenSubs' \in [Peers -> [Peers -> SubOrNone]]
    BY ScreenSubsType DEF SubOrNone, Unsubscribe
  <1>2. handler' \in [Peers -> Handler]
    <2>1. handler' = [handler EXCEPT ![p].at = "unsub",
                                         ![p].publisher = k,
                                         ![p].sub = (IF p \in peers THEN screenSubs[p][k] ELSE NoSub),
                                         ![p].session = SessionOf(k)]
      BY DEF Unsubscribe
    <2>2. (IF p \in peers THEN screenSubs[p][k] ELSE NoSub) \in SubOrNone
      BY ScreenSubsType, ShareConstants DEF SubOrNone
    <2>3. k \in PeerOrNone
      BY ShareConstants DEF PeerOrNone
    <2>4. SessionOf(k) \in SessionOrNone
      BY SessionOfTyped
    <2>5. [handler[p] EXCEPT !.at = "unsub",
                             !.publisher = k,
                             !.sub = (IF p \in peers THEN screenSubs[p][k] ELSE NoSub),
                             !.session = SessionOf(k)] \in Handler
      BY HandlerType, <2>2, <2>3, <2>4 DEF Handler
    <2> QED BY HandlerType, <2>1, <2>5
  <1>3. HandlerLinked'
    BY HandlerType DEF Linked, Unsubscribe, HandlerLinked
  <1>4. TypeOK'
    BY <1>1, <1>2 DEF TypeOK, Unsubscribe
  <1> QED BY <1>4, <1>3 DEF Linked, SubLinked, CloserLinked, TimerLinked, Unsubscribe

\* A join or a leave closes one of the PCs the removed entries held.
LEMMA CloseHeldTyped ==
  ASSUME TypeOK, Linked, NEW p \in Peers, CloseHeld(p)
  PROVE TypeOK' /\ Linked'
  <1>1. sub' \in [Subs -> ScreenSub]
    BY ClosePcTyped DEF CloseHeld
  <1>2. handler' \in [Peers -> Handler]
    BY HandlerType DEF Handler, CloseHeld
  <1>3. closer' \in [Subs -> Closer]
    BY ClosePcTyped DEF CloseHeld
  <1>4. SubLinked'
    BY ClosePcLinked DEF CloseHeld
  <1>5. CloserLinked'
    BY ClosePcLinked DEF CloseHeld
  <1>6. HandlerLinked'
    BY HandlerType DEF CloseHeld, Handler
  <1>7. TypeOK'
    BY <1>1, <1>2, <1>3 DEF TypeOK, roomVars, CloseHeld
  <1> QED BY <1>7, <1>4, <1>5, <1>6 DEF Linked, TimerLinked, CloseHeld

\* add_peer returns.
LEMMA JoinedTyped ==
  ASSUME TypeOK, Linked, NEW p \in Peers, Joined(p)
  PROVE TypeOK' /\ Linked'
  <1>1. handler' \in [Peers -> Handler]
    BY HandlerType, IdleTyped DEF Joined, Return
  <1>2. HandlerLinked'
    BY DEF Linked, Joined, Return, Idle, HandlerLinked
  <1>3. TypeOK'
    BY <1>1 DEF TypeOK, roomVars, Joined
  <1> QED BY <1>3, <1>2 DEF Linked, SubLinked, CloserLinked, TimerLinked, Joined

\* start_screen_share_grace, after a removal.
LEMMA LeftTyped ==
  ASSUME TypeOK, Linked, NEW p \in Peers, Left(p)
  PROVE TypeOK' /\ Linked'
  <1>1. conn' \in [Peers -> {"new", "open", "gone"}]
    BY ConnType DEF Left
  <1>2. session' \in [Sessions -> Session]
    <2>1. session' = session \/ session' = [session EXCEPT ![handler[p].session].grace = p]
      BY DEF Left, ArmGrace
    <2> QED BY SessionType, <2>1 DEF Session, PeerOrNone
  <1>3. timer' \in Tasks
    <2>1. CASE timer' = timer
      BY TasksType, <2>1
    <2>2. CASE timer' # timer
      <3>1. /\ handler[p].session # NoSession
            /\ timer' = [Cancel(timer, session[handler[p].session].grace) EXCEPT
                            ![p] = [state |-> "armed", session |-> handler[p].session]]
        BY <2>2 DEF Left, ArmGrace
      <3>2. Cancel(timer, session[handler[p].session].grace) \in Tasks
        BY TasksType, CancelTyped
      <3>3. [state |-> "armed", session |-> handler[p].session] \in Task
        BY HandlerType DEF Task, Handler
      <3> QED BY <3>1, <3>2, <3>3 DEF Tasks, Task
    <2> QED BY <2>1, <2>2
  <1>4. handler' \in [Peers -> Handler]
    BY HandlerType, IdleTyped DEF Left, Return
  <1>5. SubLinked'
    BY DEF Linked, Left, SubLinked
  <1>6. HandlerLinked'
    BY DEF Linked, Left, Return, Idle, HandlerLinked
  <1>7. TimerLinked'
    <2> DEFINE t == handler[p].session
    <2>1. t \in SessionOrNone
      BY HandlerType DEF Handler
    <2>2. CASE timer' = timer
      BY <2>2 DEF Linked, TimerLinked
    <2>3. CASE /\ t # NoSession
               /\ timer' = [Cancel(timer, session[t].grace) EXCEPT
                               ![p] = [state |-> "armed", session |-> t]]
      <3>1. Cancel(timer, session[t].grace) \in Tasks
        BY TasksType, CancelTyped
      <3>2. \A q \in Peers \ {p} : timer'[q] = Cancel(timer, session[t].grace)[q]
        BY <2>3, <3>1
      <3>3. timer'[p].session \in Sessions
        BY <2>1, <2>3, <3>1 DEF Tasks, SessionOrNone
      <3>4. ASSUME NEW q \in Peers \ {p}, timer'[q].state \in {"armed", "expired"}
            PROVE timer'[q].session \in Sessions
        BY <3>2, <3>4, TasksType, CancelKeeps DEF Linked, TimerLinked
      <3> QED BY <3>3, <3>4 DEF TimerLinked
    <2> QED BY <2>2, <2>3 DEF Left, ArmGrace
  <1>8. TypeOK'
    BY <1>1, <1>2, <1>3, <1>4 DEF TypeOK, Left, Tasks
  <1> QED BY <1>8, <1>5, <1>6, <1>7 DEF Linked, CloserLinked, Left

\* setup_screen_pub refuses the offer.
LEMMA StartFailsTyped ==
  ASSUME TypeOK, Linked, NEW p \in Peers, StartFails(p)
  PROVE TypeOK' /\ Linked'
  <1>1. handler' \in [Peers -> Handler]
    BY HandlerType, IdleTyped DEF StartFails, Return
  <1>2. HandlerLinked'
    BY DEF Linked, StartFails, Return, Idle, HandlerLinked
  <1>3. TypeOK'
    BY <1>1 DEF TypeOK, roomVars, StartFails
  <1> QED BY <1>3, <1>2 DEF Linked, SubLinked, CloserLinked, TimerLinked, StartFails

\* A new session is entered under its publisher and its token, or refused.
LEMMA RegisterTyped ==
  ASSUME TypeOK, Linked, NEW p \in Peers, Register(p)
  PROVE TypeOK' /\ Linked'
  <1>1. screenSession' \in [Peers -> SessionOrNone]
    BY ScreenSessionType DEF SessionOrNone, Register, Fresh
  <1>2. tokens' \in SUBSET Sessions
    BY TokensType DEF Register, Fresh
  <1>3. session' \in [Sessions -> Session]
    BY SessionType DEF Session, Register, Fresh
  <1>4. encode' \in [Peers -> {"none", "pause", "resume"}]
    BY EncodeType DEF Register
  <1>5. handler' \in [Peers -> Handler]
    BY HandlerType, IdleTyped DEF Register, Return
  <1>6. lost' \in [Sessions -> {"no", "find", "end", "done"}]
    BY LostType DEF Register
  <1>7. SubLinked'
    BY DEF Linked, Register, SubLinked
  <1>8. HandlerLinked'
    BY DEF Linked, Register, Return, Idle, HandlerLinked
  <1>9. TimerLinked'
    BY DEF Linked, Register, TimerLinked
  <1>10. TypeOK'
    BY <1>1, <1>2, <1>3, <1>4, <1>5, <1>6 DEF TypeOK, Register
  <1> QED BY <1>10, <1>7, <1>8, <1>9 DEF Linked, CloserLinked, Register

\* screen-share-stop calls end_screen_share_session.
LEMMA StopEndsTyped ==
  ASSUME TypeOK, Linked, NEW p \in Peers, StopEnds(p)
  PROVE TypeOK' /\ Linked'
  <1>1. handler[p].session \in Sessions
    BY DEF Linked, HandlerLinked, StopEnds
  <1>2. session' \in [Sessions -> Session] /\ ending' \in [Sessions -> Ending]
    BY <1>1, EndBeginTyped DEF StopEnds
  <1>3. handler' \in [Peers -> Handler]
    <2>1. \/ handler' = [handler EXCEPT ![p] = Idle]
          \/ handler' = [handler EXCEPT ![p].at = "ending"]
      BY DEF StopEnds, Return
    <2>2. CASE handler' = [handler EXCEPT ![p] = Idle]
      BY HandlerType, <2>2, IdleTyped
    <2>3. CASE handler' = [handler EXCEPT ![p].at = "ending"]
      BY HandlerType, <2>3 DEF Handler
    <2> QED BY <2>1, <2>2, <2>3
  <1>4. HandlerLinked'
    <2>1. handler'[p].at \in {"idle", "ending"}
      BY HandlerType DEF StopEnds, Return, Idle, Handler
    <2>2. \A q \in Peers \ {p} : handler'[q] = handler[q]
      BY HandlerType DEF StopEnds, Return
    <2> QED BY <2>1, <2>2 DEF Linked, HandlerLinked
  <1>5. TypeOK'
    BY <1>2, <1>3 DEF TypeOK, roomVars, StopEnds
  <1> QED BY <1>5, <1>4 DEF Linked, SubLinked, CloserLinked, TimerLinked, StopEnds

\* screen-share-stop returns.
LEMMA StoppedTyped ==
  ASSUME TypeOK, Linked, NEW p \in Peers, Stopped(p)
  PROVE TypeOK' /\ Linked'
  <1>1. handler' \in [Peers -> Handler]
    BY HandlerType, IdleTyped DEF Stopped, Return
  <1>2. HandlerLinked'
    BY DEF Linked, Stopped, Return, Idle, HandlerLinked
  <1>3. TypeOK'
    BY <1>1 DEF TypeOK, roomVars, Stopped
  <1> QED BY <1>3, <1>2 DEF Linked, SubLinked, CloserLinked, TimerLinked, Stopped

\* A resume closes one of the PCs it found.
LEMMA ResumeCloseTyped ==
  ASSUME TypeOK, Linked, NEW p \in Peers, ResumeClose(p)
  PROVE TypeOK' /\ Linked'
  <1>1. sub' \in [Subs -> ScreenSub]
    BY ClosePcTyped DEF ResumeClose
  <1>2. handler' \in [Peers -> Handler]
    BY HandlerType DEF Handler, ResumeClose
  <1>3. closer' \in [Subs -> Closer]
    BY ClosePcTyped DEF ResumeClose
  <1>4. SubLinked'
    BY ClosePcLinked DEF ResumeClose
  <1>5. CloserLinked'
    BY ClosePcLinked DEF ResumeClose
  <1>6. HandlerLinked'
    BY HandlerType DEF ResumeClose, Handler
  <1>7. TypeOK'
    BY <1>1, <1>2, <1>3 DEF TypeOK, roomVars, ResumeClose
  <1> QED BY <1>7, <1>4, <1>5, <1>6 DEF Linked, TimerLinked, ResumeClose

\* A resume forgets the entry of a viewer whose PC it closed.
LEMMA ResumeDetachTyped ==
  ASSUME TypeOK, Linked, NEW p \in Peers, ResumeDetach(p)
  PROVE TypeOK' /\ Linked'
  <1>1. screenSubs' \in [Peers -> [Peers -> SubOrNone]]
    BY ScreenSubsType DEF SubOrNone, ResumeDetach
  <1>2. handler' \in [Peers -> Handler]
    <2>1. handler' = [handler EXCEPT ![p].at = "resume", ![p].sub = NoSub, ![p].wait = NoSub]
      BY DEF ResumeDetach
    <2>2. NoSub \in SubOrNone
      BY DEF SubOrNone
    <2>3. [handler[p] EXCEPT !.at = "resume", !.sub = NoSub, !.wait = NoSub] \in Handler
      BY HandlerType, <2>2 DEF Handler
    <2> QED BY HandlerType, <2>1, <2>3
  <1>3. HandlerLinked'
    BY HandlerType DEF Linked, ResumeDetach, HandlerLinked
  <1>4. TypeOK'
    BY <1>1, <1>2 DEF TypeOK, ResumeDetach
  <1> QED BY <1>4, <1>3 DEF Linked, SubLinked, CloserLinked, TimerLinked, ResumeDetach

\* screen-share-resume returns.
LEMMA ResumedTyped ==
  ASSUME TypeOK, Linked, NEW p \in Peers, Resumed(p)
  PROVE TypeOK' /\ Linked'
  <1>1. handler' \in [Peers -> Handler]
    BY HandlerType, IdleTyped DEF Resumed, Return
  <1>2. HandlerLinked'
    BY DEF Linked, Resumed, Return, Idle, HandlerLinked
  <1>3. TypeOK'
    BY <1>1 DEF TypeOK, roomVars, Resumed
  <1> QED BY <1>3, <1>2 DEF Linked, SubLinked, CloserLinked, TimerLinked, Resumed

\* subscribe reads the publisher's ID and makes a PC.
LEMMA SubBuildTyped ==
  ASSUME TypeOK, Linked, NEW p \in Peers, SubBuild(p)
  PROVE TypeOK' /\ Linked'
  <1>1. sub' \in [Subs -> ScreenSub]
    <2>1. PICK u \in Subs :
            sub' = [sub EXCEPT ![u] = [pc |-> "open", peer |-> p, session |-> handler[p].session]]
      BY DEF SubBuild, Unused
    <2>2. handler[p].session \in SessionOrNone
      BY HandlerType DEF Handler
    <2>3. [pc |-> "open", peer |-> p, session |-> handler[p].session] \in ScreenSub
      BY <2>2 DEF PcState, PeerOrNone, ScreenSub
    <2> QED BY SubType, <2>1, <2>3
  <1>2. handler' \in [Peers -> Handler]
    <2>1. PICK u \in Subs :
            handler' = [handler EXCEPT ![p].at = "subInsert",
                                       ![p].sub = u,
                                       ![p].publisher = session[handler[p].session].publisherId]
      BY DEF SubBuild, Unused
    <2>2. session[handler[p].session].publisherId \in PeerOrNone
      BY SessionType DEF SubBuild, Linked, HandlerLinked, Session
    <2>3. u \in SubOrNone
      BY DEF SubOrNone
    <2>4. [handler[p] EXCEPT !.at = "subInsert",
                             !.sub = u,
                             !.publisher = session[handler[p].session].publisherId] \in Handler
      BY HandlerType, <2>2, <2>3 DEF Handler
    <2> QED BY HandlerType, <2>1, <2>4
  <1>3. SubLinked'
    <2>1. PICK u \in Subs :
            sub' = [sub EXCEPT ![u] = [pc |-> "open", peer |-> p, session |-> handler[p].session]]
      BY DEF SubBuild, Unused
    <2>2. handler[p].session \in Sessions
      BY DEF SubBuild, Linked, HandlerLinked
    <2> QED BY <2>1, <2>2 DEF Linked, SubLinked
  <1>4. CloserLinked'
    <2>1. PICK u \in Subs :
            sub' = [sub EXCEPT ![u] = [pc |-> "open", peer |-> p, session |-> handler[p].session]]
      BY DEF SubBuild, Unused
    <2> QED BY <2>1 DEF SubBuild, Linked, CloserLinked
  <1>5. HandlerLinked'
    BY HandlerType DEF Linked, SubBuild, HandlerLinked
  <1>6. TypeOK'
    BY <1>1, <1>2 DEF TypeOK, roomVars, SubBuild
  <1> QED BY <1>6, <1>3, <1>4, <1>5 DEF Linked, TimerLinked, SubBuild

\* subscribe gives its PC to the session, or closes it.
LEMMA SubInsertTyped ==
  ASSUME TypeOK, Linked, NEW p \in Peers, SubInsert(p)
  PROVE TypeOK' /\ Linked'
  <1>1. session' \in [Sessions -> Session]
    <2> DEFINE t == handler[p].session
    <2>1. handler[p].sub \in SubOrNone /\ t \in SessionOrNone
      BY HandlerType DEF Handler
    <2>2. \/ session' = session
          \/ session' = [session EXCEPT ![t].subscribers[p] = handler[p].sub]
      BY DEF SubInsert
    <2>3. CASE t \in Sessions
      <3>1. [session[t] EXCEPT !.subscribers[p] = handler[p].sub] \in Session
        BY <2>1, <2>3, SessionType DEF Session
      <3> QED BY <2>2, <2>3, <3>1, SessionType
    <2>4. CASE t \notin Sessions
      BY <2>2, <2>4, SessionType
    <2> QED BY <2>3, <2>4
  <1>2. sub' \in [Subs -> ScreenSub]
    BY SubType, ClosePcTyped DEF SubInsert
  <1>3. handler' \in [Peers -> Handler]
    BY CloserType, HandlerType, SessionType DEF Handler, SubInsert, TakesViewers
  <1>4. closer' \in [Subs -> Closer]
    BY CloserType, ClosePcTyped DEF SubInsert
  <1>5. SubLinked'
    BY ClosePcLinked DEF SubInsert, Linked, SubLinked
  <1>6. CloserLinked'
    BY ClosePcLinked DEF SubInsert, Linked, CloserLinked
  <1>7. HandlerLinked'
    <2>1. handler'[p].at \in {"subAttach", "closing"}
      BY HandlerType DEF SubInsert, Handler
    <2>2. \A q \in Peers \ {p} : handler'[q] = handler[q]
      BY HandlerType DEF SubInsert
    <2> QED BY <2>1, <2>2 DEF Linked, HandlerLinked
  <1>8. TimerLinked'
    BY DEF Linked, SubInsert, TimerLinked
  <1>9. TypeOK'
    BY <1>1, <1>2, <1>3, <1>4 DEF TypeOK, roomVars, SubInsert
  <1> QED BY <1>9, <1>5, <1>6, <1>7, <1>8 DEF Linked, TypeOK

\* subscribe gives its PC to the viewer's entry.
LEMMA SubAttachTyped ==
  ASSUME TypeOK, Linked, NEW p \in Peers, SubAttach(p)
  PROVE TypeOK' /\ Linked'
  <1>1. screenSubs' \in [Peers -> [Peers -> SubOrNone]]
    <2>1. \/ screenSubs' = screenSubs
          \/ screenSubs' = [screenSubs EXCEPT ![p][handler[p].publisher] = handler[p].sub]
      BY DEF SubAttach
    <2>2. handler[p].sub \in SubOrNone
      BY HandlerType DEF Handler
    <2> QED BY ScreenSubsType, <2>1, <2>2
  <1>2. handler' \in [Peers -> Handler]
    <2>1. \/ handler' = [handler EXCEPT ![p].at = "subEncode"]
          \/ handler' = [handler EXCEPT ![p].at = "viewerGone"]
      BY DEF SubAttach
    <2> QED BY HandlerType, <2>1 DEF Handler
  <1>3. HandlerLinked'
    <2>1. handler'[p].at \in {"subEncode", "viewerGone"}
      BY HandlerType DEF SubAttach, Handler
    <2>2. \A q \in Peers \ {p} : handler'[q] = handler[q]
      BY HandlerType DEF SubAttach
    <2> QED BY <2>1, <2>2 DEF Linked, HandlerLinked
  <1>4. TypeOK'
    BY <1>1, <1>2 DEF TypeOK, SubAttach
  <1> QED BY <1>4, <1>3 DEF Linked, SubLinked, CloserLinked, TimerLinked, SubAttach

\* The first viewer wakes the encoder.
LEMMA SubEncodeTyped ==
  ASSUME TypeOK, Linked, NEW p \in Peers, SubEncode(p)
  PROVE TypeOK' /\ Linked'
  <1>1. encode' \in [Peers -> {"none", "pause", "resume"}]
    BY EncodeType DEF SubEncode, SendEncode
  <1>2. handler' \in [Peers -> Handler]
    BY HandlerType, IdleTyped DEF SubEncode, Return
  <1>3. HandlerLinked'
    BY DEF Linked, SubEncode, Return, Idle, HandlerLinked
  <1>4. TypeOK'
    BY <1>1, <1>2 DEF TypeOK, roomVars, SubEncode
  <1> QED BY <1>4, <1>3 DEF Linked, SubLinked, CloserLinked, TimerLinked, SubEncode

\* A viewer that left while subscribing is removed again.
LEMMA ViewerGoneTyped ==
  ASSUME TypeOK, Linked, NEW p \in Peers, ViewerGone(p)
  PROVE TypeOK' /\ Linked'
  <1>1. handler' \in [Peers -> Handler]
    BY HandlerType, ScreenSessionType DEF Handler, ViewerGone
  <1>2. HandlerLinked'
    BY HandlerType DEF ViewerGone, Handler
  <1>3. TypeOK'
    BY <1>1 DEF TypeOK, roomVars, ViewerGone
  <1> QED BY <1>3, <1>2 DEF Linked, SubLinked, CloserLinked, TimerLinked, ViewerGone

\* screen-share-unsubscribe closes the PC its entry held.
LEMMA UnsubCloseTyped ==
  ASSUME TypeOK, Linked, NEW p \in Peers, UnsubClose(p)
  PROVE TypeOK' /\ Linked'
  <1>1. sub' \in [Subs -> ScreenSub]
    BY ClosePcTyped, SubType DEF UnsubClose
  <1>2. handler' \in [Peers -> Handler]
    BY CloserType, HandlerType, SessionType, SubType, ShareConstants, PcsTyped
       DEF Handler, SessionOrNone, UnsubClose
  <1>3. closer' \in [Subs -> Closer]
    BY ClosePcTyped, CloserType DEF UnsubClose
  <1>4. SubLinked'
    BY ClosePcLinked DEF UnsubClose, Linked, SubLinked
  <1>5. CloserLinked'
    BY ClosePcLinked DEF UnsubClose, Linked, CloserLinked
  <1>6. HandlerLinked'
    BY HandlerType DEF UnsubClose, Handler
  <1>7. TypeOK'
    BY <1>1, <1>2, <1>3 DEF TypeOK, roomVars, UnsubClose
  <1> QED BY <1>7, <1>4, <1>5, <1>6 DEF Linked, TimerLinked, UnsubClose

\* remove_screen_sub, called by a handler, takes the viewer from the session.
LEMMA DropTyped ==
  ASSUME TypeOK, Linked, NEW p \in Peers, Drop(p)
  PROVE TypeOK' /\ Linked'
  <1>1. session' \in [Sessions -> Session]
    BY SessionType, WithoutTyped DEF Drop
  <1>2. sub' \in [Subs -> ScreenSub]
    BY SubType, ClosePcTyped DEF Drop
  <1>3. handler' \in [Peers -> Handler]
    <2> DEFINE u == session[handler[p].session].subscribers[p]
    <2>1. u \in SubOrNone
      BY SessionType DEF Drop, Linked, HandlerLinked, Session
    <2>2. RunsOnClosed(u) \in SubOrNone /\ NoSub \in SubOrNone
      BY <2>1, RunsTyped DEF SubOrNone
    <2>3. LastViewer(handler[p].session, p) \in BOOLEAN
      BY DEF LastViewer
    <2>4. \/ handler' = [handler EXCEPT ![p].at = "closing", ![p].wait = RunsOnClosed(u),
                                        ![p].flag = LastViewer(handler[p].session, p)]
          \/ handler' = [handler EXCEPT ![p].at = "closing", ![p].wait = NoSub]
      BY DEF Drop
    <2> QED BY HandlerType, <2>2, <2>3, <2>4 DEF Handler
  <1>4. closer' \in [Subs -> Closer]
    BY CloserType, ClosePcTyped DEF Drop
  <1>5. SubLinked'
    BY ClosePcLinked DEF Drop, Linked, SubLinked
  <1>6. CloserLinked'
    BY ClosePcLinked DEF Drop, Linked, CloserLinked
  <1>7. HandlerLinked'
    <2>1. handler'[p].at = "closing"
      BY HandlerType DEF Drop, Handler
    <2>2. \A q \in Peers \ {p} : handler'[q] = handler[q]
      BY HandlerType DEF Drop
    <2> QED BY <2>1, <2>2 DEF Linked, HandlerLinked
  <1>8. TimerLinked'
    BY DEF Linked, Drop, TimerLinked
  <1>9. TypeOK'
    BY <1>1, <1>2, <1>3, <1>4 DEF TypeOK, roomVars, Drop
  <1> QED BY <1>9, <1>5, <1>6, <1>7, <1>8 DEF Linked, TypeOK

\* remove_screen_sub returns, with the share idle or not.
LEMMA ClosingTyped ==
  ASSUME TypeOK, Linked, NEW p \in Peers, Closing(p)
  PROVE TypeOK' /\ Linked'
  <1>1. encode' \in [Peers -> {"none", "pause", "resume"}]
    BY EncodeType DEF Closing, SendEncode
  <1>2. handler' \in [Peers -> Handler]
    BY HandlerType, IdleTyped DEF Closing, Return
  <1>3. HandlerLinked'
    BY DEF Linked, Closing, Return, Idle, HandlerLinked
  <1>4. TypeOK'
    BY <1>1, <1>2 DEF TypeOK, roomVars, Closing
  <1> QED BY <1>4, <1>3 DEF Linked, SubLinked, CloserLinked, TimerLinked, Closing

\* A grace task's sleep ends.
LEMMA TimerExpiresTyped ==
  ASSUME TypeOK, Linked, NEW p \in Peers, TimerExpires(p)
  PROVE TypeOK' /\ Linked'
  <1>1. timer' \in Tasks
    BY TasksType DEF TimerExpires, Tasks, Task
  <1>2. TimerLinked'
    BY DEF Linked, TimerExpires, TimerLinked
  <1>3. TypeOK'
    BY <1>1 DEF TypeOK, roomVars, TimerExpires, Tasks
  <1> QED BY <1>3, <1>2 DEF Linked, SubLinked, CloserLinked, HandlerLinked, TimerExpires

\* A grace task ends its session.
LEMMA TimerEndsTyped ==
  ASSUME TypeOK, Linked, NEW p \in Peers, TimerEnds(p)
  PROVE TypeOK' /\ Linked'
  <1>1. timer[p].session \in Sessions
    BY DEF Linked, TimerLinked, TimerEnds
  <1>2. session' \in [Sessions -> Session] /\ ending' \in [Sessions -> Ending]
    BY <1>1, EndBeginTyped DEF TimerEnds
  <1>3. timer' \in Tasks
    BY TasksType DEF TimerEnds, Tasks, Task
  <1>4. TimerLinked'
    BY TasksType DEF Linked, TimerEnds, TimerLinked, Tasks, Task
  <1>5. TypeOK'
    BY <1>2, <1>3 DEF TypeOK, roomVars, TimerEnds, Tasks
  <1> QED BY <1>5, <1>4 DEF Linked, SubLinked, CloserLinked, HandlerLinked, TimerEnds

\* The first packet of a share arrives.
LEMMA FirstVideoTyped ==
  ASSUME TypeOK, Linked, NEW s \in Sessions, FirstVideo(s)
  PROVE TypeOK' /\ Linked'
  <1>1. video' \in [Sessions -> FirstPacket]
    BY VideoType DEF FirstVideo, VideoAt, FirstPacket
  <1>2. TypeOK'
    BY <1>1 DEF TypeOK, roomVars, FirstVideo
  <1> QED BY <1>2 DEF Linked, SubLinked, CloserLinked, HandlerLinked, TimerLinked, FirstVideo

\* first_screen_video_ready looks whether the share has ended.
LEMMA VideoCheckTyped ==
  ASSUME TypeOK, Linked, NEW s \in Sessions, VideoCheck(s)
  PROVE TypeOK' /\ Linked'
  <1>1. video' \in [Sessions -> FirstPacket]
    BY VideoType DEF PeerOrNone, VideoCheck, VideoDone, VideoAt, FirstPacket
  <1>2. TypeOK'
    BY <1>1 DEF TypeOK, roomVars, VideoCheck
  <1> QED BY <1>2 DEF Linked, SubLinked, CloserLinked, HandlerLinked, TimerLinked, VideoCheck

\* first_screen_video_ready reads the publisher's ID.
LEMMA VideoReadTyped ==
  ASSUME TypeOK, Linked, NEW s \in Sessions, VideoRead(s)
  PROVE TypeOK' /\ Linked'
  <1>1. video' \in [Sessions -> FirstPacket]
    <2>1. session[s].publisherId \in PeerOrNone
      BY SessionType DEF Session
    <2> QED BY VideoType, <2>1 DEF VideoRead, FirstPacket
  <1>2. TypeOK'
    BY <1>1 DEF TypeOK, roomVars, VideoRead
  <1> QED BY <1>2 DEF Linked, SubLinked, CloserLinked, HandlerLinked, TimerLinked, VideoRead

\* first_screen_video_ready announces the share.
LEMMA VideoAnnounceTyped ==
  ASSUME TypeOK, Linked, NEW s \in Sessions, VideoAnnounce(s)
  PROVE TypeOK' /\ Linked'
  <1>1. video' \in [Sessions -> FirstPacket]
    BY VideoType DEF PeerOrNone, VideoAnnounce, VideoAt, VideoDone, FirstPacket
  <1>2. TypeOK'
    BY <1>1 DEF TypeOK, roomVars, VideoAnnounce
  <1> QED
    BY <1>2 DEF Linked, SubLinked, CloserLinked, HandlerLinked, TimerLinked, VideoAnnounce

\* first_screen_video_ready looks for viewers.
LEMMA VideoIdleCheckTyped ==
  ASSUME TypeOK, Linked, NEW s \in Sessions, VideoIdleCheck(s)
  PROVE TypeOK' /\ Linked'
  <1>1. video' \in [Sessions -> FirstPacket]
    BY VideoType DEF PeerOrNone, VideoIdleCheck, VideoAt, VideoDone, FirstPacket
  <1>2. TypeOK'
    BY <1>1 DEF TypeOK, roomVars, VideoIdleCheck
  <1> QED
    BY <1>2 DEF Linked, SubLinked, CloserLinked, HandlerLinked, TimerLinked, VideoIdleCheck

\* first_screen_video_ready pauses the encoder.
LEMMA VideoPauseTyped ==
  ASSUME TypeOK, Linked, NEW s \in Sessions, VideoPause(s)
  PROVE TypeOK' /\ Linked'
  <1>1. encode' \in [Peers -> {"none", "pause", "resume"}]
    BY EncodeType DEF VideoPause, SendEncode
  <1>2. video' \in [Sessions -> FirstPacket]
    BY VideoType DEF PeerOrNone, VideoPause, VideoDone, FirstPacket
  <1>3. TypeOK'
    BY <1>1, <1>2 DEF TypeOK, roomVars, VideoPause
  <1> QED BY <1>3 DEF Linked, SubLinked, CloserLinked, HandlerLinked, TimerLinked, VideoPause

\* A publisher PC dies.
LEMMA PubPcFailsTyped ==
  ASSUME TypeOK, Linked, NEW s \in Sessions, PubPcFails(s)
  PROVE TypeOK' /\ Linked'
  <1>1. session' \in [Sessions -> Session]
    <2>1. session' = [session EXCEPT ![s].pc = "closed"]
      BY DEF PubPcFails
    <2> QED BY SessionType, <2>1 DEF Session, PcState
  <1>2. lost' \in [Sessions -> {"no", "find", "end", "done"}]
    BY LostType DEF PubPcFails
  <1>3. SubLinked'
    BY DEF Linked, PubPcFails, SubLinked
  <1>4. HandlerLinked'
    BY DEF Linked, PubPcFails, HandlerLinked
  <1>5. TimerLinked'
    BY DEF Linked, PubPcFails, TimerLinked
  <1>6. TypeOK'
    BY <1>1, <1>2 DEF TypeOK, roomVars, PubPcFails
  <1> QED BY <1>6, <1>3, <1>4, <1>5 DEF Linked, CloserLinked, PubPcFails

\* The task its on_closed spawned looks for the session.
LEMMA PubLostFindTyped ==
  ASSUME TypeOK, Linked, NEW s \in Sessions, PubLostFind(s)
  PROVE TypeOK' /\ Linked'
  <1>1. lost' \in [Sessions -> {"no", "find", "end", "done"}]
    BY LostType DEF PubLostFind
  <1>2. TypeOK'
    BY <1>1 DEF TypeOK, roomVars, PubLostFind
  <1> QED BY <1>2 DEF Linked, SubLinked, CloserLinked, HandlerLinked, TimerLinked, PubLostFind

\* The task its on_closed spawned ends the session.
LEMMA PubLostEndsTyped ==
  ASSUME TypeOK, Linked, NEW s \in Sessions, PubLostEnds(s)
  PROVE TypeOK' /\ Linked'
  <1>1. session' \in [Sessions -> Session] /\ ending' \in [Sessions -> Ending]
    BY EndBeginTyped DEF PubLostEnds
  <1>2. lost' \in [Sessions -> {"no", "find", "end", "done"}]
    BY LostType DEF PubLostEnds
  <1>3. TypeOK'
    BY <1>1, <1>2 DEF TypeOK, roomVars, PubLostEnds
  <1> QED
    BY <1>3 DEF Linked, SubLinked, CloserLinked, HandlerLinked, TimerLinked, PubLostEnds

\* end_screen_share_session cancels the window it took.
LEMMA EndCancelTyped ==
  ASSUME TypeOK, Linked, NEW s \in Sessions, EndCancel(s)
  PROVE TypeOK' /\ Linked'
  <1>1. timer' \in Tasks
    BY TasksType, CancelTyped DEF EndCancel
  <1>2. ending' \in [Sessions -> Ending]
    BY EndingType DEF EndCancel, Ending, PeerOrNone
  <1>3. TimerLinked'
    BY TasksType, CancelKeeps DEF Linked, EndCancel, TimerLinked
  <1>4. TypeOK'
    BY <1>1, <1>2 DEF TypeOK, roomVars, EndCancel, Tasks
  <1> QED BY <1>4, <1>3 DEF Linked, SubLinked, CloserLinked, HandlerLinked, EndCancel

\* end_screen_share_session closes the publisher PC.
LEMMA EndCloseTyped ==
  ASSUME TypeOK, Linked, NEW s \in Sessions, EndClose(s)
  PROVE TypeOK' /\ Linked'
  <1>1. session' \in [Sessions -> Session]
    <2>1. session' = [session EXCEPT ![s].pc = "closed"]
      BY DEF EndClose
    <2> QED BY SessionType, <2>1 DEF Session, PcState
  <1>2. ending' \in [Sessions -> Ending]
    <2>1. session[s].publisherId \in PeerOrNone
      BY SessionType DEF Session
    <2>2. ending' = [ending EXCEPT ![s].at = "subs", ![s].publisher = session[s].publisherId]
      BY DEF EndClose
    <2> QED BY EndingType, <2>1, <2>2 DEF Ending
  <1>3. lost' \in [Sessions -> {"no", "find", "end", "done"}]
    BY LostType DEF EndClose
  <1>4. SubLinked'
    BY DEF Linked, EndClose, SubLinked
  <1>5. HandlerLinked'
    BY DEF Linked, EndClose, HandlerLinked
  <1>6. TimerLinked'
    BY DEF Linked, EndClose, TimerLinked
  <1>7. TypeOK'
    BY <1>1, <1>2, <1>3 DEF TypeOK, roomVars, EndClose
  <1> QED BY <1>7, <1>4, <1>5, <1>6 DEF Linked, CloserLinked, EndClose

\* end_screen_share_session closes a viewer's PC.
LEMMA EndCloseSubTyped ==
  ASSUME TypeOK, Linked, NEW s \in Sessions, EndCloseSub(s)
  PROVE TypeOK' /\ Linked'
  <1>1. sub' \in [Subs -> ScreenSub]
    BY ClosePcTyped DEF EndCloseSub
  <1>2. closer' \in [Subs -> Closer]
    BY ClosePcTyped DEF EndCloseSub
  <1>3. ending' \in [Sessions -> Ending]
    BY EndingType DEF Ending, EndCloseSub
  <1>4. SubLinked'
    BY ClosePcLinked DEF EndCloseSub
  <1>5. CloserLinked'
    BY ClosePcLinked DEF EndCloseSub
  <1>6. TypeOK'
    BY <1>1, <1>2, <1>3 DEF TypeOK, roomVars, EndCloseSub
  <1> QED BY <1>6, <1>4, <1>5 DEF Linked, HandlerLinked, TimerLinked, EndCloseSub

\* end_screen_share_session forgets a viewer's entry.
LEMMA EndDetachSubTyped ==
  ASSUME TypeOK, Linked, NEW s \in Sessions, EndDetachSub(s)
  PROVE TypeOK' /\ Linked'
  <1>1. screenSubs' \in [Peers -> [Peers -> SubOrNone]]
    BY ScreenSubsType DEF SubOrNone, EndDetachSub
  <1>2. ending' \in [Sessions -> Ending]
    <2>1. ending' = [ending EXCEPT ![s].at = "subs", ![s].sub = NoSub, ![s].wait = NoSub]
      BY DEF EndDetachSub
    <2>2. NoSub \in SubOrNone
      BY DEF SubOrNone
    <2>3. [ending[s] EXCEPT !.at = "subs", !.sub = NoSub, !.wait = NoSub] \in Ending
      BY EndingType, <2>2 DEF Ending
    <2> QED BY EndingType, <2>1, <2>3
  <1>3. TypeOK'
    BY <1>1, <1>2 DEF TypeOK, EndDetachSub
  <1> QED
    BY <1>3 DEF Linked, SubLinked, CloserLinked, HandlerLinked, TimerLinked, EndDetachSub

\* end_screen_share_session drops the token and the publisher's flag.
LEMMA EndClearTyped ==
  ASSUME TypeOK, Linked, NEW s \in Sessions, EndClear(s)
  PROVE TypeOK' /\ Linked'
  <1>1. screenSession' \in [Peers -> SessionOrNone]
    BY ScreenSessionType DEF SessionOrNone, EndClear
  <1>2. tokens' \in SUBSET Sessions
    BY TokensType DEF EndClear
  <1>3. ending' \in [Sessions -> Ending]
    BY EndingType DEF Ending, SubOrNone, PeerOrNone, EndClear, EndingAt
  <1>4. TypeOK'
    BY <1>1, <1>2, <1>3 DEF TypeOK, EndClear
  <1> QED BY <1>4 DEF Linked, SubLinked, CloserLinked, HandlerLinked, TimerLinked, EndClear

\* A viewer's PC dies.
LEMMA SubPcFailsTyped ==
  ASSUME TypeOK, Linked, NEW u \in Subs, SubPcFails(u)
  PROVE TypeOK' /\ Linked'
  <1>1. sub' \in [Subs -> ScreenSub]
    BY ClosePcTyped DEF SubPcFails
  <1>2. closer' \in [Subs -> Closer]
    BY ClosePcTyped DEF SubPcFails
  <1>3. SubLinked'
    BY ClosePcLinked DEF SubPcFails
  <1>4. CloserLinked'
    BY ClosePcLinked DEF SubPcFails
  <1>5. TypeOK'
    BY <1>1, <1>2 DEF TypeOK, roomVars, SubPcFails
  <1> QED BY <1>5, <1>3, <1>4 DEF Linked, HandlerLinked, TimerLinked, SubPcFails

\* on_closed of a viewer's PC looks its session up.
LEMMA CloserLookupTyped ==
  ASSUME TypeOK, Linked, NEW u \in Subs, CloserLookup(u)
  PROVE TypeOK' /\ Linked'
  <1>1. closer' \in [Subs -> Closer]
    BY CloserType, EndingType DEF Closer, PeerOrNone, SessionOrNone, CloserLookup, CloserAt
  <1>2. CloserLinked'
    BY CloserType DEF Linked, CloserLookup, CloserLinked
  <1>3. TypeOK'
    BY <1>1 DEF TypeOK, roomVars, CloserLookup
  <1> QED BY <1>3, <1>2 DEF Linked, SubLinked, HandlerLinked, TimerLinked, CloserLookup

\* on_closed of a viewer's PC clears the viewer's entry.
LEMMA CloserDetachTyped ==
  ASSUME TypeOK, Linked, NEW u \in Subs, CloserDetach(u)
  PROVE TypeOK' /\ Linked'
  <1>1. screenSubs' \in [Peers -> [Peers -> SubOrNone]]
    BY ScreenSubsType DEF SubOrNone, CloserDetach
  <1>2. closer' \in [Subs -> Closer]
    <2>1. SessionOf(closer[u].publisher) \in SessionOrNone
      BY SessionOfTyped
    <2>2. CloserAt("done") \in Closer
      BY DEF CloserAt, Closer, PeerOrNone, SessionOrNone
    <2>3. \/ closer' = [closer EXCEPT ![u] = CloserAt("done")]
          \/ closer' = [closer EXCEPT ![u].at = "drop",
                                      ![u].session = SessionOf(closer[u].publisher)]
      BY DEF CloserDetach
    <2> QED BY CloserType, <2>1, <2>2, <2>3 DEF Closer
  <1>3. CloserLinked'
    BY CloserType DEF Linked, CloserDetach, CloserLinked
  <1>4. TypeOK'
    BY <1>1, <1>2 DEF TypeOK, CloserDetach
  <1> QED BY <1>4, <1>3 DEF Linked, SubLinked, HandlerLinked, TimerLinked, CloserDetach

\* on_closed of a viewer's PC takes the viewer from the session.
LEMMA CloserDropTyped ==
  ASSUME TypeOK, Linked, NEW u \in Subs, CloserDrop(u)
  PROVE TypeOK' /\ Linked'
  <1>1. session' \in [Sessions -> Session]
    BY SessionType, WithoutTyped DEF CloserDrop
  <1>2. closer' \in [Subs -> Closer]
    BY CloserType DEF Closer, PeerOrNone, SessionOrNone, CloserDrop, CloserAt
  <1>3. SubLinked'
    BY DEF Linked, CloserDrop, SubLinked
  <1>4. CloserLinked'
    BY DEF Linked, CloserDrop, CloserLinked
  <1>5. HandlerLinked'
    BY DEF Linked, CloserDrop, HandlerLinked
  <1>6. TimerLinked'
    BY DEF Linked, CloserDrop, TimerLinked
  <1>7. TypeOK'
    BY <1>1, <1>2 DEF TypeOK, roomVars, CloserDrop
  <1> QED BY <1>7, <1>3, <1>4, <1>5, <1>6 DEF Linked, TypeOK

\* on_closed of the last viewer's PC pauses the encoder.
LEMMA CloserPauseTyped ==
  ASSUME TypeOK, Linked, NEW u \in Subs, CloserPause(u)
  PROVE TypeOK' /\ Linked'
  <1>1. encode' \in [Peers -> {"none", "pause", "resume"}]
    BY EncodeType DEF CloserPause, SendEncode
  <1>2. closer' \in [Subs -> Closer]
    BY CloserType DEF Closer, PeerOrNone, SessionOrNone, CloserPause, CloserAt
  <1>3. CloserLinked'
    BY DEF Linked, CloserPause, CloserLinked
  <1>4. TypeOK'
    BY <1>1, <1>2 DEF TypeOK, roomVars, CloserPause
  <1> QED BY <1>4, <1>3 DEF Linked, SubLinked, HandlerLinked, TimerLinked, CloserPause

-----------------------------------------------------------------------------
\* The room starts empty and every thread idle.
LEMMA InitTyped == Init => TypeOK /\ Linked
  <1> SUFFICES ASSUME Init PROVE TypeOK /\ Linked
    OBVIOUS
  <1>1. conn \in [Peers -> {"new", "open", "gone"}]
    BY DEF Init
  <1>2. peers \in SUBSET Peers
    BY DEF Init
  <1>3. screenSession \in [Peers -> SessionOrNone]
    BY DEF Init, SessionOrNone
  <1>4. screenSubs \in [Peers -> [Peers -> SubOrNone]]
    BY DEF Init, NoSubs, SubOrNone
  <1>5. tokens \in SUBSET Sessions
    BY DEF Init
  <1>6. session \in [Sessions -> Session]
    BY NoSubsTyped DEF Init, Session, PcState, PeerOrNone
  <1>7. timer \in Tasks
    BY DEF Init, SessionOrNone, Tasks, Task
  <1>8. sub \in [Subs -> ScreenSub]
    BY DEF Init, PcState, PeerOrNone, SessionOrNone, ScreenSub
  <1>9. encode \in [Peers -> {"none", "pause", "resume"}]
    BY DEF Init
  <1>10. handler \in [Peers -> Handler]
    BY IdleTyped DEF Init
  <1>11. closer \in [Subs -> Closer]
    BY DEF Init, CloserAt, Closer, PeerOrNone, SessionOrNone
  <1>12. ending \in [Sessions -> Ending]
    BY DEF Init, EndingAt, Ending, PeerOrNone, SubOrNone
  <1>13. video \in [Sessions -> FirstPacket]
    BY DEF Init, PeerOrNone, FirstPacket
  <1>14. lost \in [Sessions -> {"no", "find", "end", "done"}]
    BY DEF Init
  <1>15. TypeOK
    BY <1>1, <1>2, <1>3, <1>4, <1>5, <1>6, <1>7, <1>8, <1>9, <1>10, <1>11, <1>12, <1>13, <1>14
       DEF TypeOK, Tasks
  <1>16. Linked
    BY DEF Init, Idle, CloserAt, Linked, SubLinked, CloserLinked, HandlerLinked, TimerLinked
  <1> QED BY <1>15, <1>16

\* Every action keeps the types and the links.
LEMMA TypeStep ==
  ASSUME TypeOK, Linked, [Next]_vars
  PROVE TypeOK' /\ Linked'
  <1>1. ASSUME NEW p \in Peers, Message(p) PROVE TypeOK' /\ Linked'
    BY <1>1, StartTyped, StopTyped, ResumeTyped, SubscribeTyped, UnsubscribeTyped DEF Message
  <1>2. ASSUME NEW p \in Peers, HandlerStep(p) PROVE TypeOK' /\ Linked'
    BY <1>2, CloseHeldTyped, JoinedTyped, LeftTyped, StartFailsTyped, RegisterTyped,
       StopEndsTyped, StoppedTyped, ResumeCancelTyped, ResumeCloseTyped, ResumeDetachTyped, ResumedTyped,
       SubBuildTyped, SubInsertTyped, SubAttachTyped, SubEncodeTyped, ViewerGoneTyped,
       UnsubCloseTyped, DropTyped, ClosingTyped
       DEF HandlerStep
  <1>3. ASSUME NEW p \in Peers, Timer(p) PROVE TypeOK' /\ Linked'
    BY <1>3, TimerExpiresTyped, TimerEndsTyped DEF Timer
  <1>4. ASSUME NEW s \in Sessions, Video(s) PROVE TypeOK' /\ Linked'
    BY <1>4, VideoCheckTyped, VideoReadTyped, VideoAnnounceTyped, VideoIdleCheckTyped,
       VideoPauseTyped
       DEF Video
  <1>5. ASSUME NEW s \in Sessions, PubLost(s) PROVE TypeOK' /\ Linked'
    BY <1>5, PubLostFindTyped, PubLostEndsTyped DEF PubLost
  <1>6. ASSUME NEW s \in Sessions, EndSession(s) PROVE TypeOK' /\ Linked'
    BY <1>6, EndCancelTyped, EndCloseTyped, EndCloseSubTyped, EndDetachSubTyped, EndClearTyped
       DEF EndSession
  <1>7. ASSUME NEW u \in Subs, OnClosed(u) PROVE TypeOK' /\ Linked'
    BY <1>7, CloserLookupTyped, CloserDetachTyped, CloserDropTyped, CloserPauseTyped
       DEF OnClosed
  <1>8. CASE UNCHANGED vars
    BY <1>8
       DEF vars, roomVars, TypeOK, Linked, SubLinked, CloserLinked, HandlerLinked, TimerLinked
  <1> QED
    BY <1>1, <1>2, <1>3, <1>4, <1>5, <1>6, <1>7, <1>8, JoinTyped, LeaveTyped, FirstVideoTyped,
       PubPcFailsTyped, SubPcFailsTyped
       DEF Next

\* The variables have their types in every behaviour of the room.
THEOREM TypeCorrect == Safety => []TypeOK
  <1>1. Init => TypeOK /\ Linked
    BY InitTyped
  <1>2. TypeOK /\ Linked /\ [Next]_vars => TypeOK' /\ Linked'
    BY TypeStep
  <1> QED BY <1>1, <1>2, PTL DEF Safety

-------------------------------------------------------------------------------
(* Who owns a share.                                                       *)

\* A share that was registered, and may since have ended.
Known(s) == s \in tokens \/ session[s].closed

\* Whoever may still end a share, or arm its window, found it registered.
TimerKnown == \A p \in Peers :
    timer[p].state \in {"armed", "expired"} => Known(timer[p].session)
HandlerKnown == \A p \in Peers :
    (\/ handler[p].at = "stop"
     \/ handler[p].at = "leave" /\ handler[p].session # NoSession) => Known(handler[p].session)
LostKnown == \A s \in Sessions : lost[s] = "end" => Known(s)

\* Start registers a session once: its PC is made first.
KnownIsBuilt == \A s \in Sessions : Known(s) => session[s].pc # "none"

\* Only an ended share is torn down, under the publisher it ended with.
EndingIsClosed == \A s \in Sessions : ending[s].at # "no" => session[s].closed
EndingKeepsOwner == \A s \in Sessions :
    ending[s].at \in {"subs", "detach"} => ending[s].publisher = session[s].publisherId

\* A connection joins once, before it handles anything; an absent one owns nothing.
PeersJoined == \A p \in Peers :
    (p \in peers \/ handler[p].at # "idle") => conn[p] # "new"
AbsentOwnsNothing == \A p \in Peers \ peers : screenSession[p] = NoSession
OwnersJoined == \A s \in tokens :
    session[s].publisherId \in Peers /\ conn[session[s].publisherId] # "new"

\* The inductive invariant.
Owned ==
    /\ TimerKnown /\ HandlerKnown /\ LostKnown
    /\ KnownIsBuilt /\ EndingIsClosed /\ EndingKeepsOwner
    /\ PeersJoined /\ AbsentOwnsNothing /\ OwnersJoined
    /\ OwnedShareIsLive /\ OwnerKnowsItsShare

-----------------------------------------------------------------------------
(* Steps that leave ownership alone.                                        *)

\* A handler goes on, on a connection that joined, without holding a share to end.
HandlersQuiet == \A p \in Peers :
    \/ handler'[p].at = handler[p].at /\ handler'[p].session = handler[p].session
    \/ conn[p] # "new" /\ handler'[p].at \notin {"stop", "leave"}

\* Sessions may gain or lose viewers and windows; PCs may close.
SessionsQuiet == \A s \in Sessions :
    /\ session'[s].publisherId = session[s].publisherId
    /\ session'[s].closed = session[s].closed
    /\ session[s].pc # "none" => session'[s].pc # "none"

\* No teardown begins, and those under way know their publisher.
EndingsQuiet == \A s \in Sessions :
    /\ ending'[s].at # "no" => ending[s].at # "no"
    /\ ending'[s].at \in {"subs", "detach"} => ending'[s].publisher = session[s].publisherId

\* No window is armed; some may be cancelled.
TimersGoOn == \A p \in Peers : timer'[p].state \in {"armed", "expired"} =>
    timer[p].state \in {"armed", "expired"} /\ timer'[p].session = timer[p].session

Quiet ==
    /\ UNCHANGED <<conn, peers, screenSession, tokens>> /\ TimersGoOn
    /\ HandlersQuiet /\ SessionsQuiet /\ EndingsQuiet
    /\ \A s \in Sessions : lost'[s] = "end" => lost[s] = "end" \/ s \in tokens

\* Such a step keeps ownership.
LEMMA QuietKeeps ==
  ASSUME TypeOK, TypeOK', Linked, Owned, Quiet
  PROVE Owned'
  <1>1. TimerKnown'
    BY DEF Owned, Quiet, TimerKnown, TimersGoOn, Known, SessionsQuiet, TimerLinked, Linked
  <1>2. HandlerKnown'
    BY HandlerType
       DEF Owned, Quiet, HandlerKnown, Known, Handler, SessionOrNone, HandlersQuiet,
           SessionsQuiet, HandlerLinked, Linked
  <1>3. LostKnown'
    BY DEF Owned, Quiet, LostKnown, Known, SessionsQuiet
  <1>4. KnownIsBuilt'
    BY DEF Owned, Quiet, KnownIsBuilt, Known, SessionsQuiet
  <1>5. EndingIsClosed'
    BY DEF Owned, Quiet, EndingIsClosed, EndingsQuiet, SessionsQuiet
  <1>6. EndingKeepsOwner'
    BY DEF Owned, Quiet, EndingsQuiet, SessionsQuiet, EndingKeepsOwner
  <1>7. PeersJoined'
    BY DEF Owned, Quiet, PeersJoined, HandlersQuiet
  <1>8. AbsentOwnsNothing'
    BY DEF Owned, Quiet, AbsentOwnsNothing
  <1>9. OwnersJoined'
    BY TokensType DEF Owned, Quiet, OwnersJoined, SessionsQuiet
  <1>10. OwnedShareIsLive'
    BY PeersType, ScreenSessionType, TokensType
       DEF Owned, Quiet, OwnedShareIsLive, SessionsQuiet, SessionOrNone
  <1>11. OwnerKnowsItsShare'
    BY TokensType DEF Owned, Quiet, OwnerKnowsItsShare, Live, SessionsQuiet
  <1> QED BY <1>1, <1>2, <1>3, <1>4, <1>5, <1>6, <1>7, <1>8, <1>9, <1>10, <1>11 DEF Owned

\* A handler that goes on, on a connection that joined, and a session that keeps its
\* publisher: enough for a handler's step to be quiet.
LEMMA HandlerQuiet ==
  ASSUME TypeOK, Owned, NEW p \in Peers, handler[p].at # "idle" \/ Ready(p),
         handler'[p].at \notin {"stop", "leave"},
         \A q \in Peers \ {p} : handler'[q] = handler[q],
         UNCHANGED <<conn, peers, screenSession, tokens, ending, lost>>, TimersGoOn,
         SessionsQuiet
  PROVE Quiet
  <1>1. conn[p] # "new"
    BY DEF Ready, Owned, PeersJoined
  <1> QED BY <1>1 DEF Quiet, HandlersQuiet, EndingsQuiet, Owned, EndingKeepsOwner

\* Joining, starting, stopping and resuming: the sections that move no share.
LEMMA PublisherQuiet ==
  ASSUME TypeOK, Owned, NEW p \in Peers,
         \/ Start(p) \/ StartFails(p) \/ Joined(p) \/ Stopped(p)
         \/ ResumeCancel(p) \/ ResumeClose(p) \/ ResumeDetach(p) \/ Resumed(p)
  PROVE Quiet
  <1>1. handler'[p].at \in {"startSetup", "idle", "resumeDetach", "resume"}
    <2>1. CASE Return(p)
      BY <2>1, HandlerType DEF Return, Idle
    <2>2. CASE Start(p) \/ ResumeCancel(p) \/ ResumeDetach(p)
      BY <2>2, HandlerType DEF Start, ResumeCancel, ResumeDetach, Handler
    <2>3. CASE ResumeClose(p)
      <3>1. \E u, w, left : handler' = [handler EXCEPT ![p].at = "resumeDetach", ![p].sub = u,
                                                       ![p].wait = w, ![p].todo = left]
        BY <2>3 DEF ResumeClose
      <3> QED BY <3>1, HandlerType DEF Handler
    <2> QED BY <2>1, <2>2, <2>3 DEF StartFails, Joined, Stopped, Resumed
  <1>2. \A q \in Peers \ {p} : handler'[q] = handler[q]
    BY HandlerType DEF Start, StartFails, Joined, Stopped, ResumeCancel, ResumeClose,
       ResumeDetach, Resumed, Return
  <1>3. /\ handler[p].at # "idle" \/ Ready(p)
        /\ UNCHANGED <<conn, peers, screenSession, tokens, session, ending, lost>>
    BY DEF Start, StartFails, Joined, Stopped, ResumeCancel, ResumeClose, ResumeDetach, Resumed,
       roomVars
  <1>4. TimersGoOn
    <2>1. CASE ResumeCancel(p)
      BY <2>1, TasksType, CancelKeeps DEF ResumeCancel, TimersGoOn
    <2>2. CASE ~ResumeCancel(p)
      BY <2>2 DEF Start, StartFails, Joined, Stopped, ResumeClose, ResumeDetach, Resumed,
         TimersGoOn
    <2> QED BY <2>1, <2>2
  <1> QED BY <1>1, <1>2, <1>3, <1>4, HandlerQuiet DEF SessionsQuiet

\* Subscribing and unsubscribing: a viewer comes or goes.
LEMMA ViewerQuiet ==
  ASSUME TypeOK, Owned, NEW p \in Peers,
         \/ \E k \in Publishers : Subscribe(p, k) \/ Unsubscribe(p, k)
         \/ SubBuild(p) \/ SubInsert(p) \/ SubAttach(p) \/ SubEncode(p)
         \/ ViewerGone(p) \/ UnsubClose(p) \/ Drop(p) \/ Closing(p)
  PROVE Quiet
  <1>1. handler'[p].at \notin {"stop", "leave"}
    <2>1. CASE Return(p)
      BY <2>1, HandlerType DEF Return, Idle
    <2>2. CASE \E k \in Publishers : Subscribe(p, k) \/ Unsubscribe(p, k)
      <3>1. PICK k \in Publishers : Subscribe(p, k) \/ Unsubscribe(p, k)
        BY <2>2
      <3>2. CASE Subscribe(p, k)
        BY <3>2, HandlerType DEF Subscribe, Handler
      <3>3. CASE Unsubscribe(p, k)
        BY <3>3, HandlerType DEF Unsubscribe, Handler
      <3> QED BY <3>1, <3>2, <3>3
    <2>3. CASE SubBuild(p)
      <3>1. \E u, k : handler' = [handler EXCEPT ![p].at = "subInsert", ![p].sub = u,
                                                ![p].publisher = k]
        BY <2>3 DEF SubBuild
      <3> QED BY <3>1, HandlerType DEF Handler
    <2>4. CASE SubInsert(p)
      <3>1. CASE handler'[p].at = "closing"
        BY <3>1
      <3>2. CASE handler'[p].at # "closing"
        BY <2>4, <3>2, HandlerType DEF SubInsert, Handler
      <3> QED BY <3>1, <3>2
    <2>5. CASE SubAttach(p) \/ ViewerGone(p)
      BY <2>5, HandlerType DEF SubAttach, ViewerGone, Handler
    <2>6. CASE UnsubClose(p)
      BY <2>6, HandlerType DEF UnsubClose, Handler
    <2>7. CASE Drop(p)
      BY <2>7, HandlerType DEF Drop, Handler
    <2> QED BY <2>1, <2>2, <2>3, <2>4, <2>5, <2>6, <2>7 DEF SubEncode, Closing
  <1>2. \A q \in Peers \ {p} : handler'[q] = handler[q]
    BY HandlerType DEF Subscribe, Unsubscribe, SubBuild, SubInsert, SubAttach, SubEncode,
       ViewerGone, UnsubClose, Drop, Closing, Return
  <1>3. /\ handler[p].at # "idle" \/ Ready(p)
        /\ UNCHANGED <<conn, peers, screenSession, tokens, timer, ending, lost>>
    BY DEF Subscribe, Unsubscribe, SubBuild, SubInsert, SubAttach, SubEncode, ViewerGone,
       UnsubClose, Drop, Closing, roomVars
  <1>4. SessionsQuiet
    <2>1. \/ UNCHANGED session
          \/ \E s, u : session' = [session EXCEPT ![s].subscribers[p] = u]
      BY DEF Subscribe, Unsubscribe, SubBuild, SubInsert, SubAttach, SubEncode, ViewerGone,
         UnsubClose, Drop, Closing, Without
    <2> QED BY <2>1, SessionType DEF SessionsQuiet, Session
  <1>5. TimersGoOn
    BY <1>3 DEF TimersGoOn
  <1> QED BY <1>1, <1>2, <1>3, <1>4, <1>5, HandlerQuiet

\* A join or a leave closes the PCs it found, still holding its session.
LEMMA CloseHeldQuiet ==
  ASSUME TypeOK, Owned, NEW p \in Peers, CloseHeld(p)
  PROVE Quiet
  <1>1. HandlersQuiet
    BY HandlerType DEF CloseHeld, Handler, HandlersQuiet
  <1> QED
    BY <1>1 DEF CloseHeld, roomVars, Quiet, SessionsQuiet, EndingsQuiet, TimersGoOn, Owned,
       EndingKeepsOwner

\* A share's first packet, a viewer PC that dies, and on_closed of a viewer's PC.
LEMMA CallbackQuiet ==
  ASSUME TypeOK, Owned,
         \/ \E s \in Sessions : FirstVideo(s) \/ Video(s)
         \/ \E u \in Subs : SubPcFails(u) \/ OnClosed(u)
  PROVE Quiet
  <1>1. UNCHANGED <<conn, peers, screenSession, tokens, timer, handler, ending, lost>>
    BY DEF FirstVideo, Video, VideoCheck, VideoRead, VideoAnnounce, VideoIdleCheck,
           VideoPause,
       SubPcFails, OnClosed, CloserLookup, CloserDetach, CloserDrop, CloserPause, roomVars
  <1>2. \/ UNCHANGED session
        \/ \E s, v : session' = [session EXCEPT ![s].subscribers[v] = NoSub]
    BY DEF FirstVideo, Video, VideoCheck, VideoRead, VideoAnnounce, VideoIdleCheck,
           VideoPause,
       SubPcFails, OnClosed, CloserLookup, CloserDetach, CloserDrop, CloserPause, Without
  <1>3. SessionsQuiet
    BY <1>2, SessionType DEF SessionsQuiet, Session
  <1> QED
    BY <1>1, <1>3 DEF Quiet, HandlersQuiet, EndingsQuiet, TimersGoOn, Owned, EndingKeepsOwner

\* A publisher PC dies, and its task finds the session by its token.
LEMMA PubPcQuiet ==
  ASSUME TypeOK, Owned, NEW s \in Sessions, PubPcFails(s) \/ PubLostFind(s)
  PROVE Quiet
  <1>1. /\ UNCHANGED <<conn, peers, screenSession, tokens, timer, handler, ending>>
        /\ session' = session \/ session' = [session EXCEPT ![s].pc = "closed"]
    BY DEF PubPcFails, PubLostFind, roomVars
  <1>2. SessionsQuiet
    BY <1>1, SessionType DEF SessionsQuiet, Session
  <1>3. \A t \in Sessions : lost'[t] = "end" => lost[t] = "end" \/ t \in tokens
    BY LostType DEF PubPcFails, PubLostFind
  <1> QED
    BY <1>1, <1>2, <1>3 DEF Quiet, HandlersQuiet, EndingsQuiet, TimersGoOn, Owned,
       EndingKeepsOwner

\* end_screen_share_session cancels the window and closes its PCs: the publisher is read
\* once it has ended.
LEMMA EndingQuiet ==
  ASSUME TypeOK, Owned, NEW s \in Sessions,
         EndCancel(s) \/ EndClose(s) \/ EndCloseSub(s) \/ EndDetachSub(s)
  PROVE Quiet
  <1>1. /\ UNCHANGED <<conn, peers, screenSession, tokens, handler>>
        /\ session' = session \/ session' = [session EXCEPT ![s].pc = "closed"]
    BY DEF EndCancel, EndClose, EndCloseSub, EndDetachSub, roomVars
  <1>5. TimersGoOn
    <2>1. CASE EndCancel(s)
      BY <2>1, TasksType, CancelKeeps DEF EndCancel, TimersGoOn
    <2>2. CASE ~EndCancel(s)
      BY <2>2 DEF EndClose, EndCloseSub, EndDetachSub, TimersGoOn
    <2> QED BY <2>1, <2>2
  <1>2. SessionsQuiet
    BY <1>1, SessionType DEF SessionsQuiet, Session
  <1>3. EndingsQuiet
    <2>1. CASE EndClose(s)
      BY <2>1, EndingType, SessionType DEF EndClose, Ending, Session, EndingsQuiet, Owned,
         EndingKeepsOwner
    <2>2. CASE EndCloseSub(s)
      <3>1. \E u, w, left : ending' = [ending EXCEPT ![s].at = "detach", ![s].sub = u,
                                                     ![s].wait = w, ![s].todo = left]
        BY <2>2 DEF EndCloseSub
      <3>2. ending[s].at = "subs"
        BY <2>2 DEF EndCloseSub
      <3> QED BY <3>1, <3>2, EndingType DEF Ending, EndingsQuiet, Owned, EndingKeepsOwner
    <2>3. CASE EndDetachSub(s)
      BY <2>3, EndingType DEF EndDetachSub, Ending, EndingsQuiet, Owned, EndingKeepsOwner
    <2>4. CASE EndCancel(s)
      BY <2>4, EndingType DEF EndCancel, Ending, EndingsQuiet, Owned, EndingKeepsOwner
    <2> QED BY <2>1, <2>2, <2>3, <2>4
  <1>4. \A t \in Sessions : lost'[t] = "end" => lost[t] = "end"
    BY LostType DEF EndCancel, EndClose, EndCloseSub, EndDetachSub
  <1> QED BY <1>1, <1>2, <1>3, <1>4, <1>5 DEF Quiet, HandlersQuiet

-----------------------------------------------------------------------------
(* Steps that move or end a share, or bring a peer or take it away.         *)

\* Nobody newly comes to hold a share it may end, and no share is forgotten.
KnownKept == \A s \in Sessions : Known(s) => Known(s)'
HandlersGoOn == \A p \in Peers :
    \/ handler'[p].at = handler[p].at /\ handler'[p].session = handler[p].session
    \/ handler'[p].at \notin {"stop", "leave"}
LostGoesOn == \A s \in Sessions : lost'[s] = "end" => lost[s] = "end"

\* The threads of such a step still know the shares they hold.
LEMMA ThreadsKept ==
  ASSUME TypeOK, Linked, Owned, KnownKept
  PROVE /\ TimersGoOn => TimerKnown'
        /\ HandlersGoOn => HandlerKnown'
        /\ LostGoesOn => LostKnown'
  <1>1. TimersGoOn => TimerKnown'
    BY DEF KnownKept, TimersGoOn, TimerKnown, Owned, TimerLinked, Linked, Known
  <1>2. HandlersGoOn => HandlerKnown'
    BY HandlerType DEF KnownKept, HandlersGoOn, HandlerKnown, Owned, Handler, SessionOrNone,
       HandlerLinked, Linked, Known
  <1>3. LostGoesOn => LostKnown'
    BY DEF KnownKept, LostGoesOn, LostKnown, Owned, Known
  <1> QED BY <1>1, <1>2, <1>3

\* What the first section of end_screen_share_session changes.
LEMMA EndBeginKeeps ==
  ASSUME TypeOK, NEW s \in Sessions, EndBegin(s)
  PROVE /\ \A t \in Sessions : /\ session'[t].publisherId = session[t].publisherId
                               /\ session'[t].pc = session[t].pc
                               /\ session'[t].closed <=> session[t].closed \/ t = s
        /\ \A t \in Sessions : ending'[t] = ending[t] \/ (ending'[t].at = "cancel" /\ t = s)
  <1>1. CASE session[s].closed
    BY <1>1, SessionType DEF EndBegin, Session
  <1>2. CASE ~session[s].closed
    <2>1. session' = [session EXCEPT ![s].closed = TRUE, ![s].grace = NoPeer,
                                     ![s].subscribers = NoSubs]
      BY <1>2 DEF EndBegin
    <2>2. ending' = [ending EXCEPT ![s] = EndingAt("cancel", session[s].grace,
                                                   PcsIn(session[s].subscribers))]
      BY <1>2 DEF EndBegin
    <2>4. \A t \in Sessions : /\ session'[t].publisherId = session[t].publisherId
                              /\ session'[t].pc = session[t].pc
                              /\ session'[t].closed <=> session[t].closed \/ t = s
      BY <2>1, <1>2, SessionType DEF Session
    <2>5. \A t \in Sessions : ending'[t] = ending[t] \/ (ending'[t].at = "cancel" /\ t = s)
      BY <2>2, EndingType DEF EndingAt
    <2> QED BY <2>4, <2>5
  <1> QED BY <1>1, <1>2

\* Ending a share, by whichever thread, keeps ownership.
LEMMA EndBeginOwned ==
  ASSUME TypeOK, TypeOK', Linked, Owned, NEW s \in Sessions, EndBegin(s), Known(s),
         UNCHANGED <<conn, peers, screenSession, tokens>>, HandlersQuiet, LostGoesOn, TimersGoOn
  PROVE Owned'
  <1> DEFINE Kept == \A t \in Sessions : /\ session'[t].publisherId = session[t].publisherId
                                         /\ session'[t].pc = session[t].pc
                                         /\ session'[t].closed <=> session[t].closed \/ t = s
  <1>1. Kept
    BY EndBeginKeeps
  <1>2. \A t \in Sessions : ending'[t] = ending[t] \/ (ending'[t].at = "cancel" /\ t = s)
    BY EndBeginKeeps
  <1>4. KnownKept
    BY <1>1 DEF KnownKept, Known
  <1>5. TimerKnown' /\ HandlerKnown' /\ LostKnown'
    BY <1>4, ThreadsKept DEF HandlersQuiet, HandlersGoOn
  <1>6. KnownIsBuilt'
    BY <1>1 DEF Owned, KnownIsBuilt, Known
  <1>7. EndingIsClosed'
    BY <1>1, <1>2 DEF Owned, EndingIsClosed
  <1>8. EndingKeepsOwner'
    BY <1>1, <1>2 DEF Owned, EndingKeepsOwner
  <1>9. PeersJoined' /\ AbsentOwnsNothing'
    BY DEF Owned, PeersJoined, AbsentOwnsNothing, HandlersQuiet
  <1>10. OwnersJoined'
    BY <1>1, TokensType DEF Owned, OwnersJoined
  <1>11. OwnedShareIsLive'
    BY <1>1, PeersType, ScreenSessionType DEF Owned, OwnedShareIsLive, SessionOrNone
  <1>12. OwnerKnowsItsShare'
    BY <1>1, TokensType DEF Owned, OwnerKnowsItsShare, Live
  <1> QED BY <1>5, <1>6, <1>7, <1>8, <1>9, <1>10, <1>11, <1>12 DEF Owned

\* screen-share-stop ends the share its entry showed.
LEMMA StopEndsOwned ==
  ASSUME TypeOK, TypeOK', Linked, Owned, NEW p \in Peers, StopEnds(p)
  PROVE Owned'
  <1>1. handler[p].session \in Sessions /\ Known(handler[p].session)
    BY DEF StopEnds, Linked, HandlerLinked, Owned, HandlerKnown
  <1>2. HandlersQuiet
    <2>1. handler'[p].at \in {"idle", "ending"}
      BY HandlerType DEF StopEnds, Return, Idle, Handler
    <2>2. \A q \in Peers \ {p} : handler'[q] = handler[q]
      BY HandlerType DEF StopEnds, Return
    <2>3. conn[p] # "new"
      BY DEF StopEnds, Owned, PeersJoined
    <2> QED BY <2>1, <2>2, <2>3 DEF HandlersQuiet
  <1>3. EndBegin(handler[p].session) /\ TimersGoOn /\ LostGoesOn
    BY DEF StopEnds, TimersGoOn, LostGoesOn
  <1>4. UNCHANGED <<conn, peers, screenSession, tokens>>
    BY DEF StopEnds, roomVars
  <1> QED BY <1>1, <1>2, <1>3, <1>4, EndBeginOwned

\* The grace task ends the share it was armed for.
LEMMA TimerEndsOwned ==
  ASSUME TypeOK, TypeOK', Linked, Owned, NEW p \in Peers, TimerEnds(p)
  PROVE Owned'
  <1>1. timer[p].session \in Sessions /\ Known(timer[p].session)
    BY DEF TimerEnds, Linked, TimerLinked, Owned, TimerKnown
  <1>2. TimersGoOn
    BY TasksType DEF TimerEnds, TimersGoOn, Tasks, Task
  <1>3. UNCHANGED <<conn, peers, screenSession, tokens>> /\ HandlersQuiet /\ LostGoesOn
    BY DEF TimerEnds, roomVars, HandlersQuiet, LostGoesOn
  <1>4. EndBegin(timer[p].session)
    BY DEF TimerEnds
  <1> QED BY <1>1, <1>2, <1>3, <1>4, EndBeginOwned

\* The task of a lost publisher PC ends the share it found by its token.
LEMMA PubLostEndsOwned ==
  ASSUME TypeOK, TypeOK', Linked, Owned, NEW s \in Sessions, PubLostEnds(s)
  PROVE Owned'
  <1>1. Known(s)
    BY DEF PubLostEnds, Owned, LostKnown
  <1>2. LostGoesOn
    BY LostType DEF PubLostEnds, LostGoesOn
  <1>3. UNCHANGED <<conn, peers, screenSession, tokens>> /\ HandlersQuiet /\ TimersGoOn
    BY DEF PubLostEnds, roomVars, HandlersQuiet, TimersGoOn
  <1> QED BY <1>1, <1>2, <1>3, EndBeginOwned DEF PubLostEnds

\* The end drops the token of a share that is closed, and the flag it left.
LEMMA EndClearOwned ==
  ASSUME TypeOK, TypeOK', Linked, Owned, NEW s \in Sessions, EndClear(s)
  PROVE Owned'
  <1>1. session[s].closed /\ ending[s].publisher = session[s].publisherId
    BY DEF EndClear, Owned, EndingIsClosed, EndingKeepsOwner
  <1>2. UNCHANGED <<conn, peers, session, timer, handler, lost>> /\ tokens' = tokens \ {s}
    BY DEF EndClear
  <1>3. KnownKept
    BY <1>1, <1>2 DEF KnownKept, Known
  <1>4. TimerKnown' /\ HandlerKnown' /\ LostKnown'
    BY <1>2, <1>3, ThreadsKept DEF TimersGoOn, HandlersGoOn, LostGoesOn
  <1>5. KnownIsBuilt'
    BY <1>2 DEF Owned, KnownIsBuilt, Known
  <1>6. EndingIsClosed' /\ EndingKeepsOwner'
    BY <1>2, EndingType DEF EndClear, EndingAt, Owned, EndingIsClosed, EndingKeepsOwner
  <1>7. PeersJoined' /\ OwnersJoined'
    BY <1>2 DEF Owned, PeersJoined, OwnersJoined
  <1>8. AbsentOwnsNothing'
    BY <1>2, ScreenSessionType DEF EndClear, Owned, AbsentOwnsNothing
  <1>9. OwnedShareIsLive'
    BY <1>1, <1>2, ScreenSessionType, PeersType DEF EndClear, Owned, OwnedShareIsLive
  <1>10. OwnerKnowsItsShare'
    BY <1>1, <1>2, ScreenSessionType, PeersType DEF EndClear, Owned, OwnerKnowsItsShare, Live
  <1> QED BY <1>4, <1>5, <1>6, <1>7, <1>8, <1>9, <1>10 DEF Owned

\* A grace task's sleep ends.
LEMMA TimerExpiresOwned ==
  ASSUME TypeOK, TypeOK', Linked, Owned, NEW p \in Peers, TimerExpires(p)
  PROVE Owned'
  <1>1. TimersGoOn
    BY TasksType DEF TimerExpires, TimersGoOn, Tasks, Task
  <1>2. KnownKept /\ HandlersGoOn /\ LostGoesOn
    BY DEF TimerExpires, roomVars, KnownKept, HandlersGoOn, LostGoesOn, Known
  <1>3. TimerKnown' /\ HandlerKnown' /\ LostKnown'
    BY <1>1, <1>2, ThreadsKept
  <1> QED
    BY <1>3 DEF TimerExpires, roomVars, Owned, KnownIsBuilt, Known, EndingIsClosed,
       EndingKeepsOwner, PeersJoined, AbsentOwnsNothing, OwnersJoined, OwnedShareIsLive,
       OwnerKnowsItsShare, Live

\* add_peer: the newcomer owns nothing yet, and those it replaces own nothing any more.
LEMMA JoinOwned ==
  ASSUME TypeOK, TypeOK', Linked, Owned, NEW p \in Peers, Join(p)
  PROVE Owned'
  <1> DEFINE E == Evicted(p)
  <1>1. /\ conn' = [conn EXCEPT ![p] = "open"] /\ peers' = (peers \ E) \cup {p}
        /\ screenSession' = [q \in Peers |-> IF q \in E THEN NoSession ELSE screenSession[q]]
        /\ handler' = [handler EXCEPT ![p].at = "evict", ![p].todo = SubsOf(E)]
    BY DEF Join, RemoveEntries
  <1>2. UNCHANGED <<tokens, session, timer, ending, lost>>
    BY DEF Join
  <1>3. conn[p] = "new" /\ p \notin peers
    BY DEF Join, Owned, PeersJoined
  <1>4. HandlersGoOn
    BY <1>1, HandlerType DEF HandlersGoOn, Handler
  <1>5. KnownKept /\ TimersGoOn /\ LostGoesOn
    BY <1>2 DEF KnownKept, Known, TimersGoOn, LostGoesOn
  <1>6. TimerKnown' /\ HandlerKnown' /\ LostKnown'
    BY <1>4, <1>5, ThreadsKept
  <1>7. KnownIsBuilt' /\ EndingIsClosed' /\ EndingKeepsOwner'
    BY <1>2 DEF Owned, KnownIsBuilt, Known, EndingIsClosed, EndingKeepsOwner
  <1>8. PeersJoined'
    BY <1>1, ConnType, HandlerType DEF Owned, PeersJoined
  <1>9. AbsentOwnsNothing'
    BY <1>1 DEF Owned, AbsentOwnsNothing
  <1>10. OwnersJoined'
    BY <1>1, <1>2, ConnType DEF Owned, OwnersJoined
  <1>11. OwnedShareIsLive'
    BY <1>1, <1>2, <1>3, PeersType DEF Owned, OwnedShareIsLive, AbsentOwnsNothing
  <1>12. OwnerKnowsItsShare'
    <2> SUFFICES ASSUME NEW s \in tokens, ~session[s].closed, session[s].publisherId \in peers'
                 PROVE screenSession'[session[s].publisherId] = s
      BY <1>2 DEF OwnerKnowsItsShare, Live
    <2>1. session[s].publisherId # p
      BY <1>3 DEF Owned, OwnersJoined
    <2>2. session[s].publisherId \in peers \ E
      BY <2>1, <1>1
    <2>3. screenSession[session[s].publisherId] = s
      BY <2>2 DEF Owned, OwnerKnowsItsShare, Live
    <2> QED BY <1>1, <2>2, <2>3, PeersType
  <1> QED BY <1>6, <1>7, <1>8, <1>9, <1>10, <1>11, <1>12 DEF Owned

\* remove_peer: the entry goes, and its session is one that was registered.
LEMMA LeaveOwned ==
  ASSUME TypeOK, TypeOK', Linked, Owned, NEW p \in Peers, Leave(p)
  PROVE Owned'
  <1>1. /\ peers' = peers \ {p} /\ conn[p] = "open"
        /\ screenSession' = [q \in Peers |-> IF q \in {p} THEN NoSession ELSE screenSession[q]]
        /\ UNCHANGED <<tokens, session, timer, ending, lost>>
    BY DEF Leave, RemoveEntries, Ready
  <1>2. conn' = conn \/ conn' = [conn EXCEPT ![p] = "gone"]
    BY DEF Leave
  <1>3. KnownKept /\ TimersGoOn /\ LostGoesOn
    BY <1>1 DEF KnownKept, Known, TimersGoOn, LostGoesOn
  <1>4. TimerKnown' /\ LostKnown'
    BY <1>3, ThreadsKept
  <1>5. HandlerKnown'
    <2>1. CASE p \in peers
      <3>1. handler'[p].at = "leave" /\ handler'[p].session = screenSession[p]
        BY <2>1, HandlerType DEF Leave, Handler
      <3>2. \A q \in Peers \ {p} : handler'[q] = handler[q]
        BY <2>1, HandlerType DEF Leave
      <3>3. screenSession[p] # NoSession => Known(screenSession[p])
        BY <2>1 DEF Owned, OwnedShareIsLive, Known
      <3> QED BY <3>1, <3>2, <3>3, <1>1 DEF HandlerKnown, Owned, Known
    <2>2. CASE p \notin peers
      BY <2>2, <1>1 DEF Leave, HandlerKnown, Owned, Known
    <2> QED BY <2>1, <2>2
  <1>6. KnownIsBuilt' /\ EndingIsClosed' /\ EndingKeepsOwner'
    BY <1>1 DEF Owned, KnownIsBuilt, Known, EndingIsClosed, EndingKeepsOwner
  <1>7. PeersJoined'
    <2>1. \A q \in Peers \ {p} : handler'[q] = handler[q]
      BY HandlerType DEF Leave
    <2> QED BY <2>1, <1>1, <1>2, ConnType DEF Owned, PeersJoined
  <1>8. AbsentOwnsNothing'
    BY <1>1 DEF Owned, AbsentOwnsNothing
  <1>9. OwnersJoined'
    BY <1>1, <1>2, ConnType DEF Owned, OwnersJoined
  <1>10. OwnedShareIsLive'
    BY <1>1, PeersType DEF Owned, OwnedShareIsLive
  <1>11. OwnerKnowsItsShare'
    BY <1>1, PeersType DEF Owned, OwnerKnowsItsShare, Live
  <1> QED BY <1>4, <1>5, <1>6, <1>7, <1>8, <1>9, <1>10, <1>11 DEF Owned

\* remove_peer's second section: the window is armed for a share that was registered.
LEMMA LeftOwned ==
  ASSUME TypeOK, TypeOK', Linked, Owned, NEW p \in Peers, Left(p)
  PROVE Owned'
  <1> DEFINE s == handler[p].session
  <1>1. /\ UNCHANGED <<peers, screenSession, tokens, ending, lost>>
        /\ conn' = [conn EXCEPT ![p] = "gone"] /\ handler' = [handler EXCEPT ![p] = Idle]
        /\ handler[p].at = "leave" /\ ArmGrace(s, p)
    BY DEF Left, Return
  <1>2. SessionsQuiet
    BY <1>1, SessionType DEF ArmGrace, SessionsQuiet, Session
  <1>3. \A t \in Sessions : Known(t) <=> Known(t)'
    BY <1>1, <1>2 DEF SessionsQuiet, Known
  <1>4. TimerKnown'
    <2>1. CASE UNCHANGED timer
      BY <2>1, <1>3 DEF Owned, TimerKnown, TimerLinked, Linked
    <2>2. CASE s # NoSession /\ timer' = [Cancel(timer, session[s].grace) EXCEPT
                                            ![p] = [state |-> "armed", session |-> s]]
      <3>1. s \in Sessions /\ Known(s)
        BY <2>2, <1>1, HandlerType DEF Owned, HandlerKnown, Handler, SessionOrNone
      <3>2. Cancel(timer, session[s].grace) \in Tasks
        BY TasksType, CancelTyped
      <3>3. timer'[p].session = s
        BY <2>2, <3>2 DEF Tasks
      <3>4. ASSUME NEW q \in Peers \ {p}
            PROVE /\ timer'[q].session = timer[q].session
                  /\ timer'[q].state \in {timer[q].state, "cancelled"}
        BY <2>2, <3>2, TasksType, CancelKeeps DEF Tasks
      <3> QED BY <3>1, <3>3, <3>4, <1>3 DEF Owned, TimerKnown, TimerLinked, Linked
    <2> QED BY <2>1, <2>2, <1>1 DEF ArmGrace
  <1>5. HandlersGoOn /\ KnownKept /\ LostGoesOn
    BY <1>1, <1>3, HandlerType DEF HandlersGoOn, KnownKept, LostGoesOn, Idle
  <1>6. HandlerKnown' /\ LostKnown'
    BY <1>5, ThreadsKept
  <1>7. KnownIsBuilt' /\ EndingIsClosed' /\ EndingKeepsOwner'
    BY <1>1, <1>2, <1>3
       DEF SessionsQuiet, Owned, KnownIsBuilt, EndingIsClosed, EndingKeepsOwner
  <1>8. PeersJoined' /\ AbsentOwnsNothing'
    BY <1>1, ConnType, HandlerType DEF Owned, PeersJoined, AbsentOwnsNothing, Idle
  <1>9. OwnersJoined'
    BY <1>1, <1>2, ConnType, TokensType DEF SessionsQuiet, Owned, OwnersJoined
  <1>10. OwnedShareIsLive'
    BY <1>1, <1>2, ScreenSessionType, PeersType DEF SessionsQuiet, Owned, OwnedShareIsLive,
       SessionOrNone
  <1>11. OwnerKnowsItsShare'
    BY <1>1, <1>2, TokensType DEF SessionsQuiet, Owned, OwnerKnowsItsShare, Live
  <1> QED BY <1>4, <1>6, <1>7, <1>8, <1>9, <1>10, <1>11 DEF Owned

\* screen-share-start's second section registers a session nobody knew.
LEMMA RegisterOwned ==
  ASSUME TypeOK, TypeOK', Linked, Owned, NEW p \in Peers, Register(p)
  PROVE Owned'
  <1>1. PICK s \in Fresh :
          \/ /\ p \in peers /\ screenSession[p] = NoSession
             /\ screenSession' = [screenSession EXCEPT ![p] = s] /\ tokens' = tokens \cup {s}
             /\ session' = [session EXCEPT ![s].publisherId = p, ![s].pc = "open"]
             /\ UNCHANGED lost
          \/ /\ session' = [session EXCEPT ![s].publisherId = p, ![s].pc = "closed"]
             /\ lost' = [lost EXCEPT ![s] = "find"]
             /\ UNCHANGED <<screenSession, tokens>>
    BY DEF Register
  <1>2. /\ UNCHANGED <<conn, peers, timer, ending>> /\ handler' = [handler EXCEPT ![p] = Idle]
        /\ handler[p].at = "startSetup" /\ conn[p] # "new"
    BY DEF Register, Return, Owned, PeersJoined
  <1>3. s \in Sessions /\ s \notin tokens /\ ~session[s].closed /\ ending[s].at = "no"
    BY EndingType DEF Fresh, Owned, KnownIsBuilt, EndingIsClosed, Known, Ending
  <1>4. /\ \A t \in Sessions \ {s} : session'[t] = session[t]
        /\ session'[s].publisherId = p /\ session'[s].pc # "none"
        /\ session'[s].closed = session[s].closed
    BY <1>1, <1>3, SessionType DEF Session
  <1>5. tokens \subseteq tokens' /\ tokens' \subseteq tokens \cup {s}
    BY <1>1
  <1>6. KnownKept /\ HandlersGoOn /\ TimersGoOn /\ LostGoesOn
    BY <1>1, <1>2, <1>4, <1>5, HandlerType, LostType
       DEF KnownKept, Known, HandlersGoOn, TimersGoOn, LostGoesOn, Idle
  <1>7. TimerKnown' /\ HandlerKnown' /\ LostKnown'
    BY <1>6, ThreadsKept
  <1>8. KnownIsBuilt'
    BY <1>4, <1>5 DEF Owned, KnownIsBuilt, Known
  <1>9. EndingIsClosed' /\ EndingKeepsOwner'
    BY <1>2, <1>3, <1>4 DEF Owned, EndingIsClosed, EndingKeepsOwner
  <1>10. PeersJoined'
    BY <1>2, HandlerType DEF Owned, PeersJoined, Idle
  <1>11. AbsentOwnsNothing'
    BY <1>1, <1>2, ScreenSessionType DEF Owned, AbsentOwnsNothing
  <1>12. OwnersJoined'
    BY <1>2, <1>4, <1>5, TokensType DEF Owned, OwnersJoined
  <1>13. OwnedShareIsLive' /\ OwnerKnowsItsShare'
    <2>1. CASE p \in peers /\ screenSession[p] = NoSession /\ tokens' = tokens \cup {s}
               /\ screenSession' = [screenSession EXCEPT ![p] = s]
      <3>1. OwnedShareIsLive'
        BY <2>1, <1>2, <1>3, <1>4, ScreenSessionType, PeersType DEF Owned, OwnedShareIsLive,
           SessionOrNone
      <3>2. OwnerKnowsItsShare'
        <4> SUFFICES ASSUME NEW t \in tokens', ~session'[t].closed,
                            session'[t].publisherId \in peers
                     PROVE screenSession'[session'[t].publisherId] = t
          BY <1>2 DEF OwnerKnowsItsShare, Live
        <4>1. CASE t = s
          BY <4>1, <2>1, <1>4, ScreenSessionType
        <4>2. CASE t # s
          <5>1. t \in tokens /\ session'[t] = session[t]
            BY <4>2, <2>1, <1>4, TokensType
          <5>2. screenSession[session[t].publisherId] = t
            BY <5>1 DEF Owned, OwnerKnowsItsShare, Live
          <5>3. session[t].publisherId # p
            BY <5>1, <5>2, <2>1, TokensType, ShareConstants
          <5> QED BY <5>1, <5>2, <5>3, <2>1, PeersType, ScreenSessionType
        <4> QED BY <4>1, <4>2
      <3> QED BY <3>1, <3>2
    <2>2. CASE UNCHANGED <<screenSession, tokens>>
      BY <2>2, <1>2, <1>3, <1>4, TokensType, PeersType, ScreenSessionType
         DEF Owned, OwnedShareIsLive, OwnerKnowsItsShare, Live, SessionOrNone
    <2> QED BY <2>1, <2>2, <1>1
  <1> QED BY <1>7, <1>8, <1>9, <1>10, <1>11, <1>12, <1>13 DEF Owned

\* screen-share-stop takes the session its entry shows, which is registered.
LEMMA StopOwned ==
  ASSUME TypeOK, TypeOK', Linked, Owned, NEW p \in Peers, Stop(p)
  PROVE Owned'
  <1>1. /\ UNCHANGED <<conn, peers, screenSession, tokens, session, timer, ending, lost>>
        /\ handler' = [handler EXCEPT ![p].at = "stop", ![p].session = SessionOf(p)]
        /\ conn[p] = "open" /\ p \in peers /\ SessionOf(p) = screenSession[p]
        /\ screenSession[p] # NoSession
    BY DEF Stop, Ready, roomVars, SessionOf
  <1>2. HandlerKnown'
    <2>1. Known(screenSession[p])
      BY <1>1 DEF Owned, OwnedShareIsLive, Known
    <2>2. handler'[p].session = screenSession[p]
      BY <1>1, HandlerType DEF Handler
    <2>3. \A q \in Peers \ {p} : handler'[q] = handler[q]
      BY <1>1, HandlerType
    <2>4. \A q \in Sessions : Known(q) => Known(q)'
      BY <1>1 DEF Known
    <2> QED
      BY <2>1, <2>2, <2>3, <2>4, <1>1, HandlerType, ScreenSessionType
         DEF HandlerKnown, Owned, Handler, SessionOrNone, HandlerLinked, Linked
  <1>3. PeersJoined'
    BY <1>1, HandlerType DEF Owned, PeersJoined
  <1> QED
    BY <1>1, <1>2, <1>3 DEF Owned, TimerKnown, LostKnown, KnownIsBuilt, Known, EndingIsClosed,
       EndingKeepsOwner, AbsentOwnsNothing, OwnersJoined, OwnedShareIsLive,
       OwnerKnowsItsShare, Live

\* screen-share-resume moves a live share to a peer that shares nothing else.
LEMMA ResumeOwned ==
  ASSUME TypeOK, TypeOK', Linked, Owned, NEW p \in Peers, Resume(p)
  PROVE Owned'
  <1>1. PICK s \in Sessions :
          /\ MayClaim(p, s)
          /\ session' = [session EXCEPT ![s].publisherId = p, ![s].grace = NoPeer,
                                        ![s].subscribers = NoSubs]
          /\ screenSession' = [screenSession EXCEPT ![p] = s]
          /\ handler' = [handler EXCEPT ![p].at = "resumeCancel",
                                        ![p].publisher = session[s].publisherId,
                                        ![p].grace = session[s].grace,
                                        ![p].todo = PcsIn(session[s].subscribers)]
    BY DEF Resume
  <1>2. UNCHANGED <<conn, peers, tokens, timer, ending, lost>> /\ conn[p] = "open"
    BY DEF Resume, Ready
  <1>3. /\ \A t \in Sessions \ {s} : session'[t] = session[t]
        /\ session'[s].publisherId = p /\ session'[s].pc = session[s].pc
        /\ session'[s].closed = session[s].closed
    BY <1>1, SessionType DEF Session
  <1>4. /\ s \in tokens /\ ~session[s].closed /\ p \in peers
        /\ session[s].publisherId \in peers => session[s].publisherId = p
        /\ screenSession[p] \in {NoSession, s}
    BY <1>1 DEF MayClaim
  <1>5. KnownKept /\ LostGoesOn
    BY <1>2, <1>3 DEF KnownKept, Known, LostGoesOn
  <1>6. TimersGoOn
    BY <1>2 DEF TimersGoOn
  <1>7. HandlersGoOn
    BY <1>1, HandlerType DEF HandlersGoOn, Handler
  <1>8. TimerKnown' /\ HandlerKnown' /\ LostKnown'
    BY <1>5, <1>6, <1>7, ThreadsKept
  <1>9. KnownIsBuilt' /\ EndingIsClosed' /\ EndingKeepsOwner'
    BY <1>2, <1>3, <1>4 DEF Owned, KnownIsBuilt, Known, EndingIsClosed, EndingKeepsOwner
  <1>10. PeersJoined'
    BY <1>1, <1>2, HandlerType DEF Owned, PeersJoined
  <1>11. AbsentOwnsNothing'
    BY <1>1, <1>2, <1>4, ScreenSessionType DEF Owned, AbsentOwnsNothing
  <1>12. OwnersJoined'
    BY <1>2, <1>3, TokensType DEF Owned, OwnersJoined
  <1>13. ASSUME NEW t \in tokens \ {s}, ~session[t].closed, session[t].publisherId \in peers
         PROVE session[t].publisherId # p
    BY <1>13, <1>4, TokensType, ShareConstants DEF Owned, OwnerKnowsItsShare, Live
  <1>14. OwnedShareIsLive'
    <2> SUFFICES ASSUME NEW q \in peers, screenSession'[q] # NoSession
                 PROVE session'[screenSession'[q]].publisherId = q
                       /\ screenSession'[q] \in tokens
      BY <1>2 DEF OwnedShareIsLive
    <2>1. CASE q = p
      BY <2>1, <1>1, <1>3, <1>4, ScreenSessionType, PeersType
    <2>2. CASE q # p
      <3>1. screenSession'[q] = screenSession[q]
        BY <2>2, <1>1, ScreenSessionType, PeersType
      <3>2. session[screenSession[q]].publisherId = q /\ screenSession[q] \in tokens
        BY <3>1 DEF Owned, OwnedShareIsLive
      <3>3. screenSession[q] # s
        BY <3>2, <2>2, <1>4
      <3> QED BY <3>1, <3>2, <3>3, <1>3, TokensType
    <2> QED BY <2>1, <2>2
  <1>15. OwnerKnowsItsShare'
    <2> SUFFICES ASSUME NEW t \in tokens, ~session'[t].closed, session'[t].publisherId \in peers
                 PROVE screenSession'[session'[t].publisherId] = t
      BY <1>2 DEF OwnerKnowsItsShare, Live
    <2>1. CASE t = s
      BY <2>1, <1>1, <1>3, ScreenSessionType
    <2>2. CASE t # s
      <3>1. session'[t] = session[t]
        BY <2>2, <1>3, TokensType
      <3>2. screenSession[session[t].publisherId] = t /\ session[t].publisherId # p
        BY <2>2, <3>1, <1>13 DEF Owned, OwnerKnowsItsShare, Live
      <3> QED BY <3>1, <3>2, <1>1, ScreenSessionType, PeersType
    <2> QED BY <2>1, <2>2
  <1> QED BY <1>8, <1>9, <1>10, <1>11, <1>12, <1>14, <1>15 DEF Owned

-----------------------------------------------------------------------------
\* The room starts with nothing shared.
LEMMA InitOwned == Init => Owned
  BY NoSubsTyped DEF Init, Idle, EndingAt, Owned, TimerKnown, HandlerKnown, LostKnown,
     KnownIsBuilt, Known, EndingIsClosed, EndingKeepsOwner, PeersJoined, AbsentOwnsNothing,
     OwnersJoined, OwnedShareIsLive, OwnerKnowsItsShare, Live

\* What a step is for ownership: quiet, or one of those that are not.
LEMMA StepKinds ==
  ASSUME TypeOK, Linked, Owned, [Next]_vars
  PROVE \/ Quiet
        \/ \E p \in Peers : \/ Join(p) \/ Leave(p) \/ Left(p) \/ Register(p) \/ Stop(p)
                            \/ StopEnds(p) \/ Resume(p) \/ TimerExpires(p) \/ TimerEnds(p)
        \/ \E s \in Sessions : PubLostEnds(s) \/ EndClear(s)
  <1> DEFINE Loud(p) == \/ Join(p) \/ Leave(p) \/ Left(p) \/ Register(p) \/ Stop(p)
                        \/ StopEnds(p) \/ Resume(p) \/ TimerExpires(p) \/ TimerEnds(p)
  <1>1. ASSUME NEW p \in Peers, Message(p) PROVE Quiet \/ Loud(p)
    BY <1>1, PublisherQuiet, ViewerQuiet DEF Message
  <1>2. ASSUME NEW p \in Peers, HandlerStep(p) PROVE Quiet \/ Loud(p)
    BY <1>2, CloseHeldQuiet, PublisherQuiet, ViewerQuiet DEF HandlerStep
  <1>3. ASSUME NEW p \in Peers, Timer(p) PROVE Loud(p)
    BY <1>3 DEF Timer
  <1>4. ASSUME NEW s \in Sessions, FirstVideo(s) \/ Video(s) PROVE Quiet
    BY <1>4, CallbackQuiet
  <1>5. ASSUME NEW s \in Sessions, PubPcFails(s) \/ PubLost(s)
        PROVE Quiet \/ PubLostEnds(s)
    BY <1>5, PubPcQuiet DEF PubLost
  <1>6. ASSUME NEW s \in Sessions, EndSession(s) PROVE Quiet \/ EndClear(s)
    BY <1>6, EndingQuiet DEF EndSession
  <1>7. ASSUME NEW u \in Subs, SubPcFails(u) \/ OnClosed(u) PROVE Quiet
    BY <1>7, CallbackQuiet
  <1>8. CASE UNCHANGED vars
    BY <1>8 DEF vars, roomVars, Quiet, HandlersQuiet, SessionsQuiet, EndingsQuiet, TimersGoOn,
       Owned, EndingKeepsOwner
  <1> QED
    BY <1>1, <1>2, <1>3, <1>4, <1>5, <1>6, <1>7, <1>8 DEF Next

\* Every step keeps ownership.
LEMMA OwnedStep ==
  ASSUME TypeOK, Linked, Owned, [Next]_vars
  PROVE Owned'
  <1>1. TypeOK'
    BY TypeStep
  <1>2. CASE Quiet
    BY <1>1, <1>2, QuietKeeps
  <1>3. ASSUME NEW p \in Peers,
               \/ Join(p) \/ Leave(p) \/ Left(p) \/ Register(p) \/ Stop(p)
               \/ StopEnds(p) \/ Resume(p) \/ TimerExpires(p) \/ TimerEnds(p)
        PROVE Owned'
    BY <1>1, <1>3, JoinOwned, LeaveOwned, LeftOwned, RegisterOwned, StopOwned, StopEndsOwned,
       ResumeOwned, TimerExpiresOwned, TimerEndsOwned
  <1>4. ASSUME NEW s \in Sessions, PubLostEnds(s) \/ EndClear(s) PROVE Owned'
    BY <1>1, <1>4, PubLostEndsOwned, EndClearOwned
  <1> QED BY <1>2, <1>3, <1>4, StepKinds

\* The inductive invariant holds in every behaviour.
LEMMA AlwaysOwned == Safety => [](TypeOK /\ Linked /\ Owned)
  <1>1. Init => TypeOK /\ Linked /\ Owned
    BY InitTyped, InitOwned
  <1>2. TypeOK /\ Linked /\ Owned /\ [Next]_vars => (TypeOK /\ Linked /\ Owned)'
    BY TypeStep, OwnedStep
  <1> QED BY <1>1, <1>2, PTL DEF Safety

\* A connected peer flagged as publisher owns that session, and its token resolves.
THEOREM OwnedIsLive == Safety => []OwnedShareIsLive
  <1>1. Owned => OwnedShareIsLive
    BY DEF Owned
  <1> QED BY <1>1, AlwaysOwned, PTL

\* A live share of a connected peer is the one its entry shows.
THEOREM OwnerKnows == Safety => []OwnerKnowsItsShare
  <1>1. Owned => OwnerKnowsItsShare
    BY DEF Owned
  <1> QED BY <1>1, AlwaysOwned, PTL

-----------------------------------------------------------------------------
(* Windows and viewers.                                                     *)

\* A session keeps its window and its end, and gains viewers only if it has not ended.
WindowsKept == \A s \in Sessions :
    /\ session'[s].grace = session[s].grace
    /\ session'[s].closed = session[s].closed
    /\ session[s].closed /\ session[s].subscribers = NoSubs => session'[s].subscribers = NoSubs

\* Who is about to cancel a window still is.
ResumesHold == \A q \in Peers : handler[q].at = "resumeCancel" =>
    handler'[q].at = "resumeCancel" /\ handler'[q].grace = handler[q].grace
EndsHold == \A s \in Sessions : ending[s].at = "cancel" =>
    ending'[s].at = "cancel" /\ ending'[s].grace = ending[s].grace

\* Both invariants of this section.
Held == ArmedWindowIsHeld /\ ClosedShareHasNoViewers

\* A window that is still armed has its token held: by whom it was, or by another.
LEMMA TokensPass ==
  ASSUME Linked, Held,
         \A p \in Peers : timer'[p].state = "armed" =>
             \/ TokenHeld(p)'
             \/ /\ timer[p].state = "armed"
                /\ timer[p].session \in Sessions /\ TokenHeld(p) => TokenHeld(p)'
  PROVE ArmedWindowIsHeld'
  BY DEF Held, ArmedWindowIsHeld, Linked, TimerLinked

\* A step that leaves windows and ended sessions alone keeps them.
LEMMA KeptHeld ==
  ASSUME TypeOK, Linked, Held, WindowsKept, ResumesHold, EndsHold, UNCHANGED timer
  PROVE Held'
  <1>1. ASSUME NEW p \in Peers, timer[p].session \in Sessions, TokenHeld(p)
        PROVE TokenHeld(p)'
    BY <1>1 DEF TokenHeld, WindowsKept, ResumesHold, EndsHold
  <1>2. ArmedWindowIsHeld'
    BY <1>1, TokensPass
  <1>3. ClosedShareHasNoViewers'
    BY DEF Held, ClosedShareHasNoViewers, WindowsKept
  <1> QED BY <1>2, <1>3 DEF Held

\* No step of a connection but ResumeCancel takes a window from a resume.
LEMMA OtherResumesHold ==
  ASSUME TypeOK, Owned, NEW p \in Peers,
         Join(p) \/ Leave(p) \/ Message(p) \/ HandlerStep(p), ~ResumeCancel(p)
  PROVE ResumesHold
  <1>1. ASSUME handler[p].at # "resumeCancel", \A q \in Peers \ {p} : handler'[q] = handler[q]
        PROVE ResumesHold
    BY <1>1 DEF ResumesHold
  <1>2. CASE Join(p) \/ Leave(p)
    <2>1. handler[p].at # "resumeCancel"
      BY <1>2 DEF Join, Leave, Ready, Owned, PeersJoined
    <2>2. \A q \in Peers \ {p} : handler'[q] = handler[q]
      BY <1>2, HandlerType DEF Join, Leave
    <2> QED BY <1>1, <2>1, <2>2
  <1>3. CASE Message(p)
    <2>1. handler[p].at # "resumeCancel"
      BY <1>3 DEF Message, Start, Stop, Resume, Subscribe, Unsubscribe, Ready
    <2>2. \A q \in Peers \ {p} : handler'[q] = handler[q]
      BY <1>3, HandlerType DEF Message, Start, Stop, Resume, Subscribe, Unsubscribe
    <2> QED BY <1>1, <2>1, <2>2
  <1>4. CASE HandlerStep(p)
    <2>1. handler[p].at # "resumeCancel"
      BY <1>4 DEF HandlerStep, CloseHeld, Joined, Left, StartFails, Register, StopEnds, Stopped,
         ResumeClose, ResumeDetach, Resumed, SubBuild, SubInsert, SubAttach, SubEncode,
         ViewerGone, UnsubClose, Drop, Closing
    <2>2. \A q \in Peers \ {p} : handler'[q] = handler[q]
      BY <1>4, HandlerType DEF HandlerStep, CloseHeld, Joined, Left, StartFails, Register,
         StopEnds, Stopped, ResumeClose, ResumeDetach, Resumed, SubBuild, SubInsert, SubAttach,
         SubEncode, ViewerGone, UnsubClose, Drop, Closing, Return
    <2> QED BY <1>1, <2>1, <2>2
  <1> QED BY <1>2, <1>3, <1>4

\* The end takes the one window its session can have armed, and drops its viewers.
LEMMA EndBeginHeld ==
  ASSUME TypeOK, Linked, Owned, Held, NEW s \in Sessions, EndBegin(s), ResumesHold,
         \A p \in Peers : timer'[p].state = "armed" => timer'[p] = timer[p]
  PROVE Held'
  <1>1. CASE session[s].closed
    <2>1. UNCHANGED <<session, ending>>
      BY <1>1 DEF EndBegin
    <2>2. ASSUME NEW p \in Peers, timer'[p] = timer[p], TokenHeld(p) PROVE TokenHeld(p)'
      BY <2>1, <2>2 DEF TokenHeld, ResumesHold
    <2>3. ArmedWindowIsHeld'
      BY <2>2, TokensPass
    <2> QED BY <2>1, <2>3 DEF Held, ClosedShareHasNoViewers
  <1>2. CASE ~session[s].closed
    <2>1. /\ session' = [session EXCEPT ![s].closed = TRUE, ![s].grace = NoPeer,
                                        ![s].subscribers = NoSubs]
          /\ ending' = [ending EXCEPT ![s] = EndingAt("cancel", session[s].grace,
                                                      PcsIn(session[s].subscribers))]
      BY <1>2 DEF EndBegin
    <2>2. /\ ending'[s].at = "cancel" /\ ending'[s].grace = session[s].grace
          /\ \A t \in Sessions \ {s} : ending'[t] = ending[t] /\ session'[t] = session[t]
          /\ ending[s].at # "cancel"
      BY <1>2, <2>1, EndingType, SessionType DEF EndingAt, Owned, EndingIsClosed
    <2>3. ASSUME NEW p \in Peers, timer'[p] = timer[p], timer[p].session \in Sessions,
                 TokenHeld(p)
          PROVE TokenHeld(p)'
      BY <2>2, <2>3 DEF TokenHeld, ResumesHold
    <2>4. ArmedWindowIsHeld'
      BY <2>3, TokensPass
    <2>5. ClosedShareHasNoViewers'
      BY <2>1, SessionType DEF Held, ClosedShareHasNoViewers, Session
    <2> QED BY <2>4, <2>5 DEF Held
  <1> QED BY <1>1, <1>2

\* remove_peer arms a window after cancelling the session's earlier one.
LEMMA LeftHeld ==
  ASSUME TypeOK, Linked, Owned, Held, NEW p \in Peers, Left(p)
  PROVE Held'
  <1> DEFINE s == handler[p].session
  <1>1. ResumesHold /\ EndsHold
    <2>1. ResumesHold
      BY OtherResumesHold DEF HandlerStep, Left, ResumeCancel
    <2> QED BY <2>1 DEF Left, EndsHold
  <1>2. CASE UNCHANGED <<session, timer>>
    BY <1>1, <1>2, KeptHeld DEF WindowsKept
  <1>3. CASE /\ s # NoSession /\ ~session[s].closed
             /\ session' = [session EXCEPT ![s].grace = p]
             /\ timer' = [Cancel(timer, session[s].grace) EXCEPT
                             ![p] = [state |-> "armed", session |-> s]]
    <2>1. s \in Sessions
      BY <1>3, HandlerType DEF Handler, SessionOrNone
    <2>2. Cancel(timer, session[s].grace) \in Tasks
      BY TasksType, CancelTyped
    <2>3. /\ session'[s].grace = p
          /\ \A t \in Sessions \ {s} : session'[t] = session[t]
          /\ \A t \in Sessions : /\ session'[t].closed = session[t].closed
                                 /\ session'[t].subscribers = session[t].subscribers
      BY <1>3, <2>1, SessionType DEF Session
    <2>4. timer'[p].session = s
      BY <1>3, <2>2 DEF Tasks
    <2>5. TokenHeld(p)'
      BY <1>3, <2>1, <2>3, <2>4 DEF TokenHeld
    <2>6. ASSUME NEW q \in Peers \ {p}, timer'[q].state = "armed"
          PROVE /\ timer[q].state = "armed"
                /\ timer[q].session \in Sessions /\ TokenHeld(q) => TokenHeld(q)'
      <3>1. /\ timer'[q].session = timer[q].session /\ timer[q].state = "armed"
            /\ q # session[s].grace
        BY <1>3, <2>2, <2>6, TasksType, CancelKeeps DEF Tasks
      <3> QED BY <1>1, <2>3, <3>1 DEF TokenHeld, ResumesHold, EndsHold
    <2>7. ArmedWindowIsHeld'
      BY <2>5, <2>6, TokensPass
    <2>8. ClosedShareHasNoViewers'
      BY <2>3 DEF Held, ClosedShareHasNoViewers
    <2> QED BY <2>7, <2>8 DEF Held
  <1> QED BY <1>2, <1>3 DEF Left, ArmGrace

\* screen-share-resume takes the window of the share it claims ...
LEMMA ResumeHeld ==
  ASSUME TypeOK, Linked, Owned, Held, NEW p \in Peers, Resume(p)
  PROVE Held'
  <1>1. PICK s \in Sessions :
          /\ ~session[s].closed
          /\ session' = [session EXCEPT ![s].publisherId = p, ![s].grace = NoPeer,
                                        ![s].subscribers = NoSubs]
          /\ handler' = [handler EXCEPT ![p].at = "resumeCancel",
                                        ![p].publisher = session[s].publisherId,
                                        ![p].grace = session[s].grace,
                                        ![p].todo = PcsIn(session[s].subscribers)]
    BY DEF Resume, MayClaim
  <1>2. UNCHANGED <<timer, ending>> /\ handler[p].at = "idle"
    BY DEF Resume, Ready
  <1>3. /\ handler'[p].at = "resumeCancel" /\ handler'[p].grace = session[s].grace
        /\ \A q \in Peers \ {p} : handler'[q] = handler[q]
        /\ \A t \in Sessions \ {s} : session'[t] = session[t]
    BY <1>1, HandlerType, SessionType DEF Handler
  <1>4. ASSUME NEW q \in Peers, timer[q].session \in Sessions, TokenHeld(q)
        PROVE TokenHeld(q)'
    BY <1>2, <1>3, <1>4 DEF TokenHeld
  <1>5. ArmedWindowIsHeld'
    BY <1>2, <1>4, TokensPass
  <1>6. ClosedShareHasNoViewers'
    BY <1>1, SessionType DEF Held, ClosedShareHasNoViewers, Session
  <1> QED BY <1>5, <1>6 DEF Held

\* ... and cancels it, as an end does with the one it took.
LEMMA CancelsHeld ==
  ASSUME TypeOK, Linked, Held,
         \/ \E p \in Peers : ResumeCancel(p)
         \/ \E s \in Sessions : EndCancel(s)
  PROVE Held'
  <1>1. ASSUME NEW p \in Peers, ResumeCancel(p) PROVE ArmedWindowIsHeld'
    <2>1. /\ timer' = Cancel(timer, handler[p].grace)
          /\ UNCHANGED <<session, ending>>
          /\ \A q \in Peers \ {p} : handler'[q] = handler[q]
      BY <1>1, HandlerType DEF ResumeCancel
    <2>2. ASSUME NEW q \in Peers, timer'[q].state = "armed"
          PROVE timer[q].state = "armed" /\ (TokenHeld(q) => TokenHeld(q)')
      <3>1. /\ timer'[q].session = timer[q].session /\ timer[q].state = "armed"
            /\ q # handler[p].grace
        BY <2>1, <2>2, TasksType, CancelKeeps
      <3> QED BY <2>1, <3>1 DEF TokenHeld
    <2> QED BY <2>2, TokensPass
  <1>2. ASSUME NEW s \in Sessions, EndCancel(s) PROVE ArmedWindowIsHeld'
    <2>1. /\ timer' = Cancel(timer, ending[s].grace)
          /\ UNCHANGED <<session, handler>>
          /\ \A t \in Sessions \ {s} : ending'[t] = ending[t]
      BY <1>2, EndingType DEF EndCancel
    <2>2. ASSUME NEW q \in Peers, timer'[q].state = "armed"
          PROVE /\ timer[q].state = "armed"
                /\ timer[q].session \in Sessions /\ TokenHeld(q) => TokenHeld(q)'
      <3>1. /\ timer'[q].session = timer[q].session /\ timer[q].state = "armed"
            /\ q # ending[s].grace
        BY <2>1, <2>2, TasksType, CancelKeeps
      <3> QED BY <2>1, <3>1 DEF TokenHeld
    <2> QED BY <2>2, TokensPass
  <1>3. UNCHANGED session
    BY DEF ResumeCancel, EndCancel
  <1> QED BY <1>1, <1>2, <1>3 DEF Held, ClosedShareHasNoViewers

\* The task whose sleep ended is no longer armed.
LEMMA TimerExpiresHeld ==
  ASSUME TypeOK, Linked, Held, NEW p \in Peers, TimerExpires(p)
  PROVE Held'
  <1>1. /\ \A q \in Peers : timer'[q].state = "armed" => timer'[q] = timer[q]
        /\ UNCHANGED <<session, ending, handler>>
    BY TasksType DEF TimerExpires, Tasks, Task
  <1>2. ASSUME NEW q \in Peers, timer'[q] = timer[q], TokenHeld(q) PROVE TokenHeld(q)'
    BY <1>1, <1>2 DEF TokenHeld
  <1>3. ArmedWindowIsHeld'
    BY <1>1, <1>2, TokensPass
  <1> QED BY <1>1, <1>3 DEF Held, ClosedShareHasNoViewers

\* The steps that write a session without moving its window: a registration, a viewer
\* that comes or goes, a publisher PC that closes.
LEMMA WritesHeld ==
  ASSUME TypeOK, Linked, Owned, Held,
         \/ \E p \in Peers : Register(p) \/ SubInsert(p) \/ Drop(p)
         \/ \E s \in Sessions : PubPcFails(s) \/ EndClose(s)
         \/ \E u \in Subs : CloserDrop(u)
  PROVE Held'
  <1>1. ASSUME NEW p \in Peers, Register(p) PROVE WindowsKept
    BY <1>1, SessionType DEF Register, Fresh, WindowsKept, Session
  <1>2. ASSUME NEW p \in Peers, SubInsert(p) PROVE WindowsKept
    BY <1>2, SessionType DEF SubInsert, TakesViewers, WindowsKept, Session
  <1>3. ASSUME NEW s, NEW v, session' = session \/ session' = Without(s, v)
        PROVE WindowsKept
    BY <1>3, SessionType DEF Without, WindowsKept, Session, NoSubs
  <1>4. ASSUME NEW p \in Peers, Drop(p) PROVE WindowsKept
    <2>1. \E s, v : session' = session \/ session' = Without(s, v)
      BY <1>4 DEF Drop
    <2> QED BY <2>1, <1>3
  <1>5. ASSUME NEW u \in Subs, CloserDrop(u) PROVE WindowsKept
    <2>1. \E s, v : session' = session \/ session' = Without(s, v)
      BY <1>5 DEF CloserDrop
    <2> QED BY <2>1, <1>3
  <1>6. ASSUME NEW s \in Sessions, PubPcFails(s) \/ EndClose(s) PROVE WindowsKept
    <2>1. session' = [session EXCEPT ![s].pc = "closed"]
      BY <1>6 DEF PubPcFails, EndClose
    <2> QED BY <2>1, SessionType DEF WindowsKept, Session
  <1>7. UNCHANGED timer
    BY DEF Register, SubInsert, Drop, PubPcFails, EndClose, CloserDrop
  <1>8. ResumesHold
    <2>1. ASSUME NEW p \in Peers, Register(p) \/ SubInsert(p) \/ Drop(p) PROVE ResumesHold
      BY <2>1, OtherResumesHold DEF HandlerStep, Register, SubInsert, Drop, ResumeCancel
    <2> QED BY <2>1 DEF PubPcFails, EndClose, CloserDrop, ResumesHold
  <1>9. EndsHold
    <2>1. ASSUME NEW s \in Sessions, EndClose(s) PROVE EndsHold
      BY <2>1, EndingType DEF EndClose, EndsHold
    <2> QED BY <2>1 DEF PubPcFails, CloserDrop, Register, SubInsert, Drop, EndsHold
  <1> QED BY <1>1, <1>2, <1>4, <1>5, <1>6, <1>7, <1>8, <1>9, KeptHeld

\* The first section of end_screen_share_session, from each of its callers.
LEMMA EndsHeld ==
  ASSUME TypeOK, Linked, Owned, Held,
         \/ \E p \in Peers : StopEnds(p) \/ TimerEnds(p)
         \/ \E s \in Sessions : PubLostEnds(s)
  PROVE Held'
  <1>1. ASSUME NEW p \in Peers, StopEnds(p) PROVE Held'
    <2>1. ResumesHold
      BY <1>1, OtherResumesHold DEF HandlerStep, StopEnds, ResumeCancel
    <2>2. handler[p].session \in Sessions /\ EndBegin(handler[p].session) /\ UNCHANGED timer
      BY <1>1 DEF StopEnds, Linked, HandlerLinked
    <2> QED BY <2>1, <2>2, EndBeginHeld
  <1>2. ASSUME NEW p \in Peers, TimerEnds(p) PROVE Held'
    <2>1. /\ timer[p].session \in Sessions /\ EndBegin(timer[p].session)
          /\ UNCHANGED handler
          /\ \A q \in Peers : timer'[q].state = "armed" => timer'[q] = timer[q]
      BY <1>2, TasksType DEF TimerEnds, Linked, TimerLinked, Tasks, Task
    <2> QED BY <2>1, EndBeginHeld DEF ResumesHold
  <1>3. ASSUME NEW s \in Sessions, PubLostEnds(s) PROVE Held'
    <2>1. EndBegin(s) /\ UNCHANGED <<timer, handler>>
      BY <1>3 DEF PubLostEnds
    <2> QED BY <2>1, EndBeginHeld DEF ResumesHold
  <1> QED BY <1>1, <1>2, <1>3

\* Every other step leaves sessions and windows as they are.
LEMMA HeldStep ==
  ASSUME TypeOK, Linked, Owned, Held, [Next]_vars
  PROVE Held'
  <1>1. ASSUME UNCHANGED <<session, timer>>, ResumesHold, EndsHold PROVE Held'
    BY <1>1, KeptHeld DEF WindowsKept
  <1>2. UNCHANGED <<session, timer, handler, ending>> => Held'
    BY <1>1 DEF ResumesHold, EndsHold
  <1>3. ASSUME NEW p \in Peers, UNCHANGED <<session, timer, ending>>, ResumesHold PROVE Held'
    BY <1>1, <1>3 DEF EndsHold
  <1>4. ASSUME NEW p \in Peers, Message(p) PROVE Held'
    <2>1. CASE Resume(p)
      BY <2>1, ResumeHeld
    <2>2. CASE ~Resume(p)
      <3>1. UNCHANGED <<session, timer, ending>>
        BY <1>4, <2>2 DEF Message, Start, Stop, Subscribe, Unsubscribe
      <3>2. ~ResumeCancel(p)
        BY <1>4 DEF Message, Start, Stop, Resume, Subscribe, Unsubscribe, Ready, ResumeCancel
      <3> QED BY <1>3, <1>4, <3>1, <3>2, OtherResumesHold
    <2> QED BY <2>1, <2>2
  <1>5. ASSUME NEW p \in Peers, HandlerStep(p) PROVE Held'
    <2>1. CASE Left(p) \/ StopEnds(p) \/ Register(p) \/ SubInsert(p) \/ Drop(p) \/ ResumeCancel(p)
      BY <2>1, LeftHeld, EndsHeld, WritesHeld, CancelsHeld
    <2>2. CASE ~(\/ Left(p) \/ StopEnds(p) \/ Register(p) \/ SubInsert(p) \/ Drop(p)
                 \/ ResumeCancel(p))
      <3>1. UNCHANGED <<session, timer, ending>>
        BY <1>5, <2>2
           DEF HandlerStep, CloseHeld, Joined, StartFails, Stopped, ResumeClose, ResumeDetach,
               Resumed, SubBuild, SubAttach, SubEncode, ViewerGone, UnsubClose, Closing
      <3> QED BY <1>3, <1>5, <2>2, <3>1, OtherResumesHold
    <2> QED BY <2>1, <2>2
  <1>6. ASSUME NEW p \in Peers, Timer(p) PROVE Held'
    BY <1>6, TimerExpiresHeld, EndsHeld DEF Timer
  <1>7. ASSUME NEW p \in Peers, Join(p) \/ Leave(p) PROVE Held'
    <2>1. UNCHANGED <<session, timer, ending>>
      BY <1>7 DEF Join, Leave
    <2>2. ~ResumeCancel(p)
      BY <1>7 DEF Join, Leave, Ready, ResumeCancel, Owned, PeersJoined
    <2> QED BY <1>3, <1>7, <2>1, <2>2, OtherResumesHold
  <1>8. ASSUME NEW s \in Sessions, FirstVideo(s) \/ Video(s) PROVE Held'
    BY <1>2, <1>8 DEF FirstVideo, Video, VideoCheck, VideoRead, VideoAnnounce, VideoIdleCheck,
       VideoPause
  <1>9. ASSUME NEW s \in Sessions, PubPcFails(s) \/ PubLost(s) PROVE Held'
    BY <1>2, <1>9, WritesHeld, EndsHeld DEF PubLost, PubLostFind
  <1>10. ASSUME NEW s \in Sessions, EndSession(s) PROVE Held'
    <2>1. CASE EndCancel(s) \/ EndClose(s)
      BY <2>1, CancelsHeld, WritesHeld
    <2>2. CASE EndCloseSub(s) \/ EndDetachSub(s) \/ EndClear(s)
      <3>1. UNCHANGED <<session, timer, handler>> /\ ending[s].at # "cancel"
        BY <2>2 DEF EndCloseSub, EndDetachSub, EndClear
      <3>2. \A t \in Sessions \ {s} : ending'[t] = ending[t]
        BY <2>2, EndingType DEF EndCloseSub, EndDetachSub, EndClear
      <3> QED BY <1>1, <3>1, <3>2 DEF ResumesHold, EndsHold
    <2> QED BY <1>10, <2>1, <2>2 DEF EndSession
  <1>11. ASSUME NEW u \in Subs, SubPcFails(u) \/ OnClosed(u) PROVE Held'
    BY <1>2, <1>11, WritesHeld
       DEF SubPcFails, OnClosed, CloserLookup, CloserDetach, CloserPause
  <1>12. CASE UNCHANGED vars
    BY <1>2, <1>12 DEF vars
  <1> QED
    BY <1>4, <1>5, <1>6, <1>7, <1>8, <1>9, <1>10, <1>11, <1>12 DEF Next

\* Windows and viewers hold together in every behaviour.
LEMMA AlwaysHeld == Safety => []Held
  <1>1. Init => TypeOK /\ Linked /\ Owned /\ Held
    BY InitTyped, InitOwned DEF Init, Held, ArmedWindowIsHeld, ClosedShareHasNoViewers
  <1>2. TypeOK /\ Linked /\ Owned /\ Held /\ [Next]_vars => (TypeOK /\ Linked /\ Owned /\ Held)'
    BY TypeStep, OwnedStep, HeldStep
  <1> QED BY <1>1, <1>2, PTL DEF Safety

\* A grace task that still waits has its token with its live session, or with the resume or
\* the end that is about to cancel it (screen.rs:559-563, 830-840).
THEOREM WindowIsHeld == Safety => []ArmedWindowIsHeld
  <1>1. Held => ArmedWindowIsHeld
    BY DEF Held
  <1> QED BY <1>1, AlwaysHeld, PTL

\* An ended session never holds a viewer again.
THEOREM ViewersLeave == Safety => []ClosedShareHasNoViewers
  <1>1. Held => ClosedShareHasNoViewers
    BY DEF Held
  <1> QED BY <1>1, AlwaysHeld, PTL

-----------------------------------------------------------------------------
(* Every viewer's PC is held by someone who will close it.                  *)

\* Only a PC that was made has a share and a viewer; on_closed runs for closed PCs.
MadeForViewer == \A u \in Subs :
    IF sub[u].pc = "none" THEN sub[u].session = NoSession ELSE sub[u].peer \in Peers
CloserClosed == \A u \in Subs : closer[u].at # "no" => sub[u].pc = "closed"

\* A subscribe in flight is for a registered share, and makes its own PC.
SubscribersKnow == \A p \in Peers :
    handler[p].at \in {"subPublisher", "subInsert"} => Known(handler[p].session)
InsertsOwn == \A p \in Peers : handler[p].at = "subInsert" =>
    LET u == handler[p].sub IN
    /\ u \in Subs /\ sub[u].pc # "none"
    /\ sub[u].peer = p /\ sub[u].session = handler[p].session

\* A session's viewers are there under their own names.
ViewersKnown == \A s \in Sessions, v \in Peers :
    LET u == session[s].subscribers[v] IN
    u # NoSub => Known(s) /\ sub[u].pc # "none" /\ sub[u].peer = v /\ sub[u].session = s

EndedIsEmpty == \A s \in Sessions : ending[s].at \in {"no", "done"} => ending[s].todo = {}

\* The PCs a resume has still to close.
Drained(p) == IF handler[p].at \in {"resumeCancel", "resume", "resumeDetach"} THEN handler[p].todo ELSE {}

\* The subscribe that made the PC, its session, or the resume or the end that drained
\* its session has it; or its viewer has subscribed again.
Placed(u) ==
    LET s == sub[u].session
        v == sub[u].peer IN
    \/ handler[v].at = "subInsert" /\ handler[v].sub = u
    \/ session[s].subscribers[v] = u
    \/ \E p \in Peers : u \in Drained(p)
    \/ u \in ending[s].todo
    \/ SubscribedAgain(u)

\* The inductive invariant.
Watched ==
    /\ MadeForViewer /\ CloserClosed /\ SubscribersKnow /\ InsertsOwn
    /\ ViewersKnown /\ EndedIsEmpty
    /\ \A u \in Subs : sub[u].pc = "open" => Placed(u)

-----------------------------------------------------------------------------
(* Steps that only hand PCs on, or close them.                              *)

\* PCs close, and no new one is made; on_closed starts with the close.
SubsMove == \A u \in Subs :
    /\ sub'[u].session = sub[u].session /\ sub'[u].peer = sub[u].peer
    /\ sub'[u].pc \in {sub[u].pc, "closed"} /\ (sub[u].pc = "none" => sub'[u].pc = "none")
    /\ closer'[u].at # "no" => closer[u].at # "no" \/ sub'[u].pc = "closed"

\* A session loses a viewer to a close, or to the thread that drains it.
ViewersMove == \A s \in Sessions, v \in Peers :
    LET u == session[s].subscribers[v] IN
    \/ session'[s].subscribers[v] = u
    \/ /\ session'[s].subscribers[v] = NoSub
       /\ u # NoSub => \/ sub'[u].pc # "open"
                       \/ u \in ending'[s].todo
                       \/ \E p \in Peers : u \in Drained(p)'

\* No subscribe begins or is forgotten, and a resume forgets only what was closed.
HandlerMoves(p) ==
    /\ handler'[p].at \in {"subPublisher", "subInsert"} =>
         /\ handler[p].at = handler'[p].at
         /\ handler'[p].session = handler[p].session /\ handler'[p].sub = handler[p].sub
    /\ handler[p].at = "subInsert" =>
         handler'[p].at = "subInsert" \/ sub'[handler[p].sub].pc # "open"
    /\ \A u \in Drained(p) : u \in Drained(p)' \/ sub'[u].pc # "open"

\* An end forgets only what was closed.
EndingsMove == \A s \in Sessions :
    /\ ending'[s].at \in {"no", "done"} => ending'[s].todo = {}
    /\ \A u \in ending[s].todo : u \in ending'[s].todo \/ sub'[u].pc # "open"

PcsMove == SubsMove /\ ViewersMove /\ EndingsMove /\ \A p \in Peers : HandlerMoves(p)

\* Such a step keeps every PC in somebody's hands.
LEMMA MovesKeep ==
  ASSUME TypeOK, Linked, Watched, KnownKept, PcsMove
  PROVE Watched'
  <1> USE ShareConstants
  <1>1. MadeForViewer' /\ CloserClosed'
    BY SubType DEF Watched, MadeForViewer, CloserClosed, PcsMove, SubsMove, ScreenSub, PcState
  <1>2. SubscribersKnow'
    <2>1. ASSUME NEW p \in Peers, handler'[p].at \in {"subPublisher", "subInsert"}
          PROVE Known(handler[p].session)'
      <3>1. /\ handler[p].at = handler'[p].at
            /\ handler'[p].session = handler[p].session
        BY <2>1 DEF PcsMove, HandlerMoves
      <3>2. Known(handler[p].session)
        BY <2>1, <3>1 DEF Watched, SubscribersKnow
      <3>3. handler[p].session \in Sessions
        BY <2>1, <3>1, SubType DEF Watched, InsertsOwn, Linked, HandlerLinked, SubLinked
      <3> QED BY <3>1, <3>2, <3>3 DEF KnownKept, Known
    <2>2. \A p \in Peers : handler'[p].at \in {"subPublisher", "subInsert"} =>
            Known(handler[p].session)'
      BY <2>1
    <2> QED BY <2>2 DEF SubscribersKnow, Known
  <1>3. InsertsOwn'
    BY SubType DEF Watched, InsertsOwn, PcsMove, HandlerMoves, SubsMove, ScreenSub
  <1>4. ViewersKnown'
    <2>1. ASSUME NEW s \in Sessions, NEW v \in Peers, session'[s].subscribers[v] # NoSub
          PROVE LET u == session'[s].subscribers[v] IN
                Known(s)' /\ sub'[u].pc # "none" /\ sub'[u].peer = v /\ sub'[u].session = s
      <3>1. session'[s].subscribers[v] = session[s].subscribers[v]
        BY <2>1 DEF PcsMove, ViewersMove
      <3>2. session[s].subscribers[v] \in Subs
        BY <2>1, <3>1, SessionType DEF Session, SubOrNone
      <3> QED
        BY <2>1, <3>1, <3>2 DEF Watched, ViewersKnown, PcsMove, SubsMove, KnownKept
    <2> QED BY <2>1 DEF ViewersKnown
  <1>5. EndedIsEmpty'
    BY DEF PcsMove, EndingsMove, EndedIsEmpty
  <1>6. ASSUME NEW u \in Subs, sub'[u].pc = "open"
        PROVE Placed(u)'
    <2> DEFINE s == sub[u].session
               v == sub[u].peer
    <2>1. /\ sub'[u].session = s /\ sub'[u].peer = v /\ sub[u].pc = "open"
      BY <1>6 DEF PcsMove, SubsMove
    <2>2. s \in Sessions
      BY <2>1 DEF Linked, SubLinked
    <2>3. Placed(u)
      BY <2>1 DEF Watched
    <2>4. CASE v \in Peers /\ handler[v].at = "subInsert" /\ handler[v].sub = u
      BY <1>6, <2>1, <2>4 DEF PcsMove, HandlerMoves, Placed
    <2>5. CASE v \in Peers /\ session[s].subscribers[v] = u
      BY <1>6, <2>1, <2>2, <2>5 DEF PcsMove, ViewersMove, Placed
    <2>6. CASE \E p \in Peers : u \in Drained(p)
      BY <1>6, <2>6 DEF PcsMove, HandlerMoves, Placed
    <2>7. CASE u \in ending[s].todo
      BY <1>6, <2>1, <2>2, <2>7 DEF PcsMove, EndingsMove, Placed
    <2>8. CASE SubscribedAgain(u)
      BY <2>1, <2>8 DEF PcsMove, SubsMove, Placed, SubscribedAgain
    <2>9. v \in Peers
      BY <2>1 DEF Watched, MadeForViewer
    <2> QED BY <2>3, <2>4, <2>5, <2>6, <2>7, <2>8, <2>9 DEF Placed
  <1> QED BY <1>1, <1>2, <1>3, <1>4, <1>5, <1>6 DEF Watched

\* Where nothing closes, PCs and their teardowns stay as they are.
LEMMA PcsUnchanged ==
  ASSUME Watched, UNCHANGED <<sub, closer, ending>>
  PROVE SubsMove /\ EndingsMove
  BY DEF Watched, EndedIsEmpty, SubsMove, EndingsMove

\* Pc::close.
LEMMA ClosePcMoves ==
  ASSUME TypeOK, NEW u \in Subs, ClosePc(u)
  PROVE SubsMove /\ sub'[u].pc # "open"
  <1>1. CASE sub[u].pc = "open"
    BY <1>1, SubType, CloserType DEF ClosePc, SubsMove, ScreenSub, Closer
  <1>2. CASE sub[u].pc # "open"
    BY <1>2, SubType DEF ClosePc, SubsMove, ScreenSub
  <1> QED BY <1>1, <1>2

\* A handler that neither makes nor drains PCs.
LEMMA HandlerElsewhere ==
  ASSUME TypeOK, NEW p \in Peers, \A q \in Peers \ {p} : handler'[q] = handler[q],
         handler[p].at \notin {"subInsert", "resumeCancel", "resume", "resumeDetach"},
         handler'[p].at \notin {"subPublisher", "subInsert"}
  PROVE \A q \in Peers : HandlerMoves(q)
  BY DEF HandlerMoves, Drained

\* The other handlers, and the sections of a resume that close nothing.
LEMMA HandlersPass ==
  ASSUME TypeOK, Owned, Watched, NEW p \in Peers,
         \/ Join(p) \/ Leave(p) \/ Start(p) \/ Stop(p) \/ StartFails(p) \/ Joined(p)
         \/ Stopped(p) \/ ResumeCancel(p) \/ ResumeDetach(p) \/ Resumed(p)
         \/ SubAttach(p) \/ SubEncode(p) \/ ViewerGone(p) \/ Closing(p) \/ \E k \in Publishers : Unsubscribe(p, k)
  PROVE PcsMove
  <1>1. /\ UNCHANGED <<session, sub, closer, ending>>
        /\ \A q \in Peers \ {p} : handler'[q] = handler[q]
    BY HandlerType
       DEF Join, Leave, Start, Stop, StartFails, Joined, Stopped, ResumeCancel, ResumeDetach,
       Resumed, SubAttach, SubEncode, ViewerGone, Closing, Unsubscribe, Return
  <1>2. CASE ResumeCancel(p) \/ ResumeDetach(p) \/ Resumed(p)
    <2>1. /\ handler[p].at \in {"resumeCancel", "resume", "resumeDetach"}
          /\ \/ handler'[p].at = "resume" /\ handler'[p].todo = handler[p].todo
             \/ handler'[p].at = "idle" /\ handler[p].todo = {}
      BY <1>2, HandlerType DEF ResumeCancel, ResumeDetach, Resumed, Return, Idle, Handler
    <2> QED BY <1>1, <2>1 DEF HandlerMoves, Drained, PcsMove, ViewersMove,
            SubsMove, EndingsMove, Watched, EndedIsEmpty
  <1>3. CASE Join(p) \/ Leave(p)
    <2>1. /\ handler[p].at = "idle"
          /\ handler'[p].at \in {"idle", "evict", "leave"}
      BY <1>3, HandlerType DEF Join, Leave, Ready, Handler, Owned, PeersJoined
    <2> QED BY <1>1, <2>1, HandlerElsewhere, PcsUnchanged DEF PcsMove, ViewersMove
  <1>4. CASE Start(p) \/ Stop(p) \/ \E k \in Publishers : Unsubscribe(p, k)
    <2>1. handler[p].at = "idle" /\ handler'[p].at \in {"startSetup", "stop", "unsub"}
      <3>1. CASE Start(p) \/ Stop(p)
        BY <3>1, HandlerType DEF Start, Stop, Ready, Handler
      <3>2. ASSUME NEW k \in Publishers, Unsubscribe(p, k)
            PROVE handler[p].at = "idle" /\ handler'[p].at = "unsub"
        <4>1. handler[p].at = "idle"
          BY <3>2 DEF Unsubscribe, Ready
        <4>2. handler' = [handler EXCEPT
                            ![p].at = "unsub", ![p].publisher = k,
                            ![p].sub = IF p \in peers THEN screenSubs[p][k] ELSE NoSub,
                            ![p].session = SessionOf(k)]
          BY <3>2 DEF Unsubscribe
        <4>3. handler'[p].at = "unsub"
          BY <4>2, HandlerType DEF Handler
        <4> QED BY <4>1, <4>3
      <3> QED BY <1>4, <3>1, <3>2
    <2> QED BY <1>1, <2>1, HandlerElsewhere, PcsUnchanged DEF PcsMove, ViewersMove
  <1>5. CASE \/ StartFails(p) \/ Joined(p) \/ Stopped(p) \/ SubAttach(p) \/ SubEncode(p)
             \/ ViewerGone(p) \/ Closing(p)
    <2>1. /\ handler[p].at \notin {"subInsert", "resumeCancel", "resume", "resumeDetach"}
          /\ handler'[p].at \in {"idle", "subEncode", "viewerGone", "closing", "dropOnly"}
      BY <1>5, HandlerType
         DEF StartFails, Joined, Stopped, SubAttach, SubEncode, ViewerGone, Closing, Return,
         Idle, Handler
    <2> QED BY <1>1, <2>1, HandlerElsewhere, PcsUnchanged DEF PcsMove, ViewersMove
  <1> QED BY <1>2, <1>3, <1>4, <1>5

\* Handlers that close a PC: those of an entry that is gone, of a resume, of an
\* unsubscribe, or the one whose viewer the session no longer takes.
LEMMA HandlersClose ==
  ASSUME TypeOK, Watched, NEW p \in Peers,
         \/ CloseHeld(p) \/ ResumeClose(p) \/ UnsubClose(p)
         \/ SubInsert(p) /\ ~TakesViewers(handler[p].session)
  PROVE PcsMove
  <1>1. CASE CloseHeld(p)
    <2>1. PICK u \in handler[p].todo :
            /\ ClosePc(u)
            /\ handler' = [handler EXCEPT ![p].wait = RunsOnClosed(u), ![p].todo = @ \ {u}]
      BY <1>1 DEF CloseHeld
    <2>2. u \in Subs
      BY <2>1, HandlerType DEF Handler
    <2>3. /\ handler[p].at \in {"evict", "leave"} /\ handler'[p].at = handler[p].at
          /\ \A q \in Peers \ {p} : handler'[q] = handler[q]
          /\ UNCHANGED <<session, ending>>
      BY <1>1, <2>1, HandlerType DEF CloseHeld, Handler
    <2>4. \A q \in Peers : HandlerMoves(q)
      BY <2>3, HandlerElsewhere
    <2> QED BY <2>1, <2>2, <2>3, <2>4, ClosePcMoves
            DEF PcsMove, ViewersMove, EndingsMove, Watched, EndedIsEmpty
  <1>2. CASE ResumeClose(p)
    <2>1. PICK u \in handler[p].todo :
            /\ ClosePc(u)
            /\ handler' = [handler EXCEPT ![p].at = "resumeDetach", ![p].sub = u,
                                ![p].wait = RunsOnClosed(u), ![p].todo = @ \ {u}]
      BY <1>2 DEF ResumeClose
    <2>2. u \in Subs
      BY <2>1, HandlerType DEF Handler
    <2>3. /\ handler[p].at = "resume" /\ handler'[p].at = "resumeDetach"
          /\ handler'[p].todo = handler[p].todo \ {u}
          /\ \A q \in Peers \ {p} : handler'[q] = handler[q]
          /\ UNCHANGED <<session, ending>>
      <3>1. handler[p].at = "resume" /\ UNCHANGED <<session, ending>>
        BY <1>2 DEF ResumeClose
      <3>2. \A w : handler' = [handler EXCEPT ![p].at = "resumeDetach", ![p].sub = u,
                                    ![p].wait = w, ![p].todo = @ \ {u}] =>
              /\ handler'[p].at = "resumeDetach"
              /\ handler'[p].todo = handler[p].todo \ {u}
              /\ \A q \in Peers \ {p} : handler'[q] = handler[q]
        BY HandlerType DEF Handler
      <3> QED BY <2>1, <3>1, <3>2
    <2>4. sub'[u].pc # "open" /\ SubsMove
      BY <2>1, <2>2, ClosePcMoves
    <2>5. \A q \in Peers : HandlerMoves(q)
      BY <2>3, <2>4 DEF HandlerMoves, Drained
    <2> QED BY <2>3, <2>4, <2>5 DEF PcsMove, ViewersMove, EndingsMove, Watched, EndedIsEmpty
  <1>3. CASE UnsubClose(p)
    <2>1. /\ handler[p].at = "unsub" /\ handler'[p].at \in {"closing", "dropAny"}
          /\ \A q \in Peers \ {p} : handler'[q] = handler[q]
          /\ UNCHANGED <<session, ending>>
      BY <1>3, HandlerType DEF UnsubClose, Handler
    <2>2. SubsMove
      <3>1. CASE handler[p].sub = NoSub
        BY <1>3, <3>1 DEF UnsubClose, SubsMove
      <3>2. CASE handler[p].sub # NoSub
        BY <1>3, <3>2, ClosePcMoves, HandlerType DEF UnsubClose, Handler, SubOrNone
      <3> QED BY <3>1, <3>2
    <2>3. \A q \in Peers : HandlerMoves(q)
      BY <2>1, HandlerElsewhere
    <2> QED BY <2>1, <2>2, <2>3 DEF PcsMove, ViewersMove, EndingsMove, Watched, EndedIsEmpty
  <1>4. CASE SubInsert(p) /\ ~TakesViewers(handler[p].session)
    <2> DEFINE u == handler[p].sub
    <2>1. /\ ClosePc(u) /\ handler[p].at = "subInsert" /\ UNCHANGED <<session, ending>>
          /\ handler' = [handler EXCEPT ![p].at = "closing", ![p].wait = RunsOnClosed(u)]
      BY <1>4 DEF SubInsert
    <2>2. u \in Subs
      BY <2>1 DEF Watched, InsertsOwn
    <2>3. sub'[u].pc # "open" /\ SubsMove
      BY <2>1, <2>2, ClosePcMoves
    <2>4. handler'[p].at = "closing" /\ \A q \in Peers \ {p} : handler'[q] = handler[q]
      BY <2>1, HandlerType DEF Handler
    <2>5. \A q \in Peers : HandlerMoves(q)
      BY <2>1, <2>3, <2>4 DEF HandlerMoves, Drained
    <2> QED BY <2>1, <2>3, <2>5 DEF PcsMove, ViewersMove, EndingsMove, Watched, EndedIsEmpty
  <1> QED BY <1>1, <1>2, <1>3, <1>4

\* The session writes of a removal, a registration and a publisher PC, which move no
\* viewer.
LEMMA SessionsPass ==
  ASSUME TypeOK, Owned, Watched,
         \/ \E p \in Peers : Left(p) \/ Register(p)
         \/ \E s \in Sessions : PubPcFails(s) \/ EndClose(s)
  PROVE PcsMove
  <1>1. ASSUME NEW p \in Peers, Left(p) \/ Register(p)
        PROVE PcsMove
    <2>1. /\ handler[p].at \in {"leave", "startSetup"} /\ handler'[p].at = "idle"
          /\ \A q \in Peers \ {p} : handler'[q] = handler[q]
          /\ UNCHANGED <<sub, closer, ending>>
      BY <1>1, HandlerType DEF Left, Register, Return, Idle
    <2>2. \A s \in Sessions : session'[s].subscribers = session[s].subscribers
      <3>1. CASE Left(p)
        BY <3>1, SessionType DEF Left, ArmGrace, Session
      <3>2. CASE Register(p)
        BY <3>2, SessionType DEF Register, Fresh, Session
      <3> QED BY <1>1, <3>1, <3>2
    <2> QED BY <2>1, <2>2, HandlerElsewhere, PcsUnchanged DEF PcsMove, ViewersMove
  <1>2. ASSUME NEW s \in Sessions, PubPcFails(s) \/ EndClose(s)
        PROVE PcsMove
    <2>1. UNCHANGED <<handler, sub, closer>> /\ session' = [session EXCEPT ![s].pc = "closed"]
      BY <1>2 DEF PubPcFails, EndClose
    <2>2. \A t \in Sessions : session'[t].subscribers = session[t].subscribers
      BY <2>1, SessionType DEF Session
    <2>3. EndingsMove
      <3>1. CASE PubPcFails(s)
        BY <3>1, PcsUnchanged DEF PubPcFails
      <3>2. CASE EndClose(s)
        BY <3>2, EndingType DEF EndClose, EndingsMove, Ending, Watched, EndedIsEmpty
      <3> QED BY <1>2, <3>1, <3>2
    <2> QED BY <2>1, <2>2, <2>3 DEF PcsMove, SubsMove, ViewersMove, HandlerMoves, Drained
  <1> QED BY <1>1, <1>2

\* Callbacks, tasks and teardowns between the sections that write sessions.
LEMMA ThreadsPass ==
  ASSUME TypeOK, Watched,
         \/ \E p \in Peers : TimerExpires(p)
         \/ \E s \in Sessions : \/ FirstVideo(s) \/ Video(s) \/ PubLostFind(s)
                                \/ EndCancel(s) \/ EndCloseSub(s) \/ EndDetachSub(s) \/ EndClear(s)
         \/ \E u \in Subs : \/ SubPcFails(u) \/ CloserLookup(u) \/ CloserDetach(u)
                            \/ CloserPause(u)
  PROVE PcsMove
  <1>1. UNCHANGED <<handler, session>>
    BY DEF TimerExpires, FirstVideo, Video, VideoCheck, VideoRead, VideoAnnounce,
       VideoIdleCheck, VideoPause, PubLostFind, EndCancel, EndCloseSub, EndDetachSub,
       EndClear, SubPcFails, CloserLookup, CloserDetach, CloserPause
  <1>2. ViewersMove /\ \A p \in Peers : HandlerMoves(p)
    BY <1>1 DEF ViewersMove, HandlerMoves, Drained
  <1>3. CASE UNCHANGED <<sub, closer, ending>>
    BY <1>2, <1>3, PcsUnchanged DEF PcsMove
  <1>4. ASSUME NEW s \in Sessions, EndCloseSub(s)
        PROVE SubsMove /\ EndingsMove
    <2>1. PICK u \in ending[s].todo :
            /\ ClosePc(u)
            /\ \E w : ending' = [ending EXCEPT ![s].at = "detach", ![s].sub = u,
                                               ![s].wait = w, ![s].todo = @ \ {u}]
      BY <1>4 DEF EndCloseSub
    <2>2. u \in Subs
      BY <2>1, EndingType DEF Ending
    <2>3. SubsMove /\ sub'[u].pc # "open"
      BY <2>1, <2>2, ClosePcMoves
    <2>4. PICK w : ending' = [ending EXCEPT ![s].at = "detach", ![s].sub = u,
                                            ![s].wait = w, ![s].todo = @ \ {u}]
      BY <2>1
    <2>5. /\ ending'[s].at = "detach" /\ ending'[s].todo = ending[s].todo \ {u}
          /\ \A t \in Sessions \ {s} : ending'[t] = ending[t]
      BY <2>4, EndingType DEF Ending
    <2> QED BY <2>3, <2>5 DEF EndingsMove, Watched, EndedIsEmpty
  <1>5. ASSUME NEW s \in Sessions, EndCancel(s) \/ EndDetachSub(s) \/ EndClear(s)
        PROVE SubsMove /\ EndingsMove
    <2>1. UNCHANGED <<sub, closer>>
      BY <1>5 DEF EndCancel, EndDetachSub, EndClear
    <2>2. /\ \/ ending'[s].at \in {"close", "subs"} /\ ending'[s].todo = ending[s].todo
             \/ ending[s].todo = {} /\ ending'[s].todo = {}
          /\ \A t \in Sessions \ {s} : ending'[t] = ending[t]
      <3>1. CASE EndDetachSub(s)
        BY <3>1, EndingType DEF EndDetachSub, Ending
      <3>2. CASE EndClear(s)
        BY <3>2, EndingType DEF EndClear, EndingAt
      <3>3. CASE EndCancel(s)
        BY <3>3, EndingType DEF EndCancel, Ending
      <3> QED BY <1>5, <3>1, <3>2, <3>3
    <2> QED BY <2>1, <2>2 DEF SubsMove, EndingsMove, Watched, EndedIsEmpty
  <1>6. ASSUME NEW u \in Subs, SubPcFails(u)
        PROVE SubsMove /\ EndingsMove
    BY <1>6, ClosePcMoves DEF SubPcFails, EndingsMove, Watched, EndedIsEmpty
  <1>7. ASSUME NEW u \in Subs, CloserLookup(u) \/ CloserDetach(u) \/ CloserPause(u)
        PROVE SubsMove /\ EndingsMove
    <2>1. /\ UNCHANGED <<sub, ending>> /\ closer[u].at # "no"
          /\ \A x \in Subs \ {u} : closer'[x] = closer[x]
      BY <1>7, CloserType DEF CloserLookup, CloserDetach, CloserPause
    <2> QED BY <2>1 DEF SubsMove, EndingsMove, Watched, EndedIsEmpty
  <1> QED
    BY <1>2, <1>3, <1>4, <1>5, <1>6, <1>7
       DEF PcsMove, TimerExpires, FirstVideo, Video, VideoCheck, VideoRead, VideoAnnounce,
       VideoIdleCheck, VideoPause, PubLostFind

\* A viewer leaves its session as its PC's close is delivered, or on unsubscribe,
\* which closes the PC the session had.
LEMMA DropsPass ==
  ASSUME TypeOK, Linked, Watched,
         (\E p \in Peers : Drop(p)) \/ (\E u \in Subs : CloserDrop(u))
  PROVE PcsMove
  <1> USE ShareConstants
  <1>1. ASSUME NEW p \in Peers, Drop(p)
        PROVE PcsMove
    <2> DEFINE s == handler[p].session
               u == session[s].subscribers[p]
    <2>1. /\ handler[p].at \in {"dropOnly", "dropAny"} /\ UNCHANGED ending
          /\ \A q \in Peers \ {p} : handler'[q] = handler[q]
      BY <1>1, HandlerType DEF Drop
    <2>2. s \in Sessions
      BY <2>1 DEF Linked, HandlerLinked
    <2>3. handler'[p].at = "closing"
      <3>1. \E w, f : \/ handler' = [handler EXCEPT ![p].at = "closing", ![p].wait = w,
                                                   ![p].flag = f]
                     \/ handler' = [handler EXCEPT ![p].at = "closing", ![p].wait = w]
        BY <1>1 DEF Drop
      <3> QED BY <3>1, HandlerType DEF Handler
    <2>4. EndingsMove /\ \A q \in Peers : HandlerMoves(q)
      BY <2>1, <2>3, HandlerElsewhere DEF EndingsMove, Watched, EndedIsEmpty
    <2>5. CASE u # NoSub /\ session' = Without(s, p) /\ ClosePc(u)
      <3>1. u \in Subs
        BY <2>2, <2>5, SessionType DEF Session, SubOrNone
      <3>2. SubsMove /\ sub'[u].pc # "open"
        BY <2>5, <3>1, ClosePcMoves
      <3>3. ViewersMove
        BY <2>2, <2>5, <3>2, SessionType DEF Without, ViewersMove, Session
      <3> QED BY <2>4, <3>2, <3>3 DEF PcsMove
    <2>6. CASE UNCHANGED <<session, sub, closer>>
      BY <2>4, <2>6 DEF PcsMove, SubsMove, ViewersMove
    <2> QED BY <1>1, <2>5, <2>6 DEF Drop
  <1>2. ASSUME NEW u \in Subs, CloserDrop(u)
        PROVE PcsMove
    <2> DEFINE s == closer[u].session
               v == sub[u].peer
    <2>1. /\ UNCHANGED <<handler, sub, ending>> /\ closer[u].at = "drop"
          /\ \A x \in Subs \ {u} : closer'[x] = closer[x]
      BY <1>2, CloserType DEF CloserDrop
    <2>2. sub[u].pc = "closed"
      BY <2>1 DEF Watched, CloserClosed
    <2>3. \/ session' = session
          \/ session[s].subscribers[v] = u /\ session' = Without(s, v)
      BY <1>2 DEF CloserDrop
    <2>4. ViewersMove
      BY <2>1, <2>2, <2>3, SessionType DEF Without, ViewersMove, Session
    <2> QED BY <2>1, <2>4 DEF PcsMove, SubsMove, EndingsMove, HandlerMoves, Drained, Watched,
            EndedIsEmpty
  <1> QED BY <1>1, <1>2

\* A resume takes the session's viewers to close them.
LEMMA ResumeDrains ==
  ASSUME TypeOK, Watched, NEW p \in Peers, Resume(p)
  PROVE PcsMove
  <1>1. PICK s \in Sessions :
          /\ session' = [session EXCEPT ![s].publisherId = p, ![s].grace = NoPeer,
                                        ![s].subscribers = NoSubs]
          /\ handler' = [handler EXCEPT ![p].at = "resumeCancel",
                                        ![p].publisher = session[s].publisherId,
                                        ![p].grace = session[s].grace,
                                        ![p].todo = PcsIn(session[s].subscribers)]
    BY DEF Resume
  <1>2. handler[p].at = "idle" /\ UNCHANGED <<sub, closer, ending>>
    BY DEF Resume, Ready
  <1>3. /\ handler'[p].at = "resumeCancel" /\ handler'[p].todo = PcsIn(session[s].subscribers)
        /\ \A q \in Peers \ {p} : handler'[q] = handler[q]
    BY <1>1, HandlerType DEF Handler
  <1>4. /\ session'[s].subscribers = NoSubs
        /\ \A t \in Sessions \ {s} : session'[t].subscribers = session[t].subscribers
    BY <1>1, SessionType DEF Session
  <1>5. \A v \in Peers : LET u == session[s].subscribers[v] IN
          NoSubs[v] = NoSub /\ (u # NoSub => u \in Drained(p)')
    BY <1>3 DEF PcsIn, NoSubs, Drained
  <1>6. ViewersMove
    BY <1>4, <1>5 DEF ViewersMove
  <1>7. \A q \in Peers : HandlerMoves(q)
    BY <1>2, <1>3, HandlerElsewhere
  <1> QED BY <1>2, <1>6, <1>7, PcsUnchanged DEF PcsMove

\* The end takes the session's viewers to close them.
LEMMA EndDrains ==
  ASSUME TypeOK, Owned, Watched, NEW s \in Sessions, EndBegin(s),
         UNCHANGED <<sub, closer>>
  PROVE SubsMove /\ ViewersMove /\ EndingsMove
  <1>1. CASE session[s].closed
    BY <1>1, PcsUnchanged DEF EndBegin, ViewersMove
  <1>2. CASE ~session[s].closed
    <2>1. /\ session' = [session EXCEPT ![s].closed = TRUE, ![s].grace = NoPeer,
                                        ![s].subscribers = NoSubs]
          /\ ending' = [ending EXCEPT ![s] = EndingAt("cancel", session[s].grace,
                                                      PcsIn(session[s].subscribers))]
      BY <1>2 DEF EndBegin
    <2>2. /\ session'[s].subscribers = NoSubs
          /\ \A t \in Sessions \ {s} : session'[t].subscribers = session[t].subscribers
      BY <2>1, SessionType DEF Session
    <2>3. /\ ending'[s].at = "cancel" /\ ending'[s].todo = PcsIn(session[s].subscribers)
          /\ \A t \in Sessions \ {s} : ending'[t] = ending[t]
      BY <2>1, EndingType DEF EndingAt
    <2>4. ending[s].todo = {}
      BY <1>2 DEF Owned, EndingIsClosed, Watched, EndedIsEmpty
    <2>5. \A v \in Peers : LET u == session[s].subscribers[v] IN
            NoSubs[v] = NoSub /\ (u # NoSub => u \in ending'[s].todo)
      BY <2>3 DEF PcsIn, NoSubs
    <2>6. ViewersMove
      BY <2>2, <2>5 DEF ViewersMove
    <2>7. EndingsMove
      BY <2>3, <2>4 DEF EndingsMove, Watched, EndedIsEmpty
    <2> QED BY <2>6, <2>7 DEF SubsMove
  <1> QED BY <1>1, <1>2

\* Its callers: a stop, a window that expired, and the loss of the publisher's PC.
LEMMA EndsPass ==
  ASSUME TypeOK, Linked, Owned, Watched,
         \/ \E p \in Peers : StopEnds(p) \/ TimerEnds(p)
         \/ \E s \in Sessions : PubLostEnds(s)
  PROVE PcsMove
  <1>1. ASSUME NEW p \in Peers, StopEnds(p)
        PROVE PcsMove
    <2>1. handler[p].session \in Sessions
      BY <1>1 DEF StopEnds, Linked, HandlerLinked
    <2>2. handler[p].at = "stop" /\ handler'[p].at \in {"idle", "ending"}
      BY <1>1, HandlerType DEF StopEnds, Return, Idle, Handler
    <2>3. \A q \in Peers \ {p} : handler'[q] = handler[q]
      BY <1>1, HandlerType DEF StopEnds, Return
    <2>4. \A q \in Peers : HandlerMoves(q)
      BY <2>2, <2>3, HandlerElsewhere
    <2> QED BY <1>1, <2>1, <2>4, EndDrains DEF StopEnds, PcsMove
  <1>2. ASSUME NEW p \in Peers, TimerEnds(p)
        PROVE PcsMove
    <2>1. timer[p].session \in Sessions
      BY <1>2 DEF TimerEnds, Linked, TimerLinked
    <2> QED BY <1>2, <2>1, EndDrains DEF TimerEnds, PcsMove, HandlerMoves, Drained
  <1>3. ASSUME NEW s \in Sessions, PubLostEnds(s)
        PROVE PcsMove
    BY <1>3, EndDrains DEF PubLostEnds, PcsMove, HandlerMoves, Drained
  <1> QED BY <1>1, <1>2, <1>3

-----------------------------------------------------------------------------
(* Subscribing, and the theorem.                                            *)

\* No registered share is forgotten by a step of the room.
LEMMA KnownStays ==
  ASSUME TypeOK, Linked, Owned, [Next]_vars
  PROVE KnownKept
  <1>1. CASE Quiet
    BY <1>1 DEF Quiet, SessionsQuiet, KnownKept, Known
  <1>2. ASSUME NEW p \in Peers, Join(p) \/ Leave(p) \/ Stop(p) \/ TimerExpires(p)
        PROVE KnownKept
    BY <1>2 DEF Join, Leave, Stop, TimerExpires, roomVars, KnownKept, Known
  <1>3. ASSUME NEW p \in Peers, Left(p) \/ Register(p) \/ Resume(p)
        PROVE KnownKept
    <2>1. CASE Left(p)
      BY <2>1, SessionType DEF Left, ArmGrace, KnownKept, Known, Session
    <2>2. CASE Register(p)
      BY <2>2, SessionType DEF Register, Fresh, KnownKept, Known, Session
    <2>3. CASE Resume(p)
      <3>1. PICK s \in Sessions :
              session' = [session EXCEPT ![s].publisherId = p, ![s].grace = NoPeer,
                                         ![s].subscribers = NoSubs]
        BY <2>3 DEF Resume
      <3>2. \A t \in Sessions : session'[t].closed = session[t].closed
        BY <3>1, SessionType DEF Session
      <3> QED BY <2>3, <3>2 DEF Resume, KnownKept, Known
    <2> QED BY <1>3, <2>1, <2>2, <2>3
  <1>4. ASSUME NEW s \in Sessions, EndBegin(s), UNCHANGED tokens
        PROVE KnownKept
    BY <1>4, EndBeginKeeps DEF KnownKept, Known
  <1>5. ASSUME NEW p \in Peers, StopEnds(p) \/ TimerEnds(p)
        PROVE KnownKept
    <2>1. CASE StopEnds(p)
      BY <1>4, <2>1 DEF StopEnds, roomVars, Linked, HandlerLinked
    <2>2. CASE TimerEnds(p)
      BY <1>4, <2>2 DEF TimerEnds, roomVars, Linked, TimerLinked
    <2> QED BY <1>5, <2>1, <2>2
  <1>6. ASSUME NEW s \in Sessions, PubLostEnds(s) \/ EndClear(s)
        PROVE KnownKept
    <2>1. CASE PubLostEnds(s)
      BY <1>4, <2>1 DEF PubLostEnds, roomVars
    <2>2. CASE EndClear(s)
      BY <2>2 DEF EndClear, KnownKept, Known, Owned, EndingIsClosed
    <2> QED BY <1>6, <2>1, <2>2
  <1> QED BY <1>1, <1>2, <1>3, <1>5, <1>6, StepKinds

\* A subscribe takes a share that some entry shows.
LEMMA SubscribeWatched ==
  ASSUME TypeOK, Linked, Owned, Watched, NEW p \in Peers, NEW k \in Publishers,
         Subscribe(p, k)
  PROVE Watched'
  <1> DEFINE s == SessionOf(k)
  <1>1. handler' = [handler EXCEPT ![p].at = "subPublisher", ![p].session = s]
    BY DEF Subscribe
  <1>2. /\ UNCHANGED <<tokens, session, sub, closer, ending>> /\ handler[p].at = "idle"
        /\ s # NoSession
    BY DEF Subscribe, Ready, roomVars
  <1>3. s \in Sessions /\ Known(s)
    BY <1>2, ScreenSessionType, PeersType
       DEF SessionOf, SessionOrNone, Owned, OwnedShareIsLive, Known
  <1>4. /\ handler'[p].at = "subPublisher" /\ handler'[p].session = s
        /\ \A q \in Peers \ {p} : handler'[q] = handler[q]
    BY <1>1, HandlerType DEF Handler
  <1>5. SubscribersKnow'
    BY <1>2, <1>3, <1>4 DEF Watched, SubscribersKnow, Known
  <1>6. InsertsOwn'
    BY <1>2, <1>4 DEF Watched, InsertsOwn
  <1>7. MadeForViewer' /\ CloserClosed' /\ EndedIsEmpty' /\ ViewersKnown'
    BY <1>2 DEF Watched, MadeForViewer, CloserClosed, EndedIsEmpty, ViewersKnown, Known
  <1>8. ASSUME NEW u \in Subs, sub'[u].pc = "open"
        PROVE Placed(u)'
    <2>1. Placed(u) /\ sub[u].peer \in Peers
      BY <1>2, <1>8 DEF Watched, MadeForViewer
    <2> QED BY <1>2, <1>4, <2>1 DEF Placed, Drained, SubscribedAgain
  <1> QED BY <1>5, <1>6, <1>7, <1>8 DEF Watched

\* The PC it makes is its own, until the session has it.
LEMMA SubBuildWatched ==
  ASSUME TypeOK, Linked, Owned, Watched, NEW p \in Peers, SubBuild(p)
  PROVE Watched'
  <1> USE ShareConstants
  <1> DEFINE s == handler[p].session
  <1>1. PICK u \in Unused :
          /\ sub' = [sub EXCEPT ![u] = [pc |-> "open", peer |-> p, session |-> s]]
          /\ handler' = [handler EXCEPT ![p].at = "subInsert", ![p].sub = u,
                                        ![p].publisher = session[s].publisherId]
    BY DEF SubBuild
  <1>2. /\ UNCHANGED <<tokens, session, closer, ending>> /\ handler[p].at = "subPublisher"
        /\ s \in Sessions /\ u \in Subs /\ sub[u].pc = "none" /\ sub[u].session = NoSession
    BY DEF SubBuild, roomVars, Linked, HandlerLinked, Unused, Watched, MadeForViewer
  <1>3. /\ handler'[p].at = "subInsert" /\ handler'[p].session = s /\ handler'[p].sub = u
        /\ \A q \in Peers \ {p} : handler'[q] = handler[q]
    BY <1>1, HandlerType DEF Handler
  <1>4. /\ sub'[u] = [pc |-> "open", peer |-> p, session |-> s]
        /\ \A x \in Subs \ {u} : sub'[x] = sub[x]
    BY <1>1, <1>2, SubType
  <1>5. MadeForViewer' /\ CloserClosed' /\ EndedIsEmpty'
    BY <1>2, <1>4 DEF Watched, MadeForViewer, CloserClosed, EndedIsEmpty
  <1>6. SubscribersKnow'
    BY <1>2, <1>3 DEF Watched, SubscribersKnow, Known
  <1>7. InsertsOwn'
    <2>1. ASSUME NEW q \in Peers \ {p}, handler[q].at = "subInsert"
          PROVE handler[q].sub # u
      BY <1>2, <2>1 DEF Watched, InsertsOwn
    <2> QED BY <1>2, <1>3, <1>4, <2>1 DEF Watched, InsertsOwn
  <1>8. ViewersKnown'
    <2>1. ASSUME NEW t \in Sessions, NEW v \in Peers, session[t].subscribers[v] # NoSub
          PROVE /\ session[t].subscribers[v] \in Subs \ {u}
      BY <1>2, <2>1, SessionType DEF Session, SubOrNone, Watched, ViewersKnown
    <2> QED BY <1>2, <1>4, <2>1 DEF Watched, ViewersKnown, Known
  <1>9. Placed(u)'
    BY <1>3, <1>4 DEF Placed
  <1>10. ASSUME NEW x \in Subs \ {u}, sub'[x].pc = "open"
         PROVE Placed(x)'
    <2>1. /\ Placed(x) /\ sub[x].peer \in Peers /\ sub[x].session \in Sessions
          /\ sub'[x] = sub[x]
      BY <1>4, <1>10 DEF Watched, MadeForViewer, Linked, SubLinked
    <2>2. CASE SubscribedAgain(x)
      <3>1. PICK w \in Subs \ {x} : /\ sub[w].session = sub[x].session
                                     /\ sub[w].peer = sub[x].peer
        BY <2>2 DEF SubscribedAgain
      <3>2. sub'[w] = sub[w]
        BY <1>2, <1>4, <2>1, <3>1
      <3> QED BY <2>1, <3>1, <3>2 DEF Placed, SubscribedAgain
    <2>3. CASE ~SubscribedAgain(x)
      BY <1>2, <1>3, <2>1, <2>3 DEF Placed, Drained
    <2> QED BY <2>2, <2>3
  <1> QED BY <1>5, <1>6, <1>7, <1>8, <1>9, <1>10 DEF Watched

\* The session takes it, in place of an earlier PC of the same viewer.
LEMMA SubInsertWatched ==
  ASSUME TypeOK, Linked, Owned, Watched, NEW p \in Peers, SubInsert(p),
         TakesViewers(handler[p].session)
  PROVE Watched'
  <1> USE ShareConstants
  <1> DEFINE s == handler[p].session
             u == handler[p].sub
  <1>0. /\ session' = [session EXCEPT ![s].subscribers[p] = u]
        /\ handler' = [handler EXCEPT ![p].at = "subAttach", ![p].flag = LastViewer(s, p)]
    BY DEF SubInsert
  <1>1. UNCHANGED <<tokens, sub, closer, ending>> /\ handler[p].at = "subInsert"
    BY DEF SubInsert, roomVars
  <1>2. /\ u \in Subs /\ sub[u].pc # "none" /\ sub[u].peer = p /\ sub[u].session = s
        /\ s \in Sessions /\ Known(s)
    BY <1>1 DEF Watched, InsertsOwn, SubscribersKnow, Linked, SubLinked
  <1>3. /\ session'[s].subscribers[p] = u
        /\ \A t \in Sessions : session'[t].closed = session[t].closed
        /\ \A t \in Sessions, v \in Peers :
             t # s \/ v # p => session'[t].subscribers[v] = session[t].subscribers[v]
    BY <1>0, <1>2, SessionType DEF Session
  <1>4. /\ handler'[p].at = "subAttach"
        /\ \A q \in Peers \ {p} : handler'[q] = handler[q]
    BY <1>0, HandlerType DEF Handler
  <1>5. MadeForViewer' /\ CloserClosed' /\ EndedIsEmpty'
    BY <1>1 DEF Watched, MadeForViewer, CloserClosed, EndedIsEmpty
  <1>6. SubscribersKnow'
    <2>1. ASSUME NEW q \in Peers \ {p}, handler[q].at \in {"subPublisher", "subInsert"}
          PROVE handler[q].session \in Sessions /\ Known(handler[q].session)
      BY <2>1 DEF Watched, SubscribersKnow, InsertsOwn, Linked, HandlerLinked, SubLinked
    <2> QED BY <1>1, <1>3, <1>4, <2>1 DEF SubscribersKnow, Known
  <1>7. InsertsOwn'
    BY <1>1, <1>4 DEF Watched, InsertsOwn
  <1>8. ViewersKnown'
    BY <1>1, <1>2, <1>3 DEF Watched, ViewersKnown, Known
  <1>9. ASSUME NEW x \in Subs, sub'[x].pc = "open"
        PROVE Placed(x)'
    <2>1. Placed(x) /\ sub[x].peer \in Peers /\ sub[x].session \in Sessions
      BY <1>1, <1>9 DEF Watched, MadeForViewer, Linked, SubLinked
    <2>2. CASE x = u
      BY <1>1, <1>2, <1>3, <2>2 DEF Placed
    <2>3. CASE x # u /\ sub[x].peer = p /\ sub[x].session = s
      BY <1>1, <1>2, <2>3 DEF Placed, SubscribedAgain
    <2>4. CASE x # u /\ ~(sub[x].peer = p /\ sub[x].session = s)
      BY <1>1, <1>3, <1>4, <2>1, <2>4 DEF Placed, Drained, SubscribedAgain
    <2> QED BY <2>2, <2>3, <2>4
  <1> QED BY <1>5, <1>6, <1>7, <1>8, <1>9 DEF Watched

\* The steps of a subscribe that has not been refused.
Opens(p) == \/ \E k \in Publishers : Subscribe(p, k)
            \/ SubBuild(p)
            \/ SubInsert(p) /\ TakesViewers(handler[p].session)

\* Every step keeps every PC in somebody's hands.
LEMMA WatchedStep ==
  ASSUME TypeOK, Linked, Owned, Watched, [Next]_vars
  PROVE Watched'
  <1>1. ASSUME NEW p \in Peers, Join(p) \/ Leave(p) \/ Message(p)
        PROVE PcsMove \/ Opens(p)
    BY <1>1, HandlersPass, ResumeDrains DEF Message, Opens
  <1>2. ASSUME NEW p \in Peers, HandlerStep(p)
        PROVE PcsMove \/ Opens(p)
    BY <1>2, HandlersPass, HandlersClose, SessionsPass, EndsPass, DropsPass DEF HandlerStep, Opens
  <1>3. ASSUME NEW p \in Peers, Timer(p)
        PROVE PcsMove
    BY <1>3, ThreadsPass, EndsPass DEF Timer
  <1>4. ASSUME NEW s \in Sessions,
               FirstVideo(s) \/ Video(s) \/ PubPcFails(s) \/ PubLost(s) \/ EndSession(s)
        PROVE PcsMove
    BY <1>4, ThreadsPass, SessionsPass, EndsPass DEF PubLost, EndSession
  <1>5. ASSUME NEW u \in Subs, SubPcFails(u) \/ OnClosed(u)
        PROVE PcsMove
    BY <1>5, ThreadsPass, DropsPass DEF OnClosed
  <1>6. ASSUME UNCHANGED vars
        PROVE PcsMove
    <2>1. UNCHANGED <<handler, session, sub, closer, ending>>
      BY <1>6 DEF vars
    <2> QED BY <2>1, PcsUnchanged DEF PcsMove, ViewersMove, HandlerMoves, Drained
  <1>7. PcsMove \/ \E p \in Peers : Opens(p)
    BY <1>1, <1>2, <1>3, <1>4, <1>5, <1>6 DEF Next
  <1>8. KnownKept
    BY KnownStays
  <1> QED
    BY <1>7, <1>8, MovesKeep, SubscribeWatched, SubBuildWatched, SubInsertWatched DEF Opens

\* The inductive invariants of this part hold in every behaviour.
LEMMA AlwaysWatched == Safety => [](Owned /\ Held /\ Watched)
  <1>1. Init => Watched
    BY DEF Init, NoSubs, Idle, EndingAt, CloserAt, Watched, MadeForViewer, CloserClosed,
       SubscribersKnow, InsertsOwn, ViewersKnown, EndedIsEmpty
  <1>2. TypeOK /\ Linked /\ Owned /\ Watched /\ [Next]_vars => Watched'
    BY WatchedStep
  <1> QED BY <1>1, <1>2, AlwaysOwned, AlwaysHeld, PTL DEF Safety

\* Once every thread is done, an open viewer PC is held by its live session, unless its
\* viewer has subscribed to that share again (handle_screen_share_subscribe against
\* resume, unsubscribe, removal and end_screen_share_session).
THEOREM NoPcForgotten == Safety => []NoForgottenPc
  <1> USE ShareConstants
  <1>1. ASSUME TypeOK, Linked, Owned, Held, Watched, Quiescent,
               NEW u \in Subs, sub[u].pc = "open"
        PROVE \/ Live(sub[u].session) /\ session[sub[u].session].subscribers[sub[u].peer] = u
              \/ SubscribedAgain(u)
    <2> DEFINE s == sub[u].session
               v == sub[u].peer
    <2>1. Placed(u) /\ s \in Sessions /\ v \in Peers
      BY <1>1 DEF Watched, MadeForViewer, Linked, SubLinked
    <2>2. /\ \A p \in Peers : handler[p].at = "idle" /\ Drained(p) = {}
          /\ ending[s].todo = {}
      BY <1>1, <2>1 DEF Quiescent, Drained, Watched, EndedIsEmpty
    <2>3. CASE session[s].subscribers[v] = u
      <3>1. Known(s)
        BY <1>1, <2>1, <2>3 DEF Watched, ViewersKnown
      <3>2. ~session[s].closed
        BY <1>1, <2>1, <2>3 DEF Held, ClosedShareHasNoViewers, NoSubs
      <3> QED BY <2>3, <3>1, <3>2 DEF Known, Live
    <2> QED BY <2>1, <2>2, <2>3 DEF Placed
  <1>2. TypeOK /\ Linked /\ Owned /\ Held /\ Watched => NoForgottenPc
    BY <1>1 DEF NoForgottenPc
  <1> QED BY <1>2, AlwaysOwned, AlwaysWatched, PTL

-----------------------------------------------------------------------------
(* The room implements ShareLifecycle.                                      *)

\* Connections that joined, whether or not they are still in the room.
HasJoined == {p \in Peers : conn[p] # "new"}

\* A step that keeps who joined, who is here, and every share with its owner.
LEMMA StutterMaps ==
  ASSUME UNCHANGED peers, HasJoined' = HasJoined,
         \A s \in Sessions :
            /\ Stage(s)' = Stage(s)
            /\ Stage(s) # "none" => session'[s].publisherId = session[s].publisherId
  PROVE UNCHANGED Lifecycle!vars
  BY DEF Lifecycle!vars, HasJoined

\* The first section of end_screen_share_session finishes a live share, once.
LEMMA EndBeginMaps ==
  ASSUME TypeOK, NEW s \in Sessions, EndBegin(s), Known(s),
         UNCHANGED <<conn, peers, tokens>>
  PROVE Lifecycle!Finish(s) \/ UNCHANGED Lifecycle!vars
  <1>1. \A t \in Sessions : /\ session'[t].publisherId = session[t].publisherId
                            /\ session'[t].closed <=> session[t].closed \/ t = s
    BY EndBeginKeeps
  <1>2. CASE session[s].closed
    <2>1. \A t \in Sessions : Stage(t)' = Stage(t)
      BY <1>1, <1>2 DEF Stage
    <2> QED BY <1>1, <2>1, StutterMaps DEF HasJoined
  <1>3. CASE ~session[s].closed
    <2>1. Stage(s) = "live" /\ Stage(s)' = "ended"
      BY <1>1, <1>3 DEF Stage, Known
    <2>2. \A t \in Sessions \ {s} : Stage(t)' = Stage(t)
      BY <1>1 DEF Stage
    <2> QED BY <1>1, <2>1, <2>2 DEF Lifecycle!Finish
  <1> QED BY <1>2, <1>3

\* A connected peer whose entry shows no share, or only s, owns no live share but s.
LEMMA OwnsOnlyShown ==
  ASSUME TypeOK, Owned, NEW p \in peers, NEW t \in Sessions, Stage(t) = "live",
         session[t].publisherId = p
  PROVE screenSession[p] = t
  BY DEF Stage, Owned, OwnerKnowsItsShare, Live

\* add_peer is an arrival that replaces the peers it evicts.
LEMMA JoinMaps ==
  ASSUME TypeOK, Owned, NEW p \in Peers, Join(p)
  PROVE Lifecycle!Arrive(p)
  <1>1. /\ conn[p] = "new" /\ conn' = [conn EXCEPT ![p] = "open"]
        /\ peers' = (peers \ Evicted(p)) \cup {p} /\ UNCHANGED <<tokens, session>>
    BY DEF Join
  <1>2. Evicted(p) \subseteq peers /\ peers \subseteq HasJoined /\ p \notin HasJoined
    BY <1>1, PeersType DEF Evicted, Owned, PeersJoined, HasJoined
  <1>3. HasJoined' = HasJoined \cup {p}
    BY <1>1, ConnType DEF HasJoined
  <1>4. HasJoined' \ peers' = (HasJoined \ peers) \cup Evicted(p)
    BY <1>1, <1>2, <1>3
  <1>5. /\ [s \in Sessions |-> Stage(s)]' = [s \in Sessions |-> Stage(s)]
        /\ [s \in Sessions |-> IF Stage(s) = "none" THEN NoPeer ELSE session[s].publisherId]'
            = [s \in Sessions |-> IF Stage(s) = "none" THEN NoPeer ELSE session[s].publisherId]
    BY <1>1 DEF Stage
  <1> QED BY <1>1, <1>2, <1>4, <1>5 DEF Lifecycle!Arrive, HasJoined

\* remove_peer is a departure, or nothing for a peer that was replaced.
LEMMA LeaveMaps ==
  ASSUME TypeOK, Owned, NEW p \in Peers, Leave(p)
  PROVE Lifecycle!Depart(p) \/ UNCHANGED Lifecycle!vars
  <1>1. peers' = peers \ {p} /\ UNCHANGED <<tokens, session>> /\ conn[p] = "open"
    BY DEF Leave, Ready
  <1>2. HasJoined' = HasJoined
    BY <1>1, ConnType DEF Leave, HasJoined
  <1>3. \A s \in Sessions : Stage(s)' = Stage(s)
    BY <1>1 DEF Stage
  <1>4. CASE p \notin peers
    BY <1>1, <1>2, <1>3, <1>4, StutterMaps
  <1>5. CASE p \in peers
    <2>1. HasJoined' \ peers' = (HasJoined \ peers) \cup {p}
      BY <1>1, <1>2, <1>5 DEF HasJoined
    <2> QED BY <1>1, <1>3, <1>5, <2>1 DEF Lifecycle!Depart, HasJoined
  <1> QED BY <1>4, <1>5

\* A registration begins a share; a refused one leaves a PC nobody knows.
LEMMA RegisterMaps ==
  ASSUME TypeOK, Owned, NEW p \in Peers, Register(p)
  PROVE (\E s \in Sessions : Lifecycle!Begin(s, p)) \/ UNCHANGED Lifecycle!vars
  <1>1. PICK s \in Fresh :
          \/ /\ p \in peers /\ screenSession[p] = NoSession /\ tokens' = tokens \cup {s}
             /\ session' = [session EXCEPT ![s].publisherId = p, ![s].pc = "open"]
          \/ /\ session' = [session EXCEPT ![s].publisherId = p, ![s].pc = "closed"]
             /\ UNCHANGED tokens
    BY DEF Register
  <1>2. UNCHANGED <<conn, peers>>
    BY DEF Register
  <1>3. s \in Sessions /\ s \notin tokens /\ ~session[s].closed /\ Stage(s) = "none"
    BY DEF Fresh, Owned, KnownIsBuilt, Known, Stage
  <1>4. /\ \A t \in Sessions \ {s} : session'[t] = session[t]
        /\ session'[s].publisherId = p /\ session'[s].closed = session[s].closed
    BY <1>1, <1>3, SessionType DEF Session
  <1>5. \A t \in Sessions \ {s} : Stage(t)' = Stage(t)
    BY <1>1, <1>4 DEF Stage
  <1>6. CASE p \in peers /\ screenSession[p] = NoSession /\ tokens' = tokens \cup {s}
    <2>1. Stage(s)' = "live"
      BY <1>3, <1>4, <1>6 DEF Stage
    <2>2. \A t \in Sessions : ~(Stage(t) = "live" /\ session[t].publisherId = p)
      BY <1>6, OwnsOnlyShown, ShareConstants
    <2>3. Lifecycle!Owns(p) = {}
      BY <2>2 DEF Lifecycle!Owns
    <2> QED BY <1>2, <1>3, <1>4, <1>5, <1>6, <2>1, <2>3 DEF Lifecycle!Begin
  <1>7. CASE UNCHANGED tokens
    <2>1. Stage(s)' = Stage(s)
      BY <1>3, <1>4, <1>7 DEF Stage
    <2> QED BY <1>2, <1>3, <1>4, <1>5, <2>1, StutterMaps DEF HasJoined
  <1> QED BY <1>1, <1>6, <1>7

\* A resume claims the share of a peer that is gone, or is one's own again.
LEMMA ResumeMaps ==
  ASSUME TypeOK, Owned, NEW p \in Peers, Resume(p)
  PROVE (\E s \in Sessions : Lifecycle!Claim(s, p)) \/ UNCHANGED Lifecycle!vars
  <1>1. PICK s \in Sessions :
          /\ s \in tokens /\ ~session[s].closed /\ p \in peers
          /\ session[s].publisherId \in peers => session[s].publisherId = p
          /\ screenSession[p] \in {NoSession, s}
          /\ session' = [session EXCEPT ![s].publisherId = p, ![s].grace = NoPeer,
                                        ![s].subscribers = NoSubs]
    BY DEF Resume, MayClaim
  <1>2. UNCHANGED <<conn, peers, tokens>>
    BY DEF Resume
  <1>3. /\ \A t \in Sessions \ {s} : session'[t] = session[t]
        /\ session'[s].publisherId = p /\ session'[s].closed = session[s].closed
    BY <1>1, SessionType DEF Session
  <1>4. \A t \in Sessions : Stage(t)' = Stage(t)
    BY <1>2, <1>3 DEF Stage
  <1>5. CASE session[s].publisherId = p
    BY <1>2, <1>3, <1>4, <1>5, StutterMaps DEF HasJoined
  <1>6. CASE session[s].publisherId # p
    <2>1. Stage(s) = "live" /\ session[s].publisherId \in HasJoined \ peers
      BY <1>1, <1>6 DEF Stage, Owned, OwnersJoined, HasJoined
    <2>2. \A t \in Sessions : ~(Stage(t) = "live" /\ session[t].publisherId = p)
      BY <1>1, <1>6, OwnsOnlyShown, ShareConstants
    <2>3. Lifecycle!Owns(p) = {}
      BY <2>2 DEF Lifecycle!Owns
    <2>4. /\ HasJoined' \ peers' = HasJoined \ peers
          /\ [t \in Sessions |-> Stage(t)]' = [t \in Sessions |-> Stage(t)]
      BY <1>2, <1>4 DEF HasJoined
    <2> DEFINE owner == [t \in Sessions |-> IF Stage(t) = "none" THEN NoPeer
                                            ELSE session[t].publisherId]
    <2>5. owner' = [owner EXCEPT ![s] = p]
      BY <1>3, <1>4, <2>1
    <2>6. owner[s] = session[s].publisherId /\ [t \in Sessions |-> Stage(t)][s] = "live"
      BY <2>1
    <2> QED BY <1>1, <1>2, <2>1, <2>3, <2>4, <2>5, <2>6 DEF Lifecycle!Claim, HasJoined
  <1> QED BY <1>5, <1>6

\* Every step of the room is a step of ShareLifecycle, or none.
LEMMA StepMaps ==
  ASSUME TypeOK, Linked, Owned, [Next]_vars
  PROVE [Lifecycle!Next]_(Lifecycle!vars)
  <1>1. CASE Quiet
    <2>1. \A s \in Sessions : Stage(s)' = Stage(s)
      BY <1>1 DEF Quiet, SessionsQuiet, Stage
    <2> QED BY <1>1, <2>1, StutterMaps DEF Quiet, SessionsQuiet, HasJoined
  <1>2. ASSUME NEW p \in Peers, Join(p) \/ Leave(p) \/ Register(p) \/ Resume(p)
        PROVE Lifecycle!Next \/ UNCHANGED Lifecycle!vars
    BY <1>2, JoinMaps, LeaveMaps, RegisterMaps, ResumeMaps DEF Lifecycle!Next
  <1>3. ASSUME NEW p \in Peers, Left(p) PROVE UNCHANGED Lifecycle!vars
    <2>1. UNCHANGED <<peers, tokens>> /\ conn' = [conn EXCEPT ![p] = "gone"] /\ conn[p] # "new"
      BY <1>3 DEF Left, Owned, PeersJoined
    <2>2. \A s \in Sessions : /\ session'[s].publisherId = session[s].publisherId
                              /\ session'[s].closed = session[s].closed
      BY <1>3, SessionType DEF Left, ArmGrace, Session
    <2>3. HasJoined' = HasJoined
      BY <2>1, ConnType DEF HasJoined
    <2>4. \A s \in Sessions : Stage(s)' = Stage(s)
      BY <2>1, <2>2 DEF Stage
    <2> QED BY <2>1, <2>2, <2>3, <2>4, StutterMaps
  <1>4. ASSUME NEW p \in Peers, Stop(p) \/ TimerExpires(p) PROVE UNCHANGED Lifecycle!vars
    <2>1. UNCHANGED <<conn, peers, tokens, session>>
      BY <1>4 DEF Stop, TimerExpires, roomVars
    <2>2. \A s \in Sessions : Stage(s)' = Stage(s)
      BY <2>1 DEF Stage
    <2> QED BY <2>1, <2>2, StutterMaps DEF HasJoined
  <1>5. ASSUME NEW p \in Peers, StopEnds(p) PROVE Lifecycle!Next \/ UNCHANGED Lifecycle!vars
    <2>1. /\ handler[p].session \in Sessions /\ Known(handler[p].session)
          /\ EndBegin(handler[p].session) /\ UNCHANGED <<conn, peers, tokens>>
      BY <1>5 DEF StopEnds, Linked, HandlerLinked, Owned, HandlerKnown, roomVars
    <2> QED BY <2>1, EndBeginMaps DEF Lifecycle!Next
  <1>6. ASSUME NEW p \in Peers, TimerEnds(p) PROVE Lifecycle!Next \/ UNCHANGED Lifecycle!vars
    <2>1. /\ timer[p].session \in Sessions /\ Known(timer[p].session)
          /\ EndBegin(timer[p].session)
          /\ UNCHANGED <<conn, peers, tokens>>
      BY <1>6 DEF TimerEnds, Linked, TimerLinked, Owned, TimerKnown, roomVars
    <2> QED BY <2>1, EndBeginMaps DEF Lifecycle!Next
  <1>7. ASSUME NEW s \in Sessions, PubLostEnds(s)
        PROVE Lifecycle!Next \/ UNCHANGED Lifecycle!vars
    <2>1. Known(s) /\ EndBegin(s) /\ UNCHANGED <<conn, peers, tokens>>
      BY <1>7 DEF PubLostEnds, Owned, LostKnown, roomVars
    <2> QED BY <2>1, EndBeginMaps DEF Lifecycle!Next
  <1>8. ASSUME NEW s \in Sessions, EndClear(s) PROVE UNCHANGED Lifecycle!vars
    <2>1. UNCHANGED <<conn, peers, session>> /\ tokens' = tokens \ {s} /\ session[s].closed
      BY <1>8 DEF EndClear, Owned, EndingIsClosed
    <2>2. \A t \in Sessions : Stage(t)' = Stage(t)
      BY <2>1 DEF Stage
    <2> QED BY <2>1, <2>2, StutterMaps DEF HasJoined
  <1> QED
    BY <1>1, <1>2, <1>3, <1>4, <1>5, <1>6, <1>7, <1>8, StepKinds

\* Whatever locks and threads a share passes through, the room keeps the promise of
\* ShareLifecycle: one owner at a time, claimed only from a peer that is gone, ended once.
THEOREM Implements == Safety => ImplementsLifecycle
  <1>1. Init => Lifecycle!Init
    BY DEF Init, Lifecycle!Init, Stage
  <1>2. TypeOK /\ Linked /\ Owned /\ [Next]_vars => [Lifecycle!Next]_(Lifecycle!vars)
    BY StepMaps
  <1> QED BY <1>1, <1>2, AlwaysOwned, PTL DEF Safety, ImplementsLifecycle, Lifecycle!Spec
=============================================================================
