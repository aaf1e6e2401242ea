------------------------------ MODULE PcDriver ------------------------------
(***************************************************************************)
(* The driver of the PeerConnections (backend/src/sfu/net.rs): the tables  *)
(* of one UDP socket, and the threads that drive the PCs registered on it. *)
(*                                                                         *)
(* A thread drives a PC under its dispatch lock: an input under the lock   *)
(* of its Rtc, then the handler's events, then the end of a dead PC.  The  *)
(* handler of one PC writes into others.  The sections under an Rtc's lock *)
(* are single steps; the locks of a PC's ufrag and of the socket's ufrag   *)
(* table are held across steps, since both are wanted at once.             *)
(***************************************************************************)
EXTENDS Naturals, Sequences, FiniteSets

CONSTANTS
    Pcs,
    Addrs,          \* addresses of the clients
    Nobody,
    MaxInputs,      \* bound on the datagrams received
    MaxWrites,      \* bound on the writes of handlers into a PC
    MaxRestarts     \* bound on the ICE restarts

ASSUME PcConstants ==
    /\ Nobody \notin Pcs \union Addrs
    /\ {"rx", "ctl"} \intersect (Pcs \union {Nobody}) = {}
    /\ {MaxInputs, MaxWrites, MaxRestarts} \subseteq Nat

\* The receive task, a thread with a client's message, and each PC's timer task.
Threads == {"rx", "ctl"} \union Pcs

\* A deadline is unset, over or ahead.
None == 0
Due == 1
Later == 2

VARIABLES
    th,             \* each thread: its next step, the PC it drives, what it does, the source
                    \* of its datagram, the event and the addresses it has taken from the PC
    pc,             \* each PC: its Rtc and the fields of Pc and RtcState
    dispatch,       \* the holder of Pc::dispatch
    table,          \* the holder of the write lock of MuxSocket::ufrags
    name,           \* the holder of Pc::ufrag
    ufrags,         \* MuxSocket::ufrags: PC and how often it had restarted
    routes,         \* MuxSocket::routes
    inputs, writes, restarts    \* counts

locks == <<dispatch, table, name>>
tables == <<ufrags, routes>>
counts == <<inputs, writes, restarts>>
vars == <<th, pc, locks, tables, counts>>

Thread == [at : {"idle", "learn", "remember", "enter", "pop", "handle", "unroute", "table",
                 "name", "closing", "rename", "retable", "load", "sleep", "done"},
           on : Pcs \union {Nobody}, act : {"receive", "timeout", "restart", "disconnect"},
           from : Addrs \union {Nobody}, event : Nat, taken : SUBSET Addrs]

Pc == [alive : BOOLEAN, closed : BOOLEAN, owned : BOOLEAN, dropped : BOOLEAN, creds : Nat,
       ufrag : Nat, remotes : SUBSET Addrs, made : Nat, events : Seq(Nat), handled : Seq(Nat),
       unsent : Nat, deadline : {None, Due, Later}, permit : BOOLEAN]

\* spawn: the PC is in the table before its timer task runs.
NewPc == [alive |-> TRUE, closed |-> FALSE, owned |-> TRUE, dropped |-> FALSE, creds |-> 0,
          ufrag |-> 0, remotes |-> {}, made |-> 0, events |-> <<>>, handled |-> <<>>,
          unsent |-> 0, deadline |-> None, permit |-> FALSE]

Init ==
    /\ th = [t \in Threads |->
                [at |-> IF t \in Pcs THEN "load" ELSE "idle", on |-> IF t \in Pcs THEN t ELSE Nobody,
                 act |-> "timeout", from |-> Nobody, event |-> 0, taken |-> {}]]
    /\ pc = [p \in Pcs |-> NewPc]
    /\ dispatch = [p \in Pcs |-> Nobody]
    /\ table = Nobody
    /\ name = [p \in Pcs |-> Nobody]
    /\ ufrags = Pcs \X {0}
    /\ routes = [a \in Addrs |-> Nobody]
    /\ inputs = 0 /\ writes = 0 /\ restarts = 0

Goes(t, step) == th' = [th EXCEPT ![t].at = step]

\* A thread turns to p to drive it.
Takes(t, p, act, from, step) ==
    th' = [th EXCEPT ![t] = [@ EXCEPT !.at = step, !.on = p, !.act = act, !.from = from]]

-----------------------------------------------------------------------------
(* The receive task. *)

\* A datagram that names its PC, or one from a known address; a dropped PC is not found.
Receive ==
    /\ th["rx"].at = "idle"
    /\ table = Nobody
    /\ inputs < MaxInputs
    /\ inputs' = inputs + 1
    /\ \E a \in Addrs, p \in {q \in Pcs : ~pc[q].dropped} :
        \/ (\E u \in ufrags : u[1] = p) /\ Takes("rx", p, "receive", a, "learn")
        \/ routes[a] = p /\ Takes("rx", p, "receive", a, "enter")
    /\ UNCHANGED <<pc, locks, tables, writes, restarts>>

\* learn inserts an address that leads elsewhere, then tells the PC, under another lock.
LearnInsert ==
    /\ th["rx"].at = "learn"
    /\ routes' = [routes EXCEPT ![th["rx"].from] = th["rx"].on]
    /\ Goes("rx", IF routes' = routes THEN "enter" ELSE "remember")
    /\ UNCHANGED <<pc, locks, ufrags, counts>>

LearnRemember ==
    /\ th["rx"].at = "remember"
    /\ pc' = [pc EXCEPT ![th["rx"].on].remotes = @ \union {th["rx"].from}]
    /\ Goes("rx", "enter")
    /\ UNCHANGED <<locks, tables, counts>>

-----------------------------------------------------------------------------
(* Pc::with, in any thread. *)

\* Mutant: the timer task is not told of an earlier deadline.
SchedulesSilently(c, d) == [c EXCEPT !.deadline = d]

\* The deadline becomes d; the timer task is told when it may sleep past it.
Schedules(c, d) ==
    [c EXCEPT !.deadline = d, !.permit = @ \/ d < c.deadline \/ c.deadline = None]

\* poll: all output goes, to an address not seen before too, until a timeout is asked for.
Flush(p, c) ==
    \E d \in {Due, Later}, new \in {{}} \union {{a} : a \in Addrs \ c.remotes} :
        /\ pc' = [pc EXCEPT ![p] = Schedules([c EXCEPT !.unsent = 0, !.remotes = @ \union new], d)]
        /\ routes' = [a \in Addrs |-> IF a \in new THEN p ELSE routes[a]]

\* An input may make an event or end the Rtc; a restart renames it.
Input(t) ==
    LET p == th[t].on
        made == pc[p].made + 1 IN
    \/ \E c \in {pc[p]} \union
            (CASE th[t].act = "receive" ->
                    {[pc[p] EXCEPT !.made = made, !.events = Append(@, made)]}
               [] th[t].act = "restart" -> {[pc[p] EXCEPT !.creds = @ + 1]}
               [] OTHER -> {}) :
        /\ pc[p].alive /\ th[t].act # "disconnect"
        /\ Flush(p, c)
    \/ /\ ~pc[p].alive \/ th[t].act \in {"disconnect", "receive"}
       /\ pc' = [pc EXCEPT ![p].alive = FALSE]
       /\ UNCHANGED routes

\* Mutant: a thread drives the PC without its dispatch lock.
RunUnordered(t) ==
    /\ th[t].at = "enter"
    /\ dispatch' = [dispatch EXCEPT ![th[t].on] = t]
    /\ Input(t)
    /\ Goes(t, "pop")
    /\ UNCHANGED <<table, name, ufrags, counts>>

\* The dispatch lock is taken, then the Rtc's for the input and the flush.
Run(t) ==
    /\ th[t].at = "enter"
    /\ dispatch[th[t].on] = Nobody
    /\ dispatch' = [dispatch EXCEPT ![th[t].on] = t]
    /\ Input(t)
    /\ Goes(t, "pop")
    /\ UNCHANGED <<table, name, ufrags, counts>>

\* deliver: the next event.
Pop(t) ==
    /\ th[t].at = "pop"
    /\ LET p == th[t].on IN
       /\ pc[p].events # <<>>
       /\ th' = [th EXCEPT ![t].at = "handle", ![t].event = Head(pc[p].events)]
       /\ pc' = [pc EXCEPT ![p].events = Tail(@)]
    /\ UNCHANGED <<locks, tables, counts>>

\* Mutant: only an unset deadline is moved up.
WritesAtRest(c) ==
    IF c.closed THEN c
    ELSE IF c.deadline = None THEN Schedules([c EXCEPT !.unsent = @ + 1], Due)
    ELSE [c EXCEPT !.unsent = @ + 1]

\* Pc::write: the output waits for the timer task, which is told unless it is due anyway.
Writes(c) ==
    IF c.closed THEN c
    ELSE IF c.deadline = Due THEN [c EXCEPT !.unsent = @ + 1]
    ELSE Schedules([c EXCEPT !.unsent = @ + 1], Due)

\* A handler of any PC, this one or another, writes into the PC: no dispatch lock is taken.
Write(p) ==
    /\ writes < MaxWrites
    /\ writes' = writes + 1
    /\ ~pc[p].dropped
    /\ pc' = [pc EXCEPT ![p] = Writes(@)]
    /\ UNCHANGED <<th, locks, tables, inputs, restarts>>

\* on_event.
Handle(t) ==
    /\ th[t].at = "handle"
    /\ pc' = [pc EXCEPT ![th[t].on].handled = Append(@, th[t].event)]
    /\ Goes(t, "pop")
    /\ UNCHANGED <<locks, tables, counts>>

\* The dispatch lock is released; a timer task starts over and a restart has its ufrag renamed.
Leaves(t) ==
    /\ dispatch' = [dispatch EXCEPT ![th[t].on] = Nobody]
    /\ CASE t \in Pcs -> Goes(t, "load")
         [] th[t].act = "restart" -> Goes(t, "rename")
         [] OTHER -> Takes(t, Nobody, "timeout", Nobody, "idle")

\* A PC lives on while its Rtc does, unless ICE has been down for too long.
Leave(t) ==
    /\ th[t].at = "pop" /\ pc[th[t].on].events = <<>>
    /\ pc[th[t].on].alive \/ pc[th[t].on].closed
    /\ Leaves(t)
    /\ UNCHANGED <<pc, table, name, tables, counts>>

-----------------------------------------------------------------------------
(* unregister and the end of a PC. *)

\* The first to find it dead takes its addresses.
Die(t) ==
    /\ th[t].at = "pop" /\ pc[th[t].on].events = <<>>
    /\ ~pc[th[t].on].closed
    /\ th' = [th EXCEPT ![t].at = "unroute", ![t].taken = pc[th[t].on].remotes]
    /\ pc' = [pc EXCEPT ![th[t].on].closed = TRUE, ![th[t].on].remotes = {}]
    /\ UNCHANGED <<locks, tables, counts>>

\* The addresses that still lead to the PC no longer do.
Without(p, addrs) == [a \in Addrs |-> IF a \in addrs /\ routes[a] = p THEN Nobody ELSE routes[a]]

DropRoutes(t) ==
    /\ th[t].at = "unroute"
    /\ routes' = Without(th[t].on, th[t].taken)
    /\ th' = [th EXCEPT ![t].at = "table", ![t].taken = {}]
    /\ UNCHANGED <<pc, locks, ufrags, counts>>

LockTable(t) ==
    /\ th[t].at = "table"
    /\ table = Nobody
    /\ table' = t
    /\ Goes(t, "name")
    /\ UNCHANGED <<pc, dispatch, name, tables, counts>>

DropUfrag(t) ==
    /\ th[t].at = "name"
    /\ name[th[t].on] = Nobody
    /\ ufrags' = ufrags \ {<<th[t].on, pc[th[t].on].ufrag>>}
    /\ table' = Nobody
    /\ Goes(t, "closing")
    /\ UNCHANGED <<pc, dispatch, name, routes, counts>>

\* on_closed: a handler that closes the PC again finds it closed.
OnClosed(t) ==
    /\ th[t].at = "closing"
    /\ pc' = [pc EXCEPT ![th[t].on].permit = TRUE, ![th[t].on].handled = Append(@, 0)]
    /\ Leaves(t)
    /\ UNCHANGED <<table, name, tables, counts>>

\* Mutant: a PC that is gone leaves what it was registered under.
DropKeepsEntries(p) ==
    /\ pc[p].closed /\ ~pc[p].owned /\ ~pc[p].dropped
    /\ th[p].at = "done" /\ \A t \in Threads \ Pcs : th[t].on # p
    /\ pc' = [pc EXCEPT ![p].dropped = TRUE, ![p].remotes = {}]
    /\ UNCHANGED <<th, locks, tables, counts>>

\* Drop, once the handler and every thread have let go of the PC: unregister again.
Drop(p) ==
    /\ pc[p].closed /\ ~pc[p].owned /\ ~pc[p].dropped
    /\ th[p].at = "done" /\ \A t \in Threads \ Pcs : th[t].on # p
    /\ pc' = [pc EXCEPT ![p].dropped = TRUE, ![p].remotes = {}]
    /\ routes' = Without(p, pc[p].remotes)
    /\ table = Nobody
    /\ ufrags' = ufrags \ {<<p, pc[p].ufrag>>}
    /\ UNCHANGED <<th, locks, counts>>

-----------------------------------------------------------------------------
(* The timer task. *)

\* A due deadline is not slept on; an unset one waits for the watchdog.
Load(p) ==
    /\ th[p].at = "load"
    /\ Goes(p, IF pc[p].closed THEN "done" ELSE IF pc[p].deadline = Due THEN "enter" ELSE "sleep")
    /\ UNCHANGED <<pc, locks, tables, counts>>

Wake(p) ==
    /\ th[p].at = "sleep"
    /\ pc[p].permit
    /\ pc' = [pc EXCEPT ![p].permit = FALSE]
    /\ Goes(p, IF pc[p].closed THEN "done" ELSE "enter")
    /\ UNCHANGED <<locks, tables, counts>>

\* The time slept until, or the watchdog's second, passes.
TimePasses(p) ==
    /\ th[p].at = "sleep"
    /\ Goes(p, IF pc[p].closed THEN "done" ELSE "enter")
    /\ UNCHANGED <<pc, locks, tables, counts>>

-----------------------------------------------------------------------------
(* A client's message. *)

\* The publisher restarts ICE.
Restart ==
    /\ th["ctl"].at = "idle"
    /\ restarts < MaxRestarts
    /\ restarts' = restarts + 1
    /\ \E p \in Pcs : pc[p].owned /\ Takes("ctl", p, "restart", Nobody, "enter")
    /\ UNCHANGED <<pc, locks, tables, inputs, writes>>

\* refresh_ufrag, under the lock of the PC's ufrag.
Rename ==
    /\ th["ctl"].at = "rename"
    /\ LET p == th["ctl"].on IN
       /\ name[p] = Nobody
       /\ IF pc[p].creds = pc[p].ufrag
          THEN Takes("ctl", Nobody, "timeout", Nobody, "idle") /\ UNCHANGED name
          ELSE Goes("ctl", "retable") /\ name' = [name EXCEPT ![p] = "ctl"]
    /\ UNCHANGED <<pc, dispatch, table, tables, counts>>

Retable ==
    /\ th["ctl"].at = "retable"
    /\ table = Nobody
    /\ LET p == th["ctl"].on IN
       /\ ufrags' = (ufrags \ {<<p, pc[p].ufrag>>}) \union {<<p, pc[p].creds>>}
       /\ pc' = [pc EXCEPT ![p].ufrag = pc[p].creds]
       /\ name' = [name EXCEPT ![p] = Nobody]
    /\ Takes("ctl", Nobody, "timeout", Nobody, "idle")
    /\ UNCHANGED <<dispatch, table, routes, counts>>

\* close, by the owner of the PC.
Close ==
    /\ th["ctl"].at = "idle"
    /\ \E p \in Pcs :
        /\ pc[p].owned /\ ~pc[p].closed
        /\ Takes("ctl", p, "disconnect", Nobody, "enter")
    /\ UNCHANGED <<pc, locks, tables, counts>>

\* The owner of a closed PC lets go of it.
Disown(p) ==
    /\ pc[p].owned /\ pc[p].closed
    /\ pc' = [pc EXCEPT ![p].owned = FALSE]
    /\ UNCHANGED <<th, locks, tables, counts>>

-----------------------------------------------------------------------------
Drive(t) ==
    \/ Run(t) \/ Pop(t) \/ Handle(t) \/ Leave(t)
    \/ Die(t) \/ DropRoutes(t) \/ LockTable(t) \/ DropUfrag(t) \/ OnClosed(t)

Learn == LearnInsert \/ LearnRemember

Timer(p) == Load(p) \/ Wake(p)

Next ==
    \/ Receive \/ Learn
    \/ \E t \in Threads : Drive(t)
    \/ \E p \in Pcs : Timer(p) \/ TimePasses(p) \/ Write(p) \/ Disown(p) \/ Drop(p)
    \/ Restart \/ Rename \/ Retable \/ Close

\* Threads run and get the locks they wait for. Nothing is assumed of time, of the watchdog
\* least of all: it would hide a wake-up that was lost.
Fairness ==
    /\ \A t \in Threads : WF_vars(Drive(t))
    /\ \A p \in Pcs : WF_vars(Timer(p))
    /\ WF_vars(Learn) /\ WF_vars(Rename \/ Retable)

Spec == Init /\ [][Next]_vars /\ Fairness

-----------------------------------------------------------------------------
\* The variables have their types, and whoever is between taking and releasing a lock holds it.
TypeOK ==
    /\ th \in [Threads -> Thread]
    /\ pc \in [Pcs -> Pc]
    /\ dispatch \in [Pcs -> Threads \union {Nobody}]
    /\ table \in Threads \union {Nobody}
    /\ name \in [Pcs -> {"ctl", Nobody}]
    /\ ufrags \subseteq Pcs \X (0 .. MaxRestarts)
    /\ routes \in [Addrs -> Pcs \union {Nobody}]
    /\ \A t \in Threads : th[t].at = "name" <=> table = t
    /\ \A t \in Threads : th[t].at \in {"pop", "handle", "unroute", "table", "name", "closing"} => dispatch[th[t].on] = t

\* A handler gets the events of its PC in the order they were made, whichever threads drive
\* it, and is told once that the PC closed (net.rs:8-9, :39-41).
EventsInOrder ==
    \A p \in Pcs :
        /\ \A i, j \in DOMAIN pc[p].handled : i < j =>
                \/ 0 \in {pc[p].handled[i], pc[p].handled[j]}
                \/ pc[p].handled[i] < pc[p].handled[j]
        /\ Cardinality({i \in DOMAIN pc[p].handled : pc[p].handled[i] = 0}) <= 1

\* Nothing in the socket's tables names a PC that is gone, though a datagram or a restart may
\* have registered it again after it was closed (learn, poll and refresh_ufrag).
GoneIsUnrouted ==
    \A p \in Pcs : pc[p].dropped =>
        /\ \A a \in Addrs : routes[a] # p
        /\ \A u \in ufrags : u[1] # p

\* Two threads each hold a lock the other waits for.
Deadlocked ==
    \E p \in Pcs, t \in Threads :
        /\ th[t].at = "name" /\ th[t].on = p
        /\ name[p] = "ctl" /\ th["ctl"].at = "retable"

\* What a handler wrote into a PC goes out though the timer of its Rtc is far away and nothing
\* arrives for it: no wake-up of the timer task is lost.
WritesComeOut == \A p \in Pcs :
    pc[p].unsent > 0 ~> pc[p].unsent = 0 \/ ~pc[p].alive \/ pc[p].closed \/ Deadlocked

\* What net.rs:129 says: one misbehaving PC must not take down every PC on its socket. The
\* receive task reads the table of ufrags for each datagram.
OthersAreServed == ~Deadlocked
=============================================================================
