---------------------------- MODULE Media_proofs ----------------------------
(***************************************************************************)
(* Media, for any PCs, addresses, rings and numbers of steps: a handler    *)
(* gets the events of its PC in order whichever threads drive it, and      *)
(* nothing leads to a PC that is gone; a viewer's target does not move     *)
(* before its time, and only a long outage lets a frame through that its   *)
(* decoder cannot use; the voices in a slot make one run of numbers.       *)
(***************************************************************************)
EXTENDS PcDriver, VoiceStream, VideoForward, FiniteSetTheorems, SequenceTheorems, TLAPS

-----------------------------------------------------------------------------
(* Who drives what.                                                        *)

Critical == {"pop", "handle", "unroute", "table", "name", "closing"}
Ending == {"unroute", "table", "name", "closing"}

\* The timer task of a PC drives that PC, the receive task and a client's message some PC
\* unless they are idle; only a client restarts ICE.
Role(t, s) ==
    /\ t \in Pcs =>
        /\ s.at \in Critical \union {"enter", "load", "sleep", "done"}
        /\ s.on = t
    /\ t = "rx" =>
        /\ s.at \in Critical \union {"idle", "learn", "remember", "enter"}
        /\ s.at # "idle" => s.on \in Pcs
        /\ s.at \in {"learn", "remember"} => s.from \in Addrs
    /\ t = "ctl" =>
        /\ s.at \in Critical \union {"idle", "enter", "rename", "retable"}
        /\ s.at # "idle" => s.on \in Pcs
    /\ s.act = "restart" => t = "ctl"

RolesOK == \A t \in Threads : Role(t, th[t])

\* No PC restarted more often than clients asked, and one they asked for is yet to come.
CredsOK ==
    /\ restarts \in 0 .. MaxRestarts
    /\ \A p \in Pcs : pc[p].ufrag <= pc[p].creds /\ pc[p].creds <= restarts
    /\ \A t \in Threads : th[t].at = "enter" /\ th[t].act = "restart" => pc[th[t].on].creds < restarts

Driven == TypeOK /\ RolesOK /\ CredsOK /\ inputs \in Nat /\ writes \in Nat

\* A thread other than the timer tasks is one of two.
LEMMA ThreadIs ==
    ASSUME NEW t \in Threads
    PROVE  /\ t \in Pcs \/ t = "rx" \/ t = "ctl"
           /\ "rx" \in Threads /\ "ctl" \in Threads /\ Pcs \subseteq Threads
           /\ "rx" \notin Pcs /\ "ctl" \notin Pcs /\ Nobody \notin Threads /\ Nobody \notin Pcs
  BY PcConstants DEF Threads

\* A thread that drives a PC drives a PC of the socket.
LEMMA DrivesPc ==
    ASSUME RolesOK, NEW t \in Threads, th[t].at # "idle"
    PROVE  th[t].on \in Pcs
  BY ThreadIs DEF RolesOK, Role

LEMMA DrivenInit == Init => Driven
  <1> SUFFICES ASSUME Init PROVE Driven
    OBVIOUS
  <1>0. MaxRestarts \in Nat
    BY PcConstants
  <1>1. \A t \in Threads : th[t] \in Thread
    BY ThreadIs DEF Init, Thread
  <1>2. NewPc \in Pc
    <2>1. <<>> \in Seq(Nat)
      OBVIOUS
    <2> QED BY <2>1 DEF NewPc, Pc, None, Due, Later
  <1>3. TypeOK
    <2>1. th \in [Threads -> Thread] /\ pc \in [Pcs -> Pc]
      BY <1>1, <1>2 DEF Init
    <2>2. \A t \in Threads : th[t].at \in {"idle", "load"}
      BY DEF Init
    <2>3. \A t \in Threads : table # t
      BY ThreadIs DEF Init
    <2> QED BY <1>0, <2>1, <2>2, <2>3 DEF Init, TypeOK
  <1>w. /\ "rx" \in Threads \ Pcs /\ "ctl" \in Threads \ Pcs /\ Pcs \subseteq Threads
    BY PcConstants DEF Threads
  <1>4. RolesOK
    <2>1. \A t \in Threads : th[t].act = "timeout" /\ (t \notin Pcs => th[t].at = "idle")
      BY DEF Init
    <2>2. \A p \in Pcs : th[p].at = "load" /\ th[p].on = p
      BY <1>w DEF Init
    <2> QED BY <1>w, <2>1, <2>2 DEF RolesOK, Role
  <1>5. CredsOK
    <2>1. \A p \in Pcs : pc[p].creds = 0 /\ pc[p].ufrag = 0
      BY DEF Init, NewPc
    <2>2. \A t \in Threads : th[t].at # "enter"
      BY DEF Init
    <2> QED BY <1>0, <2>1, <2>2 DEF Init, CredsOK
  <1> QED BY <1>3, <1>4, <1>5 DEF Init, Driven

-----------------------------------------------------------------------------
(* What a step of a thread changes.                                        *)

\* A thread that goes on to its next step.
LEMMA GoesOn ==
    ASSUME th \in [Threads -> Thread], NEW t \in Threads, NEW step, Goes(t, step),
           step \in Critical \union {"idle", "learn", "remember", "enter", "rename", "retable",
                                     "load", "sleep", "done"}
    PROVE  /\ th' \in [Threads -> Thread]
           /\ th'[t].at = step /\ th'[t].on = th[t].on /\ th'[t].act = th[t].act
           /\ th'[t].from = th[t].from /\ th'[t].event = th[t].event /\ th'[t].taken = th[t].taken
           /\ \A u \in Threads \ {t} : th'[u] = th[u]
  BY DEF Goes, Thread, Critical

\* A thread that turns to a PC, or to none.
LEMMA TurnsTo ==
    ASSUME th \in [Threads -> Thread], NEW t \in Threads, NEW p \in Pcs \union {Nobody},
           NEW act \in {"receive", "timeout", "restart", "disconnect"},
           NEW from \in Addrs \union {Nobody}, NEW step \in {"idle", "learn", "enter"},
           Takes(t, p, act, from, step)
    PROVE  /\ th' \in [Threads -> Thread]
           /\ th'[t].at = step /\ th'[t].on = p /\ th'[t].act = act /\ th'[t].from = from
           /\ \A u \in Threads \ {t} : th'[u] = th[u]
  BY DEF Takes, Thread

\* A PC that becomes another.
LEMMA Becomes ==
    ASSUME pc \in [Pcs -> Pc], NEW p \in Pcs, NEW c \in Pc, pc' = [pc EXCEPT ![p] = c]
    PROVE  pc' \in [Pcs -> Pc] /\ pc'[p] = c /\ (\A q \in Pcs \ {p} : pc'[q] = pc[q])
  OBVIOUS

\* What no input changes.
Intact(c, d) ==
    /\ c.closed = d.closed /\ c.owned = d.owned /\ c.dropped = d.dropped
    /\ c.ufrag = d.ufrag /\ c.handled = d.handled

\* poll only adds addresses, and sends to the PC whatever comes from them.
LEMMA FlushDoes ==
    ASSUME pc \in [Pcs -> Pc], routes \in [Addrs -> Pcs \union {Nobody}],
           NEW p \in Pcs, NEW c \in Pc, Flush(p, c)
    PROVE  /\ pc' \in [Pcs -> Pc] /\ (\A q \in Pcs \ {p} : pc'[q] = pc[q])
           /\ Intact(pc'[p], c) /\ pc'[p].creds = c.creds
           /\ pc'[p].events = c.events /\ pc'[p].made = c.made /\ c.remotes \subseteq pc'[p].remotes
           /\ routes' \in [Addrs -> Pcs \union {Nobody}]
           /\ \A a \in Addrs : \/ routes'[a] = routes[a]
                               \/ routes'[a] = p /\ a \in pc'[p].remotes
  <1>1. PICK d \in {Due, Later}, new \in {{}} \union {{a} : a \in Addrs \ c.remotes} :
            /\ pc' = [pc EXCEPT ![p] = Schedules([c EXCEPT !.unsent = 0, !.remotes = @ \union new], d)]
            /\ routes' = [a \in Addrs |-> IF a \in new THEN p ELSE routes[a]]
    BY DEF Flush
  <1> DEFINE e == [c EXCEPT !.unsent = 0, !.remotes = @ \union new]
             f == Schedules(e, d)
  <1>2. new \subseteq Addrs
    OBVIOUS
  <1>3. e \in Pc /\ Intact(e, c) /\ e.creds = c.creds /\ e.events = c.events /\ e.made = c.made
            /\ e.remotes = c.remotes \union new
    BY <1>2 DEF Pc, Intact
  <1> HIDE DEF e
  <1>4. f \in Pc /\ Intact(f, e) /\ f.creds = e.creds /\ f.events = e.events /\ f.made = e.made
            /\ f.remotes = e.remotes
    BY <1>3 DEF Schedules, Pc, Intact, None, Due, Later
  <1>5. pc' = [pc EXCEPT ![p] = f]
    BY <1>1 DEF e
  <1> HIDE DEF f
  <1>6. pc' \in [Pcs -> Pc] /\ pc'[p] = f /\ (\A q \in Pcs \ {p} : pc'[q] = pc[q])
    BY <1>4, <1>5, Becomes
  <1>7. routes' \in [Addrs -> Pcs \union {Nobody}]
           /\ \A a \in Addrs : \/ routes'[a] = routes[a]
                               \/ routes'[a] = p /\ a \in new
    BY <1>1
  <1> QED BY <1>3, <1>4, <1>6, <1>7 DEF Intact

\* An input makes an event at most, or restarts the Rtc when that was asked for.
LEMMA InputDoes ==
    ASSUME TypeOK, NEW t \in Threads, th[t].on \in Pcs, Input(t)
    PROVE  LET p == th[t].on IN
           /\ pc' \in [Pcs -> Pc] /\ (\A q \in Pcs \ {p} : pc'[q] = pc[q])
           /\ Intact(pc'[p], pc[p]) /\ pc[p].remotes \subseteq pc'[p].remotes
           /\ \/ pc'[p].creds = pc[p].creds
              \/ th[t].act = "restart" /\ pc'[p].creds = pc[p].creds + 1
           /\ \/ pc'[p].made = pc[p].made /\ pc'[p].events = pc[p].events
              \/ pc'[p].made = pc[p].made + 1 /\ pc'[p].events = Append(pc[p].events, pc[p].made + 1)
           /\ routes' \in [Addrs -> Pcs \union {Nobody}]
           /\ \A a \in Addrs : \/ routes'[a] = routes[a]
                               \/ routes'[a] = p /\ a \in pc'[p].remotes
  <1> DEFINE p == th[t].on
             made == pc[p].made + 1
             received == [pc[p] EXCEPT !.made = made, !.events = Append(@, made)]
             restarted == [pc[p] EXCEPT !.creds = @ + 1]
             ended == [pc[p] EXCEPT !.alive = FALSE]
  <1>0. pc \in [Pcs -> Pc] /\ pc[p] \in Pc /\ routes \in [Addrs -> Pcs \union {Nobody}] /\ p \in Pcs
    BY DEF TypeOK
  <1>1. received \in Pc /\ Intact(received, pc[p]) /\ received.creds = pc[p].creds
            /\ received.made = pc[p].made + 1 /\ received.events = Append(pc[p].events, pc[p].made + 1)
            /\ received.remotes = pc[p].remotes
    <2>1. made \in Nat /\ pc[p].events \in Seq(Nat)
      BY <1>0 DEF Pc
    <2>2. Append(pc[p].events, made) \in Seq(Nat)
      BY <2>1
    <2> QED BY <1>0, <2>1, <2>2 DEF Pc, Intact
  <1>2. restarted \in Pc /\ Intact(restarted, pc[p]) /\ restarted.creds = pc[p].creds + 1
            /\ restarted.made = pc[p].made /\ restarted.events = pc[p].events
            /\ restarted.remotes = pc[p].remotes
    <2> DEFINE c == pc[p]
    <2>1. c \in Pc /\ c.creds + 1 \in Nat /\ restarted = [c EXCEPT !.creds = c.creds + 1]
      BY <1>0 DEF Pc
    <2> HIDE DEF restarted
    <2>2. restarted \in Pc /\ Intact(restarted, c) /\ restarted.creds = c.creds + 1
            /\ restarted.made = c.made /\ restarted.events = c.events
            /\ restarted.remotes = c.remotes
      <3> HIDE DEF c
      <3> QED BY <2>1 DEF Pc, Intact
    <2> QED BY <2>2
  <1>3. ended \in Pc /\ Intact(ended, pc[p]) /\ ended.creds = pc[p].creds
            /\ ended.made = pc[p].made /\ ended.events = pc[p].events
            /\ ended.remotes = pc[p].remotes
    BY <1>0 DEF Pc, Intact
  <1>4. \/ Flush(p, pc[p])
        \/ Flush(p, received)
        \/ th[t].act = "restart" /\ Flush(p, restarted)
        \/ pc' = [pc EXCEPT ![p] = ended] /\ UNCHANGED routes
    BY <1>0 DEF Input
  <1> HIDE DEF received, restarted, ended, p
  <1>5. CASE Flush(p, pc[p])
    BY <1>0, <1>5, FlushDoes DEF Intact, p
  <1>6. CASE Flush(p, received)
    BY <1>0, <1>1, <1>6, FlushDoes DEF Intact, p
  <1>7. CASE th[t].act = "restart" /\ Flush(p, restarted)
    BY <1>0, <1>2, <1>7, FlushDoes DEF Intact, p
  <1>8. CASE pc' = [pc EXCEPT ![p] = ended] /\ UNCHANGED routes
    <2>1. pc' \in [Pcs -> Pc] /\ pc'[p] = ended /\ (\A q \in Pcs \ {p} : pc'[q] = pc[q])
      BY <1>0, <1>3, <1>8, Becomes
    <2> QED BY <1>0, <1>3, <1>8, <2>1 DEF Intact, p
  <1> QED BY <1>4, <1>5, <1>6, <1>7, <1>8

-----------------------------------------------------------------------------
(* Every step keeps who drives what.                                       *)

\* What a step of one thread must see to.
LEMMA StepOfOne ==
    ASSUME Driven, NEW t \in Threads,
           th' \in [Threads -> Thread], \A u \in Threads \ {t} : th'[u] = th[u], Role(t, th'[t]),
           pc' \in [Pcs -> Pc], routes' \in [Addrs -> Pcs \union {Nobody}],
           name' \in [Pcs -> {"ctl", Nobody}], ufrags' \subseteq Pcs \X (0 .. MaxRestarts),
           \/ table' = table /\ th'[t].at # "name" /\ th[t].at # "name"
           \/ table = Nobody /\ table' = t /\ th'[t].at = "name"
           \/ table = t /\ table' = Nobody /\ th'[t].at # "name",
           \/ dispatch' = dispatch
              /\ (th'[t].at \in Critical => th[t].at \in Critical /\ th'[t].on = th[t].on)
           \/ /\ th[t].on \in Pcs /\ dispatch[th[t].on] = Nobody
              /\ dispatch' = [dispatch EXCEPT ![th[t].on] = t] /\ th'[t].on = th[t].on
           \/ /\ th[t].on \in Pcs /\ dispatch[th[t].on] = t
              /\ dispatch' = [dispatch EXCEPT ![th[t].on] = Nobody] /\ th'[t].at \notin Critical,
           restarts' \in 0 .. MaxRestarts, restarts <= restarts',
           \A p \in Pcs : /\ pc'[p].ufrag <= pc'[p].creds /\ pc'[p].creds <= restarts'
                          /\ pc'[p].creds = pc[p].creds \/ t = "ctl",
           th'[t].at = "enter" /\ th'[t].act = "restart" => pc'[th'[t].on].creds < restarts',
           inputs' \in Nat, writes' \in Nat
    PROVE  Driven'
  <1>0. Nobody \notin Threads /\ Nobody \notin Pcs
    BY ThreadIs
  <1>1. \A u \in Threads : th[u].at = "name" <=> table = u
    BY DEF Driven, TypeOK
  <1>2. \A u \in Threads : th'[u].at = "name" <=> table' = u
    BY <1>0, <1>1
  <1>3. \A u \in Threads : th[u].at \in Critical => dispatch[th[u].on] = u /\ th[u].on \in Pcs
    BY DrivesPc DEF Driven, TypeOK, Critical
  <1>4. \A u \in Threads : th'[u].at \in Critical => dispatch'[th'[u].on] = u
    <2>1. dispatch \in [Pcs -> Threads \union {Nobody}]
      BY DEF Driven, TypeOK
    <2> QED BY <1>0, <1>3, <2>1
  <1>5. dispatch' \in [Pcs -> Threads \union {Nobody}] /\ table' \in Threads \union {Nobody}
    BY DEF Driven, TypeOK
  <1>6. TypeOK'
    BY <1>2, <1>4, <1>5 DEF TypeOK, Critical
  <1>7. RolesOK'
    BY DEF Driven, RolesOK, Role
  <1>8. CredsOK'
    <2>1. \A u \in Threads : th[u].at = "enter" => th[u].on \in Pcs
      BY DrivesPc DEF Driven
    <2>2. ASSUME NEW u \in Threads \ {t}, th'[u].at = "enter", th'[u].act = "restart"
          PROVE  pc'[th'[u].on].creds < restarts'
      <3>1. th[u].on \in Pcs /\ pc[th[u].on].creds < restarts /\ th'[u].on = th[u].on
        BY <2>1, <2>2 DEF Driven, CredsOK
      <3>2. pc'[th[u].on].creds = pc[th[u].on].creds
        <4>1. u = "ctl"
          BY <2>2 DEF Driven, RolesOK, Role
        <4> QED BY <3>1, <4>1
      <3>3. restarts \in Nat /\ restarts' \in Nat /\ pc[th[u].on].creds \in Nat
        BY <3>1 DEF Driven, TypeOK, Pc, CredsOK
      <3> QED BY <3>1, <3>2, <3>3
    <2> QED BY <2>2 DEF CredsOK
  <1> QED BY <1>6, <1>7, <1>8 DEF Driven

\* A step of one thread that leaves the PCs and the counts alone.
LEMMA StepAside ==
    ASSUME Driven, NEW t \in Threads,
           th' \in [Threads -> Thread], \A u \in Threads \ {t} : th'[u] = th[u], Role(t, th'[t]),
           UNCHANGED <<pc, name, counts>>, th'[t].at # "enter" \/ th'[t].act # "restart",
           routes' \in [Addrs -> Pcs \union {Nobody}], ufrags' \subseteq ufrags,
           \/ table' = table /\ th'[t].at # "name" /\ th[t].at # "name"
           \/ table = Nobody /\ table' = t /\ th'[t].at = "name"
           \/ table = t /\ table' = Nobody /\ th'[t].at # "name",
           \/ /\ dispatch' = dispatch
              /\ th'[t].at \in Critical => th[t].at \in Critical /\ th'[t].on = th[t].on
           \/ /\ th[t].on \in Pcs /\ dispatch[th[t].on] = t
              /\ dispatch' = [dispatch EXCEPT ![th[t].on] = Nobody] /\ th'[t].at \notin Critical
    PROVE  Driven'
  <1>1. /\ restarts' \in 0 .. MaxRestarts /\ restarts <= restarts' /\ inputs' \in Nat /\ writes' \in Nat
        /\ \A p \in Pcs : pc'[p].ufrag <= pc'[p].creds /\ pc'[p].creds <= restarts'
    BY DEF Driven, CredsOK, counts
  <1>2. /\ pc' \in [Pcs -> Pc] /\ name' \in [Pcs -> {"ctl", Nobody}]
        /\ ufrags' \subseteq Pcs \X (0 .. MaxRestarts)
    BY DEF Driven, TypeOK
  <1> QED BY <1>1, <1>2, StepOfOne

\* A step of one thread that changes the PC it drives, and no name of it, or nothing.
LEMMA StepOnPc ==
    ASSUME Driven, NEW t \in Threads, NEW p \in Pcs, NEW c \in Pc,
           th' \in [Threads -> Thread], \A u \in Threads \ {t} : th'[u] = th[u], Role(t, th'[t]),
           pc' = [pc EXCEPT ![p] = c], c.creds = pc[p].creds, c.ufrag = pc[p].ufrag,
           UNCHANGED <<name, tables, counts, table>>, th'[t].at # "name", th[t].at # "name",
           th'[t].at # "enter" \/ th'[t].act # "restart",
           \/ /\ dispatch' = dispatch
              /\ th'[t].at \in Critical => th[t].at \in Critical /\ th'[t].on = th[t].on
           \/ /\ th[t].on \in Pcs /\ dispatch[th[t].on] = t
              /\ dispatch' = [dispatch EXCEPT ![th[t].on] = Nobody] /\ th'[t].at \notin Critical
    PROVE  Driven'
  <1>0. pc \in [Pcs -> Pc]
    BY DEF Driven, TypeOK
  <1>1. pc' \in [Pcs -> Pc] /\ pc'[p] = c /\ (\A q \in Pcs \ {p} : pc'[q] = pc[q])
    BY <1>0, Becomes
  <1>2. /\ restarts' \in 0 .. MaxRestarts /\ restarts <= restarts' /\ inputs' \in Nat /\ writes' \in Nat
        /\ \A q \in Pcs : /\ pc'[q].ufrag <= pc'[q].creds /\ pc'[q].creds <= restarts'
                          /\ pc'[q].creds = pc[q].creds
    BY <1>1 DEF Driven, CredsOK, counts
  <1>3. /\ routes' \in [Addrs -> Pcs \union {Nobody}] /\ name' \in [Pcs -> {"ctl", Nobody}]
        /\ ufrags' \subseteq Pcs \X (0 .. MaxRestarts)
    BY DEF Driven, TypeOK, tables
  <1> QED BY <1>1, <1>2, <1>3, StepOfOne

LEMMA DrivenReceive == Driven /\ Receive => Driven'
  <1> SUFFICES ASSUME Driven, Receive PROVE Driven'
    OBVIOUS
  <1>0. "rx" \in Threads /\ "rx" \notin Pcs /\ th["rx"].at = "idle"
    BY ThreadIs DEF Receive, Threads
  <1>1. PICK a \in Addrs, p \in Pcs, step \in {"learn", "enter"} : Takes("rx", p, "receive", a, step)
    BY DEF Receive
  <1>2. th \in [Threads -> Thread]
    BY DEF Driven, TypeOK
  <1>3. /\ th' \in [Threads -> Thread]
        /\ th'["rx"].at = step /\ th'["rx"].on = p /\ th'["rx"].act = "receive" /\ th'["rx"].from = a
        /\ \A u \in Threads \ {"rx"} : th'[u] = th[u]
    BY <1>0, <1>1, <1>2, TurnsTo
  <1>4. Role("rx", th'["rx"])
    BY <1>0, <1>3 DEF Role
  <1>5. /\ inputs' \in Nat /\ UNCHANGED <<pc, locks, tables, writes, restarts>>
    BY DEF Receive, Driven
  <1>6. /\ restarts' \in 0 .. MaxRestarts /\ restarts <= restarts' /\ inputs' \in Nat /\ writes' \in Nat
        /\ \A q \in Pcs : pc'[q].ufrag <= pc'[q].creds /\ pc'[q].creds <= restarts'
    BY <1>5 DEF Driven, CredsOK
  <1>7. /\ pc' \in [Pcs -> Pc] /\ name' \in [Pcs -> {"ctl", Nobody}] /\ routes' \in [Addrs -> Pcs \union {Nobody}]
        /\ ufrags' \subseteq Pcs \X (0 .. MaxRestarts) /\ dispatch' = dispatch /\ table' = table
    BY <1>5 DEF Driven, TypeOK, locks, tables
  <1>8. th'["rx"].at \notin Critical \union {"name"}
    BY <1>3 DEF Critical
  <1> QED BY <1>0, <1>3, <1>4, <1>5, <1>6, <1>7, <1>8, StepOfOne

LEMMA DrivenLearn == Driven /\ Learn => Driven'
  <1> SUFFICES ASSUME Driven, Learn PROVE Driven'
    OBVIOUS
  <1>0. "rx" \in Threads /\ "rx" \notin Pcs
    BY ThreadIs DEF Threads
  <1>2. th \in [Threads -> Thread] /\ Role("rx", th["rx"])
    BY <1>0 DEF Driven, TypeOK, RolesOK
  <1>3. th["rx"].at \in {"learn", "remember"} /\ th["rx"].on \in Pcs /\ th["rx"].from \in Addrs
    BY <1>2 DEF Learn, LearnInsert, LearnRemember, Role
  <1>4. CASE LearnInsert
    <2>1. PICK step \in {"enter", "remember"} : Goes("rx", step)
      BY <1>4 DEF LearnInsert
    <2>2. /\ th' \in [Threads -> Thread] /\ (\A u \in Threads \ {"rx"} : th'[u] = th[u])
          /\ th'["rx"].at = step /\ th'["rx"].on = th["rx"].on /\ th'["rx"].act = th["rx"].act
          /\ th'["rx"].from = th["rx"].from
      BY <1>0, <1>2, <2>1, GoesOn DEF Critical
    <2>3. Role("rx", th'["rx"]) /\ th'["rx"].act # "restart" /\ th'["rx"].at \notin Critical \union {"name"}
      BY <1>0, <1>2, <1>3, <2>2 DEF Role, Critical
    <2>4. routes' \in [Addrs -> Pcs \union {Nobody}]
      BY <1>3, <1>4 DEF LearnInsert, Driven, TypeOK
    <2> QED BY <1>0, <1>3, <1>4, <2>2, <2>3, <2>4, StepAside DEF LearnInsert, locks, Critical
  <1>5. CASE LearnRemember
    <2>1. Goes("rx", "enter")
      BY <1>5 DEF LearnRemember
    <2>2. /\ th' \in [Threads -> Thread] /\ (\A u \in Threads \ {"rx"} : th'[u] = th[u])
          /\ th'["rx"].at = "enter" /\ th'["rx"].on = th["rx"].on /\ th'["rx"].act = th["rx"].act
          /\ th'["rx"].from = th["rx"].from
      BY <1>0, <1>2, <2>1, GoesOn DEF Critical
    <2>3. Role("rx", th'["rx"]) /\ th'["rx"].act # "restart" /\ th'["rx"].at \notin Critical \union {"name"}
      BY <1>0, <1>2, <1>3, <2>2 DEF Role, Critical
    <2> DEFINE p == th["rx"].on
               c == [pc[p] EXCEPT !.remotes = @ \union {th["rx"].from}]
    <2>4. pc \in [Pcs -> Pc] /\ pc[p] \in Pc
      BY <1>3 DEF Driven, TypeOK
    <2>5. c \in Pc /\ c.creds = pc[p].creds /\ c.ufrag = pc[p].ufrag
      BY <1>3, <2>4 DEF Pc
    <2>6. pc' = [pc EXCEPT ![p] = c]
      BY <1>5 DEF LearnRemember
    <2> HIDE DEF c
    <2>7. UNCHANGED <<locks, tables, counts>>
      BY <1>5 DEF LearnRemember
    <2> QED BY <1>0, <1>3, <2>2, <2>3, <2>5, <2>6, <2>7, StepOnPc DEF locks
  <1> QED BY <1>4, <1>5 DEF Learn

\* A thread that lets go of a PC.
LEMMA LeavesDoes ==
    ASSUME Driven, NEW t \in Threads, th[t].at \in Critical, Leaves(t)
    PROVE  /\ th' \in [Threads -> Thread] /\ (\A u \in Threads \ {t} : th'[u] = th[u])
           /\ Role(t, th'[t]) /\ th'[t].at \in {"load", "rename", "idle"}
           /\ th[t].on \in Pcs /\ dispatch[th[t].on] = t
           /\ dispatch' = [dispatch EXCEPT ![th[t].on] = Nobody]
  <1>1. th \in [Threads -> Thread] /\ Role(t, th[t])
    BY DEF Driven, TypeOK, RolesOK
  <1>2. th[t].on \in Pcs /\ dispatch[th[t].on] = t /\ dispatch' = [dispatch EXCEPT ![th[t].on] = Nobody]
    BY DrivesPc DEF Driven, TypeOK, Leaves, Critical
  <1>3. CASE t \in Pcs
    <2>0. th[t].act # "restart"
      BY <1>1, <1>3, ThreadIs DEF Role
    <2>1. Goes(t, "load")
      BY <1>3, <2>0 DEF Leaves
    <2>2. /\ th' \in [Threads -> Thread] /\ (\A u \in Threads \ {t} : th'[u] = th[u])
          /\ th'[t].at = "load" /\ th'[t].on = th[t].on /\ th'[t].act = th[t].act
      BY <1>1, <2>1, GoesOn
    <2>3. t # "rx" /\ t # "ctl"
      BY <1>3, ThreadIs
    <2> QED BY <1>1, <1>2, <1>3, <2>2, <2>3 DEF Role
  <1>4. CASE t \notin Pcs /\ th[t].act = "restart"
    <2>1. Goes(t, "rename") /\ t = "ctl"
      BY <1>1, <1>4 DEF Leaves, Role
    <2>2. /\ th' \in [Threads -> Thread] /\ (\A u \in Threads \ {t} : th'[u] = th[u])
          /\ th'[t].at = "rename" /\ th'[t].on = th[t].on /\ th'[t].act = th[t].act
      BY <1>1, <2>1, GoesOn
    <2> QED BY <1>1, <1>2, <1>4, <2>1, <2>2 DEF Role
  <1>5. CASE t \notin Pcs /\ th[t].act # "restart"
    <2>1. Takes(t, Nobody, "timeout", Nobody, "idle")
      BY <1>5 DEF Leaves
    <2>2. /\ th' \in [Threads -> Thread] /\ (\A u \in Threads \ {t} : th'[u] = th[u])
          /\ th'[t].at = "idle" /\ th'[t].act = "timeout"
      BY <1>1, <2>1, TurnsTo
    <2> QED BY <1>2, <1>5, <2>2 DEF Role
  <1> QED BY <1>3, <1>4, <1>5

LEMMA DrivenRun == ASSUME Driven, NEW t \in Threads, Run(t) PROVE Driven'
  <1> DEFINE p == th[t].on
  <1>1. th \in [Threads -> Thread] /\ Role(t, th[t]) /\ th[t].at = "enter" /\ p \in Pcs /\ TypeOK
    BY DrivesPc DEF Driven, TypeOK, RolesOK, Run
  <1>2. Goes(t, "pop") /\ Input(t) /\ UNCHANGED <<table, name, ufrags, counts>>
        /\ dispatch[p] = Nobody /\ dispatch' = [dispatch EXCEPT ![p] = t]
    BY DEF Run
  <1>3. /\ th' \in [Threads -> Thread] /\ (\A u \in Threads \ {t} : th'[u] = th[u])
        /\ th'[t].at = "pop" /\ th'[t].on = p /\ th'[t].act = th[t].act /\ th'[t].from = th[t].from
    BY <1>1, <1>2, GoesOn DEF Critical
  <1>4. Role(t, th'[t])
    BY <1>1, <1>3 DEF Role, Critical
  <1>5. /\ pc' \in [Pcs -> Pc] /\ (\A q \in Pcs \ {p} : pc'[q] = pc[q]) /\ Intact(pc'[p], pc[p])
        /\ \/ pc'[p].creds = pc[p].creds
           \/ th[t].act = "restart" /\ pc'[p].creds = pc[p].creds + 1
        /\ routes' \in [Addrs -> Pcs \union {Nobody}]
    BY <1>1, <1>2, InputDoes
  <1>6. restarts' = restarts /\ restarts \in 0 .. MaxRestarts /\ inputs' \in Nat /\ writes' \in Nat
    BY <1>2 DEF Driven, CredsOK, counts
  <1>r. restarts' \in 0 .. MaxRestarts /\ restarts <= restarts' /\ inputs' \in Nat /\ writes' \in Nat
    BY <1>6
  <1>7. \A q \in Pcs : pc[q].ufrag \in Nat /\ pc[q].creds \in Nat /\ pc[q].ufrag <= pc[q].creds /\ pc[q].creds <= restarts
    BY DEF Driven, CredsOK, TypeOK, Pc
  <1>8. CASE pc'[p].creds = pc[p].creds
    <2>1. \A q \in Pcs : pc'[q].ufrag = pc[q].ufrag /\ pc'[q].creds = pc[q].creds
      BY <1>5, <1>8 DEF Intact
    <2>2. /\ name' \in [Pcs -> {"ctl", Nobody}] /\ ufrags' \subseteq Pcs \X (0 .. MaxRestarts)
      BY <1>2 DEF Driven, TypeOK
    <2>3. \A q \in Pcs : /\ pc'[q].ufrag <= pc'[q].creds /\ pc'[q].creds <= restarts'
                         /\ pc'[q].creds = pc[q].creds
      BY <1>6, <1>7, <2>1
    <2> QED BY <1>1, <1>2, <1>3, <1>4, <1>5, <1>r, <2>2, <2>3, StepOfOne
  <1>9. CASE th[t].act = "restart" /\ pc'[p].creds = pc[p].creds + 1
    <2>1. t = "ctl" /\ pc[p].creds < restarts
      BY <1>1, <1>9 DEF Role, Driven, CredsOK
    <2>2. \A q \in Pcs : pc'[q].ufrag = pc[q].ufrag /\ (pc'[q].creds = pc[q].creds \/ q = p)
      BY <1>5 DEF Intact
    <2>3. \A q \in Pcs : pc'[q].ufrag <= pc'[q].creds /\ pc'[q].creds <= restarts'
      BY <1>1, <1>6, <1>7, <1>9, <2>1, <2>2
    <2>4. /\ name' \in [Pcs -> {"ctl", Nobody}] /\ ufrags' \subseteq Pcs \X (0 .. MaxRestarts)
      BY <1>2 DEF Driven, TypeOK
    <2> QED BY <1>1, <1>2, <1>3, <1>4, <1>5, <1>r, <2>1, <2>3, <2>4, StepOfOne
  <1> QED BY <1>5, <1>8, <1>9

LEMMA DrivenPop == ASSUME Driven, NEW t \in Threads, Pop(t) PROVE Driven'
  <1> DEFINE p == th[t].on
             s == [th[t] EXCEPT !.at = "handle", !.event = Head(pc[p].events)]
             c == [pc[p] EXCEPT !.events = Tail(@)]
  <1>1. th \in [Threads -> Thread] /\ Role(t, th[t]) /\ th[t].at = "pop" /\ p \in Pcs /\ pc[p] \in Pc
    BY DrivesPc DEF Driven, TypeOK, RolesOK, Pop
  <1>2. pc[p].events \in Seq(Nat) /\ pc[p].events # <<>>
    BY <1>1 DEF Pop, Pc
  <1>3. Head(pc[p].events) \in Nat /\ Tail(pc[p].events) \in Seq(Nat)
    BY <1>2
  <1>4. s \in Thread /\ s.at = "handle" /\ s.on = p /\ s.act = th[t].act /\ s.from = th[t].from
    BY <1>1, <1>3 DEF Thread
  <1>5. c \in Pc /\ c.creds = pc[p].creds /\ c.ufrag = pc[p].ufrag
    BY <1>1, <1>3 DEF Pc
  <1>6. th' = [th EXCEPT ![t] = s] /\ pc' = [pc EXCEPT ![p] = c] /\ UNCHANGED <<locks, tables, counts>>
    BY DEF Pop
  <1> HIDE DEF s, c
  <1>7. th' \in [Threads -> Thread] /\ th'[t] = s /\ (\A u \in Threads \ {t} : th'[u] = th[u])
    BY <1>1, <1>4, <1>6
  <1>8. Role(t, s)
    BY <1>1, <1>4 DEF Role, Critical
  <1> QED BY <1>1, <1>4, <1>5, <1>6, <1>7, <1>8, StepOnPc DEF locks, Critical

LEMMA DrivenHandle == ASSUME Driven, NEW t \in Threads, Handle(t) PROVE Driven'
  <1> DEFINE p == th[t].on
             c == [pc[p] EXCEPT !.handled = Append(@, th[t].event)]
  <1>1. th \in [Threads -> Thread] /\ Role(t, th[t]) /\ th[t].at = "handle" /\ p \in Pcs /\ pc[p] \in Pc
    BY DrivesPc DEF Driven, TypeOK, RolesOK, Handle
  <1>2. Append(pc[p].handled, th[t].event) \in Seq(Nat)
    BY <1>1 DEF Thread, Pc
  <1>3. c \in Pc /\ c.creds = pc[p].creds /\ c.ufrag = pc[p].ufrag
    BY <1>1, <1>2 DEF Pc
  <1>4. Goes(t, "pop") /\ pc' = [pc EXCEPT ![p] = c] /\ UNCHANGED <<locks, tables, counts>>
    BY DEF Handle
  <1> HIDE DEF c
  <1>5. /\ th' \in [Threads -> Thread] /\ (\A u \in Threads \ {t} : th'[u] = th[u])
        /\ th'[t].at = "pop" /\ th'[t].on = p /\ th'[t].act = th[t].act /\ th'[t].from = th[t].from
    BY <1>1, <1>4, GoesOn DEF Critical
  <1>6. Role(t, th'[t])
    BY <1>1, <1>5 DEF Role, Critical
  <1> QED BY <1>1, <1>3, <1>4, <1>5, <1>6, StepOnPc DEF locks, Critical

LEMMA DrivenLeave == ASSUME Driven, NEW t \in Threads, Leave(t) PROVE Driven'
  <1>1. Leaves(t) /\ th[t].at = "pop" /\ UNCHANGED <<pc, table, name, tables, counts>>
    BY DEF Leave
  <1>2. /\ th' \in [Threads -> Thread] /\ (\A u \in Threads \ {t} : th'[u] = th[u])
        /\ Role(t, th'[t]) /\ th'[t].at \in {"load", "rename", "idle"}
        /\ th[t].on \in Pcs /\ dispatch[th[t].on] = t
        /\ dispatch' = [dispatch EXCEPT ![th[t].on] = Nobody]
    BY <1>1, LeavesDoes DEF Critical
  <1>3. routes' \in [Addrs -> Pcs \union {Nobody}]
    BY <1>1 DEF Driven, TypeOK, tables
  <1> QED BY <1>1, <1>2, <1>3, StepAside DEF Critical, tables

LEMMA DrivenDie == ASSUME Driven, NEW t \in Threads, Die(t) PROVE Driven'
  <1> DEFINE p == th[t].on
             s == [th[t] EXCEPT !.at = "unroute", !.taken = pc[p].remotes]
             c == [pc[p] EXCEPT !.closed = TRUE, !.remotes = {}]
  <1>1. th \in [Threads -> Thread] /\ Role(t, th[t]) /\ th[t].at = "pop" /\ p \in Pcs /\ pc[p] \in Pc
    BY DrivesPc DEF Driven, TypeOK, RolesOK, Die
  <1>2. s \in Thread /\ s.at = "unroute" /\ s.on = p /\ s.act = th[t].act /\ s.from = th[t].from
    BY <1>1 DEF Thread, Pc
  <1>3. c \in Pc /\ c.creds = pc[p].creds /\ c.ufrag = pc[p].ufrag
    BY <1>1 DEF Pc
  <1>4. th' = [th EXCEPT ![t] = s] /\ pc' = [pc EXCEPT ![p] = c] /\ UNCHANGED <<locks, tables, counts>>
    BY DEF Die
  <1> HIDE DEF s, c
  <1>5. th' \in [Threads -> Thread] /\ th'[t] = s /\ (\A u \in Threads \ {t} : th'[u] = th[u])
    BY <1>1, <1>2, <1>4
  <1>6. Role(t, s)
    BY <1>1, <1>2 DEF Role, Critical
  <1> QED BY <1>1, <1>2, <1>3, <1>4, <1>5, <1>6, StepOnPc DEF locks, Critical

LEMMA DrivenUnroute == ASSUME Driven, NEW t \in Threads, DropRoutes(t) PROVE Driven'
  <1> DEFINE s == [th[t] EXCEPT !.at = "table", !.taken = {}]
  <1>1. th \in [Threads -> Thread] /\ Role(t, th[t]) /\ th[t].at = "unroute" /\ th[t].on \in Pcs
    BY DrivesPc DEF Driven, TypeOK, RolesOK, DropRoutes
  <1>2. s \in Thread /\ s.at = "table" /\ s.on = th[t].on /\ s.act = th[t].act /\ s.from = th[t].from
    BY <1>1 DEF Thread
  <1>3. th' = [th EXCEPT ![t] = s] /\ UNCHANGED <<pc, locks, ufrags, counts>>
    BY DEF DropRoutes
  <1> HIDE DEF s
  <1>4. th' \in [Threads -> Thread] /\ th'[t] = s /\ (\A u \in Threads \ {t} : th'[u] = th[u])
    BY <1>1, <1>2, <1>3
  <1>5. Role(t, s)
    BY <1>1, <1>2 DEF Role, Critical
  <1>6. routes' \in [Addrs -> Pcs \union {Nobody}]
    BY DEF DropRoutes, Without, Driven, TypeOK
  <1> QED BY <1>1, <1>2, <1>3, <1>4, <1>5, <1>6, StepAside DEF locks, Critical

LEMMA DrivenTable == ASSUME Driven, NEW t \in Threads, LockTable(t) PROVE Driven'
  <1>1. th \in [Threads -> Thread] /\ Role(t, th[t]) /\ th[t].at = "table" /\ th[t].on \in Pcs
    BY DrivesPc DEF Driven, TypeOK, RolesOK, LockTable
  <1>2. Goes(t, "name") /\ table = Nobody /\ table' = t /\ UNCHANGED <<pc, dispatch, name, tables, counts>>
    BY DEF LockTable
  <1>3. /\ th' \in [Threads -> Thread] /\ (\A u \in Threads \ {t} : th'[u] = th[u])
        /\ th'[t].at = "name" /\ th'[t].on = th[t].on /\ th'[t].act = th[t].act /\ th'[t].from = th[t].from
    BY <1>1, <1>2, GoesOn DEF Critical
  <1>4. Role(t, th'[t])
    BY <1>1, <1>3 DEF Role, Critical
  <1>5. routes' \in [Addrs -> Pcs \union {Nobody}] /\ ufrags' = ufrags
    BY <1>2 DEF Driven, TypeOK, tables
  <1> QED BY <1>1, <1>2, <1>3, <1>4, <1>5, StepAside DEF Critical

LEMMA DrivenUnname == ASSUME Driven, NEW t \in Threads, DropUfrag(t) PROVE Driven'
  <1>1. /\ th \in [Threads -> Thread] /\ Role(t, th[t]) /\ th[t].at = "name" /\ th[t].on \in Pcs
        /\ table = t
    BY DrivesPc DEF Driven, TypeOK, RolesOK, DropUfrag
  <1>2. Goes(t, "closing") /\ table' = Nobody /\ UNCHANGED <<pc, dispatch, name, routes, counts>>
        /\ ufrags' \subseteq ufrags
    BY DEF DropUfrag
  <1>3. /\ th' \in [Threads -> Thread] /\ (\A u \in Threads \ {t} : th'[u] = th[u])
        /\ th'[t].at = "closing" /\ th'[t].on = th[t].on /\ th'[t].act = th[t].act /\ th'[t].from = th[t].from
    BY <1>1, <1>2, GoesOn DEF Critical
  <1>4. Role(t, th'[t])
    BY <1>1, <1>3 DEF Role, Critical
  <1>5. routes' \in [Addrs -> Pcs \union {Nobody}]
    BY <1>2 DEF Driven, TypeOK
  <1> QED BY <1>1, <1>2, <1>3, <1>4, <1>5, StepAside DEF Critical

LEMMA DrivenClosing == ASSUME Driven, NEW t \in Threads, OnClosed(t) PROVE Driven'
  <1> DEFINE p == th[t].on
             c == [pc[p] EXCEPT !.permit = TRUE, !.handled = Append(@, 0)]
  <1>1. th[t].at = "closing" /\ p \in Pcs /\ pc[p] \in Pc
    BY DrivesPc DEF Driven, TypeOK, OnClosed
  <1>2. Append(pc[p].handled, 0) \in Seq(Nat)
    BY <1>1 DEF Pc
  <1>3. c \in Pc /\ c.creds = pc[p].creds /\ c.ufrag = pc[p].ufrag
    BY <1>1, <1>2 DEF Pc
  <1>4. Leaves(t) /\ pc' = [pc EXCEPT ![p] = c] /\ UNCHANGED <<table, name, tables, counts>>
    BY DEF OnClosed
  <1> HIDE DEF c
  <1>5. /\ th' \in [Threads -> Thread] /\ (\A u \in Threads \ {t} : th'[u] = th[u])
        /\ Role(t, th'[t]) /\ th'[t].at \in {"load", "rename", "idle"}
        /\ th[t].on \in Pcs /\ dispatch[th[t].on] = t
        /\ dispatch' = [dispatch EXCEPT ![th[t].on] = Nobody]
    BY <1>1, <1>4, LeavesDoes DEF Critical
  <1>6. th'[t].at \notin Critical \union {"enter", "name"} /\ th[t].at # "name"
    BY <1>1, <1>5 DEF Critical
  <1> QED BY <1>1, <1>3, <1>4, <1>5, <1>6, StepOnPc

LEMMA DrivenTimer == ASSUME Driven, NEW p \in Pcs, Timer(p) \/ TimePasses(p) PROVE Driven'
  <1>1. /\ th \in [Threads -> Thread] /\ Role(p, th[p]) /\ th[p].at \in {"load", "sleep"}
        /\ p \in Threads /\ p # "rx" /\ p # "ctl" /\ pc[p] \in Pc
    BY ThreadIs DEF Driven, TypeOK, RolesOK, Timer, Load, Wake, TimePasses, Threads
  <1>2. PICK step \in {"done", "enter", "sleep"} : Goes(p, step)
    BY DEF Timer, Load, Wake, TimePasses
  <1>3. /\ th' \in [Threads -> Thread] /\ (\A u \in Threads \ {p} : th'[u] = th[u])
        /\ th'[p].at = step /\ th'[p].on = th[p].on /\ th'[p].act = th[p].act /\ th'[p].from = th[p].from
    BY <1>1, <1>2, GoesOn
  <1>4. Role(p, th'[p]) /\ th'[p].act # "restart"
    BY <1>1, <1>3 DEF Role
  <1>5. th'[p].at \notin Critical \union {"name"} /\ th[p].at # "name"
    BY <1>1, <1>3 DEF Critical
  <1> DEFINE c == [pc[p] EXCEPT !.permit = FALSE]
  <1>6. c \in Pc /\ c.creds = pc[p].creds /\ c.ufrag = pc[p].ufrag
    BY <1>1 DEF Pc
  <1>7. pc' = pc \/ pc' = [pc EXCEPT ![p] = c]
    BY DEF Timer, Load, Wake, TimePasses
  <1> HIDE DEF c
  <1>8. UNCHANGED <<locks, tables, counts>>
    BY DEF Timer, Load, Wake, TimePasses
  <1>9. CASE pc' = pc
    <2>1. routes' \in [Addrs -> Pcs \union {Nobody}] /\ ufrags' = ufrags
      BY <1>8 DEF Driven, TypeOK, tables
    <2> QED BY <1>1, <1>3, <1>4, <1>5, <1>8, <1>9, <2>1, StepAside DEF locks
  <1>10. CASE pc' = [pc EXCEPT ![p] = c]
    BY <1>1, <1>3, <1>4, <1>5, <1>6, <1>8, <1>10, StepOnPc DEF locks
  <1> QED BY <1>7, <1>9, <1>10

\* A step of no thread, on one PC.
LEMMA StepApart ==
    ASSUME Driven, UNCHANGED <<th, locks, inputs, restarts>>, NEW p \in Pcs, NEW c \in Pc,
           pc' = [pc EXCEPT ![p] = c], c.creds = pc[p].creds, c.ufrag = pc[p].ufrag,
           routes' \in [Addrs -> Pcs \union {Nobody}], ufrags' \subseteq ufrags, writes' \in Nat
    PROVE  Driven'
  <1>1. pc' \in [Pcs -> Pc] /\ pc'[p] = c /\ (\A q \in Pcs \ {p} : pc'[q] = pc[q])
    BY Becomes DEF Driven, TypeOK
  <1>2. \A q \in Pcs : pc'[q].creds = pc[q].creds /\ pc'[q].ufrag = pc[q].ufrag
    BY <1>1
  <1>3. CredsOK'
    <2>1. \A t \in Threads : th[t].at = "enter" => th[t].on \in Pcs
      BY DrivesPc DEF Driven
    <2> QED BY <1>2, <2>1 DEF Driven, CredsOK
  <1>4. TypeOK'
    BY <1>1 DEF Driven, TypeOK, locks
  <1>5. RolesOK'
    BY DEF Driven, RolesOK, Role
  <1> QED BY <1>3, <1>4, <1>5 DEF Driven

\* A write changes what is to be sent and when, at most.
LEMMA WritesDoes ==
    ASSUME NEW c \in Pc
    PROVE  /\ Writes(c) \in Pc /\ Intact(Writes(c), c) /\ Writes(c).creds = c.creds
           /\ Writes(c).made = c.made /\ Writes(c).events = c.events /\ Writes(c).remotes = c.remotes
  <1> DEFINE d == [c EXCEPT !.unsent = c.unsent + 1]
  <1>1. d \in Pc /\ Intact(d, c) /\ d.creds = c.creds
           /\ d.made = c.made /\ d.events = c.events /\ d.remotes = c.remotes
    <2>1. c.unsent + 1 \in Nat
      BY DEF Pc
    <2> QED BY <2>1 DEF Pc, Intact
  <1>2. Writes(c) = c \/ Writes(c) = d \/ Writes(c) = Schedules(d, Due)
    BY DEF Writes
  <1> HIDE DEF d
  <1>3. Schedules(d, Due) \in Pc /\ Intact(Schedules(d, Due), d) /\ Schedules(d, Due).creds = d.creds
           /\ Schedules(d, Due).made = d.made /\ Schedules(d, Due).events = d.events
           /\ Schedules(d, Due).remotes = d.remotes
    BY <1>1 DEF Schedules, Pc, Intact, None, Due, Later
  <1> QED BY <1>1, <1>2, <1>3 DEF Intact

LEMMA DrivenWrite == ASSUME Driven, NEW p \in Pcs, Write(p) PROVE Driven'
  <1>1. pc[p] \in Pc
    BY DEF Driven, TypeOK
  <1>2. pc' = [pc EXCEPT ![p] = Writes(pc[p])] /\ UNCHANGED <<th, locks, tables, inputs, restarts>>
        /\ writes' = writes + 1
    BY DEF Write
  <1>3. Writes(pc[p]) \in Pc /\ Writes(pc[p]).creds = pc[p].creds /\ Writes(pc[p]).ufrag = pc[p].ufrag
    BY <1>1, WritesDoes DEF Intact
  <1>4. routes' \in [Addrs -> Pcs \union {Nobody}] /\ ufrags' = ufrags /\ writes' \in Nat
    BY <1>2 DEF Driven, TypeOK, tables
  <1> QED BY <1>2, <1>3, <1>4, StepApart

LEMMA DrivenDisown == ASSUME Driven, NEW p \in Pcs, Disown(p) PROVE Driven'
  <1> DEFINE c == [pc[p] EXCEPT !.owned = FALSE]
  <1>0. pc[p] \in Pc
    BY DEF Driven, TypeOK
  <1>1. c \in Pc /\ c.creds = pc[p].creds /\ c.ufrag = pc[p].ufrag
    BY <1>0 DEF Pc
  <1>2. pc' = [pc EXCEPT ![p] = c] /\ UNCHANGED <<th, locks, tables, counts>>
    BY DEF Disown
  <1>3. routes' \in [Addrs -> Pcs \union {Nobody}] /\ ufrags' = ufrags /\ writes' \in Nat
    BY <1>2 DEF Driven, TypeOK, tables, counts
  <1> HIDE DEF c
  <1> QED BY <1>1, <1>2, <1>3, StepApart DEF counts

LEMMA DrivenDrop == ASSUME Driven, NEW p \in Pcs, Drop(p) PROVE Driven'
  <1> DEFINE c == [pc[p] EXCEPT !.dropped = TRUE, !.remotes = {}]
  <1>0. pc[p] \in Pc
    BY DEF Driven, TypeOK
  <1>1. c \in Pc /\ c.creds = pc[p].creds /\ c.ufrag = pc[p].ufrag
    BY <1>0 DEF Pc
  <1>2. pc' = [pc EXCEPT ![p] = c] /\ UNCHANGED <<th, locks, counts>>
    BY DEF Drop
  <1>3. routes' \in [Addrs -> Pcs \union {Nobody}] /\ ufrags' \subseteq ufrags /\ writes' \in Nat
    BY <1>2 DEF Drop, Without, Driven, TypeOK, counts
  <1> HIDE DEF c
  <1> QED BY <1>1, <1>2, <1>3, StepApart DEF counts

LEMMA DrivenRestart == Driven /\ Restart => Driven'
  <1> SUFFICES ASSUME Driven, Restart PROVE Driven'
    OBVIOUS
  <1>0. "ctl" \in Threads /\ "ctl" \notin Pcs /\ th["ctl"].at = "idle" /\ th \in [Threads -> Thread]
    BY ThreadIs DEF Restart, Threads, Driven, TypeOK
  <1>1. PICK p \in Pcs : Takes("ctl", p, "restart", Nobody, "enter")
    BY DEF Restart
  <1>2. /\ th' \in [Threads -> Thread]
        /\ th'["ctl"].at = "enter" /\ th'["ctl"].on = p /\ th'["ctl"].act = "restart"
        /\ \A u \in Threads \ {"ctl"} : th'[u] = th[u]
    BY <1>0, <1>1, TurnsTo
  <1>3. Role("ctl", th'["ctl"])
    BY <1>0, <1>2 DEF Role
  <1>4. restarts < MaxRestarts /\ restarts' = restarts + 1 /\ UNCHANGED <<pc, locks, tables, inputs, writes>>
    BY DEF Restart
  <1>5. restarts \in 0 .. MaxRestarts /\ MaxRestarts \in Nat
    BY PcConstants DEF Driven, CredsOK
  <1>6. restarts' \in 0 .. MaxRestarts /\ restarts <= restarts' /\ inputs' \in Nat /\ writes' \in Nat
    BY <1>4, <1>5 DEF Driven
  <1>7. \A q \in Pcs : pc[q].creds \in Nat /\ pc[q].ufrag <= pc[q].creds /\ pc[q].creds <= restarts
    BY DEF Driven, CredsOK, TypeOK, Pc
  <1>8. \A q \in Pcs : pc'[q].ufrag <= pc'[q].creds /\ pc'[q].creds <= restarts' /\ pc'[q].creds < restarts'
                       /\ pc'[q].creds = pc[q].creds
    BY <1>4, <1>5, <1>7
  <1>9. /\ pc' \in [Pcs -> Pc] /\ name' \in [Pcs -> {"ctl", Nobody}] /\ routes' \in [Addrs -> Pcs \union {Nobody}]
        /\ ufrags' \subseteq Pcs \X (0 .. MaxRestarts) /\ dispatch' = dispatch /\ table' = table
    BY <1>4 DEF Driven, TypeOK, locks, tables
  <1>10. th'["ctl"].at \notin Critical \union {"name"}
    BY <1>2 DEF Critical
  <1> QED BY <1>0, <1>2, <1>3, <1>6, <1>8, <1>9, <1>10, StepOfOne

LEMMA DrivenClose == Driven /\ Close => Driven'
  <1> SUFFICES ASSUME Driven, Close PROVE Driven'
    OBVIOUS
  <1>0. "ctl" \in Threads /\ "ctl" \notin Pcs /\ th["ctl"].at = "idle" /\ th \in [Threads -> Thread]
    BY ThreadIs DEF Close, Threads, Driven, TypeOK
  <1>1. PICK p \in Pcs : Takes("ctl", p, "disconnect", Nobody, "enter")
    BY DEF Close
  <1>2. /\ th' \in [Threads -> Thread]
        /\ th'["ctl"].at = "enter" /\ th'["ctl"].on = p /\ th'["ctl"].act = "disconnect"
        /\ \A u \in Threads \ {"ctl"} : th'[u] = th[u]
    BY <1>0, <1>1, TurnsTo
  <1>3. Role("ctl", th'["ctl"]) /\ th'["ctl"].at \notin Critical \union {"name"}
    BY <1>0, <1>2 DEF Role, Critical
  <1>4. UNCHANGED <<pc, locks, tables, counts>>
    BY DEF Close
  <1>5. routes' \in [Addrs -> Pcs \union {Nobody}] /\ ufrags' = ufrags
    BY <1>4 DEF Driven, TypeOK, tables
  <1> QED BY <1>0, <1>2, <1>3, <1>4, <1>5, StepAside DEF locks

LEMMA DrivenRename == Driven /\ (Rename \/ Retable) => Driven'
  <1> SUFFICES ASSUME Driven, Rename \/ Retable PROVE Driven'
    OBVIOUS
  <1> DEFINE p == th["ctl"].on
  <1>0. /\ "ctl" \in Threads /\ "ctl" \notin Pcs /\ "ctl" # "rx" /\ th["ctl"].at \in {"rename", "retable"}
        /\ th \in [Threads -> Thread] /\ Role("ctl", th["ctl"]) /\ p \in Pcs /\ pc[p] \in Pc
    BY ThreadIs, DrivesPc DEF Rename, Retable, Threads, Driven, TypeOK, RolesOK
  <1>1. Takes("ctl", Nobody, "timeout", Nobody, "idle") \/ Goes("ctl", "retable")
    BY DEF Rename, Retable
  <1>2. /\ th' \in [Threads -> Thread] /\ (\A u \in Threads \ {"ctl"} : th'[u] = th[u])
        /\ \/ th'["ctl"].at = "idle" /\ th'["ctl"].act = "timeout"
           \/ th'["ctl"].at = "retable" /\ th'["ctl"].on = p /\ th'["ctl"].act = th["ctl"].act
    <2>1. CASE Takes("ctl", Nobody, "timeout", Nobody, "idle")
      BY <1>0, <2>1, TurnsTo
    <2>2. CASE Goes("ctl", "retable")
      BY <1>0, <2>2, GoesOn
    <2> QED BY <1>1, <2>1, <2>2
  <1>3. Role("ctl", th'["ctl"]) /\ th'["ctl"].at \notin Critical \union {"name", "enter"}
    BY <1>0, <1>2 DEF Role, Critical
  <1>4. dispatch' = dispatch /\ table' = table /\ UNCHANGED counts /\ routes' = routes
    BY DEF Rename, Retable, tables
  <1>5. name' \in [Pcs -> {"ctl", Nobody}]
    BY <1>0 DEF Rename, Retable, Driven, TypeOK
  <1>6. routes' \in [Addrs -> Pcs \union {Nobody}]
    BY <1>4 DEF Driven, TypeOK
  <1> DEFINE c == [pc[p] EXCEPT !.ufrag = pc[p].creds]
  <1>7. c \in Pc /\ c.creds = pc[p].creds /\ c.ufrag = pc[p].creds
    BY <1>0 DEF Pc
  <1>8. \/ pc' = pc /\ ufrags' = ufrags
        \/ /\ pc' = [pc EXCEPT ![p] = c]
           /\ ufrags' = (ufrags \ {<<p, pc[p].ufrag>>}) \union {<<p, pc[p].creds>>}
    BY DEF Rename, Retable, tables
  <1> HIDE DEF c
  <1>9. \A q \in Pcs : pc[q].ufrag \in Nat /\ pc[q].creds \in Nat /\ pc[q].ufrag <= pc[q].creds /\ pc[q].creds <= restarts
    BY DEF Driven, CredsOK, TypeOK, Pc
  <1>10. restarts' \in 0 .. MaxRestarts /\ restarts <= restarts' /\ inputs' \in Nat /\ writes' \in Nat
         /\ restarts' = restarts
    BY <1>4 DEF Driven, CredsOK, counts
  <1>11. pc' \in [Pcs -> Pc] /\ ufrags' \subseteq Pcs \X (0 .. MaxRestarts)
         /\ \A q \in Pcs : pc'[q].ufrag <= pc'[q].creds /\ pc'[q].creds <= restarts' /\ pc'[q].creds = pc[q].creds
    <2>1. CASE pc' = pc /\ ufrags' = ufrags
      BY <1>9, <1>10, <2>1 DEF Driven, TypeOK
    <2>2. CASE /\ pc' = [pc EXCEPT ![p] = c]
               /\ ufrags' = (ufrags \ {<<p, pc[p].ufrag>>}) \union {<<p, pc[p].creds>>}
      <3>1. pc' \in [Pcs -> Pc] /\ pc'[p] = c /\ (\A q \in Pcs \ {p} : pc'[q] = pc[q])
        BY <1>0, <1>7, <2>2, Becomes DEF Driven, TypeOK
      <3>2. pc[p].creds \in 0 .. MaxRestarts
        BY <1>0, <1>9, <1>10, PcConstants
      <3>3. ufrags' \subseteq Pcs \X (0 .. MaxRestarts)
        BY <1>0, <2>2, <3>2 DEF Driven, TypeOK
      <3> QED BY <1>7, <1>9, <1>10, <3>1, <3>3
    <2> QED BY <1>8, <2>1, <2>2
  <1>12. th["ctl"].at # "name"
    BY <1>0
  <1> QED BY <1>0, <1>2, <1>3, <1>4, <1>5, <1>6, <1>10, <1>11, <1>12, StepOfOne

LEMMA DrivenStep == Driven /\ [Next]_vars => Driven'
  <1> SUFFICES ASSUME Driven, [Next]_vars PROVE Driven'
    OBVIOUS
  <1>1. ASSUME NEW t \in Threads, Drive(t) PROVE Driven'
    BY <1>1, DrivenRun, DrivenPop, DrivenHandle, DrivenLeave, DrivenDie, DrivenUnroute,
       DrivenTable, DrivenUnname, DrivenClosing DEF Drive
  <1>2. CASE UNCHANGED vars
    BY <1>2 DEF vars, locks, tables, counts, Driven, TypeOK, RolesOK, Role, CredsOK
  <1> QED BY <1>1, <1>2, DrivenReceive, DrivenLearn, DrivenTimer, DrivenWrite, DrivenDisown,
             DrivenDrop, DrivenRestart, DrivenRename, DrivenClose DEF Next

-----------------------------------------------------------------------------
(* Events.                                                                 *)

\* The events of a PC are numbered as they are made; those handled come before the one a
\* thread is handling, and that before those that wait.
InOrder(p) ==
    /\ \A i, j \in DOMAIN pc[p].events : i < j => pc[p].events[i] < pc[p].events[j]
    /\ \A i \in DOMAIN pc[p].events : 0 < pc[p].events[i] /\ pc[p].events[i] <= pc[p].made
    /\ \A i \in DOMAIN pc[p].handled : pc[p].handled[i] <= pc[p].made
    /\ \A i \in DOMAIN pc[p].handled, j \in DOMAIN pc[p].events : pc[p].handled[i] < pc[p].events[j]
    /\ \A i, j \in DOMAIN pc[p].handled : i < j =>
            pc[p].handled[i] = 0 \/ pc[p].handled[j] = 0 \/ pc[p].handled[i] < pc[p].handled[j]
    /\ \A t \in Threads : th[t].at = "handle" /\ th[t].on = p =>
            /\ 0 < th[t].event /\ th[t].event <= pc[p].made
            /\ \A i \in DOMAIN pc[p].handled : pc[p].handled[i] < th[t].event
            /\ \A j \in DOMAIN pc[p].events : th[t].event < pc[p].events[j]

\* The handler is not told of the end before the PC is closed and its end is through.
ToldOnce(p) ==
    /\ \A i, j \in DOMAIN pc[p].handled : pc[p].handled[i] = 0 /\ pc[p].handled[j] = 0 => i = j
    /\ ~pc[p].closed \/ (\E t \in Threads : th[t].at \in Ending /\ th[t].on = p) =>
            \A i \in DOMAIN pc[p].handled : pc[p].handled[i] # 0
    /\ \A t \in Threads : th[t].at \in Ending /\ th[t].on = p => pc[p].closed

EventsInv == \A p \in Pcs : InOrder(p) /\ ToldOnce(p)

\* A step that moves no event.
NoEvent ==
    /\ \A p \in Pcs : /\ pc'[p].events = pc[p].events /\ pc'[p].made = pc[p].made
                      /\ pc'[p].handled = pc[p].handled /\ pc'[p].closed = pc[p].closed
    /\ \A u \in Threads :
        /\ th'[u].at = "handle" => th[u].at = "handle" /\ th'[u].on = th[u].on /\ th'[u].event = th[u].event
        /\ th'[u].at \in Ending => th[u].at \in Ending /\ th'[u].on = th[u].on

LEMMA NoEventKeeps == ASSUME EventsInv, NoEvent PROVE EventsInv'
  BY DEF EventsInv, NoEvent, InOrder, ToldOnce

LEMMA QuietSteps ==
    ASSUME Driven,
           \/ Receive \/ Learn \/ Restart \/ Rename \/ Retable \/ Close
           \/ \E t \in Threads : Leave(t) \/ DropRoutes(t) \/ LockTable(t) \/ DropUfrag(t)
           \/ \E p \in Pcs : Timer(p) \/ TimePasses(p) \/ Write(p) \/ Disown(p) \/ Drop(p)
    PROVE  NoEvent
  <1>0. th \in [Threads -> Thread] /\ pc \in [Pcs -> Pc]
    BY DEF Driven, TypeOK
  <1>1. ASSUME NEW t \in Threads, NEW step, Goes(t, step), step # "handle", pc' = pc,
               step \in Ending => th[t].at \in Ending
        PROVE  NoEvent
    BY <1>0, <1>1 DEF Goes, NoEvent, Ending
  <1>2. ASSUME NEW t \in Threads, NEW p, NEW act, NEW from, NEW step \in {"idle", "learn", "enter"},
               Takes(t, p, act, from, step), pc' = pc
        PROVE  NoEvent
    BY <1>0, <1>2 DEF Takes, NoEvent, Ending
  <1>t. "rx" \in Threads /\ "ctl" \in Threads /\ Pcs \subseteq Threads
    BY DEF Threads
  <1>3. CASE Receive
    BY <1>2, <1>3, <1>t DEF Receive
  <1>4. CASE Learn
    <2>1. CASE LearnInsert
      BY <1>1, <1>t, <2>1 DEF LearnInsert, Ending
    <2>2. CASE LearnRemember
      <3> DEFINE p == th["rx"].on
                 c == [pc[p] EXCEPT !.remotes = @ \union {th["rx"].from}]
      <3>1. p \in Pcs /\ pc[p] \in Pc
        BY <1>0, <1>t, <2>2, DrivesPc DEF LearnRemember, Driven
      <3>2. c.events = pc[p].events /\ c.made = pc[p].made /\ c.handled = pc[p].handled /\ c.closed = pc[p].closed
        BY <3>1 DEF Pc
      <3>3. pc' = [pc EXCEPT ![p] = c] /\ th' = [th EXCEPT !["rx"].at = "enter"]
        BY <2>2 DEF LearnRemember, Goes
      <3> HIDE DEF c
      <3> QED BY <1>0, <1>t, <3>1, <3>2, <3>3 DEF NoEvent, Ending
    <2> QED BY <1>4, <2>1, <2>2 DEF Learn
  <1>5. CASE Restart
    BY <1>2, <1>5, <1>t DEF Restart
  <1>6. CASE Close
    BY <1>2, <1>6, <1>t DEF Close
  <1>7. CASE Rename
    <2>1. CASE Takes("ctl", Nobody, "timeout", Nobody, "idle")
      BY <1>2, <1>7, <1>t, <2>1 DEF Rename
    <2>2. CASE Goes("ctl", "retable")
      BY <1>1, <1>7, <1>t, <2>2 DEF Rename, Ending
    <2> QED BY <1>7, <2>1, <2>2 DEF Rename
  <1>8. CASE Retable
    <2> DEFINE p == th["ctl"].on
               c == [pc[p] EXCEPT !.ufrag = pc[p].creds]
    <2>1. p \in Pcs /\ pc[p] \in Pc
      BY <1>0, <1>t, <1>8, DrivesPc DEF Retable, Driven
    <2>2. c.events = pc[p].events /\ c.made = pc[p].made /\ c.handled = pc[p].handled /\ c.closed = pc[p].closed
      BY <2>1 DEF Pc
    <2>3. pc' = [pc EXCEPT ![p] = c] /\ Takes("ctl", Nobody, "timeout", Nobody, "idle")
      BY <1>8 DEF Retable
    <2> HIDE DEF c
    <2> QED BY <1>0, <1>t, <2>1, <2>2, <2>3 DEF NoEvent, Ending, Takes
  <1>9. ASSUME NEW t \in Threads, Leave(t) PROVE NoEvent
    <2>1. /\ pc' = pc /\ (\A u \in Threads \ {t} : th'[u] = th[u])
          /\ th'[t].at \in {"load", "rename", "idle"}
      BY <1>9, LeavesDoes DEF Leave, Critical
    <2> QED BY <2>1 DEF NoEvent, Ending
  <1>10. ASSUME NEW t \in Threads, DropRoutes(t) PROVE NoEvent
    <2>1. pc' = pc /\ th' = [th EXCEPT ![t].at = "table", ![t].taken = {}] /\ th[t].at \in Ending
      BY <1>10 DEF DropRoutes, Ending
    <2> QED BY <1>0, <2>1 DEF NoEvent, Ending
  <1>11. ASSUME NEW t \in Threads, LockTable(t) \/ DropUfrag(t) PROVE NoEvent
    BY <1>1, <1>11 DEF LockTable, DropUfrag, Ending
  <1>12. ASSUME NEW p \in Pcs, Timer(p) \/ TimePasses(p) PROVE NoEvent
    <2>1. CASE Load(p) \/ TimePasses(p)
      BY <1>1, <1>t, <2>1 DEF Load, TimePasses, Ending
    <2>2. CASE Wake(p)
      <3> DEFINE c == [pc[p] EXCEPT !.permit = FALSE]
      <3>1. c.events = pc[p].events /\ c.made = pc[p].made /\ c.handled = pc[p].handled /\ c.closed = pc[p].closed
        BY <1>0 DEF Pc
      <3>2. PICK step \in {"done", "enter"} : Goes(p, step)
        BY <2>2 DEF Wake
      <3>3. pc' = [pc EXCEPT ![p] = c]
        BY <2>2 DEF Wake
      <3> HIDE DEF c
      <3> QED BY <1>0, <1>t, <3>1, <3>2, <3>3 DEF NoEvent, Goes, Ending
    <2> QED BY <1>12, <2>1, <2>2 DEF Timer
  <1>13. ASSUME NEW p \in Pcs, Write(p) \/ Disown(p) \/ Drop(p) PROVE NoEvent
    <2> DEFINE disowned == [pc[p] EXCEPT !.owned = FALSE]
               dropped == [pc[p] EXCEPT !.dropped = TRUE, !.remotes = {}]
    <2>0. pc[p] \in Pc
      BY <1>0
    <2>w. Write(p) => pc' = [pc EXCEPT ![p] = Writes(pc[p])]
      BY DEF Write
    <2>o. Disown(p) => pc' = [pc EXCEPT ![p] = disowned]
      BY DEF Disown
    <2>d. Drop(p) => pc' = [pc EXCEPT ![p] = dropped]
      BY DEF Drop
    <2> HIDE DEF disowned, dropped
    <2>1. PICK c \in {Writes(pc[p]), disowned, dropped} : pc' = [pc EXCEPT ![p] = c]
      BY <1>13, <2>w, <2>o, <2>d
    <2>2. c.events = pc[p].events /\ c.made = pc[p].made /\ c.handled = pc[p].handled /\ c.closed = pc[p].closed
      <3>1. CASE c = Writes(pc[p])
        BY <2>0, <3>1, WritesDoes DEF Intact
      <3>2. CASE c = disowned
        BY <2>0, <3>2 DEF Pc, disowned
      <3>3. CASE c = dropped
        BY <2>0, <3>3 DEF Pc, dropped
      <3> QED BY <3>1, <3>2, <3>3
    <2>3. th' = th
      BY <1>13 DEF Write, Disown, Drop
    <2> QED BY <1>0, <2>1, <2>2, <2>3 DEF NoEvent
  <1> QED BY <1>3, <1>4, <1>5, <1>6, <1>7, <1>8, <1>9, <1>10, <1>11, <1>12, <1>13

\* The last of a longer sequence is new, the rest is old.
LEMMA AppendIs ==
    ASSUME NEW s \in Seq(Nat), NEW x \in Nat
    PROVE  /\ Append(s, x) \in Seq(Nat)
           /\ \A i \in DOMAIN Append(s, x) :
                /\ i \in Nat
                /\ \/ i \in DOMAIN s /\ Append(s, x)[i] = s[i]
                   \/ i = Len(s) + 1 /\ Append(s, x)[i] = x
           /\ \A i \in DOMAIN s : i \in Nat /\ i < Len(s) + 1 /\ s[i] \in Nat
  OBVIOUS

\* What is left of a sequence stood one place further on.
LEMMA TailIs ==
    ASSUME NEW s \in Seq(Nat), s # <<>>
    PROVE  /\ Tail(s) \in Seq(Nat) /\ Head(s) = s[1] /\ 1 \in DOMAIN s /\ Head(s) \in Nat
           /\ \A i \in DOMAIN Tail(s) : i \in Nat /\ i + 1 \in DOMAIN s /\ 1 < i + 1 /\ Tail(s)[i] = s[i + 1]
  OBVIOUS

\* One thread at a time is driving a PC.
LEMMA OneDriver ==
    ASSUME Driven, NEW t \in Threads, NEW u \in Threads, th[t].on = th[u].on,
           th[u].at \in Critical, th[t].at \in Critical \/ dispatch[th[t].on] = Nobody
    PROVE  t = u
  <1>1. Nobody \notin Threads
    BY ThreadIs
  <1> QED BY <1>1 DEF Driven, TypeOK, Critical

\* A step of a thread on one PC moves the events of no other.
LEMMA OtherEvents ==
    ASSUME EventsInv, NEW t \in Threads, \A u \in Threads \ {t} : th'[u] = th[u], NEW q \in Pcs, pc'[q] = pc[q],
           th'[t].at = "handle" \/ th'[t].at \in Ending => th'[t].on # q
    PROVE  InOrder(q)' /\ ToldOnce(q)'
  <1>1. \A u \in Threads : th'[u].at = "handle" /\ th'[u].on = q => th[u].at = "handle" /\ th'[u] = th[u]
    OBVIOUS
  <1>2. \A u \in Threads : th'[u].at \in Ending /\ th'[u].on = q => th[u].at \in Ending /\ th'[u] = th[u]
    OBVIOUS
  <1> QED BY <1>1, <1>2 DEF EventsInv, InOrder, ToldOnce

LEMMA EventsRun == ASSUME Driven, EventsInv, NEW t \in Threads, Run(t) PROVE EventsInv'
  <1>p. PICK p \in Pcs : p = th[t].on
    BY DrivesPc DEF Driven, Run
  <1>1. th \in [Threads -> Thread] /\ th[t].at = "enter" /\ pc[p] \in Pc /\ TypeOK
    BY <1>p DEF Driven, TypeOK, Run
  <1>2. Goes(t, "pop") /\ Input(t)
    BY DEF Run
  <1>3. /\ th' \in [Threads -> Thread] /\ (\A u \in Threads \ {t} : th'[u] = th[u]) /\ th'[t].at = "pop"
    BY <1>1, <1>2, GoesOn DEF Critical
  <1>4. /\ pc' \in [Pcs -> Pc] /\ (\A q \in Pcs \ {p} : pc'[q] = pc[q]) /\ Intact(pc'[p], pc[p])
        /\ \/ pc'[p].made = pc[p].made /\ pc'[p].events = pc[p].events
           \/ pc'[p].made = pc[p].made + 1 /\ pc'[p].events = Append(pc[p].events, pc[p].made + 1)
    BY <1>1, <1>2, <1>p, InputDoes
  <1>5. ASSUME NEW q \in Pcs \ {p} PROVE InOrder(q)' /\ ToldOnce(q)'
    BY <1>3, <1>4, <1>5, OtherEvents DEF Ending
  <1>6. pc'[p].handled = pc[p].handled /\ pc'[p].closed = pc[p].closed
    BY <1>4 DEF Intact
  <1>7. ToldOnce(p)'
    BY <1>1, <1>3, <1>6 DEF EventsInv, ToldOnce, Ending
  <1>8. \A u \in Threads : th'[u].at = "handle" =>
            th[u].at = "handle" /\ th'[u].on = th[u].on /\ th'[u].event = th[u].event
    BY <1>3
  <1>9. InOrder(p)
    BY <1>1 DEF EventsInv
  <1>10. ASSUME pc'[p].made = pc[p].made, pc'[p].events = pc[p].events PROVE InOrder(p)'
    BY <1>6, <1>8, <1>9, <1>10 DEF InOrder
  <1>11. ASSUME pc'[p].made = pc[p].made + 1, pc'[p].events = Append(pc[p].events, pc[p].made + 1)
         PROVE  InOrder(p)'
    <2> DEFINE es == pc[p].events
               hs == pc[p].handled
               n == pc[p].made
               more == Append(es, n + 1)
    <2>1. es \in Seq(Nat) /\ hs \in Seq(Nat) /\ n \in Nat /\ n + 1 \in Nat
      BY <1>1 DEF Pc
    <2>2. /\ \A i \in DOMAIN more :
                /\ i \in Nat
                /\ \/ i \in DOMAIN es /\ more[i] = es[i]
                   \/ i = Len(es) + 1 /\ more[i] = n + 1
          /\ \A i \in DOMAIN es : i \in Nat /\ i < Len(es) + 1 /\ es[i] \in Nat
      BY <2>1, AppendIs
    <2>3. \A i \in DOMAIN hs : hs[i] \in Nat
      BY <2>1
    <2>4. \A u \in Threads : th[u].event \in Nat
      BY <1>1 DEF Thread
    <2>5. pc'[p].events = more /\ pc'[p].made = n + 1 /\ pc'[p].handled = hs
      BY <1>6, <1>11
    <2>6. Len(es) \in Nat
      BY <2>1
    <2>i. /\ \A i, j \in DOMAIN es : i < j => es[i] < es[j]
          /\ \A i \in DOMAIN es : 0 < es[i] /\ es[i] <= n
          /\ \A i \in DOMAIN hs : hs[i] <= n
          /\ \A i \in DOMAIN hs, j \in DOMAIN es : hs[i] < es[j]
          /\ \A i, j \in DOMAIN hs : i < j => hs[i] = 0 \/ hs[j] = 0 \/ hs[i] < hs[j]
          /\ \A u \in Threads : th[u].at = "handle" /\ th[u].on = p =>
                /\ 0 < th[u].event /\ th[u].event <= n
                /\ \A i \in DOMAIN hs : hs[i] < th[u].event
                /\ \A j \in DOMAIN es : th[u].event < es[j]
      BY <1>9 DEF InOrder
    <2> HIDE DEF more, es, hs, n
    <2>7. /\ \A i, j \in DOMAIN more : i < j => more[i] < more[j]
          /\ \A i \in DOMAIN more : 0 < more[i] /\ more[i] <= n + 1
      BY <2>i, <2>1, <2>2, <2>6
    <2>8. /\ \A i \in DOMAIN hs : hs[i] <= n + 1
          /\ \A i \in DOMAIN hs, j \in DOMAIN more : hs[i] < more[j]
      <3>1. \A i \in DOMAIN hs : hs[i] \in Nat /\ hs[i] <= n
        BY <2>i, <2>3
      <3>2. \A i \in DOMAIN hs : hs[i] < n + 1
        BY <2>1, <3>1
      <3>3. ASSUME NEW i \in DOMAIN hs, NEW j \in DOMAIN more PROVE hs[i] < more[j]
        <4>1. CASE j \in DOMAIN es /\ more[j] = es[j]
          BY <2>i, <4>1
        <4>2. CASE more[j] = n + 1
          BY <3>2, <4>2
        <4> QED BY <2>2, <4>1, <4>2
      <3>4. \A i \in DOMAIN hs : hs[i] <= n + 1
        BY <2>1, <3>1
      <3> QED BY <3>3, <3>4
    <2>9. \A u \in Threads : th[u].at = "handle" /\ th[u].on = p =>
            /\ 0 < th[u].event /\ th[u].event <= n + 1
            /\ \A i \in DOMAIN hs : hs[i] < th[u].event
            /\ \A j \in DOMAIN more : th[u].event < more[j]
      BY <2>i, <2>1, <2>2, <2>4
    <2>10. \A i, j \in DOMAIN hs : i < j => hs[i] = 0 \/ hs[j] = 0 \/ hs[i] < hs[j]
      BY <2>i
    <2> QED BY <1>8, <2>5, <2>7, <2>8, <2>9, <2>10 DEF InOrder
  <1> QED BY <1>4, <1>5, <1>7, <1>10, <1>11 DEF EventsInv

LEMMA EventsPop == ASSUME Driven, EventsInv, NEW t \in Threads, Pop(t) PROVE EventsInv'
  <1>p. PICK p \in Pcs : p = th[t].on
    BY DrivesPc DEF Driven, Pop
  <1> DEFINE es == pc[p].events
             hs == pc[p].handled
             s == [th[t] EXCEPT !.at = "handle", !.event = Head(es)]
             c == [pc[p] EXCEPT !.events = Tail(@)]
  <1>1. th \in [Threads -> Thread] /\ th[t].at = "pop" /\ pc \in [Pcs -> Pc] /\ pc[p] \in Pc
    BY <1>p DEF Driven, TypeOK, Pop
  <1>2. es \in Seq(Nat) /\ hs \in Seq(Nat) /\ pc[p].made \in Nat /\ es # <<>>
    BY <1>1, <1>p DEF Pc, Pop
  <1>3. /\ Tail(es) \in Seq(Nat) /\ Head(es) = es[1] /\ 1 \in DOMAIN es /\ Head(es) \in Nat
        /\ \A i \in DOMAIN Tail(es) : i \in Nat /\ i + 1 \in DOMAIN es /\ 1 < i + 1 /\ Tail(es)[i] = es[i + 1]
    BY <1>2, TailIs
  <1>4. s.at = "handle" /\ s.on = p /\ s.event = Head(es)
    BY <1>1, <1>p DEF Thread
  <1>5. c \in Pc /\ c.events = Tail(es) /\ c.made = pc[p].made /\ c.handled = hs /\ c.closed = pc[p].closed
    BY <1>1, <1>3 DEF Pc
  <1>6. th' = [th EXCEPT ![t] = s] /\ pc' = [pc EXCEPT ![p] = c]
    BY <1>p DEF Pop
  <1> HIDE DEF s, c
  <1>7. th'[t] = s /\ (\A u \in Threads \ {t} : th'[u] = th[u])
    BY <1>1, <1>6
  <1>8. pc' \in [Pcs -> Pc] /\ pc'[p] = c /\ (\A q \in Pcs \ {p} : pc'[q] = pc[q])
    BY <1>1, <1>5, <1>6, Becomes
  <1>9. ASSUME NEW q \in Pcs \ {p} PROVE InOrder(q)' /\ ToldOnce(q)'
    BY <1>4, <1>7, <1>8, <1>9, <1>p, OtherEvents
  <1>10. \A u \in Threads \ {t} : th'[u].on = p => th'[u].at \notin Critical
    BY <1>1, <1>7, <1>p, OneDriver DEF Critical
  <1>11. ToldOnce(p)'
    <2>1. \A u \in Threads : ~(th'[u].at \in Ending /\ th'[u].on = p)
      BY <1>4, <1>7, <1>10 DEF Critical, Ending
    <2> QED BY <1>1, <1>5, <1>8, <2>1 DEF EventsInv, ToldOnce
  <1>12. InOrder(p)'
    <2>1. InOrder(p)
      BY <1>1 DEF EventsInv
    <2>2. \A u \in Threads : th'[u].at = "handle" /\ th'[u].on = p => th'[u].event = es[1]
      BY <1>3, <1>4, <1>7, <1>10 DEF Critical
    <2> DEFINE rest == Tail(es)
    <2>3. pc'[p].events = rest /\ pc'[p].made = pc[p].made /\ pc'[p].handled = hs
      BY <1>5, <1>8
    <2>4. \A i \in DOMAIN rest : i \in Nat /\ i + 1 \in DOMAIN es /\ 1 < i + 1 /\ rest[i] = es[i + 1]
      BY <1>3
    <2> HIDE DEF rest
    <2>5. /\ \A i, j \in DOMAIN rest : i < j => rest[i] < rest[j]
          /\ \A i \in DOMAIN rest : 0 < rest[i] /\ rest[i] <= pc[p].made
          /\ \A i \in DOMAIN hs, j \in DOMAIN rest : hs[i] < rest[j]
      BY <2>1, <2>4 DEF InOrder
    <2>6. /\ 0 < es[1] /\ es[1] <= pc[p].made
          /\ \A i \in DOMAIN hs : hs[i] < es[1]
          /\ \A j \in DOMAIN rest : es[1] < rest[j]
      BY <1>3, <2>1, <2>4 DEF InOrder
    <2>7. /\ \A i \in DOMAIN hs : hs[i] <= pc[p].made
          /\ \A i, j \in DOMAIN hs : i < j => hs[i] = 0 \/ hs[j] = 0 \/ hs[i] < hs[j]
      BY <2>1 DEF InOrder
    <2> HIDE DEF es, hs
    <2> QED BY <2>2, <2>3, <2>5, <2>6, <2>7 DEF InOrder
  <1> QED BY <1>9, <1>11, <1>12 DEF EventsInv

LEMMA EventsHandle == ASSUME Driven, EventsInv, NEW t \in Threads, Handle(t) PROVE EventsInv'
  <1>p. PICK p \in Pcs : p = th[t].on
    BY DrivesPc DEF Driven, Handle
  <1> DEFINE es == pc[p].events
             hs == pc[p].handled
             e == th[t].event
             more == Append(hs, e)
             c == [pc[p] EXCEPT !.handled = more]
  <1>1. th \in [Threads -> Thread] /\ th[t].at = "handle" /\ pc \in [Pcs -> Pc] /\ pc[p] \in Pc
    BY DEF Driven, TypeOK, Handle
  <1>2. es \in Seq(Nat) /\ hs \in Seq(Nat) /\ pc[p].made \in Nat /\ e \in Nat
    BY <1>1 DEF Pc, Thread
  <1>3. /\ more \in Seq(Nat)
        /\ \A i \in DOMAIN more :
                /\ i \in Nat
                /\ \/ i \in DOMAIN hs /\ more[i] = hs[i]
                   \/ i = Len(hs) + 1 /\ more[i] = e
        /\ \A i \in DOMAIN hs : i \in Nat /\ i < Len(hs) + 1 /\ hs[i] \in Nat
    BY <1>2, AppendIs
  <1>n. Len(hs) \in Nat
    BY <1>2
  <1> HIDE DEF more
  <1>4. c \in Pc /\ c.events = es /\ c.made = pc[p].made /\ c.handled = more /\ c.closed = pc[p].closed
    BY <1>1, <1>3 DEF Pc
  <1>5. Goes(t, "pop") /\ pc' = [pc EXCEPT ![p] = c]
    BY <1>p DEF Handle, more
  <1> HIDE DEF c
  <1>6. th'[t].at = "pop" /\ (\A u \in Threads \ {t} : th'[u] = th[u])
    BY <1>1, <1>5, GoesOn DEF Critical
  <1>7. pc' \in [Pcs -> Pc] /\ pc'[p] = c /\ (\A q \in Pcs \ {p} : pc'[q] = pc[q])
    BY <1>1, <1>4, <1>5, Becomes
  <1>8. ASSUME NEW q \in Pcs \ {p} PROVE InOrder(q)' /\ ToldOnce(q)'
    BY <1>6, <1>7, <1>8, OtherEvents DEF Ending
  <1>9. \A u \in Threads \ {t} : th[u].on = p => th[u].at \notin Critical
    BY <1>1, <1>p, OneDriver DEF Critical
  <1>10. \A u \in Threads : th'[u].on = p => th'[u].at \notin {"handle"} \union Ending
    BY <1>6, <1>9 DEF Critical, Ending
  <1>i. /\ \A i, j \in DOMAIN es : i < j => es[i] < es[j]
        /\ \A i \in DOMAIN es : 0 < es[i] /\ es[i] <= pc[p].made
        /\ \A i \in DOMAIN hs : hs[i] <= pc[p].made
        /\ \A i \in DOMAIN hs, j \in DOMAIN es : hs[i] < es[j]
        /\ \A i, j \in DOMAIN hs : i < j => hs[i] = 0 \/ hs[j] = 0 \/ hs[i] < hs[j]
        /\ 0 < e /\ e <= pc[p].made
        /\ \A i \in DOMAIN hs : hs[i] < e
        /\ \A j \in DOMAIN es : e < es[j]
    BY <1>p, <1>1 DEF EventsInv, InOrder
  <1>o. /\ \A i, j \in DOMAIN hs : hs[i] = 0 /\ hs[j] = 0 => i = j
        /\ ~pc[p].closed => \A i \in DOMAIN hs : hs[i] # 0
    BY DEF EventsInv, ToldOnce
  <1>d. pc'[p].events = es /\ pc'[p].made = pc[p].made /\ pc'[p].handled = more /\ pc'[p].closed = pc[p].closed
    BY <1>4, <1>7
  <1> HIDE DEF es, hs, e
  <1>11. ToldOnce(p)'
    <2>1. \A i, j \in DOMAIN more : more[i] = 0 /\ more[j] = 0 => i = j
      BY <1>3, <1>o, <1>i
    <2>2. ~pc[p].closed => \A i \in DOMAIN more : more[i] # 0
      BY <1>3, <1>o, <1>i
    <2> QED BY <1>10, <1>d, <2>1, <2>2 DEF ToldOnce
  <1>12. InOrder(p)'
    <2>1. \A i \in DOMAIN more : more[i] <= pc[p].made
      BY <1>3, <1>i
    <2>2. ASSUME NEW i \in DOMAIN more, NEW j \in DOMAIN es PROVE more[i] < es[j]
      BY <1>3, <1>i
    <2>3. ASSUME NEW i \in DOMAIN more, NEW j \in DOMAIN more, i < j
          PROVE  more[i] = 0 \/ more[j] = 0 \/ more[i] < more[j]
      <3>1. i \in Nat /\ j \in Nat /\ i \in DOMAIN hs /\ more[i] = hs[i]
        BY <1>3, <1>n, <2>3
      <3>2. CASE j \in DOMAIN hs /\ more[j] = hs[j]
        BY <1>i, <2>3, <3>1, <3>2
      <3>3. CASE more[j] = e
        BY <1>i, <3>1, <3>3
      <3> QED BY <1>3, <3>2, <3>3
    <2> QED BY <1>10, <1>d, <1>i, <2>1, <2>2, <2>3 DEF InOrder
  <1> QED BY <1>8, <1>11, <1>12 DEF EventsInv

LEMMA EventsDie == ASSUME Driven, EventsInv, NEW t \in Threads, Die(t) PROVE EventsInv'
  <1>p. PICK p \in Pcs : p = th[t].on
    BY DrivesPc DEF Driven, Die
  <1> DEFINE s == [th[t] EXCEPT !.at = "unroute", !.taken = pc[p].remotes]
             c == [pc[p] EXCEPT !.closed = TRUE, !.remotes = {}]
  <1>1. /\ th \in [Threads -> Thread] /\ th[t].at = "pop" /\ pc \in [Pcs -> Pc] /\ pc[p] \in Pc
        /\ ~pc[p].closed
    BY <1>p DEF Driven, TypeOK, Die
  <1>2. s.at = "unroute" /\ s.on = p
    BY <1>1, <1>p DEF Thread
  <1>3. c \in Pc /\ c.events = pc[p].events /\ c.made = pc[p].made /\ c.handled = pc[p].handled
    BY <1>1 DEF Pc
  <1>4. th' = [th EXCEPT ![t] = s] /\ pc' = [pc EXCEPT ![p] = c]
    BY <1>p DEF Die
  <1> HIDE DEF s, c
  <1>5. th'[t] = s /\ (\A u \in Threads \ {t} : th'[u] = th[u])
    BY <1>1, <1>4
  <1>6. pc' \in [Pcs -> Pc] /\ pc'[p] = c /\ (\A q \in Pcs \ {p} : pc'[q] = pc[q])
    BY <1>1, <1>3, <1>4, Becomes
  <1>7. ASSUME NEW q \in Pcs \ {p} PROVE InOrder(q)' /\ ToldOnce(q)'
    BY <1>2, <1>5, <1>6, <1>7, OtherEvents
  <1>8. \A u \in Threads : th'[u].at = "handle" =>
            th[u].at = "handle" /\ th'[u].on = th[u].on /\ th'[u].event = th[u].event
    BY <1>2, <1>5
  <1>9. InOrder(p)'
    BY <1>3, <1>6, <1>8 DEF EventsInv, InOrder
  <1>10. ToldOnce(p)'
    <2>1. c.closed
      BY <1>1 DEF c, Pc
    <2> QED BY <1>1, <1>3, <1>6, <2>1 DEF EventsInv, ToldOnce
  <1> QED BY <1>7, <1>9, <1>10 DEF EventsInv

LEMMA EventsClosed == ASSUME Driven, EventsInv, NEW t \in Threads, OnClosed(t) PROVE EventsInv'
  <1>p. PICK p \in Pcs : p = th[t].on
    BY DrivesPc DEF Driven, OnClosed
  <1> DEFINE es == pc[p].events
             hs == pc[p].handled
             more == Append(hs, 0)
             c == [pc[p] EXCEPT !.permit = TRUE, !.handled = more]
  <1>1. th \in [Threads -> Thread] /\ th[t].at = "closing" /\ pc \in [Pcs -> Pc] /\ pc[p] \in Pc
    BY DEF Driven, TypeOK, OnClosed
  <1>2. es \in Seq(Nat) /\ hs \in Seq(Nat) /\ pc[p].made \in Nat
    BY <1>1 DEF Pc
  <1>3. /\ more \in Seq(Nat)
        /\ \A i \in DOMAIN more :
                /\ i \in Nat
                /\ \/ i \in DOMAIN hs /\ more[i] = hs[i]
                   \/ i = Len(hs) + 1 /\ more[i] = 0
        /\ \A i \in DOMAIN hs : i \in Nat /\ i < Len(hs) + 1 /\ hs[i] \in Nat
    BY <1>2, AppendIs
  <1> HIDE DEF more
  <1>4. c \in Pc /\ c.events = es /\ c.made = pc[p].made /\ c.handled = more /\ c.closed = pc[p].closed
    BY <1>1, <1>3 DEF Pc
  <1>5. Leaves(t) /\ pc' = [pc EXCEPT ![p] = c]
    BY <1>p DEF OnClosed, more
  <1> HIDE DEF c
  <1>6. (\A u \in Threads \ {t} : th'[u] = th[u]) /\ th'[t].at \in {"load", "rename", "idle"}
    BY <1>1, <1>5, LeavesDoes DEF Critical
  <1>7. pc' \in [Pcs -> Pc] /\ pc'[p] = c /\ (\A q \in Pcs \ {p} : pc'[q] = pc[q])
    BY <1>1, <1>4, <1>5, Becomes
  <1>8. ASSUME NEW q \in Pcs \ {p} PROVE InOrder(q)' /\ ToldOnce(q)'
    BY <1>6, <1>7, <1>8, OtherEvents DEF Ending
  <1>9. \A u \in Threads \ {t} : th[u].on = p => th[u].at \notin Critical
    BY <1>1, <1>p, OneDriver DEF Critical
  <1>10. \A u \in Threads : th'[u].on = p => th'[u].at \notin {"handle"} \union Ending
    BY <1>6, <1>9 DEF Critical, Ending
  <1>i. /\ \A i, j \in DOMAIN es : i < j => es[i] < es[j]
        /\ \A i \in DOMAIN es : 0 < es[i] /\ es[i] <= pc[p].made
        /\ \A i \in DOMAIN hs : hs[i] <= pc[p].made
        /\ \A i \in DOMAIN hs, j \in DOMAIN es : hs[i] < es[j]
        /\ \A i, j \in DOMAIN hs : i < j => hs[i] = 0 \/ hs[j] = 0 \/ hs[i] < hs[j]
    BY DEF EventsInv, InOrder
  <1>o. \A i \in DOMAIN hs : hs[i] # 0
    BY <1>1, <1>p DEF EventsInv, ToldOnce, Ending
  <1>c. pc[p].closed
    BY <1>1, <1>p DEF EventsInv, ToldOnce, Ending
  <1>d. pc'[p].events = es /\ pc'[p].made = pc[p].made /\ pc'[p].handled = more /\ pc'[p].closed = pc[p].closed
    BY <1>4, <1>7
  <1>n. Len(hs) \in Nat
    BY <1>2
  <1> HIDE DEF es, hs
  <1>11. ToldOnce(p)'
    <2>1. \A i, j \in DOMAIN more : more[i] = 0 /\ more[j] = 0 => i = j
      BY <1>3, <1>o
    <2> QED BY <1>10, <1>c, <1>d, <2>1 DEF ToldOnce
  <1>12. InOrder(p)'
    <2>1. \A i \in DOMAIN more : more[i] <= pc[p].made
      <3>1. 0 <= pc[p].made
        BY <1>2
      <3>2. \A i \in DOMAIN hs : hs[i] <= pc[p].made
        BY <1>i
      <3> QED BY <1>3, <3>1, <3>2
    <2>2. ASSUME NEW i \in DOMAIN more, NEW j \in DOMAIN es PROVE more[i] < es[j]
      BY <1>3, <1>i
    <2>3. ASSUME NEW i \in DOMAIN more, NEW j \in DOMAIN more, i < j
          PROVE  more[i] = 0 \/ more[j] = 0 \/ more[i] < more[j]
      <3>1. i \in Nat /\ j \in Nat /\ i \in DOMAIN hs /\ more[i] = hs[i]
        BY <1>3, <1>n, <2>3
      <3>2. CASE j \in DOMAIN hs /\ more[j] = hs[j]
        BY <1>i, <2>3, <3>1, <3>2
      <3> QED BY <1>3, <3>2
    <2> QED BY <1>10, <1>d, <1>i, <2>1, <2>2, <2>3 DEF InOrder
  <1> QED BY <1>8, <1>11, <1>12 DEF EventsInv

LEMMA EventsStep == ASSUME Driven, EventsInv, [Next]_vars PROVE EventsInv'
  <1>1. ASSUME NEW t \in Threads, Drive(t) PROVE EventsInv'
    BY <1>1, EventsRun, EventsPop, EventsHandle, EventsDie, EventsClosed, QuietSteps, NoEventKeeps DEF Drive
  <1>2. CASE UNCHANGED vars
    BY <1>2 DEF vars, EventsInv, InOrder, ToldOnce
  <1> QED BY <1>1, <1>2, QuietSteps, NoEventKeeps DEF Next

\* At most one entry of 0.
LEMMA OneZero ==
    ASSUME NEW s \in Seq(Nat), \A i, j \in DOMAIN s : s[i] = 0 /\ s[j] = 0 => i = j
    PROVE  Cardinality({i \in DOMAIN s : s[i] = 0}) <= 1
  <1> DEFINE Z == {i \in DOMAIN s : s[i] = 0}
  <1>0. Cardinality({}) = 0 /\ \A i : Cardinality({i}) = 1
    BY FS_EmptySet, FS_Singleton
  <1>1. CASE Z = {}
    <2>1. Cardinality(Z) = 0
      BY <1>0, <1>1
    <2> QED BY <2>1
  <1>2. CASE Z # {}
    <2>1. PICK i \in Z : Z = {i}
      BY <1>2
    <2>2. Cardinality(Z) = 1
      BY <1>0, <2>1
    <2> QED BY <2>2
  <1> QED BY <1>1, <1>2

\* net.rs:8-9, :39-41: whichever threads drive a PC and however they interleave, its handler
\* gets its events in the order they were made, and is told once that the PC closed.
THEOREM HandledInOrder == Spec => [](TypeOK /\ EventsInOrder)
  <1>1. Init => Driven /\ EventsInv
    <2> SUFFICES ASSUME Init PROVE EventsInv
      BY DrivenInit
    <2>1. \A p \in Pcs : pc[p].events = <<>> /\ pc[p].handled = <<>> /\ ~pc[p].closed
      BY DEF Init, NewPc
    <2>2. \A t \in Threads : th[t].at \in {"idle", "load"}
      BY DEF Init
    <2> QED BY <2>1, <2>2 DEF EventsInv, InOrder, ToldOnce, Ending
  <1>2. Driven /\ EventsInv /\ [Next]_vars => (Driven /\ EventsInv)'
    BY DrivenStep, EventsStep
  <1>3. Driven /\ EventsInv => TypeOK /\ EventsInOrder
    <2> SUFFICES ASSUME Driven, EventsInv PROVE EventsInOrder
      BY DEF Driven
    <2>1. ASSUME NEW p \in Pcs
          PROVE  Cardinality({i \in DOMAIN pc[p].handled : pc[p].handled[i] = 0}) <= 1
      <3>1. pc[p].handled \in Seq(Nat)
        BY DEF Driven, TypeOK, Pc
      <3> QED BY <3>1, OneZero DEF EventsInv, ToldOnce
    <2> QED BY <2>1 DEF EventsInOrder, EventsInv, InOrder
  <1> QED BY <1>1, <1>2, <1>3, PTL DEF Spec

-----------------------------------------------------------------------------
(* The socket's tables.                                                    *)

\* An address that leads to a PC is one the PC will take with it, or is about to be; a PC that
\* is gone is driven by no thread, and none turns to it.
Routed(p) ==
    /\ \A a \in Addrs : routes[a] = p =>
        \/ a \in pc[p].remotes
        \/ th["rx"].at = "remember" /\ th["rx"].on = p /\ th["rx"].from = a
        \/ \E t \in Threads : th[t].at = "unroute" /\ th[t].on = p /\ a \in th[t].taken
    /\ \A n \in Nat : <<p, n>> \in ufrags => n = pc[p].ufrag
    /\ pc[p].dropped =>
        /\ pc[p].closed /\ ~pc[p].owned /\ th[p].at = "done"
        /\ th["rx"].on # p /\ th["ctl"].on # p
        /\ \A a \in Addrs : routes[a] # p
        /\ \A n \in Nat : <<p, n>> \notin ufrags

RoutedInv == \A p \in Pcs : Routed(p)

\* What a step that takes nothing from p and gives it nothing does.
Unmoved(p) ==
    /\ pc'[p].dropped = pc[p].dropped /\ pc'[p].ufrag = pc[p].ufrag
    /\ pc[p].remotes \subseteq pc'[p].remotes
    /\ ufrags' \subseteq ufrags
    /\ \A a \in Addrs : routes'[a] = p => routes[a] = p \/ a \in pc'[p].remotes
    /\ \A t \in Threads : th[t].at = "unroute" /\ th[t].on = p => th'[t] = th[t]
    /\ th["rx"].at = "remember" /\ th["rx"].on = p =>
            th'["rx"] = th["rx"] \/ th["rx"].from \in pc'[p].remotes
    /\ pc[p].dropped =>
        /\ pc'[p].closed = pc[p].closed /\ pc'[p].owned = pc[p].owned /\ th'[p] = th[p]
        /\ \A t \in {"rx", "ctl"} : th'[t].on = p => th[t].on = p
        /\ \A a \in Addrs : routes'[a] = p => routes[a] = p

LEMMA UnmovedKeeps == ASSUME NEW p \in Pcs, Routed(p), Unmoved(p) PROVE Routed(p)'
  <1>1. ASSUME NEW a \in Addrs, routes'[a] = p
        PROVE  \/ a \in pc'[p].remotes
               \/ th'["rx"].at = "remember" /\ th'["rx"].on = p /\ th'["rx"].from = a
               \/ \E t \in Threads : th'[t].at = "unroute" /\ th'[t].on = p /\ a \in th'[t].taken
    BY <1>1 DEF Routed, Unmoved
  <1>2. \A n \in Nat : <<p, n>> \in ufrags' => n = pc'[p].ufrag
    BY DEF Routed, Unmoved
  <1>3. pc'[p].dropped =>
        /\ pc'[p].closed /\ ~pc'[p].owned /\ th'[p].at = "done"
        /\ th'["rx"].on # p /\ th'["ctl"].on # p
        /\ \A a \in Addrs : routes'[a] # p
        /\ \A n \in Nat : <<p, n>> \notin ufrags'
    BY DEF Routed, Unmoved
  <1> QED BY <1>1, <1>2, <1>3 DEF Routed

\* No thread drives a PC that is gone.
LEMMA DrivesLive ==
    ASSUME Driven, RoutedInv, NEW t \in Threads, th[t].at \notin {"idle", "done"}
    PROVE  th[t].on \in Pcs /\ ~pc[th[t].on].dropped
  <1>1. th[t].on \in Pcs
    BY DrivesPc DEF Driven
  <1>2. t \in Pcs => th[t].on = t
    BY DEF Driven, RolesOK, Role
  <1>3. t \notin Pcs => t \in {"rx", "ctl"}
    BY DEF Threads
  <1> QED BY <1>1, <1>2, <1>3 DEF RoutedInv, Routed

\* A thread that drives its PC on, or lets go of it.
LEMMA DrivesOn ==
    ASSUME Driven, RoutedInv, NEW t \in Threads, \A u \in Threads \ {t} : th'[u] = th[u],
           th[t].at \notin {"idle", "done", "remember", "unroute"},
           t \in {"rx", "ctl"} => th'[t].on \in {th[t].on, Nobody},
           \A q \in Pcs \ {th[t].on} : pc'[q] = pc[q],
           \/ pc' = pc
           \/ /\ pc'[th[t].on].dropped = pc[th[t].on].dropped
              /\ pc'[th[t].on].ufrag = pc[th[t].on].ufrag
              /\ pc[th[t].on].remotes \subseteq pc'[th[t].on].remotes,
           ufrags' \subseteq ufrags,
           \A a \in Addrs : \/ routes'[a] = routes[a]
                            \/ routes'[a] = th[t].on /\ a \in pc'[th[t].on].remotes
    PROVE  RoutedInv'
  <1>1. PICK p \in Pcs : p = th[t].on /\ ~pc[p].dropped
    BY DrivesLive
  <1>2. Nobody \notin Pcs
    BY ThreadIs
  <1>3. Unmoved(p)
    <2>1. /\ pc'[p].dropped = pc[p].dropped /\ pc'[p].ufrag = pc[p].ufrag
          /\ pc[p].remotes \subseteq pc'[p].remotes
      BY <1>1
    <2>2. \A u \in Threads : th[u].at \in {"unroute", "remember"} => th'[u] = th[u]
      OBVIOUS
    <2>3. "rx" \in Threads
      BY ThreadIs
    <2>4. \A a \in Addrs : routes'[a] = p => routes[a] = p \/ a \in pc'[p].remotes
      BY <1>1
    <2> QED BY <1>1, <2>1, <2>2, <2>3, <2>4 DEF Unmoved
  <1>4. ASSUME NEW q \in Pcs, q # p PROVE Unmoved(q)
    <2>1. pc'[q] = pc[q] /\ (\A a \in Addrs : routes'[a] = q => routes[a] = q)
      BY <1>1, <1>4
    <2>2. pc[q].dropped => th'[q] = th[q]
      <3>1. t \in Pcs => t = p
        BY <1>1 DEF Driven, RolesOK, Role
      <3> QED BY <1>4, <3>1, ThreadIs
    <2>3. \A u \in {"rx", "ctl"} : th'[u].on = q => th[u].on = q
      BY <1>1, <1>2, <1>4, ThreadIs
    <2>4. \A u \in Threads : th[u].at = "unroute" => th'[u] = th[u]
      OBVIOUS
    <2>5. th["rx"].at = "remember" => th'["rx"] = th["rx"]
      BY ThreadIs
    <2> QED BY <2>1, <2>2, <2>3, <2>4, <2>5 DEF Unmoved
  <1> QED BY <1>3, <1>4, UnmovedKeeps DEF RoutedInv

LEMMA RoutedDrive ==
    ASSUME Driven, RoutedInv, NEW t \in Threads,
           Run(t) \/ Pop(t) \/ Handle(t) \/ Leave(t) \/ LockTable(t) \/ DropUfrag(t) \/ OnClosed(t)
    PROVE  RoutedInv'
  <1>0. /\ th \in [Threads -> Thread] /\ pc \in [Pcs -> Pc] /\ TypeOK
        /\ th[t].at \in {"enter", "pop", "handle", "table", "name", "closing"}
    BY DEF Driven, TypeOK, Run, Pop, Handle, Leave, LockTable, DropUfrag, OnClosed
  <1>p. PICK p \in Pcs : p = th[t].on
    BY <1>0, DrivesPc DEF Driven
  <1>1. ASSUME \A u \in Threads \ {t} : th'[u] = th[u],
               t \in {"rx", "ctl"} => th'[t].on \in {th[t].on, Nobody},
               NEW c \in Pc, pc' = [pc EXCEPT ![p] = c], c.dropped = pc[p].dropped,
               c.ufrag = pc[p].ufrag, c.remotes = pc[p].remotes, UNCHANGED tables
        PROVE  RoutedInv'
    <2>1. pc'[p] = c /\ (\A q \in Pcs \ {p} : pc'[q] = pc[q])
      BY <1>0, <1>1, Becomes
    <2>2. ufrags' = ufrags /\ routes' = routes
      BY <1>1 DEF tables
    <2> QED BY <1>0, <1>1, <1>p, <2>1, <2>2, DrivesOn
  <1>2. CASE Run(t)
    <2>1. Goes(t, "pop") /\ Input(t) /\ ufrags' = ufrags
      BY <1>2 DEF Run
    <2>2. (\A u \in Threads \ {t} : th'[u] = th[u]) /\ th'[t].on = th[t].on
      BY <1>0, <2>1, GoesOn DEF Critical
    <2>3. /\ \A q \in Pcs \ {p} : pc'[q] = pc[q]
          /\ Intact(pc'[p], pc[p]) /\ pc[p].remotes \subseteq pc'[p].remotes
          /\ \A a \in Addrs : \/ routes'[a] = routes[a]
                              \/ routes'[a] = p /\ a \in pc'[p].remotes
      BY <1>0, <1>p, <2>1, InputDoes
    <2>4. pc'[p].dropped = pc[p].dropped /\ pc'[p].ufrag = pc[p].ufrag
      BY <2>3 DEF Intact
    <2>5. th[t].at \notin {"idle", "done", "remember", "unroute"}
      BY <1>0
    <2> QED BY <1>p, <2>1, <2>2, <2>3, <2>4, <2>5, DrivesOn
  <1>3. CASE Pop(t)
    <2> DEFINE s == [th[t] EXCEPT !.at = "handle", !.event = Head(pc[p].events)]
               c == [pc[p] EXCEPT !.events = Tail(@)]
    <2>0. pc[p].events \in Seq(Nat) /\ pc[p].events # <<>>
      BY <1>0, <1>3, <1>p DEF Pop, Pc
    <2>1. Tail(pc[p].events) \in Seq(Nat)
      BY <2>0, TailIs
    <2>2. c \in Pc /\ c.dropped = pc[p].dropped /\ c.ufrag = pc[p].ufrag /\ c.remotes = pc[p].remotes
      BY <1>0, <2>1 DEF Pc
    <2>3. s.on = th[t].on
      BY <1>0 DEF Thread
    <2>4. th' = [th EXCEPT ![t] = s] /\ pc' = [pc EXCEPT ![p] = c] /\ UNCHANGED tables
      BY <1>3, <1>p DEF Pop
    <2> HIDE DEF s, c
    <2>5. th'[t] = s /\ (\A u \in Threads \ {t} : th'[u] = th[u])
      BY <1>0, <2>4
    <2> QED BY <1>1, <2>2, <2>3, <2>4, <2>5
  <1>4. CASE Handle(t)
    <2> DEFINE c == [pc[p] EXCEPT !.handled = Append(@, th[t].event)]
    <2>1. Append(pc[p].handled, th[t].event) \in Seq(Nat)
      BY <1>0 DEF Pc, Thread
    <2>2. c \in Pc /\ c.dropped = pc[p].dropped /\ c.ufrag = pc[p].ufrag /\ c.remotes = pc[p].remotes
      BY <1>0, <2>1 DEF Pc
    <2>3. Goes(t, "pop") /\ pc' = [pc EXCEPT ![p] = c] /\ UNCHANGED tables
      BY <1>4, <1>p DEF Handle
    <2> HIDE DEF c
    <2>4. (\A u \in Threads \ {t} : th'[u] = th[u]) /\ th'[t].on = th[t].on
      BY <1>0, <2>3, GoesOn DEF Critical
    <2> QED BY <1>1, <2>2, <2>3, <2>4
  <1>l. ASSUME th[t].at \in Critical, Leaves(t)
        PROVE  (\A u \in Threads \ {t} : th'[u] = th[u]) /\ th'[t].on \in {th[t].on, Nobody}
    <2>1. CASE t \in Pcs \/ th[t].act = "restart"
      <3>1. PICK step \in {"load", "rename"} : Goes(t, step)
        <4>1. t \in Pcs => th[t].act # "restart"
          BY ThreadIs DEF Driven, RolesOK, Role
        <4> QED BY <1>l, <2>1, <4>1 DEF Leaves
      <3> QED BY <1>0, <3>1, GoesOn
    <2>2. CASE t \notin Pcs /\ th[t].act # "restart"
      <3>1. Takes(t, Nobody, "timeout", Nobody, "idle")
        BY <1>l, <2>2 DEF Leaves
      <3> QED BY <1>0, <3>1, TurnsTo
    <2> QED BY <2>1, <2>2
  <1>5. CASE Leave(t)
    <2>1. Leaves(t) /\ pc' = pc /\ ufrags' = ufrags /\ routes' = routes /\ th[t].at = "pop"
      BY <1>5 DEF Leave, tables
    <2>2. (\A u \in Threads \ {t} : th'[u] = th[u]) /\ th'[t].on \in {th[t].on, Nobody}
      BY <1>l, <2>1 DEF Critical
    <2> QED BY <1>0, <2>1, <2>2, DrivesOn
  <1>6. CASE LockTable(t) \/ DropUfrag(t)
    <2>1. PICK step \in {"name", "closing"} : Goes(t, step)
      BY <1>6 DEF LockTable, DropUfrag
    <2>2. (\A u \in Threads \ {t} : th'[u] = th[u]) /\ th'[t].on = th[t].on
      BY <1>0, <2>1, GoesOn DEF Critical
    <2>3. pc' = pc /\ ufrags' \subseteq ufrags /\ routes' = routes
      BY <1>6 DEF LockTable, DropUfrag, tables
    <2> QED BY <1>0, <2>2, <2>3, DrivesOn
  <1>7. CASE OnClosed(t)
    <2> DEFINE c == [pc[p] EXCEPT !.permit = TRUE, !.handled = Append(@, 0)]
    <2>1. Append(pc[p].handled, 0) \in Seq(Nat)
      BY <1>0 DEF Pc
    <2>2. c \in Pc /\ c.dropped = pc[p].dropped /\ c.ufrag = pc[p].ufrag /\ c.remotes = pc[p].remotes
      BY <1>0, <2>1 DEF Pc
    <2>3. Leaves(t) /\ pc' = [pc EXCEPT ![p] = c] /\ UNCHANGED tables /\ th[t].at = "closing"
      BY <1>7, <1>p DEF OnClosed
    <2> HIDE DEF c
    <2>4. (\A u \in Threads \ {t} : th'[u] = th[u]) /\ th'[t].on \in {th[t].on, Nobody}
      BY <1>l, <2>3 DEF Critical
    <2> QED BY <1>1, <2>2, <2>3, <2>4
  <1> QED BY <1>2, <1>3, <1>4, <1>5, <1>6, <1>7

\* A thread that was idle turns to a PC that is not gone.
LEMMA RoutedTurn == Driven /\ RoutedInv /\ (Receive \/ Restart \/ Close) => RoutedInv'
  <1> SUFFICES ASSUME Driven, RoutedInv, Receive \/ Restart \/ Close PROVE RoutedInv'
    OBVIOUS
  <1>0. th \in [Threads -> Thread] /\ "rx" \in Threads /\ "ctl" \in Threads /\ "rx" \notin Pcs /\ "ctl" \notin Pcs
    BY ThreadIs DEF Driven, TypeOK, Threads
  <1>1. ASSUME NEW t \in {"rx", "ctl"}, NEW p \in Pcs, NEW act \in {"receive", "restart", "disconnect"},
               NEW from \in Addrs \union {Nobody}, NEW step \in {"learn", "enter"},
               Takes(t, p, act, from, step), ~pc[p].dropped, UNCHANGED <<pc, tables>>, th[t].at = "idle"
        PROVE  RoutedInv'
    <2>1. th'[t].on = p /\ (\A u \in Threads \ {t} : th'[u] = th[u])
      BY <1>0, <1>1, TurnsTo
    <2>2. \A u \in Threads : th[u].at \in {"unroute", "remember"} => th'[u] = th[u]
      BY <1>1, <2>1
    <2>3. ASSUME NEW q \in Pcs PROVE Unmoved(q)
      <3>1. q \in Threads \ {t}
        BY <1>0, ThreadIs
      <3>2. th'[q] = th[q]
        BY <2>1, <3>1
      <3>3. pc[q].dropped => q # p
        BY <1>1
      <3>4. pc'[q] = pc[q] /\ ufrags' = ufrags /\ routes' = routes
        BY <1>1 DEF tables
      <3>5. \A u \in {"rx", "ctl"} : q # p => (th'[u].on = q => th[u].on = q)
        BY <1>0, <2>1
      <3> QED BY <1>0, <2>2, <3>2, <3>3, <3>4, <3>5 DEF Unmoved
    <2> QED BY <2>3, UnmovedKeeps DEF RoutedInv
  <1>2. CASE Receive
    <2>1. UNCHANGED <<pc, tables>> /\ th["rx"].at = "idle"
      BY <1>2 DEF Receive
    <2>2. PICK a \in Addrs, p \in Pcs, step \in {"learn", "enter"} :
                ~pc[p].dropped /\ Takes("rx", p, "receive", a, step)
      BY <1>2 DEF Receive
    <2> QED BY <1>1, <2>1, <2>2
  <1>3. CASE Restart
    <2>1. UNCHANGED <<pc, tables>> /\ th["ctl"].at = "idle"
      BY <1>3 DEF Restart
    <2>2. PICK p \in Pcs : pc[p].owned /\ Takes("ctl", p, "restart", Nobody, "enter")
      BY <1>3 DEF Restart
    <2>3. ~pc[p].dropped
      BY <2>2 DEF RoutedInv, Routed
    <2> QED BY <1>1, <2>1, <2>2, <2>3
  <1>4. CASE Close
    <2>1. UNCHANGED <<pc, tables>> /\ th["ctl"].at = "idle"
      BY <1>4 DEF Close
    <2>2. PICK p \in Pcs : pc[p].owned /\ Takes("ctl", p, "disconnect", Nobody, "enter")
      BY <1>4 DEF Close
    <2>3. ~pc[p].dropped
      BY <2>2 DEF RoutedInv, Routed
    <2> QED BY <1>1, <2>1, <2>2, <2>3
  <1> QED BY <1>2, <1>3, <1>4

\* An address is inserted, then the PC told of it.
LEMMA RoutedLearn == Driven /\ RoutedInv /\ Learn => RoutedInv'
  <1> SUFFICES ASSUME Driven, RoutedInv, Learn PROVE RoutedInv'
    OBVIOUS
  <1>0. th \in [Threads -> Thread] /\ pc \in [Pcs -> Pc] /\ "rx" \in Threads /\ "rx" \notin Pcs /\ "ctl" \in Threads
    BY ThreadIs DEF Driven, TypeOK, Threads
  <1>1. th["rx"].at \in {"learn", "remember"}
    BY DEF Learn, LearnInsert, LearnRemember
  <1>p. PICK p \in Pcs : p = th["rx"].on /\ ~pc[p].dropped
    BY <1>0, <1>1, DrivesLive
  <1>a. PICK a \in Addrs : a = th["rx"].from
    BY <1>0, <1>1 DEF Driven, RolesOK, Role
  <1>2. CASE LearnInsert
    <2>1. PICK step \in {"enter", "remember"} :
            Goes("rx", step) /\ (step = "enter" => routes' = routes)
      BY <1>2 DEF LearnInsert
    <2>2. /\ (\A u \in Threads \ {"rx"} : th'[u] = th[u]) /\ th'["rx"].on = p /\ th'["rx"].from = a
          /\ th'["rx"].at = step
      BY <1>0, <1>a, <1>p, <2>1, GoesOn DEF Critical
    <2>3. th["rx"].at = "learn" /\ pc' = pc /\ ufrags' = ufrags /\ routes' = [routes EXCEPT ![a] = p]
      BY <1>2, <1>a, <1>p DEF LearnInsert
    <2>4. \A u \in Threads : th[u].at = "unroute" => th'[u] = th[u]
      BY <2>2, <2>3
    <2>r. routes \in [Addrs -> Pcs \union {Nobody}]
      BY DEF Driven, TypeOK
    <2>5. ASSUME NEW q \in Pcs, q # p PROVE Routed(q)'
      <3>1. \A b \in Addrs : routes'[b] = q => routes[b] = q
        BY <2>3, <2>5, <2>r
      <3>2. th'[q] = th[q] /\ (\A u \in {"rx", "ctl"} : th'[u].on = q => th[u].on = q)
        BY <1>0, <2>2, <2>5, ThreadIs
      <3>3. Unmoved(q)
        BY <2>3, <2>4, <3>1, <3>2 DEF Unmoved
      <3> QED BY <3>3, UnmovedKeeps DEF RoutedInv
    <2>6. Routed(p)'
      <3>1. ASSUME NEW b \in Addrs, routes'[b] = p
            PROVE  \/ b \in pc'[p].remotes
                   \/ th'["rx"].at = "remember" /\ th'["rx"].on = p /\ th'["rx"].from = b
                   \/ \E t \in Threads : th'[t].at = "unroute" /\ th'[t].on = p /\ b \in th'[t].taken
        <4>1. CASE routes[b] = p
          <5>1. \/ b \in pc[p].remotes
                \/ \E t \in Threads : th[t].at = "unroute" /\ th[t].on = p /\ b \in th[t].taken
            BY <2>3, <4>1 DEF RoutedInv, Routed
          <5> QED BY <2>3, <2>4, <5>1
        <4>2. CASE routes[b] # p
          <5>1. b = a /\ step = "remember"
            BY <2>1, <2>3, <2>r, <3>1, <4>2
          <5> QED BY <2>2, <5>1
        <4> QED BY <4>1, <4>2
      <3>2. \A n \in Nat : <<p, n>> \in ufrags' => n = pc'[p].ufrag
        BY <2>3 DEF RoutedInv, Routed
      <3> QED BY <1>p, <2>3, <3>1, <3>2 DEF Routed
    <2> QED BY <2>5, <2>6 DEF RoutedInv
  <1>3. CASE LearnRemember
    <2> DEFINE c == [pc[p] EXCEPT !.remotes = @ \union {a}]
    <2>1. c \in Pc /\ c.remotes = pc[p].remotes \union {a} /\ c.dropped = pc[p].dropped /\ c.ufrag = pc[p].ufrag
      BY <1>0 DEF Pc
    <2>2. pc' = [pc EXCEPT ![p] = c] /\ Goes("rx", "enter") /\ UNCHANGED tables /\ th["rx"].at = "remember"
      BY <1>3, <1>a, <1>p DEF LearnRemember
    <2> HIDE DEF c
    <2>3. pc'[p] = c /\ (\A q \in Pcs \ {p} : pc'[q] = pc[q])
      BY <1>0, <2>1, <2>2, Becomes
    <2>4. (\A u \in Threads \ {"rx"} : th'[u] = th[u]) /\ th'["rx"].on = p
      BY <1>0, <1>p, <2>2, GoesOn DEF Critical
    <2>5. ASSUME NEW q \in Pcs PROVE Unmoved(q)
      <3>1. pc[q].dropped => q # p
        BY <1>p
      <3>2. pc'[q].dropped = pc[q].dropped /\ pc'[q].ufrag = pc[q].ufrag /\ pc[q].remotes \subseteq pc'[q].remotes
        BY <2>1, <2>3
      <3>3. ufrags' = ufrags /\ routes' = routes
        BY <2>2 DEF tables
      <3>4. th'[q] = th[q] /\ (q # p => pc'[q] = pc[q])
        BY <1>0, <2>3, <2>4, ThreadIs
      <3>5. \A u \in Threads : th[u].at = "unroute" => th'[u] = th[u]
        BY <2>2, <2>4
      <3>6. th["rx"].on = q => th["rx"].from \in pc'[q].remotes
        BY <1>a, <1>p, <2>1, <2>3
      <3>7. \A u \in {"rx", "ctl"} : th'[u].on = q => th[u].on = q
        BY <1>0, <1>p, <2>4
      <3> QED BY <3>1, <3>2, <3>3, <3>4, <3>5, <3>6, <3>7 DEF Unmoved
    <2> QED BY <2>5, UnmovedKeeps DEF RoutedInv
  <1> QED BY <1>2, <1>3 DEF Learn

\* A dying PC's addresses pass into a thread's hands, and are removed from there.
LEMMA RoutedDie == ASSUME Driven, RoutedInv, NEW t \in Threads, Die(t) PROVE RoutedInv'
  <1>0. th \in [Threads -> Thread] /\ pc \in [Pcs -> Pc] /\ th[t].at = "pop"
    BY DEF Driven, TypeOK, Die
  <1>p. PICK p \in Pcs : p = th[t].on /\ ~pc[p].dropped
    BY <1>0, DrivesLive
  <1> DEFINE s == [th[t] EXCEPT !.at = "unroute", !.taken = pc[p].remotes]
             c == [pc[p] EXCEPT !.closed = TRUE, !.remotes = {}]
  <1>1. s.at = "unroute" /\ s.on = p /\ s.taken = pc[p].remotes
    BY <1>0, <1>p DEF Thread
  <1>2. c \in Pc /\ c.dropped = pc[p].dropped /\ c.ufrag = pc[p].ufrag
    BY <1>0 DEF Pc
  <1>3. th' = [th EXCEPT ![t] = s] /\ pc' = [pc EXCEPT ![p] = c] /\ routes' = routes /\ ufrags' = ufrags
    BY <1>p DEF Die, tables
  <1> HIDE DEF s, c
  <1>4. th'[t] = s /\ (\A u \in Threads \ {t} : th'[u] = th[u])
    BY <1>0, <1>3
  <1>5. pc'[p] = c /\ (\A q \in Pcs \ {p} : pc'[q] = pc[q])
    BY <1>0, <1>2, <1>3, Becomes
  <1>6. \A u \in Threads : th[u].at \in {"unroute", "remember"} => th'[u] = th[u]
    BY <1>0, <1>4
  <1>t. "rx" \in Threads /\ "ctl" \in Threads /\ Pcs \subseteq Threads
    BY DEF Threads
  <1>7. ASSUME NEW q \in Pcs, q # p PROVE Unmoved(q)
    <2>1. t \in Pcs => t = p
      BY <1>p DEF Driven, RolesOK, Role
    <2>2. th'[q] = th[q] /\ pc'[q] = pc[q]
      BY <1>4, <1>5, <1>7, <1>t, <2>1
    <2>3. \A u \in {"rx", "ctl"} : th'[u].on = q => th[u].on = q
      BY <1>1, <1>4, <1>7, <1>t
    <2> QED BY <1>3, <1>6, <1>t, <2>2, <2>3 DEF Unmoved
  <1>8. Routed(p)'
    <2>1. ASSUME NEW a \in Addrs, routes'[a] = p
          PROVE  \/ th'["rx"].at = "remember" /\ th'["rx"].on = p /\ th'["rx"].from = a
                 \/ \E u \in Threads : th'[u].at = "unroute" /\ th'[u].on = p /\ a \in th'[u].taken
      <3>1. \/ a \in pc[p].remotes
            \/ th["rx"].at = "remember" /\ th["rx"].on = p /\ th["rx"].from = a
            \/ \E u \in Threads : th[u].at = "unroute" /\ th[u].on = p /\ a \in th[u].taken
        BY <1>3, <2>1 DEF RoutedInv, Routed
      <3> QED BY <1>1, <1>4, <1>6, <1>t, <3>1
    <2>2. \A n \in Nat : <<p, n>> \in ufrags' => n = pc'[p].ufrag
      BY <1>2, <1>3, <1>5 DEF RoutedInv, Routed
    <2>3. ~pc'[p].dropped
      BY <1>2, <1>5, <1>p
    <2> QED BY <2>1, <2>2, <2>3 DEF Routed
  <1> QED BY <1>7, <1>8, UnmovedKeeps DEF RoutedInv

LEMMA RoutedUnroute == ASSUME Driven, RoutedInv, NEW t \in Threads, DropRoutes(t) PROVE RoutedInv'
  <1>0. th \in [Threads -> Thread] /\ th[t].at = "unroute"
    BY DEF Driven, TypeOK, DropRoutes
  <1>p. PICK p \in Pcs : p = th[t].on /\ ~pc[p].dropped
    BY <1>0, DrivesLive
  <1> DEFINE s == [th[t] EXCEPT !.at = "table", !.taken = {}]
  <1>1. s.at = "table" /\ s.on = p
    BY <1>0, <1>p DEF Thread
  <1>2. th' = [th EXCEPT ![t] = s] /\ pc' = pc /\ ufrags' = ufrags /\ routes' = Without(p, th[t].taken)
    BY <1>p DEF DropRoutes
  <1> HIDE DEF s
  <1>3. th'[t] = s /\ (\A u \in Threads \ {t} : th'[u] = th[u])
    BY <1>0, <1>2
  <1>t. "rx" \in Threads /\ "ctl" \in Threads /\ Pcs \subseteq Threads /\ Nobody \notin Pcs
    BY ThreadIs
  <1>4. \A a \in Addrs, q \in Pcs : routes'[a] = q => routes[a] = q /\ (q = p => a \notin th[t].taken)
    BY <1>2, <1>t DEF Without
  <1>5. ASSUME NEW q \in Pcs, q # p PROVE Unmoved(q)
    <2>1. t \in Pcs => t = p
      BY <1>p DEF Driven, RolesOK, Role
    <2>2. th'[q] = th[q]
      BY <1>3, <1>5, <1>t, <2>1
    <2>3. \A u \in {"rx", "ctl"} : th'[u].on = q => th[u].on = q
      BY <1>1, <1>3, <1>5, <1>t
    <2>4. \A u \in Threads : th[u].at = "unroute" /\ th[u].on = q => th'[u] = th[u]
      BY <1>3, <1>5, <1>p
    <2>5. th["rx"].at = "remember" => th'["rx"] = th["rx"]
      BY <1>0, <1>3, <1>t
    <2> QED BY <1>2, <1>4, <2>2, <2>3, <2>4, <2>5 DEF Unmoved
  <1>6. Routed(p)'
    <2>1. ASSUME NEW a \in Addrs, routes'[a] = p
          PROVE  \/ a \in pc'[p].remotes
                 \/ th'["rx"].at = "remember" /\ th'["rx"].on = p /\ th'["rx"].from = a
                 \/ \E u \in Threads : th'[u].at = "unroute" /\ th'[u].on = p /\ a \in th'[u].taken
      <3>1. routes[a] = p /\ a \notin th[t].taken
        BY <1>4, <2>1
      <3>2. \/ a \in pc[p].remotes
            \/ th["rx"].at = "remember" /\ th["rx"].on = p /\ th["rx"].from = a
            \/ \E u \in Threads \ {t} : th[u].at = "unroute" /\ th[u].on = p /\ a \in th[u].taken
        BY <3>1 DEF RoutedInv, Routed
      <3>3. th["rx"].at = "remember" => th'["rx"] = th["rx"]
        BY <1>0, <1>3, <1>t
      <3> QED BY <1>2, <1>3, <3>2, <3>3
    <2>2. \A n \in Nat : <<p, n>> \in ufrags' => n = pc'[p].ufrag
      BY <1>2 DEF RoutedInv, Routed
    <2> QED BY <1>2, <1>p, <2>1, <2>2 DEF Routed
  <1> QED BY <1>5, <1>6, UnmovedKeeps DEF RoutedInv

\* A timer's step finds its PC still there.
LEMMA RoutedTimer == ASSUME Driven, RoutedInv, NEW p \in Pcs, Timer(p) \/ TimePasses(p) PROVE RoutedInv'
  <1>0. /\ th \in [Threads -> Thread] /\ pc \in [Pcs -> Pc] /\ th[p].at \in {"load", "sleep"}
        /\ p \in Threads /\ p \notin {"rx", "ctl"} /\ th[p].on = p
    BY ThreadIs DEF Driven, TypeOK, RolesOK, Role, Timer, Load, Wake, TimePasses, Threads
  <1>1. PICK step \in {"done", "enter", "sleep"} : Goes(p, step)
    BY DEF Timer, Load, Wake, TimePasses
  <1>2. th'[p].on = th[p].on /\ (\A u \in Threads \ {p} : th'[u] = th[u])
    BY <1>0, <1>1, GoesOn
  <1> DEFINE c == [pc[p] EXCEPT !.permit = FALSE]
  <1>3. c \in Pc /\ c.dropped = pc[p].dropped /\ c.ufrag = pc[p].ufrag /\ c.remotes = pc[p].remotes
    BY <1>0 DEF Pc
  <1>4. pc' = pc \/ pc' = [pc EXCEPT ![p] = c]
    BY DEF Timer, Load, Wake, TimePasses
  <1> HIDE DEF c
  <1>5. ufrags' = ufrags /\ routes' = routes
    BY DEF Timer, Load, Wake, TimePasses, tables
  <1>6. CASE pc' = pc
    BY <1>0, <1>2, <1>5, <1>6, DrivesOn
  <1>7. CASE pc' = [pc EXCEPT ![p] = c]
    <2>1. pc'[p] = c /\ (\A q \in Pcs \ {p} : pc'[q] = pc[q])
      BY <1>0, <1>3, <1>7, Becomes
    <2> QED BY <1>0, <1>2, <1>3, <1>5, <2>1, DrivesOn
  <1> QED BY <1>4, <1>6, <1>7

\* A write, and an owner that lets go, move no address.
LEMMA RoutedApart == ASSUME Driven, RoutedInv, NEW p \in Pcs, Write(p) \/ Disown(p) PROVE RoutedInv'
  <1>0. pc \in [Pcs -> Pc] /\ pc[p] \in Pc
    BY DEF Driven, TypeOK
  <1> DEFINE disowned == [pc[p] EXCEPT !.owned = FALSE]
  <1>1. \/ pc' = [pc EXCEPT ![p] = Writes(pc[p])]
        \/ pc' = [pc EXCEPT ![p] = disowned]
    BY DEF Write, Disown
  <1>2. /\ disowned \in Pc /\ disowned.dropped = pc[p].dropped /\ disowned.ufrag = pc[p].ufrag
        /\ disowned.remotes = pc[p].remotes
    BY <1>0 DEF Pc
  <1>3. /\ Writes(pc[p]) \in Pc /\ Writes(pc[p]).dropped = pc[p].dropped
        /\ Writes(pc[p]).ufrag = pc[p].ufrag /\ Writes(pc[p]).remotes = pc[p].remotes
    BY <1>0, WritesDoes DEF Intact
  <1> HIDE DEF disowned
  <1>4. \A q \in Pcs : /\ pc'[q].dropped = pc[q].dropped /\ pc'[q].ufrag = pc[q].ufrag
                       /\ pc'[q].remotes = pc[q].remotes /\ (q # p => pc'[q] = pc[q])
    BY <1>0, <1>1, <1>2, <1>3
  <1>5. ~pc[p].dropped
    BY DEF Write, Disown, RoutedInv, Routed
  <1>6. th' = th /\ ufrags' = ufrags /\ routes' = routes
    BY DEF Write, Disown, tables
  <1>7. ASSUME NEW q \in Pcs PROVE Unmoved(q)
    BY <1>4, <1>5, <1>6 DEF Unmoved
  <1> QED BY <1>7, UnmovedKeeps DEF RoutedInv

\* When the last reference to a PC goes, all that leads to it is among what it knows.
LEMMA RoutedDrop == ASSUME Driven, RoutedInv, NEW p \in Pcs, Drop(p) PROVE RoutedInv'
  <1>0. pc \in [Pcs -> Pc] /\ pc[p] \in Pc /\ Nobody \notin Pcs
    BY PcConstants DEF Driven, TypeOK
  <1>t. "rx" \in Threads \ Pcs /\ "ctl" \in Threads \ Pcs /\ (\A t \in Threads \ Pcs : t \in {"rx", "ctl"})
    BY PcConstants DEF Threads
  <1> DEFINE c == [pc[p] EXCEPT !.dropped = TRUE, !.remotes = {}]
  <1>1. c \in Pc /\ c.dropped /\ c.ufrag = pc[p].ufrag /\ c.closed = pc[p].closed /\ c.owned = pc[p].owned
    BY <1>0 DEF Pc
  <1>2. /\ pc[p].closed /\ ~pc[p].owned /\ th[p].at = "done" /\ (\A t \in Threads \ Pcs : th[t].on # p)
        /\ pc' = [pc EXCEPT ![p] = c] /\ th' = th /\ routes' = Without(p, pc[p].remotes)
        /\ ufrags' = ufrags \ {<<p, pc[p].ufrag>>}
    BY DEF Drop
  <1> HIDE DEF c
  <1>3. pc'[p] = c /\ (\A q \in Pcs \ {p} : pc'[q] = pc[q])
    BY <1>0, <1>1, <1>2, Becomes
  <1>4. \A a \in Addrs, q \in Pcs : routes'[a] = q => routes[a] = q /\ (q = p => a \notin pc[p].remotes)
    BY <1>0, <1>2 DEF Without
  <1>5. ASSUME NEW q \in Pcs, q # p PROVE Unmoved(q)
    BY <1>2, <1>3, <1>4, <1>5 DEF Unmoved
  <1>6. \A a \in Addrs : routes'[a] # p
    <2>1. \A t \in Threads : ~(th[t].at = "unroute" /\ th[t].on = p)
      <3>1. \A t \in Pcs : th[t].on = t
        BY DEF Driven, RolesOK, Role, Threads
      <3> QED BY <1>2, <3>1
    <2>2. \A a \in Addrs : routes[a] = p => a \in pc[p].remotes
      BY <1>2, <1>t, <2>1 DEF RoutedInv, Routed
    <2> QED BY <1>4, <2>2
  <1>7. \A n \in Nat : <<p, n>> \notin ufrags'
    BY <1>2 DEF RoutedInv, Routed
  <1>8. Routed(p)'
    BY <1>1, <1>2, <1>3, <1>6, <1>7, <1>t DEF Routed
  <1> QED BY <1>5, <1>8, UnmovedKeeps DEF RoutedInv

\* A restart renames a PC in both places, under the lock of its name.
LEMMA RoutedRename == Driven /\ RoutedInv /\ (Rename \/ Retable) => RoutedInv'
  <1> SUFFICES ASSUME Driven, RoutedInv, Rename \/ Retable PROVE RoutedInv'
    OBVIOUS
  <1>0. /\ th \in [Threads -> Thread] /\ pc \in [Pcs -> Pc] /\ th["ctl"].at \in {"rename", "retable"}
        /\ "ctl" \in Threads /\ "rx" \in Threads /\ "ctl" \notin Pcs /\ Nobody \notin Pcs /\ Pcs \subseteq Threads
    BY ThreadIs DEF Driven, TypeOK, Rename, Retable, Threads
  <1>p. PICK p \in Pcs : p = th["ctl"].on /\ ~pc[p].dropped
    BY <1>0, DrivesLive
  <1>1. Takes("ctl", Nobody, "timeout", Nobody, "idle") \/ Goes("ctl", "retable")
    BY DEF Rename, Retable
  <1>2. (\A u \in Threads \ {"ctl"} : th'[u] = th[u]) /\ th'["ctl"].on \in {p, Nobody}
    <2>1. CASE Takes("ctl", Nobody, "timeout", Nobody, "idle")
      BY <1>0, <2>1, TurnsTo
    <2>2. CASE Goes("ctl", "retable")
      BY <1>0, <1>p, <2>2, GoesOn
    <2> QED BY <1>1, <2>1, <2>2
  <1>3. CASE Rename
    <2>1. pc' = pc /\ ufrags' = ufrags /\ routes' = routes
      BY <1>3 DEF Rename, tables
    <2> QED BY <1>0, <1>2, <1>p, <2>1, DrivesOn
  <1>4. CASE Retable
    <2> DEFINE c == [pc[p] EXCEPT !.ufrag = pc[p].creds]
    <2>1. c \in Pc /\ c.ufrag = pc[p].creds /\ c.dropped = pc[p].dropped /\ c.remotes = pc[p].remotes
      BY <1>0 DEF Pc
    <2>2. /\ pc' = [pc EXCEPT ![p] = c] /\ routes' = routes
          /\ ufrags' = (ufrags \ {<<p, pc[p].ufrag>>}) \union {<<p, pc[p].creds>>}
      BY <1>4, <1>p DEF Retable
    <2> HIDE DEF c
    <2>3. pc'[p] = c /\ (\A q \in Pcs \ {p} : pc'[q] = pc[q])
      BY <1>0, <2>1, <2>2, Becomes
    <2>4. \A u \in Threads : th[u].at \in {"unroute", "remember"} => th'[u] = th[u]
      BY <1>0, <1>2
    <2>5. ASSUME NEW q \in Pcs, q # p PROVE Routed(q)'
      <3>1. th'[q] = th[q] /\ pc'[q] = pc[q]
        BY <1>0, <1>2, <2>3, <2>5
      <3>2. \A n \in Nat : <<q, n>> \in ufrags' <=> <<q, n>> \in ufrags
        BY <2>2, <2>5
      <3>3. th'["ctl"].on = q => th["ctl"].on = q
        BY <1>0, <1>2, <2>5
      <3>4. th'["rx"] = th["rx"]
        BY <1>0, <1>2, PcConstants
      <3>5. ASSUME NEW a \in Addrs, routes'[a] = q
            PROVE  \/ a \in pc'[q].remotes
                   \/ th'["rx"].at = "remember" /\ th'["rx"].on = q /\ th'["rx"].from = a
                   \/ \E t \in Threads : th'[t].at = "unroute" /\ th'[t].on = q /\ a \in th'[t].taken
        BY <2>2, <2>4, <3>1, <3>4, <3>5 DEF RoutedInv, Routed
      <3>6. \A n \in Nat : <<q, n>> \in ufrags' => n = pc'[q].ufrag
        BY <3>1, <3>2 DEF RoutedInv, Routed
      <3>7. pc'[q].dropped =>
              /\ pc'[q].closed /\ ~pc'[q].owned /\ th'[q].at = "done"
              /\ th'["rx"].on # q /\ th'["ctl"].on # q
              /\ \A a \in Addrs : routes'[a] # q
              /\ \A n \in Nat : <<q, n>> \notin ufrags'
        BY <2>2, <3>1, <3>2, <3>3, <3>4 DEF RoutedInv, Routed
      <3> QED BY <3>5, <3>6, <3>7 DEF Routed
    <2>6. Routed(p)'
      <3>1. ASSUME NEW a \in Addrs, routes'[a] = p
            PROVE  \/ a \in pc'[p].remotes
                   \/ th'["rx"].at = "remember" /\ th'["rx"].on = p /\ th'["rx"].from = a
                   \/ \E t \in Threads : th'[t].at = "unroute" /\ th'[t].on = p /\ a \in th'[t].taken
        <4>1. th["rx"].at = "remember" => th'["rx"] = th["rx"]
          BY <1>0, <2>4
        <4> QED BY <2>1, <2>2, <2>3, <2>4, <3>1, <4>1 DEF RoutedInv, Routed
      <3>2. \A n \in Nat : <<p, n>> \in ufrags' => n = pc'[p].ufrag
        BY <2>1, <2>2, <2>3 DEF RoutedInv, Routed
      <3>3. ~pc'[p].dropped
        BY <1>p, <2>1, <2>3
      <3> QED BY <3>1, <3>2, <3>3 DEF Routed
    <2> QED BY <2>5, <2>6 DEF RoutedInv
  <1> QED BY <1>3, <1>4

LEMMA RoutedStep == ASSUME Driven, RoutedInv, [Next]_vars PROVE RoutedInv'
  <1>1. ASSUME NEW t \in Threads, Drive(t) PROVE RoutedInv'
    BY <1>1, RoutedDrive, RoutedDie, RoutedUnroute DEF Drive
  <1>2. CASE UNCHANGED vars
    BY <1>2 DEF vars, tables, RoutedInv, Routed
  <1> QED BY <1>1, <1>2, RoutedTurn, RoutedLearn, RoutedTimer, RoutedApart, RoutedDrop, RoutedRename DEF Next

\* A datagram, output to a new address or an ICE restart may register a PC again after it was
\* closed (learn, poll, refresh_ufrag): once the last reference to it is gone, no address and
\* no ufrag leads to it.
THEOREM GoneForGood == Spec => []GoneIsUnrouted
  <1>1. Init => Driven /\ RoutedInv
    <2> SUFFICES ASSUME Init PROVE RoutedInv
      BY DrivenInit
    <2>1. \A p \in Pcs : pc[p].ufrag = 0 /\ ~pc[p].dropped
      BY DEF Init, NewPc
    <2>2. \A a \in Addrs : routes[a] = Nobody /\ Nobody \notin Pcs
      BY PcConstants DEF Init
    <2>3. \A p \in Pcs, n \in Nat : <<p, n>> \in ufrags => n = 0
      BY DEF Init
    <2> QED BY <2>1, <2>2, <2>3 DEF RoutedInv, Routed
  <1>2. Driven /\ RoutedInv /\ [Next]_vars => (Driven /\ RoutedInv)'
    BY DrivenStep, RoutedStep
  <1>3. Driven /\ RoutedInv => GoneIsUnrouted
    <2> SUFFICES ASSUME Driven, RoutedInv, NEW p \in Pcs, pc[p].dropped
                 PROVE  (\A a \in Addrs : routes[a] # p) /\ (\A u \in ufrags : u[1] # p)
      BY DEF GoneIsUnrouted
    <2>1. \A u \in ufrags : \E q \in Pcs, n \in Nat : u = <<q, n>>
      BY DEF Driven, TypeOK
    <2> QED BY <2>1 DEF RoutedInv, Routed
  <1> QED BY <1>1, <1>2, <1>3, PTL DEF Spec

-----------------------------------------------------------------------------
(* The target of a viewer's layers.                                        *)

\* A window of loss is no older than the last move of the target, which ended both.
WindowsAreYoung ==
    /\ mode \in {Sharp, Motion} /\ target \in Targets
    /\ moved \in 0 .. Long /\ high \in {Unset} \union 0 .. Long /\ low \in {Unset} \union 0 .. Long
    /\ high = Unset \/ low = Unset
    /\ high <= moved /\ low <= moved

LEMMA YoungInit == VideoInit => WindowsAreYoung
  BY DEF VideoInit, WindowsAreYoung, Unset, Long

\* Ages grow together, up to the longest that is told apart.
LEMMA SecondKeeps == WindowsAreYoung /\ Second => WindowsAreYoung'
  BY DEF WindowsAreYoung, Second, Older, Unset, Long, Targets

LEMMA EvalKeeps == WindowsAreYoung /\ Eval /\ UNCHANGED mode => WindowsAreYoung'
  <1> SUFFICES ASSUME WindowsAreYoung, Eval, UNCHANGED mode PROVE WindowsAreYoung'
    OBVIOUS
  <1>1. /\ mode.floor \in {0, 1} /\ mode.highWindow \in {2, 3} /\ mode.lowWindow \in {4, 7}
    BY DEF WindowsAreYoung, Sharp, Motion
  <1>2. CASE loss >= mode.high /\ low' = Unset /\ high' = (IF target <= mode.floor THEN Unset ELSE AgeOf(high, mode.highWindow))
             /\ IF target > mode.floor /\ high >= mode.highWindow THEN Moves(-1) ELSE Stays
    BY <1>1, <1>2 DEF WindowsAreYoung, AgeOf, Moves, Stays, Unset, Long, Targets
  <1>3. CASE loss <= mode.low /\ high' = Unset /\ low' = (IF target >= 2 THEN Unset ELSE AgeOf(low, mode.lowWindow))
             /\ IF target < 2 /\ low >= mode.lowWindow THEN Moves(1) ELSE Stays
    BY <1>1, <1>3 DEF WindowsAreYoung, AgeOf, Moves, Stays, Unset, Long, Targets
  <1>4. CASE high' = Unset /\ low' = Unset /\ Stays
    BY <1>4 DEF WindowsAreYoung, Stays, Unset, Long, Targets
  <1> QED BY <1>2, <1>3, <1>4 DEF Eval

LEMMA YoungStep == WindowsAreYoung /\ [VideoNext]_videoVars => WindowsAreYoung'
  <1> SUFFICES ASSUME WindowsAreYoung, [VideoNext]_videoVars PROVE WindowsAreYoung'
    OBVIOUS
  <1>1. CASE UNCHANGED levelVars
    BY <1>1 DEF levelVars, WindowsAreYoung
  <1>2. CASE Poll
    BY <1>2, EvalKeeps DEF Poll
  <1>3. CASE Second
    BY <1>3, SecondKeeps
  <1>4. CASE (\E l \in Losses : ReportLoss(l)) \/ ModeChange \/ Bump
    BY <1>4 DEF ReportLoss, ModeChange, Bump, WindowsAreYoung
  <1>5. (Publish \/ (\E f \in flying : LoseFrame(f) \/ ForwardVideo(f)) \/ UNCHANGED videoVars) => UNCHANGED levelVars
    BY DEF Publish, LoseFrame, ForwardVideo, videoVars
  <1> QED BY <1>1, <1>2, <1>3, <1>4, <1>5 DEF VideoNext, Levels

\* eval_auto_downgrade: however a viewer's loss and its mode change in between, its target is
\* moved again only after the mode's whole window for that move.
THEOREM TargetSteady == VideoSpec => TargetIsSteady
  <1>1. ASSUME WindowsAreYoung, [VideoNext]_videoVars, target' # target
        PROVE  moved >= IF target' < target THEN mode.highWindow ELSE mode.lowWindow
    <2>1. Poll
      BY <1>1 DEF VideoNext, Levels, Publish, LoseFrame, ForwardVideo, ReportLoss, ModeChange, Second, Bump,
                  levelVars, videoVars
    <2>2. mode.highWindow \in {2, 3} /\ mode.lowWindow \in {4, 7}
      BY <1>1 DEF WindowsAreYoung, Sharp, Motion
    <2> QED BY <1>1, <2>1, <2>2 DEF Poll, Eval, Moves, Stays, WindowsAreYoung, Unset, Long, Targets
  <1>2. WindowsAreYoung /\ [VideoNext]_videoVars =>
            [target' # target =>
                moved >= IF target' < target THEN mode.highWindow ELSE mode.lowWindow]_videoVars
    BY <1>1
  <1> QED BY <1>2, YoungInit, YoungStep, PTL DEF VideoSpec, TargetIsSteady

-----------------------------------------------------------------------------
(* Remainders.                                                             *)

LEMMA Associates ==
    ASSUME NEW a \in Int, NEW b \in Int, NEW c \in Int
    PROVE  (a * b) * c = a * (b * c)
  OBVIOUS

LEMMA AtLeastOnce ==
    ASSUME NEW d \in Nat \ {0}, NEW t \in Int
    PROVE  (t >= 1 => d * t >= d) /\ (t <= 0 => d * t <= 0) /\ d * t \in Int
  <1>1. CASE t >= 1
    <2>1. t - 1 \in Nat /\ d * (t - 1) = d * t - d
      BY <1>1
    <2>2. d * (t - 1) >= 0
      BY <2>1
    <2> QED BY <1>1, <2>1, <2>2
  <1>2. CASE t <= 0
    OBVIOUS
  <1> QED BY <1>1, <1>2

LEMMA DivMod ==
    ASSUME NEW a \in Int, NEW d \in Nat \ {0}
    PROVE  a \div d \in Int /\ a % d \in 0 .. d - 1 /\ a = d * (a \div d) + (a % d)
  OBVIOUS

LEMMA Small ==
    ASSUME NEW d \in Nat \ {0}, NEW t \in Int, NEW e \in Int, e = d * t, -d < e, e < d
    PROVE  t = 0
  <1>1. CASE t >= 1
    <2>1. d * t >= d
      BY <1>1
    <2> QED
      BY <2>1
  <1>2. CASE t <= -1
    <2>1. d * t <= -d
      BY <1>2
    <2> QED
      BY <2>1
  <1> QED
    BY <1>1, <1>2

LEMMA ModIs ==
    ASSUME NEW a \in Int, NEW d \in Nat \ {0}, NEW q \in Int, NEW r \in 0 .. d - 1, a = d * q + r
    PROVE  a % d = r
  <1>1. a \div d \in Int /\ a % d \in 0 .. d - 1 /\ a = d * (a \div d) + (a % d)
    BY DivMod
  <1> DEFINE t == q - (a \div d)
             e == (a % d) - r
  <1>2. d * t = d * q - d * (a \div d)
    BY <1>1
  <1>3. e = d * t /\ -d < e /\ e < d /\ e \in Int /\ t \in Int
    BY <1>1, <1>2
  <1>4. t = 0
    BY <1>3, Small
  <1>5. e = 0
    BY <1>3, <1>4
  <1> QED
    BY <1>1, <1>5

LEMMA ModShift ==
    ASSUME NEW a \in Int, NEW d \in Nat \ {0}, NEW t \in Int
    PROVE  (a + d * t) % d = a % d
  <1> DEFINE q == a \div d
             r == a % d
  <1>1. q \in Int /\ r \in 0 .. d - 1 /\ a = d * q + r
    BY DivMod
  <1>2. a + d * t = d * (q + t) + r
    BY <1>1
  <1>3. a + d * t \in Int /\ q + t \in Int
    BY <1>1
  <1> HIDE DEF q, r
  <1>4. (a + d * t) % d = r
    BY <1>1, <1>2, <1>3, ModIs
  <1> QED
    BY <1>4 DEF r

LEMMA ModApart ==
    ASSUME NEW a \in Int, NEW b \in Int, NEW d \in Nat \ {0}, a % d = b % d
    PROVE  \E t \in Int : a = b + d * t
  <1>1. /\ a \div d \in Int /\ a % d \in 0 .. d - 1 /\ a = d * (a \div d) + (a % d)
        /\ b \div d \in Int /\ b % d \in 0 .. d - 1 /\ b = d * (b \div d) + (b % d)
    BY DivMod
  <1> DEFINE t == (a \div d) - (b \div d)
  <1>2. a = b + d * t
    BY <1>1
  <1>3. t \in Int
    BY <1>1
  <1> HIDE DEF t
  <1> QED
    BY <1>2, <1>3

LEMMA Divides ==
    ASSUME NEW e \in Nat \ {0}, NEW d \in Nat \ {0}, e % d = 0
    PROVE  e \div d \in Nat \ {0} /\ e = d * (e \div d)
  <1>1. e \div d \in Int /\ e = d * (e \div d) + (e % d)
    BY DivMod
  <1> DEFINE t == e \div d
  <1>2. t \in Int /\ e = d * t
    BY <1>1
  <1> HIDE DEF t
  <1>3. CASE t <= 0
    <2>1. d * t <= 0
      BY <1>2, <1>3
    <2> QED BY <1>2, <2>1
  <1>4. CASE t > 0
    BY <1>2, <1>4 DEF t
  <1> QED BY <1>2, <1>3, <1>4

-----------------------------------------------------------------------------
(* Places in the ring, and layers.                                         *)

Ring == 2 * Half

LEMMA RingIs ==
    /\ Half \in Nat \ {0} /\ Ring \in Nat \ {0}
    /\ Len(Pattern) \in Nat \ {0} /\ Len(Pattern) <= Half
    /\ \E h \in Nat \ {0} : Half = Len(Pattern) * h
    /\ \E w \in Nat \ {0} : Wrap = Ring * w
  <1>1. Half \in Nat \ {0} /\ Ring \in Nat \ {0} /\ Len(Pattern) \in Nat \ {0}
    BY VideoConstants DEF Ring
  <1>2. \E h \in Nat \ {0} : Half = Len(Pattern) * h
    <2>1. Half % Len(Pattern) = 0
      BY VideoConstants
    <2>2. Half \in Nat \ {0} /\ Len(Pattern) \in Nat \ {0}
      BY <1>1
    <2> DEFINE h == Half \div Len(Pattern)
    <2>3. h \in Nat \ {0} /\ Half = Len(Pattern) * h
      BY <2>1, <2>2, Divides
    <2> HIDE DEF h
    <2> QED BY <2>3
  <1>3. \E w \in Nat \ {0} : Wrap = Ring * w
    <2>1. Wrap \in Nat \ {0} /\ Wrap % Ring = 0
      BY VideoConstants DEF Ring
    <2> DEFINE w == Wrap \div Ring
    <2>2. w \in Nat \ {0} /\ Wrap = Ring * w
      BY <1>1, <2>1, Divides
    <2> HIDE DEF w
    <2> QED BY <2>2
  <1>4. Len(Pattern) <= Half
    <2>1. PICK h \in Nat \ {0} : Half = Len(Pattern) * h
      BY <1>2
    <2>2. Len(Pattern) * h >= Len(Pattern)
      BY <1>1
    <2> QED BY <2>1, <2>2
  <1> QED BY <1>1, <1>2, <1>3, <1>4

\* A number and what it is counted down by have the same place in the ring as a frame.
LEMMA WrapOnRing ==
    ASSUME NEW n \in Int, NEW d \in Int
    PROVE  ((n % Wrap) - d) % Ring = (n - d) % Ring
  <1>1. PICK w \in Nat \ {0} : Wrap = Ring * w
    BY RingIs
  <1>2. Ring \in Nat \ {0} /\ Wrap \in Nat \ {0}
    BY RingIs, VideoConstants
  <1> DEFINE q == n \div Wrap
             r == n % Wrap
             t == w * q
  <1>3. q \in Int /\ r \in Int /\ n = Wrap * q + r
    BY <1>2, DivMod
  <1>4. t \in Int
    BY <1>3
  <1>5. Wrap * q = Ring * t
    <2>1. Ring \in Int /\ w \in Int
      BY <1>2
    <2>2. (Ring * w) * q = Ring * (w * q)
      BY <1>3, <2>1, Associates
    <2> QED BY <1>1, <2>2
  <1> HIDE DEF q, r, t
  <1>6. n - d = (r - d) + Ring * t
    BY <1>2, <1>3, <1>4, <1>5
  <1>7. r - d \in Int
    BY <1>3
  <1>8. ((r - d) + Ring * t) % Ring = (r - d) % Ring
    BY <1>2, <1>4, <1>7, ModShift, Zenon
  <1> QED BY <1>6, <1>8 DEF r

\* Two frames at one place of the ring are a ring apart.
LEMMA RingApart ==
    ASSUME NEW a \in Int, NEW b \in Int, a % Ring = b % Ring, a < b
    PROVE  b - a >= Ring
  <1>1. PICK t \in Int : b = a + Ring * t
    BY RingIs, ModApart, Zenon
  <1>2. Ring \in Nat \ {0} /\ Ring * t \in Int
    BY RingIs
  <1>3. (t >= 1 => Ring * t >= Ring) /\ (t <= 0 => Ring * t <= 0)
    BY <1>2, AtLeastOnce
  <1> DEFINE e == Ring * t
  <1> HIDE DEF e
  <1>4. b = a + e /\ e \in Int /\ (t >= 1 => e >= Ring) /\ (t <= 0 => e <= 0)
    BY <1>1, <1>2, <1>3 DEF e
  <1> QED BY <1>2, <1>4

LEMMA LayerIs ==
    ASSUME NEW n \in Int, NEW k \in Int
    PROVE  Layer(n, k) \in 0 .. 2 /\ (((n - k) % Len(Pattern)) = 0 => Layer(n, k) = 0)
  <1>1. Len(Pattern) \in Nat \ {0} /\ Pattern \in Seq(0 .. 2) /\ Pattern[1] = 0
    BY RingIs, VideoConstants
  <1> DEFINE j == (n - k) % Len(Pattern)
  <1>2. j \in 0 .. Len(Pattern) - 1
    <2>1. n - k \in Int
      OBVIOUS
    <2> QED BY <1>1, <2>1, DivMod, Zenon
  <1>3. Layer(n, k) = Pattern[1 + j]
    BY DEF Layer
  <1> HIDE DEF j
  <1>4. 1 + j \in 1 .. Len(Pattern)
    BY <1>1, <1>2
  <1> QED BY <1>1, <1>3, <1>4 DEF j

LEMMA LayerOfKey ==
    ASSUME NEW k \in Int PROVE Layer(k, k) = 0
  <1>1. Len(Pattern) \in Nat \ {0}
    BY RingIs
  <1>2. (k - k) % Len(Pattern) = 0
    BY <1>1
  <1> QED BY <1>2, LayerIs

\* Layers repeat.
LEMMA LayerAgain ==
    ASSUME NEW n \in Int, NEW k \in Int, NEW t \in Int
    PROVE  Layer(n + Len(Pattern) * t, k) = Layer(n, k)
  <1> DEFINE L == Len(Pattern)
  <1>1. L \in Nat \ {0}
    BY RingIs
  <1>2. L * t \in Int
    BY <1>1
  <1>3. (n + L * t) - k = (n - k) + L * t
    BY <1>2
  <1>4. ((n + L * t) - k) % L = (n - k) % L
    <2>1. n - k \in Int
      OBVIOUS
    <2>2. ((n - k) + L * t) % L = (n - k) % L
      BY <1>1, <2>1, ModShift, Zenon
    <2> QED BY <1>3, <2>2
  <1> QED BY <1>4 DEF Layer

LEMMA HalfOn ==
    ASSUME NEW n \in Int, NEW k \in Int
    PROVE  Layer(n + Half, k) = Layer(n, k)
  <1>1. PICK h \in Nat \ {0} : Half = Len(Pattern) * h
    BY RingIs
  <1>2. h \in Int
    OBVIOUS
  <1>3. Layer(n + Len(Pattern) * h, k) = Layer(n, k)
    BY <1>2, LayerAgain, Zenon
  <1> QED BY <1>1, <1>3

LEMMA SamePlace ==
    ASSUME NEW a \in Int, NEW b \in Int, a % Ring = b % Ring, NEW k \in Int
    PROVE  Layer(a, k) = Layer(b, k)
  <1>1. PICK t \in Int : a = b + Ring * t
    BY RingIs, ModApart
  <1>2. PICK h \in Nat \ {0} : Half = Len(Pattern) * h
    BY RingIs
  <1> DEFINE u == (2 * h) * t
  <1>3. u \in Int
    OBVIOUS
  <1>4. Ring * t = Len(Pattern) * u
    BY <1>2, RingIs DEF Ring
  <1> HIDE DEF u
  <1>5. a = b + Len(Pattern) * u
    BY <1>1, <1>4
  <1> QED BY <1>3, <1>5, LayerAgain

-----------------------------------------------------------------------------
(* The chain of a keyframe.                                                *)

LEMMA LeastOf ==
    ASSUME NEW T \in SUBSET Nat, T # {}
    PROVE  \E m \in T : \A l \in T : m <= l
  <1> DEFINE R == OpToRel(<, Nat)
  <1>1. IsWellFoundedOn(R, Nat)
    BY NatLessThanWellFounded
  <1>2. \A l, m \in Nat : l < m => <<l, m>> \in R
    BY DEF OpToRel
  <1> HIDE DEF R
  <1>3. PICK m \in T : \A l \in T : ~ (<<l, m>> \in R)
    BY <1>1, WFMin
  <1>4. ASSUME NEW l \in T PROVE m <= l
    <2>1. l \in Nat /\ m \in Nat /\ ~ (l < m)
      BY <1>2, <1>3
    <2> QED BY <2>1
  <1> QED BY <1>4

InChain(n, k, c) == Layer(n, k) <= Top[c]

LEMMA TopIs == ASSUME NEW c \in Chains PROVE Top[c] \in 0 .. 2
  BY VideoConstants DEF Chains

LEMMA KeyInChain ==
    ASSUME NEW n \in Int, NEW k \in Int, NEW c \in Chains, (n - k) % Len(Pattern) = 0
    PROVE  InChain(n, k, c)
  <1>1. Layer(n, k) = 0
    BY LayerIs
  <1> QED BY <1>1, TopIs DEF InChain

\* The chain goes back to its keyframe, in steps within the window.
LEMMA BeforeIs ==
    ASSUME NEW k \in Nat, NEW n \in Nat, k < n, NEW c \in Chains
    PROVE  /\ Before(n, k, c) \in k .. n - 1
           /\ InChain(Before(n, k, c), k, c)
           /\ \A l \in Before(n, k, c) + 1 .. n - 1 : ~InChain(l, k, c)
           /\ n - Before(n, k, c) <= Half
  <1> DEFINE T == {j \in 0 .. n - 1 - k : InChain(n - 1 - j, k, c)}
             L == Len(Pattern)
             back == (n - 1 - k) % L
             again == (n - 1 - k) \div L
             Is(m) == m \in k .. n - 1 /\ InChain(m, k, c) /\ \A l \in m + 1 .. n - 1 : ~InChain(l, k, c)
  <1>1. L \in Nat \ {0} /\ L <= Half /\ Half \in Nat
    BY RingIs
  <1>2. n - 1 - k \in Nat
    OBVIOUS
  <1>3. back \in 0 .. L - 1 /\ again \in Int /\ n - 1 - k = L * again + back
    <2>1. n - 1 - k \in Int
      OBVIOUS
    <2> HIDE DEF L
    <2> QED BY <1>1, <2>1, DivMod, Zenon
  <1>4. back \in T
    <2>1. back <= n - 1 - k
      <3>1. CASE again <= -1
        <4>1. again + 1 \in Int /\ again + 1 <= 0 /\ L * (again + 1) = L * again + L
          BY <1>1, <1>3, <3>1
        <4>2. L * (again + 1) <= 0
          BY <1>1, <4>1, AtLeastOnce
        <4> QED BY <1>1, <1>2, <1>3, <4>1, <4>2
      <3>2. CASE again >= 0
        <4>1. L * again >= 0
          BY <1>1, <1>3, <3>2
        <4> QED BY <1>1, <1>2, <1>3, <4>1
      <3> QED BY <1>3, <3>1, <3>2
    <2>2. n - 1 - back \in Int /\ (n - 1 - back) - k = L * again + 0
      BY <1>3
    <2>3. ((n - 1 - back) - k) % L = 0
      <3>1. (n - 1 - back) - k \in Int /\ 0 \in 0 .. L - 1
        BY <1>1, <2>2
      <3> HIDE DEF back, again, L
      <3> QED BY <1>1, <1>3, <2>2, <3>1, ModIs
    <2>4. InChain(n - 1 - back, k, c)
      <3>1. k \in Int
        OBVIOUS
      <3> QED BY <2>2, <2>3, <3>1, KeyInChain, Zenon DEF L
    <2> QED BY <1>3, <2>1, <2>4
  <1> HIDE DEF back, again, L
  <1>5. T \in SUBSET Nat /\ T # {}
    BY <1>4
  <1>6. PICK j \in T : \A l \in T : j <= l
    BY <1>5, LeastOf
  <1>7. Is(n - 1 - j)
    <2>1. n - 1 - j \in k .. n - 1 /\ InChain(n - 1 - j, k, c)
      BY <1>6
    <2>2. ASSUME NEW l \in n - 1 - j + 1 .. n - 1, InChain(l, k, c) PROVE FALSE
      <3>1. n - 1 - l \in 0 .. n - 1 - k /\ n - 1 - (n - 1 - l) = l /\ n - 1 - l < j
        BY <2>2, <1>6
      <3> QED BY <1>6, <2>2, <3>1
    <2> QED BY <2>1, <2>2
  <1>8. \A m : Is(m) <=> (m \in k .. n - 1 /\ Layer(m, k) <= Top[c]
                            /\ \A l \in m + 1 .. n - 1 : Layer(l, k) > Top[c])
    <2>1. \A l \in Int : ~InChain(l, k, c) <=> Layer(l, k) > Top[c]
      BY LayerIs, TopIs DEF InChain
    <2>2. \A m \in k .. n - 1 : \A l \in m + 1 .. n - 1 : l \in Int
      OBVIOUS
    <2> QED BY <2>1, <2>2 DEF InChain
  <1> DEFINE p == Before(n, k, c)
  <1>9. p = CHOOSE m \in k .. n - 1 : Layer(m, k) <= Top[c] /\ \A l \in m + 1 .. n - 1 : Layer(l, k) > Top[c]
    BY DEF Before
  <1> HIDE DEF p
  <1>10. Is(p)
    BY <1>7, <1>8, <1>9
  <1>11. n - p <= Half
    <2>1. CASE p >= n - 1 - back
      BY <1>1, <1>3, <1>10, <2>1
    <2>2. CASE p < n - 1 - back
      <3>1. n - 1 - back \in p + 1 .. n - 1 /\ InChain(n - 1 - back, k, c)
        BY <1>4, <1>10, <2>2
      <3> QED BY <1>10, <3>1
    <2> QED BY <1>3, <1>10, <2>1, <2>2
  <1> QED BY <1>10, <1>11 DEF p

\* It goes on for ever.
LEMMA ChainGoesOn ==
    ASSUME NEW k \in Nat, NEW s \in Nat, k <= s, NEW c \in Chains
    PROVE  \E m \in Nat : m > s /\ InChain(m, k, c) /\ \A l \in s + 1 .. m - 1 : ~InChain(l, k, c)
  <1> DEFINE T == {m \in Nat : m > s /\ InChain(m, k, c)}
             L == Len(Pattern)
             t == s - k + 1
             m0 == k + L * t
  <1>1. L \in Nat \ {0} /\ t \in Nat /\ t >= 1
    BY RingIs
  <1>2. L * t \in Nat /\ L * t >= t
    <2>1. t * L >= t
      BY <1>1, AtLeastOnce
    <2>2. t * L = L * t /\ L * t \in Int
      BY <1>1
    <2> QED BY <1>1, <2>1, <2>2
  <1> DEFINE e == L * t
  <1>3. m0 \in T
    <2>1. e \in Nat /\ e >= t /\ m0 = k + e
      BY <1>2
    <2>2. (m0 - k) % L = 0
      <3>1. 0 \in 0 .. L - 1 /\ e = L * t + 0 /\ e \in Int
        BY <1>1, <2>1
      <3> HIDE DEF e, L, m0
      <3>2. e % L = 0
        BY <1>1, <3>1, ModIs
      <3>3. m0 - k = e
        BY <2>1
      <3> QED BY <3>2, <3>3
    <2> HIDE DEF e
    <2>3. m0 \in Nat /\ m0 > s
      BY <2>1
    <2>4. InChain(m0, k, c)
      BY <2>2, <2>3, KeyInChain
    <2> QED BY <2>3, <2>4
  <1> HIDE DEF m0
  <1>4. T \in SUBSET Nat /\ T # {}
    BY <1>3
  <1>5. PICK m \in T : \A l \in T : m <= l
    BY <1>4, LeastOf
  <1> QED BY <1>5

-----------------------------------------------------------------------------
(* Frames on their way, and what the ring holds.                           *)

\* The network holds up a frame for Swaps others, and a keyframe has a higher number than
\* every frame of the keyframes before it.
Flight ==
    /\ key \in Nat /\ next \in Nat /\ key <= next
    /\ \A f \in flying :
        /\ f.n \in Nat /\ f.of \in Nat /\ f = Frame(f.n, f.of)
        /\ f.of <= f.n /\ f.of <= key
        /\ f.n < next /\ next <= f.n + 1 + Swaps
        /\ f.of < key => f.n < key
    /\ \A f, g \in flying : f.of < g.of => f.n < g.of

Forwarded == sent \subseteq Nat /\ \A m \in sent : m < next

\* A place is marked for a frame that no frame half a ring ahead has taken out.
Marked == chain.boot => \A r \in chain.seen : \E q \in sent : r = q % Ring /\ q + Half \notin sent

\* Of the chain of keyframe k, all before s were forwarded.
Grown(k, s, c) ==
    /\ k \in Nat /\ s \in Nat /\ k < s /\ k \in sent /\ InChain(s, k, c)
    /\ \A m \in sent : m >= k
    /\ \A m \in k .. s - 1 : InChain(m, k, c) => m \in sent

\* No other keyframe was, and of the window after them only frames of a later keyframe, with
\* those of this one before them.
Apart(k, s) ==
    /\ k <= key /\ (key \in sent => key = k)
    /\ \A f \in flying : (f.of \in sent => f.of = k) /\ (f.of < k => f.n < k)
    /\ \A m \in sent : s <= m /\ m < s + Half =>
        key # k /\ \A f \in flying : f.of = k => f.n < m

Whole ==
    chain.boot /\ chain.c \in Chains =>
        \E k, s \in Nat : Grown(k, s, chain.c) /\ Apart(k, s)

FramesInv == VideoTypeOK /\ WindowsAreYoung /\ Flight /\ Forwarded /\ Marked /\ Whole

LEMMA FrameOf ==
    ASSUME Flight, NEW f \in flying
    PROVE  /\ f.n \in Nat /\ f.of \in Nat /\ f.of <= f.n
           /\ f.key <=> f.n = f.of
           /\ f.number = f.n % Wrap
           /\ \A c \in Chains : f.n # f.of => f.diffs[c] = f.n - Before(f.n, f.of, c)
  <1>1. f.n \in Nat /\ f.of \in Nat /\ f.of <= f.n /\ f = Frame(f.n, f.of)
    BY DEF Flight
  <1> DEFINE n == f.n
             k == f.of
  <1>2. f = Frame(n, k)
    BY <1>1
  <1> HIDE DEF n, k
  <1>3. /\ f.key <=> n = k
        /\ f.number = n % Wrap
        /\ \A c \in Chains : n # k => f.diffs[c] = n - Before(n, k, c)
    BY <1>2 DEF Frame
  <1> QED BY <1>1, <1>3 DEF n, k

\* A frame follows if the place of the one before it is marked.
LEMMA FollowsIs ==
    ASSUME Flight, NEW f \in flying, f.n # f.of, NEW t, t.c \in Chains
    PROVE  Follows(t, f) <=> Before(f.n, f.of, t.c) % Ring \in t.seen
  <1> DEFINE p == Before(f.n, f.of, t.c)
             d == f.diffs[t.c]
  <1>1. f.n \in Nat /\ f.of \in Nat /\ f.of < f.n /\ f.number = f.n % Wrap /\ d = f.n - p
    BY FrameOf
  <1>2. p \in f.of .. f.n - 1
    BY <1>1, BeforeIs
  <1>3. Follows(t, f) <=> d = 0 \/ (f.number - d) % Ring \in t.seen
    BY DEF Follows, Ring
  <1> HIDE DEF p, d
  <1>4. d \in Int /\ d # 0 /\ f.n - d = p /\ f.n \in Int
    BY <1>1, <1>2
  <1>5. ((f.n % Wrap) - d) % Ring = (f.n - d) % Ring
    BY <1>4, WrapOnRing
  <1> QED BY <1>1, <1>3, <1>4, <1>5 DEF p

LEMMA MarkIs ==
    ASSUME Flight, NEW f \in flying, NEW t
    PROVE  Mark(t, f.number) =
             [t EXCEPT !.seen = (@ \ {(f.n - Half) % Ring}) \union {f.n % Ring}]
  <1>1. f.n \in Int /\ f.number = f.n % Wrap /\ Half \in Int
    BY FrameOf, RingIs
  <1>2. (f.number - Half) % Ring = (f.n - Half) % Ring
    BY <1>1, WrapOnRing
  <1>3. (f.number - 0) % Ring = (f.n - 0) % Ring
    BY <1>1, WrapOnRing
  <1>4. f.n - 0 = f.n
    BY <1>1
  <1>5. f.number - 0 = f.number
    <2>1. f.number \in Int
      <3>1. Wrap \in Nat \ {0}
        BY VideoConstants
      <3> QED BY <1>1, <3>1, DivMod
    <2> QED BY <2>1
  <1>6. f.number % Ring = f.n % Ring
    BY <1>3, <1>4, <1>5
  <1> QED BY <1>2, <1>6 DEF Mark, Ring

TrackerType == [c : Targets, seen : SUBSET (0 .. Ring - 1), broken : BOOLEAN, boot : BOOLEAN]

\* f is admitted as a keyframe, or as one that follows, or not at all.
Restarted(f) ==
    /\ f.n = f.of
    /\ chain'.c \in Targets /\ chain'.boot /\ chain'.seen = {f.n % Ring}
    /\ sent' = {f.n}

Continued(f) ==
    /\ f.n # f.of
    /\ chain.boot /\ Follows(chain, f)
    /\ chain'.c = chain.c /\ chain'.boot
    /\ chain'.seen = (chain.seen \ {(f.n - Half) % Ring}) \union {f.n % Ring}
    /\ sent' = sent \union {f.n}

Refused ==
    /\ chain'.boot => chain.boot /\ chain'.c = chain.c /\ chain'.seen = chain.seen
    /\ sent' = sent

LEMMA ForwardDoes ==
    ASSUME VideoTypeOK, Flight, NEW f \in flying, ForwardVideo(f)
    PROVE  /\ Restarted(f) \/ Continued(f) \/ Refused
           /\ chain' \in TrackerType
           /\ chain'.seen # {} => chain'.boot
  <1> DEFINE t == IF fresh THEN SetChain(chain, target) ELSE chain
             out == (f.n - Half) % Ring
             in == f.n % Ring
  <1>1. chain \in TrackerType /\ target \in Targets /\ (chain.seen # {} => chain.boot)
    BY DEF VideoTypeOK, TrackerType, Ring
  <1>2. Tracker(target) \in TrackerType /\ ~Tracker(target).boot /\ Tracker(target).seen = {}
    BY <1>1 DEF Tracker, TrackerType
  <1>3. t \in TrackerType /\ (t.seen # {} => t.boot) /\ (t.boot => t = chain)
    BY <1>1, <1>2 DEF SetChain
  <1>4. f.key <=> f.n = f.of
    BY FrameOf
  <1>5. in \in 0 .. Ring - 1
    <2>1. f.n \in Int /\ Ring \in Nat \ {0}
      BY FrameOf, RingIs
    <2> QED BY <2>1, DivMod
  <1>6. PICK attaches \in BOOLEAN :
        IF f.layer > target THEN chain' = t /\ sent' = sent
        ELSE /\ chain' = Allow(IF attaches THEN Tracker(t.c) ELSE t, f)
             /\ sent' = (IF f.key THEN {} ELSE sent)
                         \union (IF Admits(IF attaches THEN Tracker(t.c) ELSE t, f) THEN {f.n} ELSE {})
    BY DEF ForwardVideo
  <1> DEFINE u == IF attaches THEN Tracker(t.c) ELSE t
  <1>7. IF f.layer > target THEN chain' = t /\ sent' = sent
        ELSE /\ chain' = Allow(u, f)
             /\ sent' = (IF f.key THEN {} ELSE sent) \union (IF Admits(u, f) THEN {f.n} ELSE {})
    BY <1>6
  <1>8. t.c \in Targets
    BY <1>3 DEF TrackerType
  <1>9. Tracker(t.c) \in TrackerType /\ ~Tracker(t.c).boot /\ Tracker(t.c).seen = {}
    BY <1>8 DEF Tracker, TrackerType
  <1>10. u \in TrackerType /\ (u.seen # {} => u.boot) /\ (u.boot => u = t) /\ (u.boot => u = chain)
    BY <1>3, <1>9
  <1>11. /\ Mark(u, f.number) = [u EXCEPT !.seen = (@ \ {out}) \union {in}]
        /\ Mark([Tracker(u.c) EXCEPT !.boot = TRUE], f.number) =
              [[Tracker(u.c) EXCEPT !.boot = TRUE] EXCEPT !.seen = (@ \ {out}) \union {in}]
    BY MarkIs
  <1> HIDE DEF t, u, out, in
  <1>12. CASE f.layer > target
    BY <1>3, <1>7, <1>12 DEF Refused
  <1>13. CASE ~(f.layer > target) /\ f.key
    <2>1. chain' = [[Tracker(u.c) EXCEPT !.boot = TRUE] EXCEPT !.seen = (@ \ {out}) \union {in}]
      BY <1>11, <1>7, <1>13 DEF Allow
    <2>2. chain' = [c |-> u.c, seen |-> {in}, broken |-> FALSE, boot |-> TRUE]
      BY <2>1 DEF Tracker
    <2>3. sent' = {f.n}
      BY <1>7, <1>13 DEF Admits
    <2>4. u.c \in Targets
      BY <1>10 DEF TrackerType
    <2> QED BY <1>4, <1>5, <1>13, <2>2, <2>3, <2>4 DEF Restarted, TrackerType, in
  <1>14. CASE ~(f.layer > target) /\ ~f.key /\ Admits(u, f)
    <2>1. chain' = [u EXCEPT !.seen = (@ \ {out}) \union {in}] /\ sent' = sent \union {f.n}
      BY <1>11, <1>7, <1>14 DEF Allow
    <2>2. u.boot /\ Follows(u, f)
      BY <1>14 DEF Admits
    <2>3. u = chain
      BY <1>10, <2>2
    <2>4. chain' \in TrackerType /\ chain'.boot
      BY <1>10, <1>5, <2>1, <2>2 DEF TrackerType
    <2>5. Continued(f)
      BY <1>10, <1>4, <1>14, <2>1, <2>2, <2>3 DEF Continued, TrackerType, out, in
    <2> QED BY <2>4, <2>5
  <1>15. CASE ~(f.layer > target) /\ ~f.key /\ ~Admits(u, f)
    <2>1. chain' = [u EXCEPT !.broken = TRUE] /\ sent' = sent
      BY <1>7, <1>15 DEF Allow
    <2>2. chain' \in TrackerType /\ chain'.boot = u.boot /\ chain'.c = u.c /\ chain'.seen = u.seen
      BY <1>10, <2>1 DEF TrackerType
    <2> QED BY <1>10, <2>1, <2>2 DEF Refused
  <1> QED BY <1>12, <1>13, <1>14, <1>15

-----------------------------------------------------------------------------
(* A frame that follows though the frame before it is missing.             *)

\* It follows a frame one or more rings before, and the frame half a ring after that one was
\* not forwarded.
LEMMA Alias ==
    ASSUME FramesInv, NEW f \in flying, f.n # f.of, chain.boot, chain.c \in Chains,
           Follows(chain, f), Before(f.n, f.of, chain.c) \notin sent
    PROVE  \E q \in sent : /\ q + Half \notin sent
                           /\ q % Ring = Before(f.n, f.of, chain.c) % Ring
                           /\ Before(f.n, f.of, chain.c) - q >= Ring
  <1> DEFINE p == Before(f.n, f.of, chain.c)
  <1>1. f.n \in Nat /\ f.of \in Nat /\ f.of < f.n /\ next <= f.n + 1 + Swaps
    BY FrameOf DEF FramesInv, Flight
  <1>2. p \in f.of .. f.n - 1 /\ f.n - p <= Half
    BY <1>1, BeforeIs
  <1>3. p % Ring \in chain.seen
    BY FollowsIs DEF FramesInv
  <1> HIDE DEF p
  <1>4. PICK q \in sent : p % Ring = q % Ring /\ q + Half \notin sent
    BY <1>3 DEF FramesInv, Marked
  <1>5. q \in Nat /\ q < next /\ q # p /\ next \in Nat /\ p \in Nat
    BY <1>1, <1>2, <1>4 DEF FramesInv, Forwarded, Flight, p
  <1>6. Half \in Nat /\ Swaps \in Nat /\ Swaps < Half /\ Ring = 2 * Half
    BY VideoConstants DEF Ring
  <1>7. CASE p < q
    <2>1. q - p >= Ring
      BY <1>4, <1>5, <1>7, RingApart
    <2> QED BY <1>1, <1>2, <1>5, <1>6, <2>1
  <1>8. CASE q < p
    <2>1. p - q >= Ring
      BY <1>4, <1>5, <1>8, RingApart
    <2> QED BY <1>4, <2>1 DEF p
  <1> QED BY <1>5, <1>7, <1>8

\* A frame before the last keyframe that was forwarded does not follow.
LEMMA LateIsRefused ==
    ASSUME FramesInv, NEW f \in flying, f.n # f.of, chain.boot, chain.c \in Chains,
           NEW k, NEW s, Grown(k, s, chain.c), Apart(k, s), f.of < k
    PROVE  ~Follows(chain, f)
  <1> SUFFICES ASSUME Follows(chain, f) PROVE FALSE
    OBVIOUS
  <1> DEFINE p == Before(f.n, f.of, chain.c)
  <1>1. f.n \in Nat /\ f.of \in Nat /\ f.of < f.n /\ f.n < k /\ k \in Nat
    BY FrameOf DEF FramesInv, Grown, Apart
  <1>2. p \in f.of .. f.n - 1
    BY <1>1, BeforeIs
  <1>3. p \notin sent
    BY <1>1, <1>2 DEF Grown
  <1> HIDE DEF p
  <1>4. PICK q \in sent : p - q >= Ring
    BY <1>3, Alias DEF p
  <1>5. q >= k /\ q \in Nat /\ Ring \in Nat
    BY RingIs DEF Grown, FramesInv, Forwarded
  <1> QED BY <1>1, <1>2, <1>4, <1>5

\* One of the last keyframe that follows a missing one is a whole window past the run.
LEMMA AdriftIsFar ==
    ASSUME FramesInv, NEW f \in flying, f.n # f.of, chain.boot, chain.c \in Chains,
           NEW k, NEW s, Grown(k, s, chain.c), Apart(k, s), f.of = k,
           Follows(chain, f), Before(f.n, f.of, chain.c) \notin sent
    PROVE  /\ Before(f.n, f.of, chain.c) \in Nat
           /\ Before(f.n, f.of, chain.c) < f.n
           /\ Before(f.n, f.of, chain.c) >= s + Half
  <1> DEFINE p == Before(f.n, f.of, chain.c)
  <1>1. f.n \in Nat /\ f.of \in Nat /\ f.of < f.n /\ k \in Nat /\ s \in Nat /\ k < s
    BY FrameOf DEF FramesInv, Grown
  <1>2. p \in k .. f.n - 1 /\ InChain(p, k, chain.c)
    BY <1>1, BeforeIs
  <1> HIDE DEF p
  <1>3. PICK q \in sent : q + Half \notin sent /\ q % Ring = p % Ring /\ p - q >= Ring
    BY Alias DEF p
  <1>4. q \in Nat /\ q >= k /\ p \in Nat /\ Half \in Nat /\ Ring = 2 * Half
    BY <1>1, <1>2, <1>3, RingIs DEF Grown, FramesInv, Forwarded, Ring
  <1>5. InChain(q + Half, k, chain.c)
    <2>1. Layer(q, k) = Layer(p, k)
      BY <1>1, <1>3, <1>4, SamePlace
    <2>2. Layer(q + Half, k) = Layer(q, k)
      BY <1>1, <1>4, HalfOn
    <2> QED BY <1>2, <2>1, <2>2 DEF InChain
  <1>6. q + Half >= s
    <2> SUFFICES ASSUME q + Half < s PROVE FALSE
      BY <1>1, <1>4
    <2>1. q + Half \in k .. s - 1
      BY <1>1, <1>4
    <2> QED BY <1>3, <1>5, <2>1 DEF Grown
  <1>7. p >= s + Half /\ p < f.n
    BY <1>1, <1>2, <1>3, <1>4, <1>6
  <1> QED BY <1>4, <1>7 DEF p

-----------------------------------------------------------------------------
(* The steps keep it.                                                      *)

LEMMA MarkedContinues ==
    ASSUME FramesInv, NEW f \in flying, Continued(f)
    PROVE  Marked'
  <1> SUFFICES ASSUME NEW r \in chain'.seen
               PROVE  \E q \in sent' : r = q % Ring /\ q + Half \notin sent'
    BY DEF Marked
  <1>1. sent' = sent \union {f.n} /\ f.n \in Nat /\ Half \in Nat \ {0}
    BY FrameOf, RingIs DEF Continued, FramesInv
  <1>2. CASE r = f.n % Ring
    <2>1. f.n + Half \notin sent
      <3>1. Swaps \in Nat /\ Swaps < Half
        BY VideoConstants
      <3>2. next <= f.n + 1 + Swaps /\ next \in Nat
        BY DEF FramesInv, Flight
      <3>3. \A m \in sent : m < next
        BY DEF FramesInv, Forwarded
      <3> QED BY <1>1, <3>1, <3>2, <3>3
    <2>2. f.n + Half # f.n
      BY <1>1
    <2> QED BY <1>1, <1>2, <2>1, <2>2
  <1>3. CASE r # f.n % Ring
    <2>1. r \in chain.seen /\ r # (f.n - Half) % Ring /\ chain.boot
      BY <1>3 DEF Continued
    <2>2. PICK q \in sent : r = q % Ring /\ q + Half \notin sent
      BY <2>1 DEF FramesInv, Marked
    <2>3. q + Half # f.n
      <3> SUFFICES ASSUME q + Half = f.n PROVE FALSE
        OBVIOUS
      <3>1. q \in Nat
        BY DEF FramesInv, Forwarded
      <3>2. f.n - Half = q
        BY <1>1, <3>1
      <3> QED BY <2>1, <2>2, <3>2
    <2> QED BY <1>1, <2>2, <2>3
  <1> QED BY <1>2, <1>3

LEMMA MarkedRestarts ==
    ASSUME FramesInv, NEW f \in flying, Restarted(f)
    PROVE  Marked'
  <1>1. f.n \in Nat /\ Half \in Nat \ {0}
    BY FrameOf, RingIs DEF FramesInv
  <1>2. f.n + Half # f.n
    BY <1>1
  <1> QED BY <1>2 DEF Marked, Restarted

LEMMA WholeRestarts ==
    ASSUME FramesInv, NEW f \in flying, Restarted(f), key' = key, flying' \subseteq flying
    PROVE  Whole'
  <1> SUFFICES ASSUME NEW c \in Chains, c = chain'.c
               PROVE  \E k, s \in Nat : Grown(k, s, c)' /\ Apart(k, s)'
    BY DEF Whole, Chains
  <1> DEFINE k == f.n
  <1>1. k \in Nat /\ k = f.of /\ k <= key /\ sent' = {k} /\ k \in Int
    BY FrameOf DEF FramesInv, Restarted, Flight
  <1>2. PICK s \in Nat : s > k /\ InChain(s, k, c) /\ \A l \in k + 1 .. s - 1 : ~InChain(l, k, c)
    BY <1>1, ChainGoesOn
  <1>3. Grown(k, s, c)'
    <2>1. \A m \in k .. s - 1 : InChain(m, k, c) => m = k
      <3> SUFFICES ASSUME NEW m \in k .. s - 1, m # k PROVE ~InChain(m, k, c)
        OBVIOUS
      <3>1. m \in k + 1 .. s - 1
        BY <1>1
      <3> QED BY <1>2, <3>1
    <2>2. k >= k
      BY <1>1
    <2> HIDE DEF k
    <2> QED BY <1>1, <1>2, <2>1, <2>2 DEF Grown, InChain
  <1>4. Apart(k, s)'
    <2>1. \A g \in flying : g.of < k => g.n < k
      BY <1>1 DEF FramesInv, Flight
    <2>2. ~(s <= k)
      BY <1>1, <1>2
    <2> HIDE DEF k
    <2> QED BY <1>1, <2>1, <2>2 DEF Apart
  <1> QED BY <1>1, <1>3, <1>4

\* A frame that is no keyframe has the number of none.
LEMMA NoKeyframe ==
    ASSUME Flight, NEW f \in flying, f.n # f.of
    PROVE  key # f.n /\ \A g \in flying : g.of # f.n
  <1>1. f.n \in Nat /\ f.of \in Nat /\ f.of < f.n
    BY FrameOf
  <1>2. key # f.n
    BY <1>1 DEF Flight
  <1>3. ASSUME NEW g \in flying, g.of = f.n PROVE FALSE
    <2>1. f.of < g.of => f.n < g.of
      BY DEF Flight
    <2> QED BY <1>1, <1>3, <2>1
  <1> QED BY <1>2, <1>3

\* A frame that adds to the window is of a later keyframe.
LEMMA AddsApart ==
    ASSUME FramesInv, NEW f \in flying, Continued(f), key' = key, flying' \subseteq flying,
           NEW c \in Chains, NEW k, NEW s, NEW z \in Nat, Grown(k, s, c), Apart(k, s),
           s <= z, k < f.n,
           f.n < z \/ f.n >= z + Half \/ f.of > k,
           z = s \/ (f.of = k /\ f.n = s)
    PROVE  Apart(k, z)'
  <1>1. /\ f.n \in Nat /\ f.of \in Nat /\ f.of < f.n /\ f.of <= key /\ key \in Nat
        /\ sent' = sent \union {f.n} /\ Half \in Nat /\ k \in Nat /\ s \in Nat
    BY FrameOf, RingIs DEF FramesInv, Flight, Continued, Grown
  <1>2. key # f.n /\ \A g \in flying : g.of # f.n
    BY <1>1, NoKeyframe DEF FramesInv
  <1>3. ASSUME NEW m \in sent', z <= m, m < z + Half
        PROVE  key # k /\ \A g \in flying : g.of = k => g.n < m
    <2>1. CASE m = f.n
      <3>1. f.of > k
        BY <1>1, <1>3, <2>1
      <3>2. \A g \in flying : g.of = k => g.n < f.of
        BY <3>1 DEF FramesInv, Flight
      <3>3. \A g \in flying : g.n \in Nat
        BY FrameOf DEF FramesInv
      <3> QED BY <1>1, <2>1, <3>1, <3>2, <3>3
    <2>2. CASE m # f.n
      <3>1. m \in sent /\ m \in Nat
        BY <1>1, <2>2 DEF FramesInv, Forwarded
      <3>2. m < s + Half
        <4>1. CASE z = s
          BY <1>3, <4>1
        <4>2. CASE f.of = k /\ f.n = s
          <5>1. m < next /\ next <= f.n + 1 + Swaps /\ Swaps \in Nat /\ Swaps < Half /\ next \in Nat
            BY <3>1, VideoConstants DEF FramesInv, Forwarded, Flight
          <5> QED BY <1>1, <3>1, <4>2, <5>1
        <4> QED BY <4>1, <4>2
      <3>3. s <= m
        BY <1>1, <1>3, <3>1
      <3> QED BY <3>1, <3>2, <3>3 DEF Apart
    <2> QED BY <2>1, <2>2
  <1>4. k <= key /\ (key \in sent' => key = k)
    BY <1>1, <1>2 DEF Apart
  <1>5. \A g \in flying : (g.of \in sent' => g.of = k) /\ (g.of < k => g.n < k)
    BY <1>1, <1>2 DEF Apart
  <1> QED BY <1>3, <1>4, <1>5 DEF Apart

LEMMA WholeContinues ==
    ASSUME FramesInv, NEW f \in flying, Continued(f), key' = key, flying' \subseteq flying
    PROVE  Whole'
  <1> SUFFICES ASSUME NEW c \in Chains, c = chain'.c
               PROVE  \E k, s \in Nat : Grown(k, s, c)' /\ Apart(k, s)'
    BY DEF Whole, Chains
  <1>1. c = chain.c /\ chain.boot /\ Follows(chain, f) /\ f.n # f.of /\ sent' = sent \union {f.n}
    BY DEF Continued
  <1>2. PICK k \in Nat, s \in Nat : Grown(k, s, c) /\ Apart(k, s)
    BY <1>1 DEF FramesInv, Whole
  <1>3. /\ f.n \in Nat /\ f.of \in Nat /\ f.of < f.n /\ k < s
        /\ Half \in Nat \ {0}
    BY <1>1, <1>2, FrameOf, RingIs DEF FramesInv, Grown
  <1>4. ~(f.of < k)
    BY <1>1, <1>2, LateIsRefused
  <1>5. ASSUME NEW z \in Nat, k < z, InChain(z, k, c),
               \A m \in k .. z - 1 : InChain(m, k, c) => m \in sent'
        PROVE  Grown(k, z, c)'
    <2>1. \A m \in sent' : m >= k
      BY <1>1, <1>2, <1>3, <1>4 DEF Grown
    <2>2. k \in sent'
      BY <1>1, <1>2 DEF Grown
    <2> QED BY <1>5, <2>1, <2>2 DEF Grown, InChain
  <1>6. Grown(k, s, c)'
    BY <1>1, <1>2, <1>3, <1>5 DEF Grown
  <1>7. CASE f.n < s \/ f.n >= s + Half \/ f.of > k
    <2>1. Apart(k, s)'
      BY <1>1, <1>2, <1>3, <1>4, <1>7, AddsApart
    <2> QED BY <1>6, <2>1
  <1>8. CASE f.of = k /\ f.n = s
    <2>1. PICK z \in Nat : z > s /\ InChain(z, k, c) /\ \A l \in s + 1 .. z - 1 : ~InChain(l, k, c)
      <3>1. k <= s
        BY <1>3
      <3> QED BY <3>1, ChainGoesOn
    <2>2. ASSUME NEW m \in k .. z - 1, InChain(m, k, c) PROVE m \in sent'
      <3>1. CASE m < s
        BY <1>1, <1>2, <2>2, <3>1 DEF Grown
      <3>2. CASE m = s
        BY <1>1, <1>8, <3>2
      <3>3. CASE m > s
        BY <2>1, <2>2, <3>3
      <3> QED BY <3>1, <3>2, <3>3
    <2>3. Grown(k, z, c)'
      BY <1>3, <1>5, <2>1, <2>2
    <2>4. Apart(k, z)'
      BY <1>1, <1>2, <1>3, <1>8, <2>1, AddsApart
    <2> QED BY <2>3, <2>4
  <1>9. CASE f.of = k /\ s < f.n /\ f.n < s + Half
    <2> DEFINE p == Before(f.n, f.of, c)
    <2>1. /\ p \in k .. f.n - 1
          /\ \A l \in p + 1 .. f.n - 1 : ~InChain(l, k, c)
      BY <1>3, <1>9, BeforeIs
    <2> HIDE DEF p
    <2>2. p >= s
      <3> SUFFICES ASSUME p < s PROVE FALSE
        BY <2>1
      <3>1. s \in p + 1 .. f.n - 1
        BY <1>3, <1>9, <2>1
      <3> QED BY <1>2, <2>1, <3>1 DEF Grown
    <2>3. p \notin sent
      <3> SUFFICES ASSUME p \in sent PROVE FALSE
        OBVIOUS
      <3>1. f.n < p
        BY <1>2, <1>3, <1>9, <2>1, <2>2 DEF Apart
      <3> QED BY <1>3, <2>1, <3>1
    <2>4. p >= s + Half
      BY <1>1, <1>2, <1>9, <2>3, AdriftIsFar DEF p
    <2> QED BY <1>3, <1>9, <2>1, <2>4
  <1> QED BY <1>3, <1>4, <1>7, <1>8, <1>9

\* What does not touch the frames keeps the rest of the invariant.
LEMMA FramesStay ==
    ASSUME FramesInv, UNCHANGED <<next, key, sent>>, flying' \subseteq flying,
           chain'.boot => chain.boot /\ chain'.c = chain.c /\ chain'.seen = chain.seen
    PROVE  Flight' /\ Forwarded' /\ Marked' /\ Whole'
  <1>1. Flight'
    BY DEF FramesInv, Flight
  <1>2. Forwarded' /\ Marked'
    BY DEF FramesInv, Forwarded, Marked
  <1>3. Whole'
    BY DEF FramesInv, Whole, Grown, Apart, InChain
  <1> QED BY <1>1, <1>2, <1>3

LEMMA FramesForward ==
    ASSUME FramesInv, NEW f \in flying, ForwardVideo(f)
    PROVE  Flight' /\ Forwarded' /\ Marked' /\ Whole'
  <1>1. Restarted(f) \/ Continued(f) \/ Refused
    BY ForwardDoes DEF FramesInv
  <1>2. UNCHANGED <<next, key>> /\ flying' \subseteq flying
    BY DEF ForwardVideo
  <1>3. CASE Refused
    BY <1>2, <1>3, FramesStay DEF Refused
  <1>4. Flight'
    BY <1>2 DEF FramesInv, Flight
  <1>5. f.n \in Nat /\ f.n < next
    BY DEF FramesInv, Flight
  <1>6. CASE Restarted(f)
    <2>1. Forwarded'
      BY <1>2, <1>5, <1>6 DEF Forwarded, Restarted
    <2> QED BY <1>2, <1>4, <1>6, <2>1, MarkedRestarts, WholeRestarts
  <1>7. CASE Continued(f)
    <2>1. Forwarded'
      BY <1>2, <1>5, <1>7 DEF FramesInv, Forwarded, Continued
    <2> QED BY <1>2, <1>4, <1>7, <2>1, MarkedContinues, WholeContinues
  <1> QED BY <1>1, <1>3, <1>6, <1>7

LEMMA FramesPublish ==
    ASSUME FramesInv, Publish
    PROVE  Flight' /\ Forwarded' /\ Marked' /\ Whole'
  <1>1. PICK k \in {key, next} : key' = k /\ flying' = flying \union {Frame(next, k)}
    BY DEF Publish
  <1>2. /\ next' = next + 1 /\ UNCHANGED <<chain, sent>>
        /\ \A f \in flying : next - f.n <= Swaps
        /\ key \in Nat /\ next \in Nat /\ key <= next /\ Swaps \in Nat
    BY VideoConstants DEF Publish, FramesInv, Flight
  <1> DEFINE new == Frame(next, k)
  <1>3. new.n = next /\ new.of = k /\ new = Frame(new.n, new.of) /\ k \in Nat /\ k <= next
    BY <1>2 DEF Frame
  <1> HIDE DEF new
  <1>4. flying' = flying \union {new} /\ key' = k
    BY <1>1 DEF new
  <1>5. \A f \in flying : /\ f.n \in Nat /\ f.of \in Nat /\ f = Frame(f.n, f.of)
                          /\ f.of <= f.n /\ f.of <= key /\ f.n < next
                          /\ f.of < key => f.n < key
    BY DEF FramesInv, Flight
  <1>6. \A f \in flying : f.of < k => f.n < k
    BY <1>1, <1>2, <1>5
  <1>7. Flight'
    <2>1. ASSUME NEW f \in flying'
          PROVE  /\ f.n \in Nat /\ f.of \in Nat /\ f = Frame(f.n, f.of)
                 /\ f.of <= f.n /\ f.of <= key'
                 /\ f.n < next' /\ next' <= f.n + 1 + Swaps
                 /\ f.of < key' => f.n < key'
      <3>1. CASE f \in flying
        BY <1>1, <1>2, <1>4, <1>5, <1>6, <3>1
      <3>2. CASE f = new
        BY <1>2, <1>3, <1>4, <3>2
      <3> QED BY <1>4, <3>1, <3>2
    <2>2. ASSUME NEW f \in flying', NEW g \in flying', f.of < g.of
          PROVE  f.n < g.of
      <3>1. CASE f \in flying /\ g \in flying
        BY <2>2, <3>1 DEF FramesInv, Flight
      <3>2. CASE f \in flying /\ g = new
        BY <1>3, <1>6, <2>2, <3>2
      <3>3. CASE f = new
        <4>1. g.of <= k
          BY <1>1, <1>2, <1>3, <1>4, <1>5
        <4>2. g.of \in Nat
          BY <2>1
        <4> QED BY <1>3, <2>2, <3>3, <4>1, <4>2
      <3> QED BY <1>4, <3>1, <3>2, <3>3
    <2>3. key' \in Nat /\ next' \in Nat /\ key' <= next'
      BY <1>2, <1>3, <1>4
    <2> QED BY <2>1, <2>2, <2>3 DEF Flight
  <1>8. Forwarded' /\ Marked'
    <2>1. \A m \in sent : m \in Nat /\ m < next
      BY DEF FramesInv, Forwarded
    <2>2. \A m \in sent : m < next + 1
      BY <1>2, <2>1
    <2>3. Forwarded'
      BY <1>2, <2>1, <2>2 DEF Forwarded
    <2> QED BY <1>2, <2>3 DEF FramesInv, Marked
  <1>9. ASSUME NEW k0 \in Nat, NEW s \in Nat, NEW c, Grown(k0, s, c), Apart(k0, s)
        PROVE  Grown(k0, s, c)' /\ Apart(k0, s)'
    <2>1. k0 \in sent /\ k0 < next /\ next \notin sent /\ k0 <= key
      BY <1>2, <1>9 DEF FramesInv, Forwarded, Grown, Apart
    <2>2. k0 <= k /\ (k \in sent => k = k0)
      BY <1>1, <1>2, <1>9, <2>1 DEF Apart
    <2>3. \A f \in flying' : (f.of \in sent => f.of = k0) /\ (f.of < k0 => f.n < k0)
      BY <1>3, <1>4, <1>9, <2>2 DEF Apart
    <2>4. ASSUME NEW m \in sent, s <= m, m < s + Half
          PROVE  k # k0 /\ \A f \in flying' : f.of = k0 => f.n < m
      <3>1. key # k0 /\ \A f \in flying : f.of = k0 => f.n < m
        BY <1>9, <2>4 DEF Apart
      <3>2. k # k0
        BY <1>1, <2>1, <3>1
      <3> QED BY <1>3, <1>4, <3>1, <3>2
    <2>5. Grown(k0, s, c)'
      BY <1>2, <1>9 DEF Grown, InChain
    <2> QED BY <1>2, <1>4, <2>2, <2>3, <2>4, <2>5 DEF Apart
  <1>10. Whole'
    BY <1>2, <1>9 DEF FramesInv, Whole
  <1> QED BY <1>7, <1>8, <1>10

\* A frame that dangles leaves a window behind it without a frame.
LEMMA DanglesAfterGap ==
    ASSUME FramesInv, [VideoNext]_videoVars, NEW f \in flying, Dangles(f), f.of \in sent
    PROVE  \E n \in f.of .. f.n - Half : (n .. n + Half - 1) \intersect sent = {}
  <1>1. PICK g \in flying : ForwardVideo(g)
    <2>1. sent' # sent
      BY DEF Dangles
    <2> QED BY <2>1 DEF VideoNext, videoVars, Levels, Publish, LoseFrame, ReportLoss, ModeChange,
                       Second, Poll, Bump
  <1>2. f.n \in Nat /\ f.of \in Nat /\ f.of < f.n /\ ~f.key
    BY FrameOf DEF FramesInv, Dangles
  <1>3. Restarted(g) \/ Continued(g)
    BY <1>1, ForwardDoes DEF FramesInv, Refused, Dangles
  <1>4. f.n = g.n
    BY <1>3 DEF Restarted, Continued, Dangles
  <1>5. f = g
    <2>1. f.of = g.of
      <3>1. g.n \in Nat /\ g.of \in Nat /\ g.of <= g.n
        BY FrameOf DEF FramesInv
      <3>2. (f.of < g.of => f.n < g.of) /\ (g.of < f.of => g.n < f.of)
        BY DEF FramesInv, Flight
      <3> QED BY <1>2, <1>4, <3>1, <3>2
    <2>2. f = Frame(f.n, f.of) /\ g = Frame(g.n, g.of)
      BY DEF FramesInv, Flight
    <2> QED BY <1>4, <2>1, <2>2
  <1>6. Continued(f)
    BY <1>2, <1>3, <1>5 DEF Restarted
  <1>7. chain.boot /\ chain.c \in Chains /\ Follows(chain, f) /\ f.n # f.of
    BY <1>6 DEF Continued, Dangles
  <1>8. Before(f.n, f.of, chain.c) \notin sent
    <2>1. f.diffs[chain.c] = f.n - Before(f.n, f.of, chain.c)
      BY <1>7, FrameOf DEF FramesInv
    <2>2. Before(f.n, f.of, chain.c) \in f.of .. f.n - 1
      BY <1>2, <1>7, BeforeIs
    <2>3. f.n - f.diffs[chain.c] \notin sent
      BY <1>6 DEF Continued, Dangles
    <2> DEFINE p == Before(f.n, f.of, chain.c)
    <2> HIDE DEF p
    <2>4. f.n - (f.n - p) = p
      BY <1>2, <2>2 DEF p
    <2> QED BY <2>1, <2>3, <2>4 DEF p
  <1>9. PICK k \in Nat, s \in Nat : Grown(k, s, chain.c) /\ Apart(k, s)
    BY <1>7 DEF FramesInv, Whole
  <1>10. f.of = k /\ k < s /\ Half \in Nat
    BY <1>9, RingIs DEF Grown, Apart
  <1>11. f.n >= s + Half
    <2> DEFINE p == Before(f.n, f.of, chain.c)
    <2>1. p \in Nat /\ p < f.n /\ p >= s + Half
      BY <1>7, <1>8, <1>9, <1>10, AdriftIsFar
    <2> HIDE DEF p
    <2> QED BY <1>2, <1>10, <2>1
  <1>12. (s .. s + Half - 1) \intersect sent = {}
    <2> SUFFICES ASSUME NEW m \in sent, s <= m, m < s + Half PROVE FALSE
      BY <1>10
    <2>1. f.n < m
      BY <1>9, <1>10 DEF Apart
    <2>2. m \in Nat
      BY DEF FramesInv, Forwarded
    <2> QED BY <1>2, <1>10, <1>11, <2>1, <2>2
  <1>13. s \in f.of .. f.n - Half
    BY <1>2, <1>10, <1>11
  <1> QED BY <1>12, <1>13

-----------------------------------------------------------------------------
(* Types, and the theorem.                                                 *)

LEMMA VideoTypesForward ==
    ASSUME FramesInv, NEW f \in flying, ForwardVideo(f)
    PROVE  VideoTypeOK'
  <1>1. chain' \in TrackerType /\ (chain'.seen # {} => chain'.boot)
    BY ForwardDoes DEF FramesInv
  <1>2. UNCHANGED <<next, key, levelVars>> /\ fresh' = FALSE
    BY DEF ForwardVideo
  <1> QED BY <1>1, <1>2 DEF FramesInv, VideoTypeOK, TrackerType, Ring, levelVars

LEMMA VideoTypesLevels ==
    ASSUME VideoTypeOK, Levels, WindowsAreYoung'
    PROVE  VideoTypeOK'
  <1>1. UNCHANGED <<next, key, chain>>
    BY DEF Levels, ReportLoss, ModeChange, Second, Poll, Bump
  <1>2. fresh' \in BOOLEAN /\ moving' \in BOOLEAN
    BY DEF VideoTypeOK, Levels, ReportLoss, ModeChange, Second, Poll, Bump, Eval, Moves, Stays
  <1> QED BY <1>1, <1>2 DEF VideoTypeOK, WindowsAreYoung

LEMMA FramesInit == VideoInit => FramesInv
  <1> SUFFICES ASSUME VideoInit PROVE FramesInv
    OBVIOUS
  <1>1. First \in Nat /\ MaxFrames \in Nat
    BY VideoConstants
  <1>2. chain = [c |-> target, seen |-> {}, broken |-> FALSE, boot |-> FALSE] /\ target \in Targets
    BY DEF VideoInit, Tracker
  <1>3. VideoTypeOK
    <2>1. next \in First .. First + MaxFrames /\ key \in First .. next
      BY <1>1 DEF VideoInit
    <2>2. chain \in [c : Targets, seen : SUBSET (0 .. 2 * Half - 1), broken : BOOLEAN, boot : BOOLEAN]
      BY <1>2
    <2>3. chain.seen = {} /\ high = Unset /\ low = Unset
      BY <1>2 DEF VideoInit
    <2> QED BY <1>2, <2>1, <2>2, <2>3 DEF VideoInit, VideoTypeOK
  <1>4. Flight /\ Forwarded
    BY <1>1 DEF VideoInit, Flight, Forwarded
  <1>5. Marked /\ Whole
    BY <1>2 DEF Marked, Whole
  <1> QED BY <1>3, <1>4, <1>5, YoungInit DEF FramesInv

LEMMA FramesStep == FramesInv /\ [VideoNext]_videoVars => FramesInv'
  <1> SUFFICES ASSUME FramesInv, [VideoNext]_videoVars PROVE FramesInv'
    OBVIOUS
  <1>0. WindowsAreYoung'
    BY YoungStep DEF FramesInv
  <1>1. CASE Publish
    <2>1. VideoTypeOK'
      <3>1. First \in Nat /\ MaxFrames \in Nat /\ next < First + MaxFrames /\ next' = next + 1
            /\ key' \in {key, next} /\ UNCHANGED <<fresh, chain, levelVars>>
        BY <1>1, VideoConstants DEF Publish
      <3>2. next' \in First .. First + MaxFrames /\ key' \in First .. next'
        BY <3>1 DEF FramesInv, VideoTypeOK
      <3> QED BY <3>1, <3>2 DEF FramesInv, VideoTypeOK, levelVars
    <2> QED BY <1>0, <1>1, <2>1, FramesPublish DEF FramesInv
  <1>2. ASSUME NEW f \in flying, LoseFrame(f) PROVE FramesInv'
    <2>1. VideoTypeOK'
      BY <1>2 DEF FramesInv, VideoTypeOK, LoseFrame, levelVars
    <2>2. UNCHANGED <<next, key, sent, chain>> /\ flying' \subseteq flying
      BY <1>2 DEF LoseFrame
    <2> QED BY <1>0, <2>1, <2>2, FramesStay DEF FramesInv
  <1>3. ASSUME NEW f \in flying, ForwardVideo(f) PROVE FramesInv'
    BY <1>0, <1>3, VideoTypesForward, FramesForward DEF FramesInv
  <1>4. CASE Levels
    <2>1. UNCHANGED <<next, key, sent, chain, flying>>
      BY <1>4 DEF Levels, ReportLoss, ModeChange, Second, Poll, Bump
    <2> QED BY <1>0, <1>4, <2>1, VideoTypesLevels, FramesStay DEF FramesInv
  <1>5. CASE UNCHANGED videoVars
    <2>1. UNCHANGED <<next, key, sent, chain, flying>> /\ VideoTypeOK'
      BY <1>5 DEF videoVars, levelVars, FramesInv, VideoTypeOK
    <2> QED BY <1>0, <2>1, FramesStay DEF FramesInv
  <1> QED BY <1>1, <1>2, <1>3, <1>4, <1>5 DEF VideoNext

\* After an outage shorter than a window a viewer gets no frame its decoder cannot use, for any
\* pattern of layers, ring, numbers and losses (ChainTracker in codec.rs, forward_video in
\* screen.rs).
THEOREM FramesAreFollowed == VideoSpec => FramesFollow
  <1>1. FramesInv /\ [VideoNext]_videoVars
        => [\A f \in flying : Dangles(f) =>
              \/ f.of \notin sent
              \/ \E n \in f.of .. f.n - Half : (n .. n + Half - 1) \intersect sent = {}]_videoVars
    BY DanglesAfterGap
  <1> QED BY <1>1, FramesInit, FramesStep, PTL DEF VideoSpec, FramesFollow

-----------------------------------------------------------------------------
(* The numbers of a slot.                                                  *)

Below(S, n) == {s \in S : s < n}
Recent(o) == {skips[o].recent[i] : i \in DOMAIN skips[o].recent}

\* The drops that are a count only.
Counted(o) == silent[o] \ Recent(o)
Awaited(o) == Seqs(o) \ arrived[o]

VoicesTyped ==
    /\ VoiceTypeOK
    /\ skips \in [Owners -> [recent : Seq(Nat), older : Nat, forwarded : Nat]]
    /\ arrived \in [Owners -> SUBSET Nat] /\ silent \in [Owners -> SUBSET Nat]
    /\ written \subseteq [owner : Owners, n : Nat, seq : Nat, stale : BOOLEAN]

\* What a track knows of its drops: those it counts precede whatever is still to come, those
\* it remembers came at most Reorder places early.
Remembers(o) ==
    LET recent == skips[o].recent IN
    /\ Recent(o) \subseteq silent[o]
    /\ \A i, j \in DOMAIN recent : i < j => recent[i] # recent[j] /\ recent[i] <= recent[j] + Reorder
    /\ \A i \in DOMAIN recent : \A n \in Awaited(o) : recent[i] <= n + Reorder
    /\ skips[o].older = Cardinality(Counted(o))
    /\ \A s \in Counted(o) : \A n \in Awaited(o) : s < n

\* A packet that was forwarded has its place among the drops for good.
Placed(o, n) == n \in arrived[o] \ silent[o] /\ n <= skips[o].forwarded
PlaceOf(o, n) == n - Cardinality(Below(silent[o], n))

InHand(o) ==
    hand[o] # NoPacket => Placed(o, hand[o].n) /\ hand[o].shifted = PlaceOf(o, hand[o].n)

Numbered(v) ==
    /\ Placed(v.owner, v.n) /\ base[v.owner] # NoBase
    /\ v.seq = base[v.owner].out + PlaceOf(v.owner, v.n) - base[v.owner].in
    /\ v.seq <= last

\* The numbers of a slot's owner are above whatever others wrote in their time.
InTurn ==
    /\ \A o \in Owners : tenure[o] = "new" => base[o] = NoBase /\ ~hand[o].to
    /\ \A o, p \in Owners : tenure[o] = "in" /\ tenure[p] = "in" => o = p
    /\ \A o \in Owners : tenure[o] = "in" /\ base[o] # NoBase =>
            \A v \in written : v.owner # o /\ ~v.stale => v.seq < base[o].out
    /\ \A v, w \in written : v.owner # w.owner /\ ~v.stale /\ ~w.stale => v.seq # w.seq

VoiceInv ==
    /\ VoicesTyped
    /\ \A o \in Owners : Remembers(o) /\ InHand(o)
    /\ \A v \in written : Numbered(v)
    /\ InTurn

-----------------------------------------------------------------------------
(* Counting. *)

LEMMA BelowCount ==
    ASSUME NEW N, N \in Nat, NEW S, S \subseteq 1 .. N, NEW n, n \in 1 .. N, n \notin S
    PROVE  /\ IsFiniteSet(Below(S, n)) /\ Cardinality(Below(S, n)) \in Nat
           /\ n - Cardinality(Below(S, n)) \in Nat
  <1>1. IsFiniteSet(1 .. n - 1) /\ Cardinality(1 .. n - 1) <= n - 1
    <2>1. 1 \in Int /\ n - 1 \in Int /\ n - 1 >= 0
      OBVIOUS
    <2>2. Cardinality(1 .. n - 1) = IF 1 > n - 1 THEN 0 ELSE n - 1 - 1 + 1
      BY <2>1, FS_Interval
    <2> QED
      BY <2>1, <2>2, FS_Interval
  <1>2. Below(S, n) \in SUBSET (1 .. n - 1)
    <2>1. \A s \in Below(S, n) : s \in 1 .. N /\ s < n
      BY DEF Below
    <2> QED
      BY <2>1
  <1>3. IsFiniteSet(Below(S, n)) /\ Cardinality(Below(S, n)) <= Cardinality(1 .. n - 1)
    BY <1>1, <1>2, FS_Subset
  <1>4. Cardinality(Below(S, n)) \in Nat /\ Cardinality(1 .. n - 1) \in Nat
    BY <1>1, <1>3, FS_CardinalityType
  <1> QED
    BY <1>1, <1>3, <1>4

\* No more than twice the reach of the network, less the two at its ends, come between a drop
\* and a packet it overtook.
LEMMA Crowd ==
    ASSUME NEW R, R \in Nat, NEW K, K \in Nat \ {0}, 2 * R <= K + 1,
           NEW s, s \in Nat, NEW n, n \in Nat, n < s, s <= n + R,
           NEW f, f \in [1 .. K -> Nat],
           \A i, j \in 1 .. K : i # j => f[i] # f[j],
           \A i \in 1 .. K : f[i] # s /\ f[i] # n /\ s <= f[i] + R /\ f[i] <= n + R
    PROVE  FALSE
  <1> DEFINE I == s - R .. n + R
             X == (I \ {s}) \ {n}
  <1>1. IsFiniteSet(I) /\ Cardinality(I) = 2 * R + n - s + 1
    <2>1. s - R \in Int /\ n + R \in Int /\ s - R <= n + R
      OBVIOUS
    <2>2. \A a, b \in Int : a <= b => IsFiniteSet(a .. b) /\ Cardinality(a .. b) = b - a + 1
      <3> SUFFICES ASSUME NEW a \in Int, NEW b \in Int, a <= b
                   PROVE  IsFiniteSet(a .. b) /\ Cardinality(a .. b) = b - a + 1
        OBVIOUS
      <3>1. IsFiniteSet(a .. b) /\ Cardinality(a .. b) = IF a > b THEN 0 ELSE b - a + 1
        BY FS_Interval
      <3> QED
        BY <3>1
    <2>3. Cardinality(I) = (n + R) - (s - R) + 1 /\ IsFiniteSet(I)
      BY <2>1, <2>2
    <2> QED
      BY <2>3
  <1>2. s \in I /\ n \in I \ {s}
    OBVIOUS
  <1>3. IsFiniteSet(I \ {s}) /\ Cardinality(I \ {s}) = Cardinality(I) - 1
    BY <1>1, <1>2, FS_RemoveElement
  <1>4. IsFiniteSet(X) /\ Cardinality(X) = Cardinality(I) - 2
    <2>1. IsFiniteSet(X) /\ Cardinality(X) = Cardinality(I \ {s}) - 1
      BY <1>2, <1>3, FS_RemoveElement
    <2>2. Cardinality(I) \in Int
      BY <1>1
    <2> QED
      BY <1>3, <2>1, <2>2
  <1>5. f \in Injection(1 .. K, X)
    <2>1. \A i \in 1 .. K : f[i] \in X
      OBVIOUS
    <2> HIDE DEF X
    <2>2. f \in [1 .. K -> X]
      BY <2>1
    <2> QED
      BY <2>2 DEF Injection, IsInjective
  <1>6. Cardinality(1 .. K) <= Cardinality(X)
    BY <1>4, <1>5, FS_Injection
  <1>7. Cardinality(1 .. K) = K
    BY FS_Interval, K \in Int, 1 \in Int
  <1> HIDE DEF X, I
  <1> QED
    BY <1>1, <1>4, <1>6, <1>7

\* The remembered drops before a packet, each counted once.
LEMMA CountRecent ==
    ASSUME NEW q, q \in Seq(Nat), \A i, j \in DOMAIN q : i < j => q[i] # q[j], NEW n, n \in Nat
    PROVE  Cardinality({i \in DOMAIN q : q[i] < n}) = Cardinality({s \in {q[i] : i \in DOMAIN q} : s < n})
  <1> DEFINE D == {i \in DOMAIN q : q[i] < n}
             T == {s \in {q[i] : i \in DOMAIN q} : s < n}
             f == [i \in D |-> q[i]]
  <1>1. DOMAIN q = 1 .. Len(q) /\ Len(q) \in Nat
    OBVIOUS
  <1>2. IsFiniteSet(D)
    <2>1. IsFiniteSet(1 .. Len(q))
      BY <1>1, FS_Interval, 1 \in Int, Len(q) \in Int
    <2> QED
      BY <1>1, <2>1, FS_Subset, D \in SUBSET (1 .. Len(q))
  <1>3. f \in Bijection(D, T)
    <2>1. \A i \in D : f[i] \in T
      OBVIOUS
    <2>2. \A i, j \in D : f[i] = f[j] => i = j
      <3>1. \A i, j \in D : q[i] = q[j] => i = j
        <4> SUFFICES ASSUME NEW i \in D, NEW j \in D, q[i] = q[j] PROVE i = j
          OBVIOUS
        <4>1. i \in Nat /\ j \in Nat
          BY <1>1
        <4> QED
          BY <4>1, i \in DOMAIN q, j \in DOMAIN q
      <3> QED
        BY <3>1
    <2>3. \A t \in T : \E i \in D : f[i] = t
      OBVIOUS
    <2>4. f \in [D -> T]
      BY <2>1
    <2> HIDE DEF f, T, D
    <2> QED
      BY <2>2, <2>3, <2>4 DEF Bijection, Injection, Surjection, IsInjective
  <1>4. ExistsBijection(D, T)
    BY <1>3 DEF ExistsBijection
  <1> HIDE DEF D, T, f
  <1>5. Cardinality(T) = Cardinality(D)
    BY <1>2, <1>4, FS_Bijection
  <1> QED
    BY <1>5 DEF D, T

-----------------------------------------------------------------------------
(* What a step leaves. *)

\* A drop behind what was forwarded moves no packet that was placed.
LEMMA PlaceStays ==
    ASSUME NEW o, NEW n, n \in Nat, Placed(o, n), skips[o].forwarded \in Nat, skips'[o].forwarded \in Nat,
           arrived[o] \subseteq arrived'[o], skips[o].forwarded <= skips'[o].forwarded,
           \/ silent'[o] = silent[o]
           \/ \E m \in Nat : m \notin arrived[o] /\ skips[o].forwarded <= m /\ silent'[o] = silent[o] \union {m}
    PROVE  Placed(o, n)' /\ PlaceOf(o, n)' = PlaceOf(o, n)
  <1>1. n \in arrived[o] /\ n \notin silent[o] /\ n <= skips[o].forwarded
    BY DEF Placed
  <1>2. n \notin silent'[o] /\ Below(silent'[o], n) = Below(silent[o], n)
    <2>1. CASE silent'[o] = silent[o]
      BY <1>1, <2>1
    <2>2. ASSUME NEW m, m \in Nat, m \notin arrived[o], skips[o].forwarded <= m,
                 silent'[o] = silent[o] \union {m}
          PROVE  n \notin silent'[o] /\ Below(silent'[o], n) = Below(silent[o], n)
      <3>1. m # n /\ ~(m < n)
        BY <1>1, <2>2
      <3> QED
        BY <1>1, <2>2, <3>1 DEF Below
    <2> QED
      BY <2>1, <2>2
  <1>3. n <= skips'[o].forwarded
    BY <1>1
  <1> QED
    BY <1>1, <1>2, <1>3 DEF Placed, PlaceOf

\* What is yet to come only gets less.
LEMMA MemoryStays ==
    ASSUME NEW o, Remembers(o), skips'[o].recent = skips[o].recent, skips'[o].older = skips[o].older,
           silent'[o] = silent[o], arrived[o] \subseteq arrived'[o]
    PROVE  Remembers(o)'
  <1>1. Recent(o)' = Recent(o)
    BY DEF Recent
  <1>2. Counted(o)' = Counted(o) /\ Awaited(o)' \subseteq Awaited(o)
    BY <1>1 DEF Counted, Awaited, Seqs
  <1> QED
    BY <1>1, <1>2 DEF Remembers

LEMMA InFlightIs ==
    ASSUME NEW o, NEW n, n \in InFlight(o)
    PROVE  n \in Awaited(o) /\ \A m \in Awaited(o) : n - m <= Reorder
  BY DEF InFlight, Awaited

\* What the drop of a packet makes of the memory: it is remembered, and the oldest counted
\* when there is no room.
LEMMA SkipDoes ==
    ASSUME NEW sk, sk \in [recent : Seq(Nat), older : Nat, forwarded : Nat], NEW n, n \in Nat, Len(sk.recent) <= Kept
    PROVE  /\ Skip(sk, n) \in [recent : Seq(Nat), older : Nat, forwarded : Nat]
           /\ Skip(sk, n).forwarded = sk.forwarded
           /\ Len(Skip(sk, n).recent) <= Kept
           /\ \/ Skip(sk, n).recent = Append(sk.recent, n) /\ Skip(sk, n).older = sk.older
              \/ /\ Len(sk.recent) = Kept /\ Skip(sk, n).recent = Tail(Append(sk.recent, n))
                 /\ Skip(sk, n).older = sk.older + 1
  <1> DEFINE a == Append(sk.recent, n)
  <1>1. sk.recent \in Seq(Nat) /\ Len(sk.recent) \in Nat /\ Kept \in Nat \ {0} /\ sk.older \in Nat
    BY VoiceConstants
  <1>2. a \in Seq(Nat) /\ Len(a) = Len(sk.recent) + 1 /\ a # <<>>
    BY <1>1
  <1>3. Tail(a) \in Seq(Nat) /\ Len(Tail(a)) = Len(a) - 1
    BY <1>2
  <1>4. sk = [recent |-> sk.recent, older |-> sk.older, forwarded |-> sk.forwarded]
    OBVIOUS
  <1>5. CASE Len(a) <= Kept
    <2>1. Skip(sk, n) = [sk EXCEPT !.recent = a]
      BY <1>5 DEF Skip
    <2> HIDE DEF a
    <2>2. /\ Skip(sk, n) \in [recent : Seq(Nat), older : Nat, forwarded : Nat]
          /\ Skip(sk, n).forwarded = sk.forwarded /\ Skip(sk, n).recent = a /\ Skip(sk, n).older = sk.older
      BY <1>2, <2>1
    <2> QED
      BY <1>5, <2>2 DEF a
  <1>6. CASE ~(Len(a) <= Kept)
    <2>1. Skip(sk, n) = [sk EXCEPT !.recent = Tail(a), !.older = @ + 1]
      BY <1>6 DEF Skip
    <2> HIDE DEF a
    <2>2. /\ Skip(sk, n) \in [recent : Seq(Nat), older : Nat, forwarded : Nat]
          /\ Skip(sk, n).forwarded = sk.forwarded /\ Skip(sk, n).recent = Tail(a)
          /\ Skip(sk, n).older = sk.older + 1
      <3>1. Skip(sk, n) = [recent |-> Tail(a), older |-> sk.older + 1, forwarded |-> sk.forwarded]
        BY <1>4, <2>1
      <3> QED
        BY <1>1, <1>3, <3>1
    <2>3. Len(sk.recent) = Kept
      BY <1>1, <1>2, <1>6
    <2> QED
      BY <1>1, <1>2, <1>3, <2>2, <2>3 DEF a
  <1> QED
    BY <1>5, <1>6

\* A drop that becomes a count precedes whatever is to come: were a packet it overtook still to
\* come, too many places would lie between them.
LEMMA DropKeeps ==
    ASSUME VoicesTyped, NEW o, o \in Owners, NEW n, n \in InFlight(o), Remembers(o),
           skips'[o] = Skip(skips[o], n), silent'[o] = silent[o] \union {n}, arrived'[o] = arrived[o] \union {n}
    PROVE  Remembers(o)' /\ Len(skips'[o].recent) <= Kept
  <1> DEFINE sk == skips[o]
             r == skips[o].recent
             a == Append(r, n)
             new == Skip(skips[o], n)
  <1>1. /\ sk \in [recent : Seq(Nat), older : Nat, forwarded : Nat] /\ Len(r) <= Kept
        /\ arrived[o] \subseteq Seqs(o) /\ silent[o] \subseteq arrived[o]
        /\ Reorder \in Nat /\ Kept \in Nat \ {0} /\ 2 * Reorder <= Kept + 1 /\ Packets[o] \in Nat
    BY VoiceConstants DEF VoicesTyped, VoiceTypeOK
  <1>2. /\ n \in Awaited(o) /\ n \notin arrived[o] /\ n \in Nat /\ Awaited(o) \subseteq Nat
        /\ \A m \in Awaited(o) : n - m <= Reorder
        /\ Awaited(o)' = Awaited(o) \ {n}
    BY <1>1, InFlightIs DEF Awaited, Seqs
  <1>3. r \in Seq(Nat) /\ Len(r) \in Nat /\ DOMAIN r = 1 .. Len(r) /\ \A i \in 1 .. Len(r) : r[i] \in Nat
    <2>1. r \in Seq(Nat)
      BY <1>1
    <2> QED
      BY <2>1
  <1>4. /\ DOMAIN a = 1 .. Len(r) + 1 /\ \A i \in 1 .. Len(r) : a[i] = r[i]
        /\ a[Len(r) + 1] = n /\ a \in Seq(Nat) /\ Len(a) = Len(r) + 1 /\ a # <<>>
    BY <1>2, <1>3
  <1>5. /\ \A i \in 1 .. Len(r) : r[i] \in silent[o] /\ r[i] # n
        /\ \A i, j \in 1 .. Len(r) : i < j => r[i] # r[j] /\ r[i] <= r[j] + Reorder
        /\ \A i \in 1 .. Len(r) : \A m \in Awaited(o) : r[i] <= m + Reorder
        /\ sk.older = Cardinality(Counted(o))
        /\ \A s \in Counted(o) : \A m \in Awaited(o) : s < m
    BY <1>1, <1>2, <1>3 DEF Remembers, Recent
  <1> HIDE DEF a
  <1>6. /\ \A i \in 1 .. Len(r) + 1 : a[i] \in Nat
        /\ \A i, j \in 1 .. Len(r) + 1 : i < j => a[i] # a[j] /\ a[i] <= a[j] + Reorder
        /\ \A i \in 1 .. Len(r) + 1 : \A m \in Awaited(o)' : a[i] <= m + Reorder
    <2>1. \A i \in 1 .. Len(r) + 1 : i \in 1 .. Len(r) \/ i = Len(r) + 1
      BY <1>3
    <2>2. \A i \in 1 .. Len(r) + 1 : a[i] \in Nat
      BY <1>2, <1>3, <1>4, <2>1
    <2>3. ASSUME NEW i \in 1 .. Len(r) + 1, NEW j \in 1 .. Len(r) + 1, i < j
          PROVE  a[i] # a[j] /\ a[i] <= a[j] + Reorder
      <3>1. i \in 1 .. Len(r)
        BY <1>3, <2>3
      <3>2. CASE j \in 1 .. Len(r)
        BY <1>4, <1>5, <2>3, <3>1, <3>2
      <3>3. CASE j = Len(r) + 1
        BY <1>2, <1>4, <1>5, <3>1, <3>3
      <3> QED
        BY <2>1, <3>2, <3>3
    <2>4. ASSUME NEW i \in 1 .. Len(r) + 1, NEW m \in Awaited(o)' PROVE a[i] <= m + Reorder
      <3>1. m \in Awaited(o) /\ m \in Nat
        BY <1>2
      <3>2. CASE i \in 1 .. Len(r)
        BY <1>4, <1>5, <3>1, <3>2
      <3>3. CASE i = Len(r) + 1
        BY <1>1, <1>2, <1>4, <3>1, <3>3
      <3> QED
        BY <2>1, <3>2, <3>3
    <2> QED
      BY <2>2, <2>3, <2>4
  <1>7. IsFiniteSet(Counted(o))
    <2>1. Counted(o) \in SUBSET (1 .. Packets[o])
      BY <1>1 DEF Counted, Seqs
    <2>2. IsFiniteSet(1 .. Packets[o])
      BY <1>1, FS_Interval, 1 \in Int, Packets[o] \in Int
    <2> QED
      BY <2>1, <2>2, FS_Subset
  <1>8. /\ new.forwarded = sk.forwarded /\ Len(new.recent) <= Kept
        /\ \/ new.recent = a /\ new.older = sk.older
           \/ Len(r) = Kept /\ new.recent = Tail(a) /\ new.older = sk.older + 1
    BY <1>1, <1>2, SkipDoes DEF a
  <1>9. CASE new.recent = a /\ new.older = sk.older
    <2>1. Recent(o)' = Recent(o) \union {n}
      <3>1. skips'[o].recent = a
        BY <1>9
      <3>2. Recent(o)' = {a[i] : i \in 1 .. Len(r) + 1}
        BY <1>4, <3>1 DEF Recent
      <3>3. Recent(o) = {r[i] : i \in 1 .. Len(r)}
        BY <1>3 DEF Recent
      <3> HIDE DEF r
      <3>4. n \in Recent(o)' /\ Recent(o) \subseteq Recent(o)'
        <4>1. 1 .. Len(r) \subseteq 1 .. Len(r) + 1 /\ Len(r) + 1 \in 1 .. Len(r) + 1
          BY <1>3
        <4> QED
          BY <1>4, <3>2, <3>3, <4>1
      <3>5. Recent(o)' \subseteq Recent(o) \union {n}
        <4>1. \A i \in 1 .. Len(r) + 1 : i \in 1 .. Len(r) \/ i = Len(r) + 1
          BY <1>3
        <4> QED
          BY <1>4, <3>2, <3>3, <4>1
      <3> QED
        BY <3>4, <3>5
    <2>2. Counted(o)' = Counted(o)
      BY <1>1, <1>2, <2>1 DEF Counted
    <2>3. skips'[o].recent = a /\ skips'[o].older = sk.older /\ DOMAIN a = 1 .. Len(r) + 1
      BY <1>4, <1>9
    <2>4. Recent(o)' \subseteq silent'[o]
      BY <2>1 DEF Remembers
    <2> HIDE DEF sk, r, new
    <2> QED
      BY <1>2, <1>5, <1>6, <1>8, <2>2, <2>3, <2>4, <1>9 DEF Remembers, new
  <1>10. CASE Len(r) = Kept /\ new.recent = Tail(a) /\ new.older = sk.older + 1
    <2> DEFINE t == Tail(a)
    <2>1. DOMAIN t = 1 .. Kept /\ \A i \in 1 .. Kept : t[i] = a[i + 1] /\ i + 1 \in 1 .. Len(r) + 1
      <3>1. Len(a) = Kept + 1 /\ a \in Seq(Nat) /\ a # <<>> /\ Kept \in Nat
        BY <1>1, <1>4, <1>10
      <3>2. Len(t) = Kept /\ \A i \in 1 .. Kept : t[i] = a[i + 1]
        BY <3>1
      <3>3. t \in Seq(Nat)
        BY <3>1
      <3>4. DOMAIN t = 1 .. Kept
        BY <3>2, <3>3
      <3> QED
        BY <1>1, <1>10, <3>2, <3>4
    <2>2. 1 \in 1 .. Len(r) /\ Len(r) + 1 \in 1 .. Len(r) + 1 /\ a[1] = r[1] /\ r[1] \in silent[o] /\ r[1] # n
      BY <1>1, <1>4, <1>5, <1>10
    <2> HIDE DEF t
    <2>3. Recent(o)' = (Recent(o) \ {r[1]}) \union {n}
      <3>0. skips'[o].recent = t
        BY <1>10 DEF t
      <3>1. Recent(o)' = {t[i] : i \in 1 .. Kept} /\ Recent(o) = {r[i] : i \in 1 .. Kept}
        <4>1. Recent(o)' = {t[i] : i \in 1 .. Kept}
          BY <2>1, <3>0 DEF Recent
        <4>2. Recent(o) = {r[i] : i \in 1 .. Kept}
          BY <1>3, <1>10 DEF Recent
        <4> QED
          BY <4>1, <4>2
      <3>2. ASSUME NEW i \in 1 .. Kept PROVE t[i] = n \/ t[i] \in Recent(o) \ {r[1]}
        <4>1. CASE i = Kept
          BY <1>4, <1>10, <2>1, <4>1
        <4>2. CASE i # Kept
          <5>1. i + 1 \in 1 .. Len(r) /\ 1 < i + 1
            BY <1>1, <1>10, <4>2
          <5>2. t[i] = r[i + 1]
            BY <1>4, <2>1, <5>1
          <5>3. r[i + 1] # r[1]
            BY <1>5, <2>2, <5>1
          <5>4. r[i + 1] \in Recent(o)
            BY <1>10, <3>1, <5>1
          <5> QED
            BY <5>2, <5>3, <5>4
        <4> QED
          BY <4>1, <4>2
      <3>3. n \in Recent(o)'
        <4>1. t[Kept] = n /\ Kept \in 1 .. Kept
          BY <1>1, <1>4, <1>10, <2>1
        <4> QED
          BY <3>1, <4>1
      <3>4. ASSUME NEW x \in Recent(o), x # r[1] PROVE x \in Recent(o)'
        <4>1. PICK i \in 1 .. Kept : x = r[i]
          BY <3>1
        <4>2. i # 1 /\ i \in Nat
          BY <3>4, <4>1
        <4>3. i - 1 \in 1 .. Kept /\ i - 1 + 1 = i
          BY <1>1, <4>1, <4>2
        <4>4. t[i - 1] = a[i]
          BY <2>1, <4>3
        <4>5. a[i] = r[i]
          BY <1>4, <1>10, <4>1
        <4> QED
          BY <3>1, <4>1, <4>3, <4>4, <4>5
      <3> QED
        BY <3>1, <3>2, <3>3, <3>4
    <2>4. r[1] \in Recent(o)
      BY <1>3, <2>2 DEF Recent
    <2>5. Counted(o)' = Counted(o) \union {r[1]} /\ r[1] \notin Counted(o)
      BY <1>1, <1>2, <2>2, <2>3, <2>4 DEF Counted
    <2>6. Cardinality(Counted(o)') = Cardinality(Counted(o)) + 1
      <3>1. Cardinality(Counted(o) \union {r[1]}) = Cardinality(Counted(o)) + 1
        BY <1>7, <2>5, FS_AddElement
      <3> QED
        BY <2>5, <3>1
    <2>7. ASSUME NEW m \in Awaited(o)' PROVE r[1] < m
      <3>1. m \in Awaited(o) /\ m \in Nat /\ m # n /\ m \notin arrived[o] /\ r[1] \in Nat
        BY <1>2, <1>3, <2>2 DEF Awaited
      <3>2. ~(m < r[1])
        <4> SUFFICES ASSUME m < r[1] PROVE FALSE
          OBVIOUS
        <4> DEFINE f == [i \in 1 .. Kept |-> a[i + 1]]
        <4>1. r[1] <= m + Reorder
          BY <1>5, <2>2, <3>1
        <4>2. \A i \in 1 .. Kept : i + 1 \in 1 .. Len(r) + 1 /\ 1 < i + 1
          BY <1>10, <2>1
        <4>3. f \in [1 .. Kept -> Nat]
          BY <1>6, <4>2
        <4>4. \A i, j \in 1 .. Kept : i # j => a[i + 1] # a[j + 1]
          <5> SUFFICES ASSUME NEW i \in 1 .. Kept, NEW j \in 1 .. Kept, i # j PROVE a[i + 1] # a[j + 1]
            OBVIOUS
          <5>1. i + 1 < j + 1 \/ j + 1 < i + 1
            BY <1>1
          <5> QED
            BY <1>6, <4>2, <5>1
        <4>5. ASSUME NEW i \in 1 .. Kept
              PROVE  a[i + 1] # r[1] /\ a[i + 1] # m /\ r[1] <= a[i + 1] + Reorder /\ a[i + 1] <= m + Reorder
          <5>1. a[i + 1] # r[1] /\ r[1] <= a[i + 1] + Reorder /\ a[i + 1] <= m + Reorder
            <6>1. 1 \in 1 .. Len(r) + 1
              BY <1>3
            <6> QED
              BY <1>6, <2>2, <4>2, <6>1
          <5>2. a[i + 1] = n \/ a[i + 1] \in silent[o]
            <6>1. i + 1 = Len(r) + 1 \/ i + 1 \in 1 .. Len(r)
              BY <1>3, <4>2
            <6> QED
              BY <1>4, <1>5, <6>1
          <5> QED
            BY <1>1, <3>1, <5>1, <5>2
        <4>6. \A i, j \in 1 .. Kept : i # j => f[i] # f[j]
          BY <4>4
        <4>7. \A i \in 1 .. Kept : f[i] # r[1] /\ f[i] # m /\ r[1] <= f[i] + Reorder /\ f[i] <= m + Reorder
          BY <4>5
        <4> HIDE DEF f, r
        <4> QED
          BY <1>1, <3>1, <4>1, <4>3, <4>6, <4>7, Crowd
      <3> QED
        BY <1>1, <2>2, <3>1, <3>2
    <2>8. skips'[o].recent = t /\ skips'[o].older = sk.older + 1
      BY <1>10 DEF t
    <2>9. Recent(o)' \subseteq silent'[o]
      BY <2>3 DEF Remembers
    <2>10. \A i, j \in 1 .. Kept : i < j => t[i] # t[j] /\ t[i] <= t[j] + Reorder
      <3> SUFFICES ASSUME NEW i \in 1 .. Kept, NEW j \in 1 .. Kept, i < j
                   PROVE  t[i] # t[j] /\ t[i] <= t[j] + Reorder
        OBVIOUS
      <3>1. i + 1 < j + 1
        BY <1>1
      <3> QED
        BY <1>6, <2>1, <3>1
    <2>11. \A i \in 1 .. Kept : \A m \in Awaited(o)' : t[i] <= m + Reorder
      BY <1>6, <2>1
    <2>12. \A s \in Counted(o)' : \A m \in Awaited(o)' : s < m
      BY <1>2, <1>5, <2>5, <2>7
    <2>13. sk.older + 1 = Cardinality(Counted(o)')
      BY <1>5, <2>6
    <2> QED
      BY <1>8, <2>1, <2>8, <2>9, <2>10, <2>11, <2>12, <2>13 DEF Remembers
  <1> QED
    BY <1>8, <1>9, <1>10

LEMMA CountIsBounded ==
    ASSUME NEW N, N \in Nat, NEW S, S \subseteq 1 .. N
    PROVE  IsFiniteSet(S) /\ Cardinality(S) \in 0 .. N
  <1>1. IsFiniteSet(1 .. N) /\ Cardinality(1 .. N) = N
    <2>1. 1 \in Int /\ N \in Int
      OBVIOUS
    <2>2. IsFiniteSet(1 .. N) /\ Cardinality(1 .. N) = IF 1 > N THEN 0 ELSE N - 1 + 1
      BY <2>1, FS_Interval
    <2> QED
      BY <2>2
  <1>2. IsFiniteSet(S) /\ Cardinality(S) <= Cardinality(1 .. N)
    BY <1>1, S \in SUBSET (1 .. N), FS_Subset
  <1>3. Cardinality(S) \in Nat
    BY <1>2, FS_CardinalityType
  <1> QED
    BY <1>1, <1>2, <1>3

\* A packet of silence is dropped.
Drops(o, n) ==
    /\ n \in InFlight(o) /\ skips[o].forwarded <= n
    /\ arrived' = [arrived EXCEPT ![o] = @ \union {n}]
    /\ skips' = [skips EXCEPT ![o] = Skip(@, n)]
    /\ silent' = [silent EXCEPT ![o] = @ \union {n}]
    /\ UNCHANGED <<tenure, hand, base, last, written>>

\* One that is not is taken.
TakesUp(o, n) ==
    /\ hand[o] = NoPacket /\ n \in InFlight(o)
    /\ arrived' = [arrived EXCEPT ![o] = @ \union {n}]
    /\ skips' = [skips EXCEPT ![o].forwarded = IF n > @ THEN n ELSE @]
    /\ hand' = [hand EXCEPT ![o] = [n |-> n, shifted |-> Shifted(skips[o], n), to |-> tenure[o] = "in"]]
    /\ UNCHANGED <<silent, tenure, base, last, written>>

LEMMA ArriveDoes ==
    ASSUME VoicesTyped, NEW o, o \in Owners, NEW n, n \in Seqs(o), NEW silence, Arrive(o, n, silence)
    PROVE  Drops(o, n) \/ TakesUp(o, n)
  <1>1. skips[o].forwarded \in Nat /\ n \in Nat
    BY DEF VoicesTyped, Seqs
  <1> QED
    BY <1>1 DEF Arrive, Skips, Drops, TakesUp

\* What holds of the owners' packets, as long as the steps of one of them are its own.
LEMMA InvKeeps ==
    ASSUME VoiceInv, VoicesTyped', InTurn',
           \A o \in Owners : Remembers(o)' /\ InHand(o)', \A v \in written' : Numbered(v)'
    PROVE  VoiceInv'
  BY DEF VoiceInv

LEMMA DropsKeep ==
    ASSUME VoiceInv, NEW o, o \in Owners, NEW n, n \in Seqs(o), Drops(o, n)
    PROVE  VoiceInv'
  <1>1. VoicesTyped /\ Remembers(o) /\ n \in InFlight(o) /\ skips[o].forwarded <= n
    BY DEF VoiceInv, Drops
  <1>2. skips[o] \in [recent : Seq(Nat), older : Nat, forwarded : Nat] /\ Len(skips[o].recent) <= Kept
    BY <1>1 DEF VoicesTyped, VoiceTypeOK
  <1>3. /\ arrived'[o] = arrived[o] \union {n} /\ silent'[o] = silent[o] \union {n} /\ skips'[o] = Skip(skips[o], n)
        /\ \A p \in Owners : p # o => arrived'[p] = arrived[p] /\ silent'[p] = silent[p] /\ skips'[p] = skips[p]
        /\ DOMAIN skips' = Owners
    BY DEF Drops, VoiceInv, VoicesTyped
  <1>4. n \in Nat /\ n \in Awaited(o) /\ n \notin arrived[o] /\ n \in Seqs(o)
    BY InFlightIs, <1>1 DEF Awaited, Seqs
  <1>5. Remembers(o)' /\ Len(skips'[o].recent) <= Kept
    BY <1>1, <1>3, DropKeeps
  <1>6. skips'[o] \in [recent : Seq(Nat), older : Nat, forwarded : Nat] /\ skips'[o].forwarded = skips[o].forwarded
    BY <1>2, <1>3, <1>4, SkipDoes
  <1>7. \A p \in Owners : Remembers(p)'
    <2> SUFFICES ASSUME NEW p \in Owners, p # o PROVE Remembers(p)'
      BY <1>5
    <2>1. Remembers(p)
      BY DEF VoiceInv
    <2> QED
      BY <1>3, <2>1, MemoryStays
  <1>8. \A p \in Owners : arrived'[p] \subseteq Seqs(p) /\ silent'[p] \subseteq arrived'[p]
    BY <1>3, <1>4, <1>1 DEF VoicesTyped, VoiceTypeOK
  <1>9. VoicesTyped'
    <2>1. skips' \in [Owners -> [recent : Seq(Nat), older : Nat, forwarded : Nat]]
      BY <1>1, <1>3, <1>6 DEF Drops, VoicesTyped
    <2>2. arrived' \in [Owners -> SUBSET Nat] /\ silent' \in [Owners -> SUBSET Nat]
      BY <1>1, <1>4 DEF Drops, VoicesTyped
    <2>3. ASSUME NEW p \in Owners
          PROVE  Len(skips'[p].recent) <= Kept /\ {skips'[p].older, skips'[p].forwarded} \subseteq 0 .. Packets[p]
      <3>1. skips'[p].older \in 0 .. Packets[p]
        <4>1. silent'[p] \subseteq Seqs(p) /\ Remembers(p)' /\ Packets[p] \in Nat
          BY <1>7, <1>8, VoiceConstants
        <4>2. Counted(p)' \subseteq 1 .. Packets[p]
          BY <4>1 DEF Counted, Seqs
        <4>3. Cardinality(Counted(p)') \in 0 .. Packets[p]
          BY <4>1, <4>2, CountIsBounded
        <4> QED
          BY <4>1, <4>3 DEF Remembers
      <3>2. Len(skips'[p].recent) <= Kept /\ skips'[p].forwarded \in 0 .. Packets[p]
        BY <1>1, <1>3, <1>5, <1>6 DEF VoicesTyped, VoiceTypeOK
      <3> QED
        BY <3>1, <3>2
    <2> QED
      BY <1>1, <1>8, <2>1, <2>2, <2>3 DEF VoicesTyped, VoiceTypeOK, Drops
  <1>10. \A p \in Owners : \A m \in Nat : Placed(p, m) => Placed(p, m)' /\ PlaceOf(p, m)' = PlaceOf(p, m)
    <2> SUFFICES ASSUME NEW p \in Owners, NEW m \in Nat, Placed(p, m)
                 PROVE  Placed(p, m)' /\ PlaceOf(p, m)' = PlaceOf(p, m)
      OBVIOUS
    <2>1. skips[p].forwarded \in Nat /\ skips'[p].forwarded \in Nat
      BY <1>1, <1>9 DEF VoicesTyped
    <2>2. arrived[p] \subseteq arrived'[p] /\ skips[p].forwarded <= skips'[p].forwarded
      BY <1>3, <1>6, <2>1
    <2>3. silent'[p] = silent[p] \/ \E k \in Nat : k \notin arrived[p] /\ skips[p].forwarded <= k /\ silent'[p] = silent[p] \union {k}
      BY <1>1, <1>3, <1>4
    <2> QED
      BY <2>1, <2>2, <2>3, PlaceStays
  <1>11. \A p \in Owners : InHand(p)'
    <2> SUFFICES ASSUME NEW p \in Owners PROVE InHand(p)'
      OBVIOUS
    <2>1. InHand(p) /\ hand[p].n \in Nat /\ hand' = hand
      BY <1>1 DEF VoiceInv, VoicesTyped, VoiceTypeOK, Drops
    <2>2. CASE hand[p] = NoPacket
      BY <2>1, <2>2 DEF InHand
    <2>3. CASE hand[p] # NoPacket
      <3>1. PICK k \in Nat : k = hand[p].n
        BY <2>1
      <3>2. Placed(p, k) /\ hand[p].shifted = PlaceOf(p, k)
        BY <2>1, <2>3, <3>1 DEF InHand
      <3>3. Placed(p, k)' /\ PlaceOf(p, k)' = PlaceOf(p, k)
        BY <1>10, <3>2
      <3> QED
        BY <2>1, <3>1, <3>2, <3>3 DEF InHand, Placed, PlaceOf
    <2> QED
      BY <2>2, <2>3
  <1>12. \A v \in written' : Numbered(v)'
    <2> SUFFICES ASSUME NEW v \in written PROVE Numbered(v)'
      BY DEF Drops
    <2>1. Numbered(v) /\ v.owner \in Owners /\ v.n \in Nat /\ base' = base /\ last' = last
      BY <1>1 DEF VoiceInv, VoicesTyped, Drops
    <2>2. Placed(v.owner, v.n)' /\ PlaceOf(v.owner, v.n)' = PlaceOf(v.owner, v.n)
      BY <1>10, <2>1 DEF Numbered
    <2> QED
      BY <2>1, <2>2 DEF Numbered
  <1>13. InTurn'
    BY DEF VoiceInv, InTurn, Drops
  <1> QED
    BY <1>7, <1>9, <1>11, <1>12, <1>13, InvKeeps

\* The count and the remembered drops before a packet are all the drops before it.
LEMMA ShiftedIsPlace ==
    ASSUME VoicesTyped, NEW o, o \in Owners, Remembers(o), NEW n, n \in Awaited(o)
    PROVE  Shifted(skips[o], n) = PlaceOf(o, n) /\ PlaceOf(o, n) \in Nat
  <1> DEFINE R == {s \in Recent(o) : s < n}
             r == skips[o].recent
  <1>1. /\ r \in Seq(Nat) /\ silent[o] \subseteq 1 .. Packets[o] /\ Packets[o] \in Nat
        /\ n \in 1 .. Packets[o] /\ n \notin silent[o] /\ n \in Nat
    BY VoiceConstants DEF VoicesTyped, VoiceTypeOK, Awaited, Seqs
  <1>2. Below(silent[o], n) = Counted(o) \union R /\ Counted(o) \cap R = {}
    BY DEF Remembers, Below, Counted
  <1>3. IsFiniteSet(Counted(o)) /\ IsFiniteSet(R)
    <2>1. Counted(o) \subseteq 1 .. Packets[o] /\ R \subseteq 1 .. Packets[o]
      BY <1>1 DEF Counted, Remembers
    <2> QED
      BY <1>1, <2>1, CountIsBounded
  <1>4. Cardinality(Below(silent[o], n)) = Cardinality(Counted(o)) + Cardinality(R)
    <2>1. Cardinality(Counted(o) \union R) = Cardinality(Counted(o)) + Cardinality(R) - Cardinality(Counted(o) \cap R)
      BY <1>3, FS_Union
    <2>2. Cardinality(Counted(o) \cap R) = 0
      BY <1>2, FS_EmptySet
    <2>3. Cardinality(Counted(o)) \in Nat /\ Cardinality(R) \in Nat
      BY <1>3, FS_CardinalityType
    <2> HIDE DEF R
    <2> QED
      BY <1>2, <2>1, <2>2, <2>3
  <1>5. Cardinality(R) = Cardinality({i \in DOMAIN r : r[i] < n})
    <2>1. \A i, j \in DOMAIN r : i < j => r[i] # r[j]
      BY DEF Remembers
    <2>2. Cardinality({i \in DOMAIN r : r[i] < n}) = Cardinality({s \in {r[i] : i \in DOMAIN r} : s < n})
      BY <1>1, <2>1, CountRecent
    <2> QED
      BY <2>2 DEF Recent
  <1>6. Cardinality(Counted(o)) = skips[o].older /\ Cardinality(R) \in Nat /\ skips[o].older \in Nat
    BY <1>3, FS_CardinalityType DEF Remembers
  <1>7. Shifted(skips[o], n) = n - skips[o].older - Cardinality(R)
    BY <1>5 DEF Shifted
  <1>8. PlaceOf(o, n) \in Nat
    BY <1>1, BelowCount DEF PlaceOf
  <1> HIDE DEF R
  <1> QED
    BY <1>1, <1>4, <1>6, <1>7, <1>8 DEF PlaceOf

LEMMA TakesKeep ==
    ASSUME VoiceInv, NEW o, o \in Owners, NEW n, n \in Seqs(o), TakesUp(o, n)
    PROVE  VoiceInv'
  <1>1. VoicesTyped /\ Remembers(o) /\ n \in InFlight(o) /\ hand[o] = NoPacket
    BY DEF VoiceInv, TakesUp
  <1>2. /\ arrived'[o] = arrived[o] \union {n} /\ silent' = silent /\ DOMAIN skips' = Owners
        /\ skips'[o] = [skips[o] EXCEPT !.forwarded = IF n > skips[o].forwarded THEN n ELSE skips[o].forwarded]
        /\ \A p \in Owners : p # o => arrived'[p] = arrived[p] /\ skips'[p] = skips[p] /\ hand'[p] = hand[p]
        /\ hand'[o] = [n |-> n, shifted |-> Shifted(skips[o], n), to |-> tenure[o] = "in"]
    BY DEF TakesUp, VoiceInv, VoicesTyped, VoiceTypeOK
  <1>3. n \in Nat /\ n \in Awaited(o) /\ n \notin arrived[o] /\ n \in Seqs(o) /\ n \notin silent[o]
    BY InFlightIs, <1>1 DEF Awaited, Seqs, VoicesTyped, VoiceTypeOK
  <1>4. /\ skips[o] \in [recent : Seq(Nat), older : Nat, forwarded : Nat]
        /\ skips'[o] \in [recent : Seq(Nat), older : Nat, forwarded : Nat]
        /\ skips'[o].recent = skips[o].recent /\ skips'[o].older = skips[o].older
        /\ skips'[o].forwarded >= skips[o].forwarded /\ skips'[o].forwarded >= n
        /\ skips'[o].forwarded \in {n, skips[o].forwarded}
    <2>1. skips[o] \in [recent : Seq(Nat), older : Nat, forwarded : Nat]
      BY <1>1 DEF VoicesTyped
    <2>2. PICK f \in Nat : f = IF n > skips[o].forwarded THEN n ELSE skips[o].forwarded
      BY <1>3, <2>1
    <2>3. f >= skips[o].forwarded /\ f >= n /\ f \in {n, skips[o].forwarded}
      BY <1>3, <2>1, <2>2
    <2>4. skips'[o] = [skips[o] EXCEPT !.forwarded = f]
      BY <1>2, <2>2
    <2> QED
      BY <2>1, <2>3, <2>4
  <1>5. \A p \in Owners : Remembers(p)'
    <2> SUFFICES ASSUME NEW p \in Owners PROVE Remembers(p)'
      OBVIOUS
    <2>1. Remembers(p)
      BY DEF VoiceInv
    <2> QED
      BY <1>2, <1>4, <2>1, MemoryStays
  <1>6. Shifted(skips[o], n) = PlaceOf(o, n) /\ PlaceOf(o, n) \in Nat
    BY <1>1, <1>3, ShiftedIsPlace
  <1>7. VoicesTyped'
    <2>1. skips' \in [Owners -> [recent : Seq(Nat), older : Nat, forwarded : Nat]]
      <3>1. \A p \in Owners : skips'[p] \in [recent : Seq(Nat), older : Nat, forwarded : Nat]
        BY <1>1, <1>2, <1>4 DEF VoicesTyped
      <3>2. skips' = [p \in Owners |-> skips'[p]]
        BY <1>1, <1>2 DEF VoicesTyped, TakesUp
      <3> QED
        BY <3>1, <3>2
    <2>2. arrived' \in [Owners -> SUBSET Nat] /\ silent' \in [Owners -> SUBSET Nat]
      BY <1>1, <1>3 DEF TakesUp, VoicesTyped
    <2>3. ASSUME NEW p \in Owners
          PROVE  /\ Len(skips'[p].recent) <= Kept /\ {skips'[p].older, skips'[p].forwarded} \subseteq 0 .. Packets[p]
                 /\ arrived'[p] \subseteq Seqs(p) /\ silent'[p] \subseteq arrived'[p]
      <3>1. /\ Len(skips[p].recent) <= Kept /\ {skips[p].older, skips[p].forwarded} \subseteq 0 .. Packets[p]
            /\ arrived[p] \subseteq Seqs(p) /\ silent[p] \subseteq arrived[p]
        BY <1>1 DEF VoicesTyped, VoiceTypeOK
      <3>2. n \in 0 .. Packets[o]
        BY <1>3, VoiceConstants DEF Seqs
      <3>3. CASE p = o
        BY <1>2, <1>3, <1>4, <3>1, <3>2, <3>3
      <3>4. CASE p # o
        BY <1>2, <3>1, <3>4
      <3> QED
        BY <3>3, <3>4
    <2>4. hand' \in [Owners -> [n : Nat, shifted : Nat, to : BOOLEAN]]
      <3>1. [n |-> n, shifted |-> Shifted(skips[o], n), to |-> tenure[o] = "in"] \in [n : Nat, shifted : Nat, to : BOOLEAN]
        BY <1>3, <1>6
      <3> QED
        BY <1>1, <3>1 DEF TakesUp, VoicesTyped, VoiceTypeOK
    <2> QED
      BY <1>1, <2>1, <2>2, <2>3, <2>4 DEF VoicesTyped, VoiceTypeOK, TakesUp, Seqs
  <1>8. \A p \in Owners : \A m \in Nat : Placed(p, m) => Placed(p, m)' /\ PlaceOf(p, m)' = PlaceOf(p, m)
    <2> SUFFICES ASSUME NEW p \in Owners, NEW m \in Nat, Placed(p, m)
                 PROVE  Placed(p, m)' /\ PlaceOf(p, m)' = PlaceOf(p, m)
      OBVIOUS
    <2>1. skips[p].forwarded \in Nat /\ skips'[p].forwarded \in Nat
      BY <1>1, <1>7 DEF VoicesTyped
    <2>2. arrived[p] \subseteq arrived'[p] /\ skips[p].forwarded <= skips'[p].forwarded
      BY <1>2, <1>4, <2>1
    <2> QED
      BY <1>2, <2>1, <2>2, PlaceStays
  <1>9. \A p \in Owners : InHand(p)'
    <2> SUFFICES ASSUME NEW p \in Owners PROVE InHand(p)'
      OBVIOUS
    <2>1. InHand(p) /\ hand[p].n \in Nat
      BY <1>1 DEF VoiceInv, VoicesTyped, VoiceTypeOK
    <2>2. CASE p = o
      <3>1. Placed(o, n)'
        BY <1>2, <1>3, <1>4 DEF Placed
      <3>2. PlaceOf(o, n)' = PlaceOf(o, n)
        BY <1>2 DEF PlaceOf
      <3>3. hand'[o].n = n /\ hand'[o].shifted = PlaceOf(o, n)
        BY <1>2, <1>6
      <3> QED
        BY <2>2, <3>1, <3>2, <3>3 DEF InHand, Placed, PlaceOf
    <2>3. CASE p # o /\ hand[p] = NoPacket
      BY <1>2, <2>3 DEF InHand
    <2>4. CASE p # o /\ hand[p] # NoPacket
      <3>1. PICK k \in Nat : k = hand[p].n
        BY <2>1
      <3>2. Placed(p, k) /\ hand[p].shifted = PlaceOf(p, k)
        BY <2>1, <2>4, <3>1 DEF InHand
      <3>3. Placed(p, k)' /\ PlaceOf(p, k)' = PlaceOf(p, k) /\ hand'[p] = hand[p]
        BY <1>2, <1>8, <2>4, <3>2
      <3> QED
        BY <3>1, <3>2, <3>3 DEF InHand, Placed, PlaceOf
    <2> QED
      BY <2>2, <2>3, <2>4
  <1>10. \A v \in written' : Numbered(v)'
    <2> SUFFICES ASSUME NEW v \in written PROVE Numbered(v)'
      BY DEF TakesUp
    <2>1. Numbered(v) /\ v.owner \in Owners /\ v.n \in Nat /\ base' = base /\ last' = last
      BY <1>1 DEF VoiceInv, VoicesTyped, TakesUp
    <2>2. Placed(v.owner, v.n)' /\ PlaceOf(v.owner, v.n)' = PlaceOf(v.owner, v.n)
      BY <1>8, <2>1 DEF Numbered
    <2> QED
      BY <2>1, <2>2 DEF Numbered
  <1>11. InTurn'
    <2>1. \A p \in Owners : tenure'[p] = "new" => base'[p] = NoBase /\ ~hand'[p].to
      <3> SUFFICES ASSUME NEW p \in Owners, tenure[p] = "new" PROVE base[p] = NoBase /\ ~hand'[p].to
        BY DEF TakesUp
      <3>1. base[p] = NoBase /\ ~hand[p].to
        BY DEF VoiceInv, InTurn
      <3>2. CASE p = o
        <4>1. hand'[o].to = (tenure[o] = "in")
          BY <1>2
        <4>2. tenure[o] # "in"
          BY <3>2
        <4> QED
          BY <3>1, <3>2, <4>1, <4>2
      <3>3. CASE p # o
        BY <1>2, <3>1, <3>3
      <3> QED
        BY <3>2, <3>3
    <2> QED
      BY <2>1 DEF VoiceInv, InTurn, TakesUp
  <1> QED
    BY <1>5, <1>7, <1>9, <1>10, <1>11, InvKeeps

LEMMA LoseKeeps ==
    ASSUME VoiceInv, NEW o, o \in Owners, NEW n, n \in Seqs(o), Lose(o, n)
    PROVE  VoiceInv'
  <1>1. /\ UNCHANGED <<skips, silent, tenure, hand, base, last, written>>
        /\ arrived' = [arrived EXCEPT ![o] = @ \union {n}] /\ VoicesTyped
    BY DEF Lose, VoiceInv
  <1>2. \A p \in Owners : arrived[p] \subseteq arrived'[p]
    BY <1>1 DEF VoicesTyped
  <1>3. VoicesTyped'
    <2>1. n \in Nat
      BY DEF Seqs
    <2>2. arrived' \in [Owners -> SUBSET Nat]
      BY <1>1, <2>1 DEF VoicesTyped
    <2>3. \A p \in Owners : arrived'[p] \subseteq Seqs(p) /\ silent[p] \subseteq arrived'[p]
      BY <1>1 DEF VoicesTyped, VoiceTypeOK
    <2> QED
      BY <1>1, <2>2, <2>3 DEF VoicesTyped, VoiceTypeOK, Seqs
  <1>4. \A p \in Owners : \A m : Placed(p, m) => Placed(p, m)' /\ PlaceOf(p, m)' = PlaceOf(p, m)
    BY <1>1, <1>2 DEF Placed, PlaceOf
  <1>5. \A p \in Owners : Remembers(p)' /\ InHand(p)'
    <2> SUFFICES ASSUME NEW p \in Owners PROVE Remembers(p)' /\ InHand(p)'
      OBVIOUS
    <2>1. Remembers(p) /\ InHand(p)
      BY DEF VoiceInv
    <2>2. Remembers(p)'
      BY <1>1, <1>2, <2>1, MemoryStays
    <2>3. InHand(p)'
      BY <1>1, <1>2, <2>1 DEF InHand, Placed, PlaceOf
    <2> QED
      BY <2>2, <2>3
  <1>6. \A v \in written' : Numbered(v)'
    <2> SUFFICES ASSUME NEW v \in written PROVE Numbered(v)'
      BY <1>1
    <2>1. Numbered(v) /\ v.owner \in Owners
      BY <1>1 DEF VoiceInv, VoicesTyped
    <2> QED
      BY <1>1, <1>4, <2>1 DEF Numbered
  <1>7. InTurn'
    BY <1>1 DEF VoiceInv, InTurn
  <1> QED
    BY <1>3, <1>5, <1>6, <1>7, InvKeeps

\* The slot changes hands: nothing but what InTurn says depends on it.
LEMMA SlotMoves ==
    ASSUME VoiceInv, NEW o, o \in Owners, Assign(o) \/ Free(o)
    PROVE  VoiceInv'
  <1>1. /\ UNCHANGED <<arrived, skips, silent, hand, base, last, written>>
        /\ tenure' = [tenure EXCEPT ![o] = IF Assign(o) THEN "in" ELSE "out"] /\ VoicesTyped
    BY DEF Assign, Free, VoiceInv
  <1>2. VoicesTyped'
    BY <1>1 DEF VoicesTyped, VoiceTypeOK, Seqs
  <1>3. \A p \in Owners : Remembers(p)' /\ InHand(p)'
    BY <1>1 DEF VoiceInv, Remembers, InHand, Placed, PlaceOf, Recent, Counted, Awaited, Seqs
  <1>4. \A v \in written' : Numbered(v)'
    BY <1>1 DEF VoiceInv, Numbered, Placed, PlaceOf
  <1>5. InTurn'
    <2>1. tenure \in [Owners -> {"new", "in", "out"}] /\ InTurn
      BY <1>1 DEF VoicesTyped, VoiceTypeOK, VoiceInv
    <2>2. CASE Assign(o)
      <3>1. tenure' = [tenure EXCEPT ![o] = "in"] /\ tenure[o] = "new" /\ base[o] = NoBase
            /\ \A p \in Owners : tenure[p] # "in"
        BY <2>1, <2>2 DEF Assign, InTurn
      <3> QED
        BY <1>1, <2>1, <3>1 DEF InTurn
    <2>3. CASE Free(o)
      <3>1. tenure' = [tenure EXCEPT ![o] = "out"]
        BY <2>3 DEF Free
      <3> QED
        BY <1>1, <2>1, <3>1 DEF InTurn
    <2> QED
      BY <2>2, <2>3
  <1> QED
    BY <1>2, <1>3, <1>4, <1>5, InvKeeps

\* A packet taken while the owner had no place in the slot is gone.
LEMMA ForwardKeeps ==
    ASSUME VoiceInv, NEW o, o \in Owners, Forward(o)
    PROVE  VoiceInv'
  <1> DEFINE b == BaseOf(o)
             sh == hand[o].shifted
             seq == b.out + sh - b.in
             w == [owner |-> o, n |-> hand[o].n, seq |-> seq, stale |-> tenure[o] = "out"]
  <1>1. /\ hand[o] # NoPacket /\ hand' = [hand EXCEPT ![o] = NoPacket]
        /\ UNCHANGED <<arrived, skips, silent, tenure>> /\ VoicesTyped
    BY DEF Forward, VoiceInv
  <1>2. \/ UNCHANGED <<base, last, written>>
        \/ /\ hand[o].to /\ base' = [base EXCEPT ![o] = b]
           /\ \/ UNCHANGED <<last, written>>
              \/ /\ ~(sh < b.in) /\ last' = IF seq > last THEN seq ELSE last
                 /\ written' = written \union {w}
    BY DEF Forward
  <1>3. /\ base \in [Owners -> [in : Nat, out : Nat]] /\ last \in Nat /\ hand \in [Owners -> [n : Nat, shifted : Nat, to : BOOLEAN]]
        /\ base[o] \in [in : Nat, out : Nat] /\ hand[o].n \in Nat /\ sh \in Nat
    BY <1>1 DEF VoicesTyped, VoiceTypeOK
  <1>4. /\ b \in [in : Nat, out : Nat] /\ b # NoBase /\ (base[o] # NoBase => b = base[o])
        /\ (base[o] = NoBase => b.out = last + 1)
    <2>1. [in |-> sh, out |-> last + 1] \in [in : Nat, out : Nat] /\ [in |-> sh, out |-> last + 1] # NoBase
      <3>1. last + 1 # 0 /\ last + 1 \in Nat
        BY <1>3
      <3> QED
        BY <1>3, <3>1 DEF NoBase
    <2>2. b = IF base[o] = NoBase THEN [in |-> sh, out |-> last + 1] ELSE base[o]
      BY DEF BaseOf
    <2> HIDE DEF b
    <2> QED
      BY <1>3, <2>1, <2>2
  <1>5. Placed(o, hand[o].n) /\ sh = PlaceOf(o, hand[o].n)
    BY <1>1 DEF VoiceInv, InHand
  <1>6. \A p \in Owners : \A m : Placed(p, m)' = Placed(p, m) /\ PlaceOf(p, m)' = PlaceOf(p, m)
    BY <1>1 DEF Placed, PlaceOf
  <1>7. \A p \in Owners : Remembers(p)' /\ InHand(p)'
    <2> SUFFICES ASSUME NEW p \in Owners PROVE Remembers(p)' /\ InHand(p)'
      OBVIOUS
    <2>1. Remembers(p)'
      BY <1>1, MemoryStays DEF VoiceInv
    <2>2. InHand(p)'
      <3>1. InHand(p)
        BY DEF VoiceInv
      <3>2. CASE p = o
        BY <1>1, <1>3, <3>2 DEF InHand
      <3>3. CASE p # o
        <4>1. hand'[p] = hand[p]
          BY <1>1, <3>3, <1>3
        <4> QED
          BY <1>1, <3>1, <4>1 DEF InHand, Placed, PlaceOf
      <3> QED
        BY <3>2, <3>3
    <2> QED
      BY <2>1, <2>2
  <1> HIDE DEF b, w
  <1>8. hand' \in [Owners -> [n : Nat, shifted : Nat, to : BOOLEAN]]
    BY <1>1, <1>3 DEF NoPacket
  <1>9. CASE UNCHANGED <<base, last, written>>
    <2>1. VoicesTyped'
      BY <1>1, <1>8, <1>9 DEF VoicesTyped, VoiceTypeOK, Seqs
    <2>2. \A v \in written' : Numbered(v)'
      BY <1>1, <1>9 DEF VoiceInv, Numbered, Placed, PlaceOf
    <2>3. InTurn'
      <3>1. \A p \in Owners : ~hand[p].to => ~hand'[p].to
        BY <1>1, <1>3 DEF NoPacket
      <3> QED
        BY <1>1, <1>9, <3>1 DEF VoiceInv, InTurn
    <2> QED
      BY <1>7, <2>1, <2>2, <2>3, InvKeeps
  <1>10. CASE hand[o].to /\ base' = [base EXCEPT ![o] = b]
    <2>1. /\ base' \in [Owners -> [in : Nat, out : Nat]] /\ base'[o] = b
          /\ \A p \in Owners : p # o => base'[p] = base[p]
          /\ \A p \in Owners : base[p] # NoBase => base'[p] = base[p]
      BY <1>3, <1>4, <1>10
    <2>2. tenure[o] # "new" /\ tenure[o] \in {"new", "in", "out"}
      BY <1>1, <1>10 DEF VoiceInv, InTurn, VoicesTyped, VoiceTypeOK
    <2>3. \A v \in written : v.seq \in Nat /\ v.seq <= last /\ v.owner \in Owners
      BY <1>1 DEF VoiceInv, Numbered, VoicesTyped
    <2>4. tenure[o] = "in" => \A v \in written : v.owner # o /\ ~v.stale => v.seq < b.out
      <3> SUFFICES ASSUME tenure[o] = "in", NEW v \in written, v.owner # o, ~v.stale PROVE v.seq < b.out
        OBVIOUS
      <3>1. CASE base[o] = NoBase
        BY <1>3, <1>4, <2>3, <3>1
      <3>2. CASE base[o] # NoBase
        BY <1>4, <3>2 DEF VoiceInv, InTurn
      <3> QED
        BY <3>1, <3>2
    <2>5. \A p \in Owners : tenure'[p] = "new" => base'[p] = NoBase /\ ~hand'[p].to
      <3> SUFFICES ASSUME NEW p \in Owners, tenure[p] = "new" PROVE base'[p] = NoBase /\ ~hand'[p].to
        BY <1>1
      <3>1. base[p] = NoBase /\ ~hand[p].to /\ p # o
        BY <2>2 DEF VoiceInv, InTurn
      <3>2. hand'[p] = hand[p]
        BY <1>1, <1>3, <3>1
      <3> QED
        BY <2>1, <3>1, <3>2
    <2>6. \A v \in written : Numbered(v) /\ base'[v.owner] = base[v.owner]
      BY <2>1, <2>3 DEF VoiceInv, Numbered
    <2>7. CASE UNCHANGED <<last, written>>
      <3>1. VoicesTyped'
        BY <1>1, <1>8, <2>1, <2>7 DEF VoicesTyped, VoiceTypeOK, Seqs
      <3>2. \A v \in written' : Numbered(v)'
        BY <1>6, <2>3, <2>6, <2>7 DEF Numbered
      <3>3. InTurn'
        <4>1. ASSUME NEW p \in Owners, tenure[p] = "in", base'[p] # NoBase,
                     NEW v \in written, v.owner # p, ~v.stale
              PROVE  v.seq < base'[p].out
          <5>1. CASE p = o
            BY <2>1, <2>4, <4>1, <5>1
          <5>2. CASE p # o
            BY <2>1, <4>1, <5>2 DEF VoiceInv, InTurn
          <5> QED
            BY <5>1, <5>2
        <4> QED
          BY <1>1, <2>5, <2>7, <4>1 DEF VoiceInv, InTurn
      <3> QED
        BY <1>7, <3>1, <3>2, <3>3, InvKeeps
    <2>8. CASE ~(sh < b.in) /\ last' = (IF seq > last THEN seq ELSE last) /\ written' = written \union {w}
      <3>1. seq \in Nat /\ seq >= b.out /\ last' \in Nat /\ last' >= last /\ last' >= seq
        <4>1. b.in \in Nat /\ b.out \in Nat
          BY <1>4
        <4> HIDE DEF sh
        <4> QED
          BY <1>3, <2>8, <4>1
      <3>2. /\ w \in [owner : Owners, n : Nat, seq : Nat, stale : BOOLEAN] /\ w.owner = o /\ w.n = hand[o].n
            /\ w.seq = seq /\ (~w.stale => tenure[o] = "in")
        <4>1. w = [owner |-> o, n |-> hand[o].n, seq |-> seq, stale |-> tenure[o] = "out"]
          BY DEF w
        <4> HIDE DEF seq
        <4>2. w \in [owner : Owners, n : Nat, seq : Nat, stale : BOOLEAN] /\ w.owner = o /\ w.n = hand[o].n /\ w.seq = seq
          BY <1>3, <3>1, <4>1
        <4>3. w.stale = (tenure[o] = "out")
          BY <4>1
        <4>4. ~w.stale => tenure[o] # "out"
          BY <4>3
        <4> QED
          BY <2>2, <4>2, <4>4
      <3>3. VoicesTyped'
        BY <1>1, <1>8, <2>1, <2>8, <3>1, <3>2 DEF VoicesTyped, VoiceTypeOK, Seqs
      <3>4. \A v \in written' : Numbered(v)'
        <4>1. ASSUME NEW v \in written PROVE Numbered(v)'
          <5>1. Numbered(v) /\ base'[v.owner] = base[v.owner] /\ v.seq \in Nat /\ v.owner \in Owners
            BY <2>3, <2>6
          <5>2. v.seq <= last'
            BY <1>3, <2>3, <3>1, <5>1
          <5> QED
            BY <1>6, <5>1, <5>2 DEF Numbered
        <4>2. ASSUME NEW v, v = w PROVE Numbered(v)'
          <5>1. PICK k : k = hand[o].n
            OBVIOUS
          <5>2. Placed(o, k)' /\ PlaceOf(o, k)' = sh
            BY <1>5, <1>6, <5>1
          <5>3. v.n = k /\ v.owner = o /\ v.seq = b.out + sh - b.in /\ v.seq <= last'
            BY <3>1, <3>2, <4>2, <5>1
          <5>4. base'[o] = b /\ b # NoBase
            BY <1>4, <2>1
          <5> QED
            BY <5>2, <5>3, <5>4 DEF Numbered
        <4> QED
          BY <2>8, <4>1, <4>2
      <3>5. InTurn'
        <4>1. ASSUME NEW p \in Owners, tenure[p] = "in", base'[p] # NoBase,
                     NEW v \in written', v.owner # p, ~v.stale
              PROVE  v.seq < base'[p].out
          <5>1. CASE v \in written
            <6>1. CASE p = o
              BY <2>1, <2>4, <4>1, <5>1, <6>1
            <6>2. CASE p # o
              BY <2>1, <4>1, <5>1, <6>2 DEF VoiceInv, InTurn
            <6> QED
              BY <6>1, <6>2
          <5>2. CASE v = w
            <6>1. tenure[o] = "in" /\ o # p
              BY <3>2, <4>1, <5>2
            <6> QED
              BY <4>1, <6>1 DEF VoiceInv, InTurn
          <5> QED
            BY <2>8, <5>1, <5>2
        <4>2. ASSUME NEW v \in written, v.owner # o, ~v.stale, ~w.stale PROVE v.seq # w.seq
          <5>1. v.seq < b.out /\ v.seq \in Nat
            BY <2>3, <2>4, <3>2, <4>2
          <5> QED
            BY <1>4, <3>1, <3>2, <5>1
        <4>3. ASSUME NEW v \in written', NEW u \in written', v.owner # u.owner, ~v.stale, ~u.stale
              PROVE  v.seq # u.seq
          <5>1. CASE v \in written /\ u \in written
            BY <4>3, <5>1 DEF VoiceInv, InTurn
          <5>2. CASE v = w
            BY <2>8, <3>2, <4>2, <4>3, <5>2
          <5>3. CASE u = w
            BY <2>8, <3>2, <4>2, <4>3, <5>3
          <5> QED
            BY <2>8, <5>1, <5>2, <5>3
        <4> QED
          BY <1>1, <2>5, <4>1, <4>3 DEF VoiceInv, InTurn
      <3> QED
        BY <1>7, <3>3, <3>4, <3>5, InvKeeps
    <2> QED
      BY <1>2, <1>10, <2>7, <2>8
  <1> QED
    BY <1>2, <1>9, <1>10

LEMMA VoiceInvInit == VoiceInit => VoiceInv
  <1> SUFFICES ASSUME VoiceInit PROVE VoiceInv
    OBVIOUS
  <1>1. VoicesTyped
    BY VoiceConstants DEF VoiceInit, VoicesTyped, VoiceTypeOK, Seqs, NoPacket, NoBase
  <1>2. ASSUME NEW o \in Owners PROVE Remembers(o) /\ InHand(o)
    <2>1. Recent(o) = {} /\ Counted(o) = {} /\ skips[o].recent = <<>> /\ skips[o].older = 0
      BY DEF VoiceInit, Recent, Counted
    <2>2. Cardinality(Counted(o)) = 0
      BY <2>1, FS_EmptySet
    <2>3. Remembers(o)
      BY <2>1, <2>2 DEF Remembers
    <2> QED
      BY <2>3 DEF InHand, VoiceInit
  <1>3. InTurn /\ written = {}
    BY DEF VoiceInit, InTurn, NoPacket
  <1> QED
    BY <1>1, <1>2, <1>3 DEF VoiceInv

LEMMA VoiceInvStep == VoiceInv /\ [VoiceNext]_voiceVars => VoiceInv'
  <1> SUFFICES ASSUME VoiceInv, [VoiceNext]_voiceVars PROVE VoiceInv'
    OBVIOUS
  <1>1. CASE UNCHANGED voiceVars
    <2>1. UNCHANGED <<arrived, skips, silent, tenure, hand, base, last, written>>
      BY <1>1 DEF voiceVars
    <2>2. VoicesTyped'
      BY <2>1 DEF VoiceInv, VoicesTyped, VoiceTypeOK, Seqs
    <2>3. \A o \in Owners : Remembers(o)'
      BY <2>1, MemoryStays DEF VoiceInv
    <2>4. \A o \in Owners : InHand(o)'
      BY <2>1 DEF VoiceInv, InHand, Placed, PlaceOf
    <2>5. \A v \in written' : Numbered(v)'
      BY <2>1 DEF VoiceInv, Numbered, Placed, PlaceOf
    <2>6. InTurn'
      BY <2>1 DEF VoiceInv, InTurn
    <2> QED
      BY <2>2, <2>3, <2>4, <2>5, <2>6, InvKeeps
  <1>2. ASSUME NEW o \in Owners, Forward(o) PROVE VoiceInv'
    BY <1>2, ForwardKeeps
  <1>3. ASSUME NEW o \in Owners, Assign(o) \/ Free(o) PROVE VoiceInv'
    BY <1>3, SlotMoves
  <1>4. ASSUME NEW o \in Owners, NEW n \in Seqs(o), NEW silence \in BOOLEAN, Arrive(o, n, silence) PROVE VoiceInv'
    <2>1. Drops(o, n) \/ TakesUp(o, n)
      BY <1>4, ArriveDoes DEF VoiceInv
    <2> QED
      BY <2>1, DropsKeep, TakesKeep
  <1>5. ASSUME NEW o \in Owners, NEW n \in Seqs(o), Lose(o, n) PROVE VoiceInv'
    BY <1>5, LoseKeeps
  <1> QED
    BY <1>1, <1>2, <1>3, <1>4, <1>5 DEF VoiceNext

\* Between two packets of an owner lie as many numbers as packets that were not dropped.
LEMMA PlacesApart ==
    ASSUME VoicesTyped, NEW o, o \in Owners, NEW m, NEW n, Placed(o, m), Placed(o, n), m < n
    PROVE  /\ PlaceOf(o, n) - PlaceOf(o, m) = Cardinality((m + 1 .. n) \ silent[o])
           /\ PlaceOf(o, n) \in Nat /\ PlaceOf(o, m) \in Nat
  <1> DEFINE S == silent[o]
             I == m + 1 .. n
  <1>1. /\ S \subseteq 1 .. Packets[o] /\ Packets[o] \in Nat /\ m \in 1 .. Packets[o] /\ n \in 1 .. Packets[o]
        /\ m \notin S /\ n \notin S /\ m \in Nat /\ n \in Nat
    BY VoiceConstants DEF VoicesTyped, VoiceTypeOK, Placed, Seqs
  <1>2. /\ Cardinality(Below(S, m)) \in Nat /\ IsFiniteSet(Below(S, m)) /\ PlaceOf(o, m) \in Nat
        /\ Cardinality(Below(S, n)) \in Nat /\ IsFiniteSet(Below(S, n)) /\ PlaceOf(o, n) \in Nat
    BY <1>1, BelowCount DEF PlaceOf
  <1>3. Below(S, n) = Below(S, m) \union (I \cap S) /\ Below(S, m) \cap (I \cap S) = {}
    <2>1. \A s \in S : s \in Nat
      BY <1>1
    <2>2. \A s \in S : s < n <=> s < m \/ s \in I
      <3> SUFFICES ASSUME NEW s \in S PROVE s < n <=> s < m \/ s \in I
        OBVIOUS
      <3>1. s \in Nat /\ s # m /\ s # n
        BY <1>1, <2>1
      <3> QED
        BY <1>1, <3>1
    <2>3. \A s \in S : ~(s < m /\ s \in I)
      BY <1>1, <2>1
    <2> HIDE DEF I
    <2> QED
      BY <2>2, <2>3 DEF Below
  <1>4. IsFiniteSet(I) /\ Cardinality(I) = n - m
    <2>1. m + 1 \in Int /\ n \in Int
      BY <1>1
    <2>2. IsFiniteSet(I) /\ Cardinality(I) = IF m + 1 > n THEN 0 ELSE n - (m + 1) + 1
      BY <2>1, FS_Interval
    <2> QED
      BY <1>1, <2>2
  <1>5. IsFiniteSet(I \cap S) /\ Cardinality(I \cap S) \in Nat
    BY <1>4, FS_Intersection, FS_CardinalityType
  <1>6. Cardinality(I \ S) = Cardinality(I) - Cardinality(I \cap S)
    BY <1>4, FS_Difference
  <1>7. Cardinality(Below(S, n)) = Cardinality(Below(S, m)) + Cardinality(I \cap S)
    <2>1. Cardinality(Below(S, m) \union (I \cap S)) =
            Cardinality(Below(S, m)) + Cardinality(I \cap S) - Cardinality(Below(S, m) \cap (I \cap S))
      BY <1>2, <1>5, FS_Union
    <2>2. Cardinality(Below(S, m) \cap (I \cap S)) = 0
      BY <1>3, FS_EmptySet
    <2> HIDE DEF I, S
    <2> QED
      BY <1>2, <1>3, <1>5, <2>1, <2>2
  <1>8. PlaceOf(o, n) = n - Cardinality(Below(S, n)) /\ PlaceOf(o, m) = m - Cardinality(Below(S, m))
    BY DEF PlaceOf
  <1>9. Cardinality(I) \in Nat
    BY <1>4, FS_CardinalityType
  <1>10. Cardinality((m + 1 .. n) \ silent[o]) = Cardinality(I \ S)
    OBVIOUS
  <1> HIDE DEF I, S
  <1> QED
    BY <1>1, <1>2, <1>4, <1>5, <1>6, <1>7, <1>8, <1>9, <1>10

\* The packets of voices become one run of numbers: each owner's are apart by what lies
\* between them less the dropped silence, whatever the network does to them within its reach,
\* and two owners' collide only if the first one's thread wrote late (AudioTrack::shift and
\* skip, Sub::map).
THEOREM OneRunPerSlot == VoiceSpec => []VoiceIsContinuous
  <1>1. VoiceInv => VoiceIsContinuous
    <2> SUFFICES ASSUME VoiceInv, NEW v \in written, NEW w \in written
                 PROVE  /\ v.owner = w.owner /\ v.n < w.n =>
                                w.seq - v.seq = Cardinality((v.n + 1 .. w.n) \ silent[v.owner])
                        /\ v.owner # w.owner /\ v.seq = w.seq => v.stale \/ w.stale
      BY DEF VoiceIsContinuous
    <2>1. Numbered(v) /\ Numbered(w) /\ v.owner \in Owners /\ w.owner \in Owners /\ VoicesTyped
      BY DEF VoiceInv, VoicesTyped
    <2>2. ASSUME v.owner = w.owner, v.n < w.n
          PROVE  w.seq - v.seq = Cardinality((v.n + 1 .. w.n) \ silent[v.owner])
      <3>1. /\ PlaceOf(v.owner, w.n) - PlaceOf(v.owner, v.n) = Cardinality((v.n + 1 .. w.n) \ silent[v.owner])
            /\ PlaceOf(v.owner, w.n) \in Nat /\ PlaceOf(v.owner, v.n) \in Nat
        BY <2>1, <2>2, PlacesApart DEF Numbered
      <3>2. base[v.owner].out \in Nat /\ base[v.owner].in \in Nat
        BY <2>1 DEF VoicesTyped, VoiceTypeOK
      <3>3. /\ v.seq = base[v.owner].out + PlaceOf(v.owner, v.n) - base[v.owner].in
            /\ w.seq = base[v.owner].out + PlaceOf(v.owner, w.n) - base[v.owner].in
        BY <2>1, <2>2 DEF Numbered
      <3> QED
        BY <3>1, <3>2, <3>3
    <2>3. v.owner # w.owner /\ v.seq = w.seq => v.stale \/ w.stale
      BY DEF VoiceInv, InTurn
    <2> QED
      BY <2>2, <2>3
  <1> QED
    BY <1>1, VoiceInvInit, VoiceInvStep, PTL DEF VoiceSpec
=============================================================================
