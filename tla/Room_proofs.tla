---------------------------- MODULE Room_proofs ----------------------------
(***************************************************************************)
(* Proofs about Room, and about Presence above it, for every set of peers, *)
(* clients and subscribers and every capacity of the queues.               *)
(*                                                                         *)
(* The participant list: Mirror says that what a client will show of a     *)
(* peer, when it has handled its queue and had its welcome, is right up to *)
(* what the handlers still owe it.  That survives a broadcast because of   *)
(* the order in which the sessions of one client joined (Ordered): a       *)
(* joining that comes after the joining of its successor also comes after  *)
(* a leaving it should have preceded, so the client was told too early.    *)
(* Naming a slot (Hears) changes one queue and nothing that is owed.       *)
(*                                                                         *)
(* The lobby list: it shows of a peer what the last frame about it says    *)
(* (Ends), and InStep says that this is the truth or that a frame about    *)
(* the peer is still to be pushed.                                         *)
(***************************************************************************)
EXTENDS Presence, FiniteSetTheorems, SequenceTheorems, TLAPS

RoomStage == {"new", "accepted", "hello", "busy", "in", "leaving", "gone"}

-----------------------------------------------------------------------------
(* What a handler still has to do.                                         *)

IsMsg(w) == "msg" \in DOMAIN w

\* These works owe c a message of this event about q.
Owes(s, c, event, q) ==
    \E i \in DOMAIN s :
        IsMsg(s[i]) /\ c \in s[i].to /\ s[i].msg.event = event /\ s[i].msg.id = q

\* The welcome among these works shows q as b.
Welcomes(s, q, b) == \A i \in DOMAIN s : IsMsg(s[i]) /\ s[i].msg.event = "welcome" => s[i].msg.peers[q] = b

\* A handler of h, whose entry is n, tells what h is now, to h alone that it is welcome, and
\* of an evicted session before it announces h to the same peers; it tells nothing twice.
Item(h, n, s, i) == IsMsg(s[i]) =>
    /\ s[i].msg.event = "welcome" => s[i].msg.id = h /\ s[i].to = {h}
    /\ s[i].msg.event \in {"peer-joined", "peer-state", "peer-info"} => s[i].msg.id = h /\ s[i].msg.info = n
    /\ s[i].msg.event \in {"peer-state", "peer-info"} => Len(s) = 1
    /\ s[i].msg.event = "peer-joined" => i = Len(s)
    /\ s[i].msg.event = "peer-left" /\ s[i].msg.id = h => Len(s) = 1
    /\ s[i].msg.event = "peer-left" /\ s[i].msg.id # h =>
        SameClient(s[i].msg.id, h) /\ \A c \in s[i].to : Owes(s, c, "peer-joined", h)
    /\ \A j \in DOMAIN s : j # i /\ IsMsg(s[j]) => s[j].msg.event # s[i].msg.event

WorkOf(h, n, s) == s \in Seq(Work) /\ \A i \in DOMAIN s : Item(h, n, s, i)

LEMMA WorkKinds ==
    ASSUME NEW w, w \in Work
    PROVE  /\ IsMsg(w) => w.msg \in Message /\ w.to \in SUBSET Peers
           /\ "cancel" \in DOMAIN w => ~IsMsg(w) /\ w.cancel \in Peers
           /\ ~IsMsg(w) => "cancel" \in DOMAIN w
  <1>1. CASE w \in [cancel : Peers]
    <2>1. DOMAIN w = {"cancel"} /\ w.cancel \in Peers
      BY <1>1
    <2> QED BY <2>1 DEF IsMsg
  <1>2. CASE w \in [msg : Message, to : SUBSET Peers]
    <2>1. DOMAIN w = {"msg", "to"} /\ w.msg \in Message /\ w.to \in SUBSET Peers
      BY <1>2
    <2> QED BY <2>1 DEF IsMsg
  <1> QED BY <1>1, <1>2 DEF Work

LEMMA TellIsWork ==
    ASSUME NEW m, m \in Message, NEW to, to \in SUBSET Peers
    PROVE  /\ [msg |-> m, to |-> to] \in Work /\ IsMsg([msg |-> m, to |-> to])
           /\ [msg |-> m, to |-> to].msg = m /\ [msg |-> m, to |-> to].to = to
  BY DEF Work, IsMsg

LEMMA CancelIsWork ==
    ASSUME NEW z, z \in Peers
    PROVE  [cancel |-> z] \in Work /\ ~IsMsg([cancel |-> z])
  BY DEF Work, IsMsg

LEMMA MessageKinds ==
    ASSUME NEW m, m \in Message
    PROVE  /\ m.event \in {"welcome", "peer-joined", "peer-left", "peer-state", "peer-info"}
           /\ m.id \in Peers
           /\ m.event \in {"peer-joined", "peer-state", "peer-info"} => m.info \in Info
           /\ m.event = "welcome" => m.peers \in Roster
  BY DEF Message

\* One message less, to one peer.
LessOne(s, u, c0) ==
    /\ \A c, event, q : Owes(u, c, event, q) <=>
        Owes(s, c, event, q) /\ ~(c = c0 /\ event = s[1].msg.event /\ q = s[1].msg.id)
    /\ \A q, b : Welcomes(s, q, b) => Welcomes(u, q, b)

\* The head is done, or replaced.
HeadGone(s, u) ==
    /\ u \in Seq(Work) /\ Len(u) = Len(s) - 1 /\ DOMAIN u = 1 .. Len(s) - 1
    /\ \A i \in DOMAIN u : i + 1 \in DOMAIN s /\ i + 1 # 1 /\ u[i] = s[i + 1]
    /\ \A i \in DOMAIN s : i # 1 => i - 1 \in DOMAIN u /\ u[i - 1] = s[i]

HeadIs(s, u, w) ==
    /\ u \in Seq(Work) /\ Len(u) = Len(s) /\ DOMAIN u = DOMAIN s
    /\ u[1] = w /\ \A i \in DOMAIN s : i # 1 => u[i] = s[i]

LEMMA TailDrops ==
    ASSUME NEW s, s \in Seq(Work), s # <<>>
    PROVE  HeadGone(s, Tail(s)) /\ <<>> \o Tail(s) = Tail(s)
  <1> DEFINE u == Tail(s)
  <1>1. u \in Seq(Work) /\ Len(u) = Len(s) - 1 /\ Len(s) \in Nat \ {0}
        /\ DOMAIN s = 1 .. Len(s) /\ \A i \in 1 .. Len(s) - 1 : u[i] = s[i + 1]
    OBVIOUS
  <1>2. <<>> \o u = u
    BY <1>1
  <1> HIDE DEF u
  <1>3. DOMAIN u = 1 .. Len(s) - 1
    BY <1>1
  <1>4. \A i \in DOMAIN u : i + 1 \in DOMAIN s /\ i + 1 # 1 /\ u[i] = s[i + 1]
    BY <1>1, <1>3
  <1>5. ASSUME NEW i \in DOMAIN s, i # 1 PROVE i - 1 \in DOMAIN u /\ u[i - 1] = s[i]
    <2>1. i - 1 \in 1 .. Len(s) - 1 /\ (i - 1) + 1 = i
      BY <1>1, <1>5
    <2> QED BY <1>1, <1>3, <2>1
  <1>6. HeadGone(s, u)
    BY <1>1, <1>3, <1>4, <1>5 DEF HeadGone
  <1> QED BY <1>2, <1>6 DEF u

LEMMA TellTail ==
    ASSUME NEW s, s \in Seq(Work), s # <<>>, NEW w, w \in Work
    PROVE  HeadIs(s, <<w>> \o Tail(s), w)
  <1>1. Tail(s) \in Seq(Work) /\ Len(Tail(s)) = Len(s) - 1 /\ Len(s) \in Nat \ {0}
        /\ \A i \in 1 .. Len(s) - 1 : Tail(s)[i] = s[i + 1]
    OBVIOUS
  <1>2. <<w>> \in Seq(Work) /\ Len(<<w>>) = 1 /\ <<w>>[1] = w
    OBVIOUS
  <1> DEFINE t == Tail(s)
             o == <<w>>
             u == o \o t
  <1>4. t \in Seq(Work) /\ o \in Seq(Work) /\ Len(o) = 1 /\ Len(t) = Len(s) - 1
    BY <1>1, <1>2
  <1> HIDE DEF t, o
  <1>5. /\ u \in Seq(Work) /\ Len(u) = Len(o) + Len(t)
        /\ \A i \in 1 .. Len(o) + Len(t) : u[i] = IF i <= Len(o) THEN o[i] ELSE t[i - Len(o)]
    BY <1>4, ConcatProperties
  <1> HIDE DEF u
  <1>6. Len(u) = Len(s) /\ u[1] = w
    BY <1>1, <1>2, <1>4, <1>5 DEF o
  <1>7. ASSUME NEW i \in 2 .. Len(s) PROVE u[i] = s[i]
    <2>1. i \in 1 .. Len(o) + Len(t) /\ ~(i <= Len(o)) /\ i - 1 \in 1 .. Len(s) - 1 /\ i - Len(o) = i - 1
      BY <1>1, <1>4
    <2>2. u[i] = t[i - 1]
      BY <1>5, <2>1
    <2>3. t[i - 1] = s[(i - 1) + 1]
      BY <1>1, <2>1 DEF t
    <2> QED BY <2>1, <2>2, <2>3
  <1>8. DOMAIN u = DOMAIN s
    <2>1. DOMAIN u = 1 .. Len(u)
      BY <1>5
    <2>2. DOMAIN s = 1 .. Len(s)
      OBVIOUS
    <2> QED BY <1>6, <2>1, <2>2
  <1>9. \A i \in DOMAIN s : i # 1 => u[i] = s[i]
    BY <1>1, <1>7
  <1>10. HeadIs(s, u, w)
    BY <1>5, <1>6, <1>8, <1>9 DEF HeadIs
  <1> QED BY <1>10 DEF u, o, t

LEMMA SendWork ==
    ASSUME NEW h, NEW n, NEW s, WorkOf(h, n, s), s # <<>>, IsMsg(s[1]), NEW c0, c0 \in s[1].to,
           NEW u, u = Tell(s[1].msg, s[1].to \ {c0}) \o Tail(s)
    PROVE  WorkOf(h, n, u) /\ LessOne(s, u, c0)
  <1> DEFINE m == s[1].msg
             rest == s[1].to \ {c0}
  <1>1. /\ s \in Seq(Work) /\ Len(s) \in Nat \ {0} /\ DOMAIN s = 1 .. Len(s) /\ 1 \in DOMAIN s
        /\ s[1] \in Work
    BY DEF WorkOf
  <1>2. m \in Message /\ s[1].to \in SUBSET Peers /\ rest \in SUBSET Peers
    BY <1>1, WorkKinds
  <1>3. \A i \in DOMAIN s : Item(h, n, s, i)
    BY DEF WorkOf
  <1>4. \A j \in DOMAIN s : j # 1 /\ IsMsg(s[j]) => s[j].msg.event # m.event
    BY <1>1, <1>3 DEF Item
  <1>5. CASE rest = {}
    <2>1. u = <<>> \o Tail(s)
      BY <1>5 DEF Tell
    <2>2. /\ u \in Seq(Work) /\ Len(u) = Len(s) - 1 /\ DOMAIN u = 1 .. Len(s) - 1
          /\ \A i \in DOMAIN u : i + 1 \in DOMAIN s /\ i + 1 # 1 /\ u[i] = s[i + 1]
          /\ \A i \in DOMAIN s : i # 1 => i - 1 \in DOMAIN u /\ u[i - 1] = s[i]
      <3>1. HeadGone(s, u)
        BY <1>1, <2>1, TailDrops
      <3> QED BY <3>1 DEF HeadGone
    <2>3. ASSUME NEW c, NEW event, NEW q
          PROVE  Owes(u, c, event, q) <=>
                   Owes(s, c, event, q) /\ ~(c = c0 /\ event = m.event /\ q = m.id)
      <3>1. ASSUME Owes(u, c, event, q)
            PROVE  Owes(s, c, event, q) /\ ~(c = c0 /\ event = m.event /\ q = m.id)
        BY <1>4, <2>2, <3>1 DEF Owes
      <3>2. ASSUME Owes(s, c, event, q), ~(c = c0 /\ event = m.event /\ q = m.id)
            PROVE  Owes(u, c, event, q)
        <4>1. PICK i \in DOMAIN s :
                IsMsg(s[i]) /\ c \in s[i].to /\ s[i].msg.event = event /\ s[i].msg.id = q
          BY <3>2 DEF Owes
        <4>2. i # 1
          BY <1>5, <3>2, <4>1
        <4> QED BY <2>2, <4>1, <4>2 DEF Owes
      <3> QED BY <3>1, <3>2
    <2>4. \A q, b : Welcomes(s, q, b) => Welcomes(u, q, b)
      BY <2>2 DEF Welcomes
    <2>5. ASSUME NEW i \in DOMAIN u PROVE Item(h, n, u, i)
      <3>1. i + 1 \in DOMAIN s /\ u[i] = s[i + 1] /\ Item(h, n, s, i + 1) /\ Len(s) # 1
        <4>1. i + 1 \in DOMAIN s /\ u[i] = s[i + 1] /\ i + 1 # 1
          BY <2>2
        <4>2. Item(h, n, s, i + 1)
          BY <1>3, <4>1
        <4>3. Len(s) # 1
          BY <1>1, <4>1
        <4> QED BY <4>1, <4>2, <4>3
      <3>2. u[i].msg.event = "peer-joined" /\ IsMsg(u[i]) => i = Len(u)
        <4>1. u[i].msg.event = "peer-joined" /\ IsMsg(u[i]) => i + 1 = Len(s)
          BY <3>1 DEF Item
        <4>2. Len(u) = Len(s) - 1 /\ i \in 1 .. Len(s) - 1
          BY <2>2
        <4>3. i \in Int /\ Len(s) \in Int
          <5>1. Len(s) \in Int
            BY <1>1
          <5>2. \A k \in 1 .. Len(s) - 1 : k \in Int
            OBVIOUS
          <5> QED BY <4>2, <5>1, <5>2
        <4>4. i + 1 = Len(s) => i = Len(s) - 1
          BY <4>3
        <4> QED BY <4>1, <4>2, <4>4
      <3>3. ASSUME IsMsg(u[i]), u[i].msg.event = "peer-left", u[i].msg.id # h, NEW c \in u[i].to
            PROVE  Owes(u, c, "peer-joined", h)
        <4>1. Owes(s, c, "peer-joined", h)
          BY <3>1, <3>3 DEF Item
        <4>2. m.event # "peer-joined"
          BY <1>1, <1>3, <3>1 DEF Item
        <4> QED BY <2>3, <4>1, <4>2
      <3>4. \A j \in DOMAIN u : j # i /\ IsMsg(u[j]) /\ IsMsg(u[i]) => u[j].msg.event # u[i].msg.event
        <4> SUFFICES ASSUME NEW j \in DOMAIN u, j # i, IsMsg(u[j]), IsMsg(u[i])
                     PROVE  u[j].msg.event # u[i].msg.event
          OBVIOUS
        <4>1. j + 1 \in DOMAIN s /\ u[j] = s[j + 1] /\ j + 1 # i + 1
          BY <2>2, <3>1
        <4> QED BY <3>1, <4>1 DEF Item
      <3> QED BY <3>1, <3>2, <3>3, <3>4 DEF Item
    <2> QED BY <2>2, <2>3, <2>4, <2>5 DEF WorkOf, LessOne
  <1>6. CASE rest # {}
    <2> DEFINE w == [msg |-> m, to |-> rest]
    <2>1. u = <<w>> \o Tail(s) /\ w \in Work /\ IsMsg(w) /\ w.msg = m /\ w.to = rest
      BY <1>2, <1>6, TellIsWork DEF Tell
    <2> HIDE DEF w
    <2>2. /\ u \in Seq(Work) /\ Len(u) = Len(s) /\ DOMAIN u = DOMAIN s
          /\ u[1] = w /\ \A i \in DOMAIN s : i # 1 => u[i] = s[i]
      <3>1. HeadIs(s, u, w)
        BY <1>1, <2>1, TellTail
      <3> QED BY <3>1 DEF HeadIs
    <2>3. ASSUME NEW c, NEW event, NEW q
          PROVE  Owes(u, c, event, q) <=>
                   Owes(s, c, event, q) /\ ~(c = c0 /\ event = m.event /\ q = m.id)
      <3>1. ASSUME Owes(u, c, event, q)
            PROVE  Owes(s, c, event, q) /\ ~(c = c0 /\ event = m.event /\ q = m.id)
        <4>1. PICK i \in DOMAIN u :
                IsMsg(u[i]) /\ c \in u[i].to /\ u[i].msg.event = event /\ u[i].msg.id = q
          BY <3>1 DEF Owes
        <4>2. CASE i = 1
          BY <1>1, <2>1, <2>2, <4>1, <4>2 DEF Owes
        <4>3. CASE i # 1
          BY <1>4, <2>2, <4>1, <4>3 DEF Owes
        <4> QED BY <4>2, <4>3
      <3>2. ASSUME Owes(s, c, event, q), ~(c = c0 /\ event = m.event /\ q = m.id)
            PROVE  Owes(u, c, event, q)
        <4>1. PICK i \in DOMAIN s :
                IsMsg(s[i]) /\ c \in s[i].to /\ s[i].msg.event = event /\ s[i].msg.id = q
          BY <3>2 DEF Owes
        <4>2. CASE i = 1
          <5>1. c \in rest
            BY <3>2, <4>1, <4>2
          <5> QED BY <2>1, <2>2, <4>1, <4>2, <5>1 DEF Owes
        <4>3. CASE i # 1
          BY <2>2, <4>1, <4>3 DEF Owes
        <4> QED BY <4>2, <4>3
      <3> QED BY <3>1, <3>2
    <2>4. \A q, b : Welcomes(s, q, b) => Welcomes(u, q, b)
      BY <1>1, <2>1, <2>2 DEF Welcomes
    <2>5. \A i \in DOMAIN u : /\ IsMsg(u[i]) <=> IsMsg(s[i])
                              /\ IsMsg(u[i]) => u[i].msg = s[i].msg /\ u[i].to \subseteq s[i].to
      BY <2>1, <2>2
    <2>6. ASSUME NEW i \in DOMAIN u PROVE Item(h, n, u, i)
      <3>1. i \in DOMAIN s /\ Item(h, n, s, i)
        BY <1>3, <2>2
      <3>2. ASSUME IsMsg(u[i]), u[i].msg.event = "peer-left", u[i].msg.id # h, NEW c \in u[i].to
            PROVE  Owes(u, c, "peer-joined", h)
        <4>1. Owes(s, c, "peer-joined", h)
          BY <2>5, <3>1, <3>2 DEF Item
        <4>2. m.event # "peer-joined"
          <5>1. m.event = "peer-joined" => 1 = Len(s)
            BY <1>1, <1>3 DEF Item
          <5>2. Len(s) = 1 => i = 1
            BY <1>1, <3>1
          <5> QED BY <2>5, <3>2, <5>1, <5>2
        <4> QED BY <2>3, <4>1, <4>2
      <3>3. ASSUME IsMsg(u[i]), u[i].msg.event = "welcome" PROVE u[i].to = {h}
        <4>1. i # 1
          <5>1. i = 1 => s[1].to = {h}
            BY <2>5, <3>1, <3>3 DEF Item
          <5> QED BY <1>6, <5>1
        <4> QED BY <2>2, <3>1, <3>3, <4>1 DEF Item
      <3>4. \A j \in DOMAIN u : j # i /\ IsMsg(u[j]) /\ IsMsg(u[i]) => u[j].msg.event # u[i].msg.event
        BY <2>2, <2>5, <3>1 DEF Item
      <3> QED BY <2>2, <2>5, <3>1, <3>2, <3>3, <3>4 DEF Item
    <2> QED BY <2>2, <2>3, <2>4, <2>6 DEF WorkOf, LessOne
  <1> QED BY <1>5, <1>6

LEMMA CancelWork ==
    ASSUME NEW h, NEW n, NEW s, WorkOf(h, n, s), s # <<>>, ~IsMsg(s[1])
    PROVE  /\ WorkOf(h, n, Tail(s))
           /\ \A c, event, q : Owes(Tail(s), c, event, q) <=> Owes(s, c, event, q)
           /\ \A q, b : Welcomes(s, q, b) => Welcomes(Tail(s), q, b)
  <1> DEFINE u == Tail(s)
  <1>1. /\ s \in Seq(Work) /\ Len(s) \in Nat \ {0} /\ DOMAIN s = 1 .. Len(s) /\ 1 \in DOMAIN s
        /\ \A i \in DOMAIN s : Item(h, n, s, i)
    BY DEF WorkOf
  <1>2. HeadGone(s, u)
    BY <1>1, TailDrops
  <1> HIDE DEF u
  <1>3. /\ u \in Seq(Work) /\ Len(u) = Len(s) - 1 /\ DOMAIN u = 1 .. Len(s) - 1
        /\ \A i \in DOMAIN u : i + 1 \in DOMAIN s /\ i + 1 # 1 /\ u[i] = s[i + 1]
        /\ \A i \in DOMAIN s : i # 1 => i - 1 \in DOMAIN u /\ u[i - 1] = s[i]
    BY <1>2 DEF HeadGone
  <1>4. ASSUME NEW c, NEW event, NEW q PROVE Owes(u, c, event, q) <=> Owes(s, c, event, q)
    <2>1. Owes(u, c, event, q) => Owes(s, c, event, q)
      BY <1>3 DEF Owes
    <2>2. ASSUME Owes(s, c, event, q) PROVE Owes(u, c, event, q)
      <3>1. PICK i \in DOMAIN s :
              IsMsg(s[i]) /\ c \in s[i].to /\ s[i].msg.event = event /\ s[i].msg.id = q
        BY <2>2 DEF Owes
      <3>2. i # 1
        BY <3>1
      <3> QED BY <1>3, <3>1, <3>2 DEF Owes
    <2> QED BY <2>1, <2>2
  <1>5. \A q, b : Welcomes(s, q, b) => Welcomes(u, q, b)
    BY <1>3 DEF Welcomes
  <1>6. ASSUME NEW i \in DOMAIN u PROVE Item(h, n, u, i)
    <2>1. i + 1 \in DOMAIN s /\ u[i] = s[i + 1] /\ i + 1 # 1
      BY <1>3
    <2>2. Item(h, n, s, i + 1)
      BY <1>1, <2>1
    <2>3. Len(s) # 1
      BY <1>1, <2>1
    <2>4. i + 1 = Len(s) => i = Len(u)
      <3>1. Len(u) = Len(s) - 1 /\ i \in 1 .. Len(s) - 1
        BY <1>3
      <3>2. Len(s) \in Int
        BY <1>1
      <3>3. \A k \in 1 .. Len(s) - 1 : k \in Int
        OBVIOUS
      <3>4. i \in Int
        BY <3>1, <3>3
      <3> QED BY <3>1, <3>2, <3>4
    <2>5. \A j \in DOMAIN u : j # i /\ IsMsg(u[j]) /\ IsMsg(u[i]) => u[j].msg.event # u[i].msg.event
      <3> SUFFICES ASSUME NEW j \in DOMAIN u, j # i, IsMsg(u[j]), IsMsg(u[i])
                   PROVE  u[j].msg.event # u[i].msg.event
        OBVIOUS
      <3>1. j + 1 \in DOMAIN s /\ u[j] = s[j + 1] /\ j + 1 # i + 1
        <4>1. j + 1 \in DOMAIN s /\ u[j] = s[j + 1]
          BY <1>3
        <4>2. \A k, l \in 1 .. Len(s) - 1 : k # l => k + 1 # l + 1
          OBVIOUS
        <4>3. i \in 1 .. Len(s) - 1 /\ j \in 1 .. Len(s) - 1
          BY <1>3
        <4> QED BY <4>1, <4>2, <4>3
      <3> QED BY <2>1, <2>2, <3>1 DEF Item
    <2> QED BY <1>4, <2>1, <2>2, <2>3, <2>4, <2>5 DEF Item
  <1> QED BY <1>3, <1>4, <1>5, <1>6 DEF WorkOf, u

\* A handler with one message to tell, or none.
LEMMA TellWork ==
    ASSUME NEW h, h \in Peers, NEW n, NEW m, m \in Message, NEW to, to \in SUBSET Peers, m.id = h,
           m.event \in {"peer-left", "peer-state", "peer-info"},
           m.event # "peer-left" => m.info = n
    PROVE  /\ WorkOf(h, n, Tell(m, to))
           /\ \A c, event, q : Owes(Tell(m, to), c, event, q) <=> c \in to /\ event = m.event /\ q = h
  <1> DEFINE w == [msg |-> m, to |-> to]
             s == <<w>>
  <1>1. w \in Work /\ IsMsg(w) /\ w.msg = m /\ w.to = to
    BY TellIsWork
  <1>2. Tell(m, to) = IF to = {} THEN <<>> ELSE s
    BY DEF Tell
  <1> HIDE DEF w
  <1>3. s \in Seq(Work) /\ DOMAIN s = {1} /\ s[1] = w /\ Len(s) = 1
    BY <1>1
  <1> HIDE DEF s
  <1>4. CASE to # {}
    <2>1. \A c, event, q : Owes(s, c, event, q) <=> c \in to /\ event = m.event /\ q = h
      BY <1>1, <1>3 DEF Owes
    <2>2. \A i \in DOMAIN s : Item(h, n, s, i)
      BY <1>1, <1>3 DEF Item
    <2> QED BY <1>2, <1>3, <1>4, <2>1, <2>2 DEF WorkOf
  <1>5. CASE to = {}
    <2>1. Tell(m, to) = <<>>
      BY <1>2, <1>5
    <2>2. <<>> \in Seq(Work) /\ DOMAIN <<>> = {}
      OBVIOUS
    <2>3. WorkOf(h, n, <<>>) /\ \A c, event, q : ~Owes(<<>>, c, event, q)
      BY <2>2 DEF WorkOf, Owes
    <2> QED BY <1>5, <2>1, <2>3
  <1> QED BY <1>4, <1>5

\* One more work at the end.
ExtendedBy(s, u, w) ==
    /\ u \in Seq(Work) /\ Len(u) = Len(s) + 1 /\ DOMAIN u = 1 .. Len(s) + 1
    /\ u[Len(s) + 1] = w /\ \A i \in 1 .. Len(s) : u[i] = s[i]

LEMMA OneMoreWork ==
    ASSUME NEW s, s \in Seq(Work), NEW w, w \in Work
    PROVE  ExtendedBy(s, s \o <<w>>, w)
  <1> DEFINE o == <<w>>
             u == s \o o
  <1>1. s \in Seq(Work) /\ o \in Seq(Work) /\ Len(o) = 1 /\ o[1] = w /\ Len(s) \in Nat
    OBVIOUS
  <1> HIDE DEF o
  <1>2. /\ u \in Seq(Work) /\ Len(u) = Len(s) + Len(o)
        /\ \A i \in 1 .. Len(s) + Len(o) : u[i] = IF i <= Len(s) THEN s[i] ELSE o[i - Len(s)]
    BY <1>1, ConcatProperties
  <1> HIDE DEF u
  <1>3. DOMAIN u = 1 .. Len(s) + 1 /\ Len(u) = Len(s) + 1
    BY <1>1, <1>2
  <1>4. u[Len(s) + 1] = w
    <2>1. Len(s) + 1 \in 1 .. Len(s) + Len(o) /\ ~(Len(s) + 1 <= Len(s)) /\ (Len(s) + 1) - Len(s) = 1
      BY <1>1
    <2>2. u[Len(s) + 1] = o[(Len(s) + 1) - Len(s)]
      BY <1>2, <2>1
    <2> QED BY <1>1, <2>1, <2>2
  <1>5. \A i \in 1 .. Len(s) : u[i] = s[i]
    <2>1. \A i \in 1 .. Len(s) : i \in 1 .. Len(s) + Len(o) /\ i <= Len(s)
      BY <1>1
    <2> QED BY <1>2, <2>1
  <1>6. ExtendedBy(s, u, w)
    BY <1>2, <1>3, <1>4, <1>5 DEF ExtendedBy
  <1> QED BY <1>6 DEF u, o

LEMMA FlattenOne ==
    ASSUME NEW s, Len(s) = 1
    PROVE  FlattenSeq(s) = s[1]
  <1> DEFINE G(f) == [i \in 1 .. Len(s) |-> IF i = 1 THEN s[i] ELSE f[i - 1] \o s[i]]
             g == CHOOSE f : f = G(f)
  <1>1. \E f : f = G(f)
    <2> DEFINE k == [i \in 1 .. Len(s) |-> s[1]]
    <2>1. \A i \in 1 .. Len(s) : i = 1
      OBVIOUS
    <2>2. k = G(k)
      BY <2>1
    <2> QED BY <2>2
  <1>2. g = G(g)
    BY <1>1
  <1>3. G(g)[1] = s[1]
    OBVIOUS
  <1> HIDE DEF G
  <1>4. g[1] = s[1]
    BY <1>2, <1>3
  <1>5. FlattenSeq(s) = g[1]
    BY DEF FlattenSeq, G
  <1> QED BY <1>4, <1>5

\* What a join of p does for the sessions it evicts, at most one.
Evicts(order, others) ==
    FlattenSeq([i \in DOMAIN order |->
        <<[cancel |-> order[i]]>> \o Tell([event |-> "peer-left", id |-> order[i]], others)])

LEMMA EvictsNone ==
    ASSUME NEW S, S = {}, NEW order, order \in SetToSeqs(S), NEW others
    PROVE  Evicts(order, others) = <<>>
  <1>1. Cardinality(S) = 0
    BY FS_EmptySet
  <1>2. order = <<>> /\ DOMAIN order = {}
    BY <1>1 DEF SetToSeqs
  <1> DEFINE s == [i \in DOMAIN order |->
                      <<[cancel |-> order[i]]>> \o Tell([event |-> "peer-left", id |-> order[i]], others)]
  <1>3. s = <<>> /\ Len(s) = 0
    BY <1>2
  <1> HIDE DEF s
  <1>4. FlattenSeq(s) = <<>>
    BY <1>3 DEF FlattenSeq
  <1> QED BY <1>4 DEF Evicts, s

LEMMA EvictsOne ==
    ASSUME NEW z, NEW S, S = {z}, NEW order, order \in SetToSeqs(S), NEW others
    PROVE  Evicts(order, others) = <<[cancel |-> z]>> \o Tell([event |-> "peer-left", id |-> z], others)
  <1>1. Cardinality(S) = 1
    BY FS_Singleton
  <1>2. DOMAIN order = 1 .. 1 /\ order[1] = z
    BY <1>1 DEF SetToSeqs
  <1> DEFINE T(k) == <<[cancel |-> k]>> \o Tell([event |-> "peer-left", id |-> k], others)
             s == [i \in DOMAIN order |-> T(order[i])]
  <1> HIDE DEF T
  <1>3. Len(s) = 1 /\ s[1] = T(z)
    BY <1>2
  <1> HIDE DEF s
  <1>4. FlattenSeq(s) = T(z)
    BY <1>3, FlattenOne
  <1>5. Evicts(order, others) = FlattenSeq(s)
    BY DEF Evicts, s, T
  <1> QED BY <1>4, <1>5 DEF T

\* Works of which these are the messages, j at the end if it is there at all.
MadeOf(u, left, w, joined) ==
    /\ u \in Seq(Work)
    /\ \A i \in DOMAIN u : IsMsg(u[i]) => u[i] \in left \/ u[i] = w \/ (u[i] \in joined /\ i = Len(u))
    /\ \A x \in left \union {w} \union joined : \E i \in DOMAIN u : u[i] = x
    /\ \A i, k \in DOMAIN u : i # k /\ IsMsg(u[i]) /\ IsMsg(u[k]) => u[i] # u[k]

Left(S, others) == IF others = {} THEN {} ELSE {[msg |-> [event |-> "peer-left", id |-> z], to |-> others] : z \in S}
Joining(p, n, others) ==
    IF others = {} THEN {} ELSE {[msg |-> [event |-> "peer-joined", id |-> p, info |-> n], to |-> others]}
Welcoming(p, snap) == [msg |-> [event |-> "welcome", id |-> p, peers |-> snap], to |-> {p}]

JoinWorks(order, others, p, n, snap) ==
    Evicts(order, others)
        \o Tell([event |-> "welcome", id |-> p, peers |-> snap], {p})
        \o Tell([event |-> "peer-joined", id |-> p, info |-> n], others)

\* The same of the works of an eviction.
JustLeft(E, L) ==
    /\ E \in Seq(Work)
    /\ \A i \in DOMAIN E : IsMsg(E[i]) => E[i] \in L
    /\ \A x \in L : \E i \in DOMAIN E : E[i] = x
    /\ \A i, k \in DOMAIN E : i # k /\ IsMsg(E[i]) /\ IsMsg(E[k]) => E[i] # E[k]

LEMMA MadeUp ==
    ASSUME NEW E, NEW L, JustLeft(E, L), NEW w, w \in Work, NEW j, j \in Work, w # j,
           \A x \in L : x # w /\ x # j, NEW others, NEW J, J = (IF others = {} THEN {} ELSE {j}),
           NEW u, u = (E \o <<w>>) \o (IF others = {} THEN <<>> ELSE <<j>>)
    PROVE  MadeOf(u, L, w, J)
  <1>0. /\ E \in Seq(Work)
        /\ \A i \in DOMAIN E : IsMsg(E[i]) => E[i] \in L
        /\ \A x \in L : \E i \in DOMAIN E : E[i] = x
        /\ \A i, k \in DOMAIN E : i # k /\ IsMsg(E[i]) /\ IsMsg(E[k]) => E[i] # E[k]
    BY DEF JustLeft
  <1> DEFINE m == Len(E) + 1
             t == E \o <<w>>
  <1>1. ExtendedBy(E, t, w)
    BY <1>0, OneMoreWork
  <1> HIDE DEF t
  <1>2. Len(E) \in Nat /\ DOMAIN E = 1 .. Len(E)
    BY <1>0
  <1>3. /\ t \in Seq(Work) /\ Len(t) = m /\ DOMAIN t = 1 .. m /\ t[m] = w /\ m \in DOMAIN t
        /\ \A i \in DOMAIN E : i \in DOMAIN t /\ t[i] = E[i]
        /\ \A i \in DOMAIN t : i # m => i \in DOMAIN E
    BY <1>1, <1>2 DEF ExtendedBy
  <1>4. m \in Nat /\ m \notin DOMAIN E
    BY <1>2
  <1> HIDE DEF m
  <1>5. /\ \A i \in DOMAIN t : IsMsg(t[i]) => t[i] \in L \/ t[i] = w
        /\ \A x \in L \union {w} : \E i \in DOMAIN t : t[i] = x
        /\ \A i, k \in DOMAIN t : i # k /\ IsMsg(t[i]) /\ IsMsg(t[k]) => t[i] # t[k]
    <2>1. \A i \in DOMAIN t : IsMsg(t[i]) => t[i] \in L \/ t[i] = w
      BY <1>0, <1>3
    <2>2. \A x \in L \union {w} : \E i \in DOMAIN t : t[i] = x
      BY <1>0, <1>3
    <2>3. ASSUME NEW i \in DOMAIN t, NEW k \in DOMAIN t, i # k, IsMsg(t[i]), IsMsg(t[k]) PROVE t[i] # t[k]
      <3>1. CASE i # m /\ k # m
        BY <1>0, <1>3, <2>3, <3>1
      <3>2. CASE i = m
        <4>1. k \in DOMAIN E /\ t[k] = E[k]
          BY <1>3, <2>3, <3>2
        <4> QED BY <1>0, <1>3, <2>3, <3>2, <4>1
      <3>3. CASE k = m
        <4>1. i \in DOMAIN E /\ t[i] = E[i]
          BY <1>3, <2>3, <3>3
        <4> QED BY <1>0, <1>3, <2>3, <3>3, <4>1
      <3> QED BY <3>1, <3>2, <3>3
    <2> QED BY <2>1, <2>2, <2>3
  <1>6. CASE others = {}
    <2>1. u = t /\ J = {}
      BY <1>3, <1>6 DEF t
    <2> QED BY <1>3, <1>5, <2>1 DEF MadeOf
  <1>7. CASE others # {}
    <2>1. u = t \o <<j>> /\ J = {j}
      BY <1>7 DEF t
    <2>2. ExtendedBy(t, u, j)
      BY <1>3, <2>1, OneMoreWork
    <2> DEFINE o == m + 1
    <2>3. /\ u \in Seq(Work) /\ Len(u) = o /\ DOMAIN u = 1 .. o /\ u[o] = j /\ o \in DOMAIN u
          /\ \A i \in DOMAIN t : i \in DOMAIN u /\ u[i] = t[i]
          /\ \A i \in DOMAIN u : i # o => i \in DOMAIN t
      BY <1>3, <1>4, <2>2 DEF ExtendedBy
    <2> HIDE DEF o
    <2>4. \A i \in DOMAIN u : IsMsg(u[i]) => u[i] \in L \/ u[i] = w \/ (u[i] \in J /\ i = Len(u))
      BY <1>5, <2>1, <2>3
    <2>5. \A x \in L \union {w} \union J : \E i \in DOMAIN u : u[i] = x
      BY <1>5, <2>1, <2>3
    <2>6. ASSUME NEW i \in DOMAIN u, NEW k \in DOMAIN u, i # k, IsMsg(u[i]), IsMsg(u[k]) PROVE u[i] # u[k]
      <3>1. CASE i # o /\ k # o
        <4>1. i \in DOMAIN t /\ k \in DOMAIN t /\ u[i] = t[i] /\ u[k] = t[k]
          BY <2>3, <3>1
        <4> QED BY <1>5, <2>6, <4>1
      <3>2. CASE i = o
        <4>1. k \in DOMAIN t /\ u[k] = t[k]
          BY <2>3, <2>6, <3>2
        <4> QED BY <1>0, <1>5, <2>3, <2>6, <3>2, <4>1
      <3>3. CASE k = o
        <4>1. i \in DOMAIN t /\ u[i] = t[i]
          BY <2>3, <2>6, <3>3
        <4> QED BY <1>0, <1>5, <2>3, <2>6, <3>3, <4>1
      <3> QED BY <3>1, <3>2, <3>3
    <2> QED BY <2>3, <2>4, <2>5, <2>6 DEF MadeOf
  <1> QED BY <1>6, <1>7

LEMMA JoinMadeOf ==
    ASSUME NEW p, p \in Peers, NEW n, n \in Info, NEW S, S \in SUBSET Peers, \A q, r \in S : q = r,
           NEW others, others \in SUBSET Peers, NEW snap, snap \in Roster, NEW order, order \in SetToSeqs(S)
    PROVE  MadeOf(JoinWorks(order, others, p, n, snap), Left(S, others), Welcoming(p, snap), Joining(p, n, others))
  <1> DEFINE wm == [event |-> "welcome", id |-> p, peers |-> snap]
             jm == [event |-> "peer-joined", id |-> p, info |-> n]
             w == [msg |-> wm, to |-> {p}]
             j == [msg |-> jm, to |-> others]
             L == Left(S, others)
             J == Joining(p, n, others)
             u == JoinWorks(order, others, p, n, snap)
             E == Evicts(order, others)
  <1>1. wm \in Message /\ jm \in Message /\ wm.event = "welcome" /\ jm.event = "peer-joined"
    BY DEF Message
  <1>2. w \in Work /\ IsMsg(w) /\ w.msg = wm /\ j \in Work /\ IsMsg(j) /\ j.msg = jm
    BY <1>1, TellIsWork
  <1>3. u = (E \o <<w>>) \o (IF others = {} THEN <<>> ELSE <<j>>) /\ w = Welcoming(p, snap)
        /\ J = IF others = {} THEN {} ELSE {j}
    BY DEF JoinWorks, Tell, Welcoming, Joining
  <1> HIDE DEF wm, jm, w, j, J, u
  <1>4. w # j
    BY <1>1, <1>2
  <1>5. SUFFICES MadeOf(u, L, w, J)
    BY <1>3 DEF u, J
  <1>6. CASE S = {}
    <2>1. E = <<>> /\ L = {}
      BY <1>6, EvictsNone DEF Left
    <2>2. <<>> \in Seq(Work) /\ DOMAIN <<>> = {}
      OBVIOUS
    <2> HIDE DEF E, L
    <2>3. JustLeft(E, L) /\ \A x \in L : x # w /\ x # j
      BY <2>1, <2>2 DEF JustLeft
    <2> QED BY <1>2, <1>3, <1>4, <2>3, MadeUp
  <1>7. CASE S # {}
    <2>1. PICK z \in S : S = {z}
      BY <1>7
    <2> DEFINE c == [cancel |-> z]
               lm == [event |-> "peer-left", id |-> z]
               l == [msg |-> lm, to |-> others]
    <2>2. c \in Work /\ ~IsMsg(c) /\ lm \in Message /\ lm.event = "peer-left"
      BY CancelIsWork DEF Message
    <2>3. l \in Work /\ IsMsg(l) /\ l.msg = lm
      BY <2>2, TellIsWork
    <2>4. E = <<c>> \o (IF others = {} THEN <<>> ELSE <<l>>)
      BY <2>1, EvictsOne DEF Tell
    <2>5. L = IF others = {} THEN {} ELSE {l}
      BY <2>1 DEF Left
    <2> HIDE DEF c, lm, l, E, L
    <2>6. l # w /\ l # j
      BY <1>1, <1>2, <2>2, <2>3
    <2>7. <<c>> \in Seq(Work) /\ Len(<<c>>) = 1 /\ <<c>>[1] = c /\ DOMAIN <<c>> = {1}
      BY <2>2
    <2>8. CASE others = {}
      <3>1. E = <<c>> /\ L = {}
        BY <2>4, <2>5, <2>7, <2>8
      <3>2. JustLeft(E, L) /\ \A x \in L : x # w /\ x # j
        BY <2>2, <2>7, <3>1 DEF JustLeft
      <3> QED BY <1>2, <1>3, <1>4, <3>2, MadeUp
    <2>9. CASE others # {}
      <3> DEFINE cc == <<c>>
      <3>1. E = cc \o <<l>> /\ L = {l} /\ cc \in Seq(Work) /\ Len(cc) = 1 /\ cc[1] = c
        BY <2>4, <2>5, <2>7, <2>9
      <3> HIDE DEF cc
      <3>2. ExtendedBy(cc, E, l)
        BY <2>3, <3>1, OneMoreWork
      <3>3. E \in Seq(Work) /\ DOMAIN E = {1, 2} /\ E[1] = c /\ E[2] = l
        BY <3>1, <3>2 DEF ExtendedBy
      <3>4. JustLeft(E, L) /\ \A x \in L : x # w /\ x # j
        BY <2>2, <2>3, <2>6, <3>1, <3>3 DEF JustLeft
      <3> QED BY <1>2, <1>3, <1>4, <3>4, MadeUp
    <2> QED BY <2>8, <2>9
  <1> QED BY <1>6, <1>7

\* What a join of p owes.
JoinOwes(u, p, S, others, snap) ==
    /\ \A c, event, q : Owes(u, c, event, q) <=>
        \/ event = "peer-left" /\ q \in S /\ c \in others
        \/ event = "welcome" /\ q = p /\ c = p
        \/ event = "peer-joined" /\ q = p /\ c \in others
    /\ \A q : Welcomes(u, q, snap[q])

LEMMA JoinWork ==
    ASSUME NEW p, p \in Peers, NEW n, n \in Info, NEW S, S \in SUBSET Peers, \A q, r \in S : q = r,
           \A z \in S : z # p /\ SameClient(z, p),
           NEW others, others \in SUBSET Peers, NEW snap, snap \in Roster,
           NEW u, MadeOf(u, Left(S, others), Welcoming(p, snap), Joining(p, n, others))
    PROVE  WorkOf(p, n, u) /\ JoinOwes(u, p, S, others, snap)
  <1> DEFINE w == Welcoming(p, snap)
             L == Left(S, others)
             J == Joining(p, n, others)
  <1>1. /\ u \in Seq(Work)
        /\ \A i \in DOMAIN u : IsMsg(u[i]) => u[i] \in L \/ u[i] = w \/ (u[i] \in J /\ i = Len(u))
        /\ \A x \in L \union {w} \union J : \E i \in DOMAIN u : u[i] = x
        /\ \A i, k \in DOMAIN u : i # k /\ IsMsg(u[i]) /\ IsMsg(u[k]) => u[i] # u[k]
    BY DEF MadeOf
  <1>2. \A x \in L : /\ IsMsg(x) /\ x.to = others /\ others # {}
                     /\ x.msg.event = "peer-left" /\ x.msg.id \in S
    BY DEF Left, IsMsg
  <1>3. ASSUME others # {}, NEW z \in S PROVE \E x \in L : x.msg.id = z
    <2> DEFINE x == [msg |-> [event |-> "peer-left", id |-> z], to |-> others]
    <2>1. x \in L /\ x.msg.id = z
      BY <1>3 DEF Left
    <2> QED BY <2>1
  <1>4. \A x, y \in L : x = y
    <2> SUFFICES ASSUME NEW x \in L, NEW y \in L PROVE x = y
      OBVIOUS
    <2>1. PICK z \in S : x = [msg |-> [event |-> "peer-left", id |-> z], to |-> others]
      BY DEF Left
    <2>2. PICK v \in S : y = [msg |-> [event |-> "peer-left", id |-> v], to |-> others]
      BY DEF Left
    <2>3. z = v
      OBVIOUS
    <2> QED BY <2>1, <2>2, <2>3
  <1>5. IsMsg(w) /\ w.to = {p} /\ w.msg.event = "welcome" /\ w.msg.id = p /\ w.msg.peers = snap
    BY DEF Welcoming, IsMsg
  <1>6. \A x \in J : /\ IsMsg(x) /\ x.to = others /\ others # {}
                     /\ x.msg.event = "peer-joined" /\ x.msg.id = p /\ x.msg.info = n
    BY DEF Joining, IsMsg
  <1>7. (others # {} => \E x \in J : TRUE) /\ \A x, y \in J : x = y
    BY DEF Joining
  <1> HIDE DEF w, L, J
  <1>8. ASSUME NEW c, NEW event, NEW q
        PROVE  Owes(u, c, event, q) <=>
                \/ event = "peer-left" /\ q \in S /\ c \in others
                \/ event = "welcome" /\ q = p /\ c = p
                \/ event = "peer-joined" /\ q = p /\ c \in others
    <2>1. ASSUME Owes(u, c, event, q)
          PROVE  \/ event = "peer-left" /\ q \in S /\ c \in others
                 \/ event = "welcome" /\ q = p /\ c = p
                 \/ event = "peer-joined" /\ q = p /\ c \in others
      BY <1>1, <1>2, <1>5, <1>6, <2>1 DEF Owes
    <2>2. ASSUME event = "peer-left", q \in S, c \in others PROVE Owes(u, c, event, q)
      <3>1. PICK x \in L : x.msg.id = q
        BY <1>3, <2>2
      <3>2. PICK i \in DOMAIN u : u[i] = x
        BY <1>1
      <3> QED BY <1>2, <2>2, <3>1, <3>2 DEF Owes
    <2>3. ASSUME event = "welcome", q = p, c = p PROVE Owes(u, c, event, q)
      <3>1. PICK i \in DOMAIN u : u[i] = w
        BY <1>1
      <3> QED BY <1>5, <2>3, <3>1 DEF Owes
    <2>4. ASSUME event = "peer-joined", q = p, c \in others PROVE Owes(u, c, event, q)
      <3>1. PICK x \in J : TRUE
        BY <1>7, <2>4
      <3>2. PICK i \in DOMAIN u : u[i] = x
        BY <1>1
      <3> QED BY <1>6, <2>4, <3>1, <3>2 DEF Owes
    <2> QED BY <2>1, <2>2, <2>3, <2>4
  <1>9. \A q : Welcomes(u, q, snap[q])
    BY <1>1, <1>2, <1>5, <1>6 DEF Welcomes
  <1>10. JoinOwes(u, p, S, others, snap)
    BY <1>8, <1>9 DEF JoinOwes
  <1>11. ASSUME NEW i \in DOMAIN u, IsMsg(u[i]),
                NEW k \in DOMAIN u, k # i, IsMsg(u[k])
         PROVE  u[k].msg.event # u[i].msg.event
    <2>1. u[k] # u[i]
      BY <1>1, <1>11
    <2>2. u[i] \in L \/ u[i] = w \/ u[i] \in J
      BY <1>1, <1>11
    <2>3. u[k] \in L \/ u[k] = w \/ u[k] \in J
      BY <1>1, <1>11
    <2> QED BY <1>2, <1>4, <1>5, <1>6, <1>7, <2>1, <2>2, <2>3
  <1>12. ASSUME NEW i \in DOMAIN u, IsMsg(u[i]) PROVE Item(p, n, u, i)
    <2>1. u[i] \in L => \A c \in u[i].to : Owes(u, c, "peer-joined", p)
      BY <1>2, <1>8
    <2>2. u[i] \in L => Item(p, n, u, i)
      BY <1>2, <1>11, <1>12, <2>1 DEF Item
    <2>3. u[i] = w => Item(p, n, u, i)
      BY <1>5, <1>11, <1>12 DEF Item
    <2>4. u[i] \in J /\ i = Len(u) => Item(p, n, u, i)
      BY <1>6, <1>11, <1>12 DEF Item
    <2> QED BY <1>1, <1>12, <2>2, <2>3, <2>4
  <1>13. \A i \in DOMAIN u : Item(p, n, u, i)
    BY <1>12 DEF Item
  <1> QED BY <1>1, <1>10, <1>13 DEF WorkOf

-----------------------------------------------------------------------------
(* What a client's list says of a peer.                                    *)

Entries == Listed \union {Absent}

LEMMA WhatIsListed ==
    /\ Info \subseteq Listed /\ Info \subseteq Entries /\ Roster \subseteq Listing
    /\ NewInfo \in Info /\ HeardOnly \in Listed
    /\ Absent \notin Listed /\ Absent \notin Info
  <1>1. Info \subseteq Listed /\ HeardOnly \in Listed
    BY DEF Info, Listed, HeardOnly
  <1>2. NewInfo \in Info
    BY RoomConstants DEF NewInfo, Info
  <1>3. Roster \subseteq Listing
    BY <1>1 DEF Roster, Listing
  <1> QED BY <1>1, <1>2, <1>3, AbsentIsNoEntry DEF Entries

LEMMA DeliveryKinds ==
    ASSUME NEW m, m \in Delivery
    PROVE  /\ m.event \in {"welcome", "peer-joined", "peer-left", "peer-state", "peer-info", "audio-slots"}
           /\ m.id \in Peers
           /\ m.event \in {"peer-joined", "peer-state", "peer-info"} => m.info \in Info
           /\ m.event = "welcome" => m.peers \in Roster
  <1>1. CASE m \in Message
    BY <1>1, MessageKinds
  <1>2. CASE m \in [event : {"audio-slots"}, id : Peers]
    BY <1>2
  <1> QED BY <1>1, <1>2 DEF Delivery

\* What the client of c makes of what it shows of q.
Eff(c, q, i, m) ==
    CASE m.event = "welcome" -> m.peers[q]
      [] m.event = "peer-joined" ->
            IF q = m.id THEN m.info ELSE IF SameClient(q, m.id) /\ Named(i) THEN Absent ELSE i
      [] m.event = "peer-left" -> IF m.id = q THEN Absent ELSE i
      [] m.event = "audio-slots" -> IF m.id = q /\ i = Absent THEN HeardOnly ELSE i
      [] OTHER -> IF m.id # q \/ c \in Lurkers \/ i = Absent THEN i
                  ELSE IF m.event = "peer-state" THEN [i EXCEPT !.muted = m.info.muted]
                       ELSE [i EXCEPT !.name = m.info.name]

LEMMA InfoFields ==
    ASSUME NEW i, i \in Listed, NEW j, j \in Info
    PROVE  /\ [i EXCEPT !.muted = j.muted] \in Listed
           /\ [i EXCEPT !.muted = j.muted].muted = j.muted
           /\ [i EXCEPT !.muted = j.muted].name = i.name
           /\ [i EXCEPT !.name = j.name] \in Listed
           /\ [i EXCEPT !.name = j.name].name = j.name
           /\ [i EXCEPT !.name = j.name].muted = i.muted
           /\ i.muted = j.muted /\ i.name = j.name => i = j
  BY DEF Info, Listed

LEMMA EffIsEntry ==
    ASSUME NEW c, NEW q, q \in Peers, NEW i, i \in Entries, NEW m, m \in Delivery
    PROVE  Eff(c, q, i, m) \in Entries
  <1>1. /\ m.event \in {"welcome", "peer-joined", "peer-left", "peer-state", "peer-info", "audio-slots"}
        /\ m.event \in {"peer-joined", "peer-state", "peer-info"} => m.info \in Info
        /\ m.event = "welcome" => m.peers \in Roster
    BY DeliveryKinds
  <1>2. CASE m.event = "welcome"
    BY <1>1, <1>2, WhatIsListed DEF Eff, Listing, Entries
  <1>3. CASE m.event = "peer-joined"
    BY <1>1, <1>3, WhatIsListed DEF Eff, Entries
  <1>4. CASE m.event = "peer-left"
    BY <1>4 DEF Eff, Entries
  <1>5. CASE m.event = "peer-state"
    <2>1. i # Absent => i \in Listed /\ [i EXCEPT !.muted = m.info.muted] \in Listed
      BY <1>1, <1>5, InfoFields DEF Entries
    <2> QED BY <1>5, <2>1 DEF Eff, Entries
  <1>6. CASE m.event = "peer-info"
    <2>1. i # Absent => i \in Listed /\ [i EXCEPT !.name = m.info.name] \in Listed
      BY <1>1, <1>6, InfoFields DEF Entries
    <2> QED BY <1>6, <2>1 DEF Eff, Entries
  <1>7. CASE m.event = "audio-slots"
    BY <1>7, WhatIsListed DEF Eff, Entries
  <1> QED BY <1>1, <1>2, <1>3, <1>4, <1>5, <1>6, <1>7

\* A list that shows a of q shows e when the client of c has handled these messages.
RosterEnds(s, c, q, a, e) ==
    \E f \in [0 .. Len(s) -> Entries] :
        /\ f[0] = a /\ f[Len(s)] = e
        /\ \A i \in 1 .. Len(s) : f[i] = Eff(c, q, f[i - 1], s[i])

LEMMA RosterEndsNow ==
    ASSUME NEW c, NEW q, NEW a, NEW e
    PROVE  /\ RosterEnds(<<>>, c, q, a, e) => e = a
           /\ a \in Entries => RosterEnds(<<>>, c, q, a, a)
  <1>1. Len(<<>>) = 0 /\ 0 .. 0 = {0} /\ 1 .. 0 = {}
    OBVIOUS
  <1>2. RosterEnds(<<>>, c, q, a, e) => e = a
    BY <1>1 DEF RosterEnds
  <1>3. ASSUME a \in Entries PROVE RosterEnds(<<>>, c, q, a, a)
    <2> DEFINE f == [i \in 0 .. 0 |-> a]
    <2>1. f \in [0 .. Len(<<>>) -> Entries] /\ f[0] = a
      BY <1>1, <1>3
    <2> HIDE DEF f
    <2> QED BY <1>1, <2>1 DEF RosterEnds
  <1> QED BY <1>2, <1>3

LEMMA RosterEndsAppend ==
    ASSUME NEW s, s \in Seq(Delivery), NEW m, m \in Delivery, NEW c, NEW q, q \in Peers,
           NEW a, NEW e, RosterEnds(s, c, q, a, e)
    PROVE  e \in Entries /\ RosterEnds(Append(s, m), c, q, a, Eff(c, q, e, m))
  <1> DEFINE l == Len(s)
             t == Append(s, m)
  <1>1. PICK f \in [0 .. l -> Entries] :
            /\ f[0] = a /\ f[l] = e
            /\ \A i \in 1 .. l : f[i] = Eff(c, q, f[i - 1], s[i])
    BY DEF RosterEnds
  <1>2. l \in Nat /\ Len(t) = l + 1 /\ t[l + 1] = m /\ \A i \in 1 .. l : t[i] = s[i]
    OBVIOUS
  <1> HIDE DEF l, t
  <1>3. e \in Entries
    BY <1>1, <1>2
  <1> DEFINE x == Eff(c, q, e, m)
             g == [i \in 0 .. l + 1 |-> IF i = l + 1 THEN x ELSE f[i]]
  <1>4. x \in Entries
    BY <1>3, EffIsEntry
  <1> HIDE DEF x
  <1>5. g \in [0 .. Len(t) -> Entries] /\ g[0] = a /\ g[Len(t)] = x
    BY <1>1, <1>2, <1>4
  <1>6. ASSUME NEW i \in 1 .. Len(t) PROVE g[i] = Eff(c, q, g[i - 1], t[i])
    <2>1. i - 1 \in 0 .. l /\ g[i - 1] = f[i - 1]
      BY <1>2
    <2>2. CASE i = l + 1
      <3>1. i - 1 = l /\ g[i] = x /\ t[i] = m
        BY <1>2, <2>2
      <3> QED BY <1>1, <2>1, <3>1 DEF x
    <2>3. CASE i # l + 1
      <3>1. i \in 1 .. l /\ g[i] = f[i] /\ t[i] = s[i]
        BY <1>2, <2>3
      <3> QED BY <1>1, <2>1, <3>1
    <2> QED BY <2>2, <2>3
  <1> HIDE DEF g
  <1>7. RosterEnds(t, c, q, a, x)
    BY <1>5, <1>6 DEF RosterEnds
  <1> QED BY <1>3, <1>7 DEF t, x

LEMMA RosterEndsTail ==
    ASSUME NEW s, s \in Seq(Delivery), s # <<>>, NEW c, NEW q, q \in Peers,
           NEW a, NEW e, RosterEnds(s, c, q, a, e)
    PROVE  RosterEnds(Tail(s), c, q, Eff(c, q, a, s[1]), e)
  <1> DEFINE l == Len(s)
             t == Tail(s)
  <1>1. PICK f \in [0 .. l -> Entries] :
            /\ f[0] = a /\ f[l] = e
            /\ \A i \in 1 .. l : f[i] = Eff(c, q, f[i - 1], s[i])
    BY DEF RosterEnds
  <1>2. l \in Nat \ {0} /\ Len(t) = l - 1 /\ \A i \in 1 .. l - 1 : t[i] = s[i + 1]
    OBVIOUS
  <1> HIDE DEF l, t
  <1> DEFINE g == [i \in 0 .. l - 1 |-> f[i + 1]]
  <1>3. g \in [0 .. Len(t) -> Entries]
    BY <1>1, <1>2
  <1>4. g[0] = Eff(c, q, a, s[1])
    <2>1. 1 \in 1 .. l /\ 1 - 1 = 0 /\ 0 \in 0 .. l - 1 /\ 0 + 1 = 1
      BY <1>2
    <2> QED BY <1>1, <2>1
  <1>5. g[Len(t)] = e
    <2>1. Len(t) \in 0 .. l - 1 /\ Len(t) + 1 = l
      BY <1>2
    <2> QED BY <1>1, <2>1
  <1>6. ASSUME NEW i \in 1 .. Len(t) PROVE g[i] = Eff(c, q, g[i - 1], t[i])
    <2>1. /\ i \in 0 .. l - 1 /\ i - 1 \in 0 .. l - 1 /\ (i - 1) + 1 = i /\ (i + 1) - 1 = i
          /\ i + 1 \in 1 .. l /\ t[i] = s[i + 1]
      BY <1>2
    <2>2. f[i + 1] = Eff(c, q, f[(i + 1) - 1], s[i + 1])
      BY <1>1, <2>1
    <2>3. g[i] = f[i + 1] /\ g[i - 1] = f[(i - 1) + 1]
      BY <2>1
    <2> QED BY <2>1, <2>2, <2>3
  <1> HIDE DEF g
  <1>7. RosterEnds(t, c, q, Eff(c, q, a, s[1]), e)
    BY <1>3, <1>4, <1>5, <1>6 DEF RosterEnds
  <1> QED BY <1>7 DEF t

\* Eff is what Apply does to the entry of another peer.
LEMMA ApplyIs ==
    ASSUME roster \in [Peers -> Listing], NEW c, c \in Peers, NEW m, m \in Delivery
    PROVE  /\ Apply(c, m) \in Listing
           /\ \A q \in Peers \ {c} : Apply(c, m)[q] = Eff(c, q, roster[c][q], m)
  <1> DEFINE r == roster[c]
             A == Apply(c, m)
             E(q) == Eff(c, q, r[q], m)
  <1>1. r \in Listing /\ r \in [Peers -> Entries]
    BY DEF Listing, Entries
  <1>2. /\ m.event \in {"welcome", "peer-joined", "peer-left", "peer-state", "peer-info", "audio-slots"}
        /\ m.id \in Peers
        /\ m.event \in {"peer-joined", "peer-state", "peer-info"} => m.info \in Info
        /\ m.event = "welcome" => m.peers \in [Peers -> Entries]
    BY DeliveryKinds, WhatIsListed DEF Listing, Entries
  <1>3. CASE m.event = "welcome"
    <2>1. A = [m.peers EXCEPT ![c] = NewInfo]
      BY <1>3 DEF Apply
    <2>2. NewInfo \in Entries
      BY WhatIsListed
    <2>3. A \in [Peers -> Entries] /\ \A q \in Peers \ {c} : A[q] = m.peers[q]
      BY <1>2, <1>3, <2>1, <2>2
    <2> QED BY <1>3, <2>3 DEF Eff, Listing, Entries
  <1>4. CASE m.event = "peer-joined"
    <2>1. A = Upsert(r, m.id, m.info)
      BY <1>4 DEF Apply
    <2>2. A = [k \in Peers |-> IF k = m.id THEN m.info ELSE IF SameClient(k, m.id) /\ Named(r[k]) THEN Absent ELSE r[k]]
      BY <2>1 DEF Upsert
    <2>3. A \in [Peers -> Entries]
      BY <1>1, <1>2, <1>4, <2>2, WhatIsListed DEF Entries
    <2>4. \A q \in Peers \ {c} : A[q] = E(q)
      BY <1>4, <2>2 DEF Eff
    <2> QED BY <2>3, <2>4 DEF Listing, Entries
  <1>5. CASE m.event = "peer-left"
    <2>1. A = [r EXCEPT ![m.id] = Absent]
      BY <1>5 DEF Apply
    <2>2. A \in [Peers -> Entries]
      BY <1>1, <1>2, <2>1 DEF Entries
    <2>3. \A q \in Peers \ {c} : A[q] = E(q)
      BY <1>1, <1>5, <2>1 DEF Eff
    <2> QED BY <2>2, <2>3 DEF Listing, Entries
  <1>6. CASE m.event \in {"peer-state", "peer-info"}
    <2>1. A = IF c \in Lurkers \/ r[m.id] = Absent THEN r
              ELSE IF m.event = "peer-state" THEN [r EXCEPT ![m.id].muted = m.info.muted]
              ELSE [r EXCEPT ![m.id].name = m.info.name]
      BY <1>6 DEF Apply
    <2>2. CASE c \in Lurkers \/ r[m.id] = Absent
      <3>1. A = r /\ \A q \in Peers \ {c} : A[q] = E(q)
        BY <1>6, <2>1, <2>2 DEF Eff
      <3> QED BY <1>1, <3>1
    <2>3. CASE ~(c \in Lurkers \/ r[m.id] = Absent)
      <3> DEFINE x == IF m.event = "peer-state" THEN [r[m.id] EXCEPT !.muted = m.info.muted]
                      ELSE [r[m.id] EXCEPT !.name = m.info.name]
      <3>1. r[m.id] \in Listed
        BY <1>1, <1>2, <2>3 DEF Entries
      <3>2. x \in Entries
        BY <1>2, <1>6, <3>1, InfoFields DEF Entries
      <3>3. E(m.id) = x
        BY <1>6, <2>3 DEF Eff
      <3>4. A = [r EXCEPT ![m.id] = x]
        BY <1>6, <2>1, <2>3
      <3>5. \A q \in Peers : q # m.id => E(q) = r[q]
        BY <1>6 DEF Eff
      <3> HIDE DEF x, E
      <3>6. A \in [Peers -> Entries] /\ \A q \in Peers \ {c} : A[q] = E(q)
        BY <1>1, <1>2, <3>2, <3>3, <3>4, <3>5
      <3> QED BY <3>6 DEF E, Listing, Entries
    <2> QED BY <2>2, <2>3
  <1>7. CASE m.event = "audio-slots"
    <2>1. A = IF r[m.id] = Absent THEN [r EXCEPT ![m.id] = HeardOnly] ELSE r
      BY <1>7 DEF Apply
    <2>2. A \in [Peers -> Entries]
      BY <1>1, <1>2, <2>1, WhatIsListed DEF Entries
    <2>3. \A q \in Peers \ {c} : A[q] = E(q)
      BY <1>1, <1>7, <2>1 DEF Eff
    <2> QED BY <2>2, <2>3 DEF Listing, Entries
  <1> QED BY <1>2, <1>3, <1>4, <1>5, <1>6, <1>7

-----------------------------------------------------------------------------
(* The inductive invariant.                                                *)

\* What the room reads and what a connection is sent has its type.
RoomTyped ==
    /\ at \in [Peers -> RoomStage]
    /\ peers \in SUBSET Peers
    /\ info \in [Peers -> Info]

QueuesTyped ==
    /\ todo \in [Peers -> Seq(Work)]
    /\ out \in [Peers -> Seq(Delivery)]
    /\ \A p \in Peers : Len(out[p]) <= Cap
    /\ cancelled \in [Peers -> BOOLEAN]
    /\ roster \in [Peers -> Listing]

CountsTyped ==
    /\ updates \in 0 .. MaxUpdates
    /\ shut \in {"up", "room", "registry"}
    /\ toCancel \in SUBSET Peers
    /\ early \in SUBSET (Peers \X Peers \X {"welcome", "joined"})
    /\ naming \in SUBSET (Peers \X Peers) /\ ghosts \in SUBSET (Peers \X Peers) /\ named \in 0 .. MaxNamed

Unjoined(p) == at[p] \in {"new", "accepted", "hello"}
Resting(p) == at[p] \in {"new", "accepted", "hello", "in", "gone"}

\* A handler's works are those of one handler, and it has none when it is not at work.
Working(h) == WorkOf(h, info[h], todo[h]) /\ (Resting(h) => todo[h] = <<>>)

\* Nobody has anything for a connection that has not joined.
Unheard(c) == Unjoined(c) =>
    c \notin peers /\ out[c] = <<>> /\ \A h \in Peers : \A event, q : ~Owes(todo[h], c, event, q)

\* Nobody is told of the leaving of a peer that is in the room, or is not yet.
Stays(q) ==
    /\ q \in peers => at[q] \in {"busy", "in"}
    /\ q \in peers \/ Unjoined(q) => \A h \in Peers : \A c : ~Owes(todo[h], c, "peer-left", q)

OneSession == \A p, q \in peers : SameClient(p, q) => p = q

\* A peer that is out of the room while c has yet to be told of its joining has been replaced.
AllReplaced == \A c \in peers : \A p \in Peers \ peers :
    Owes(todo[p], c, "peer-joined", p) /\ ~ToldEarly(c, p) => \E q \in peers : SameClient(p, q)

\* elder[q] holds those whose handlers were still at work when q joined, and whom q evicted.
Ordered(elder) ==
    /\ \A p, q \in Peers : p \in elder[q] => p # q /\ ~Unjoined(p) /\ ~Unjoined(q)
    /\ \A q \in peers : \A p \in Peers : p # q /\ SameClient(p, q) /\ todo[p] # <<>> => p \in elder[q]
    /\ \A p, q \in Peers : \A c \in peers : p # q /\ Owes(todo[q], c, "peer-left", p) =>
        /\ p \in elder[q]
        /\ \A k \in Peers : SameClient(k, q) /\ k \in elder[q] /\ k # p => k \in elder[p]
    /\ \A c \in peers : \A p, q \in Peers :
        SameClient(p, q) /\ p \in elder[q] /\ Owes(todo[p], c, "peer-joined", p) /\ ~ToldEarly(c, p) =>
            \E k \in Peers : k # q /\ Owes(todo[q], c, "peer-left", k)

\* b is right for c to show of q, up to what the handlers still owe c.
Good(c, q, b) ==
    IF q \in peers
    THEN \/ Owes(todo[q], c, "peer-joined", q)
         \/ /\ b # Absent
            /\ c \notin Lurkers =>
                /\ Owes(todo[q], c, "peer-state", q) \/ b.muted = info[q].muted
                /\ Owes(todo[q], c, "peer-info", q) \/ b.name = info[q].name
    ELSE \/ \E h \in Peers : Owes(todo[h], c, "peer-left", q)
         \/ b = Absent /\ ~Owes(todo[q], c, "peer-joined", q)
         \/ <<c, q>> \in ghosts

\* What becomes of e when c has had its welcome.
OnceWelcome(c, q, e, b) == IF Owes(todo[c], c, "welcome", c) THEN Welcomes(todo[c], q, b) ELSE b = e

Mirror(c, q) == \E e, b \in Entries :
    RosterEnds(out[c], c, q, roster[c][q], e) /\ OnceWelcome(c, q, e, b) /\ Good(c, q, b)

Mirrors == \A c \in peers : ~cancelled[c] => \A q \in Peers \ {c} : ~ToldEarly(c, q) => Mirror(c, q)

Orderly ==
    /\ \A h \in Peers : Working(h) /\ Unheard(h) /\ Stays(h)
    /\ OneSession
    /\ AllReplaced
    /\ \E elder \in [Peers -> SUBSET Peers] : Ordered(elder)

Typed == RoomTyped /\ QueuesTyped /\ CountsTyped
RoomInv == Typed /\ Orderly /\ Mirrors

LEMMA Kinship ==
    ASSUME NEW p, NEW q, SameClient(p, q)
    PROVE  /\ SameClient(q, p)
           /\ \A r : SameClient(q, r) => SameClient(p, r)
           /\ \A c : ToldEarly(c, p) => ToldEarly(c, q)
           /\ \A c : ToldEarly(c, q) => ToldEarly(c, p)
  BY DEF SameClient, ToldEarly

LEMMA OwedIs ==
    ASSUME NEW c, NEW event, NEW q
    PROVE  Owed(c, event, q) <=> \E h \in Peers : Owes(todo[h], c, event, q)
  BY DEF Owed, Owes, IsMsg

LEMMA OwesNothing ==
    ASSUME NEW c, NEW event, NEW q
    PROVE  ~Owes(<<>>, c, event, q)
  <1>1. DOMAIN <<>> = {}
    OBVIOUS
  <1> QED BY <1>1 DEF Owes

-----------------------------------------------------------------------------
(* Steps that neither change the room nor queue a message.                 *)

Quietly ==
    /\ peers' = peers /\ info' = info /\ early' = early /\ ghosts' = ghosts
    /\ \A h \in Peers :
        /\ \A c, event, q : Owes(todo'[h], c, event, q) <=> Owes(todo[h], c, event, q)
        /\ \A q, b : Welcomes(todo[h], q, b) => Welcomes(todo'[h], q, b)
        /\ todo[h] = <<>> => todo'[h] = <<>>
        /\ Working(h)'
        /\ Unjoined(h)' => Unjoined(h) /\ out'[h] = <<>>
        /\ h \in peers => at'[h] \in {"busy", "in"}
        /\ ~cancelled'[h] => ~cancelled[h] /\ \A q \in Peers \ {h} : \A e :
            RosterEnds(out[h], h, q, roster[h][q], e) => RosterEnds(out'[h], h, q, roster'[h][q], e)

LEMMA QuietStep ==
    ASSUME RoomInv, Quietly
    PROVE  Orderly' /\ Mirrors'
  <1>1. /\ peers' = peers /\ info' = info /\ early' = early /\ ghosts' = ghosts
        /\ peers \in SUBSET Peers
    BY DEF Quietly, RoomInv, Typed, RoomTyped
  <1>2. \A h \in Peers : \A c, event, q : Owes(todo'[h], c, event, q) <=> Owes(todo[h], c, event, q)
    BY DEF Quietly
  <1>3. \A h \in Peers : \A q, b : Welcomes(todo[h], q, b) => Welcomes(todo'[h], q, b)
    BY DEF Quietly
  <1>4. \A c, q : ToldEarly(c, q)' <=> ToldEarly(c, q)
    BY <1>1 DEF ToldEarly
  <1>5. \A h \in Peers : Working(h)' /\ (Unjoined(h)' => Unjoined(h)) /\ (todo[h] = <<>> => todo'[h] = <<>>)
    BY DEF Quietly
  <1>6. ASSUME NEW h \in Peers PROVE Unheard(h)'
    <2>1. Unheard(h)
      BY DEF RoomInv, Orderly
    <2>2. Unjoined(h)' => Unjoined(h) /\ out'[h] = <<>>
      BY DEF Quietly
    <2> QED BY <1>1, <1>2, <2>1, <2>2 DEF Unheard
  <1>7. ASSUME NEW h \in Peers PROVE Stays(h)'
    <2>1. Stays(h)
      BY DEF RoomInv, Orderly
    <2>2. h \in peers => at'[h] \in {"busy", "in"}
      BY DEF Quietly
    <2> QED BY <1>1, <1>2, <1>5, <2>1, <2>2 DEF Stays
  <1>8. OneSession'
    BY <1>1 DEF RoomInv, Orderly, OneSession, SameClient
  <1>9. AllReplaced'
    <2>1. AllReplaced
      BY DEF RoomInv, Orderly
    <2> QED BY <1>1, <1>2, <1>4, <2>1 DEF AllReplaced, SameClient
  <1>10. ASSUME NEW elder \in [Peers -> SUBSET Peers], Ordered(elder) PROVE Ordered(elder)'
    <2>1. \A p, q \in Peers : p \in elder[q] => p # q /\ ~Unjoined(p)' /\ ~Unjoined(q)'
      BY <1>5, <1>10 DEF Ordered
    <2>2. \A q \in peers' : \A p \in Peers : p # q /\ SameClient(p, q) /\ todo'[p] # <<>> => p \in elder[q]
      BY <1>1, <1>5, <1>10 DEF Ordered
    <2>3. \A p, q \in Peers : \A c \in peers' : p # q /\ Owes(todo'[q], c, "peer-left", p) =>
            /\ p \in elder[q]
            /\ \A k \in Peers : SameClient(k, q) /\ k \in elder[q] /\ k # p => k \in elder[p]
      <3> SUFFICES ASSUME NEW p \in Peers, NEW q \in Peers, NEW c \in peers, p # q,
                          Owes(todo'[q], c, "peer-left", p)
                   PROVE  /\ p \in elder[q]
                          /\ \A k \in Peers : SameClient(k, q) /\ k \in elder[q] /\ k # p => k \in elder[p]
        BY <1>1
      <3>1. Owes(todo[q], c, "peer-left", p)
        BY <1>2
      <3> QED BY <1>10, <3>1 DEF Ordered
    <2>4. \A c \in peers' : \A p, q \in Peers :
            SameClient(p, q) /\ p \in elder[q] /\ Owes(todo'[p], c, "peer-joined", p) /\ ~ToldEarly(c, p)' =>
                \E k \in Peers : k # q /\ Owes(todo'[q], c, "peer-left", k)
      <3> SUFFICES ASSUME NEW c \in peers, NEW p \in Peers, NEW q \in Peers, SameClient(p, q), p \in elder[q],
                          Owes(todo'[p], c, "peer-joined", p), ~ToldEarly(c, p)
                   PROVE  \E k \in Peers : k # q /\ Owes(todo'[q], c, "peer-left", k)
        BY <1>1, <1>4
      <3>1. Owes(todo[p], c, "peer-joined", p)
        BY <1>2
      <3>2. \E k \in Peers : k # q /\ Owes(todo[q], c, "peer-left", k)
        BY <1>10, <3>1 DEF Ordered
      <3> QED BY <1>2, <3>2
    <2> QED BY <2>1, <2>2, <2>3, <2>4 DEF Ordered, SameClient
  <1>11. ASSUME NEW c \in Peers, NEW q \in Peers, NEW b, Good(c, q, b) PROVE Good(c, q, b)'
    BY <1>1, <1>2, <1>11 DEF Good
  <1>12. ASSUME NEW c \in peers, ~cancelled'[c], NEW q \in Peers \ {c}, ~ToldEarly(c, q) PROVE Mirror(c, q)'
    <2>1. c \in Peers /\ ~cancelled[c]
      BY <1>1, <1>12 DEF Quietly
    <2>2. Mirror(c, q)
      BY <1>12, <2>1 DEF RoomInv, Mirrors
    <2>3. PICK e \in Entries, b \in Entries :
            RosterEnds(out[c], c, q, roster[c][q], e) /\ OnceWelcome(c, q, e, b) /\ Good(c, q, b)
      BY <2>2 DEF Mirror
    <2>4. RosterEnds(out'[c], c, q, roster'[c][q], e)
      BY <1>12, <2>1, <2>3 DEF Quietly
    <2>5. OnceWelcome(c, q, e, b)'
      BY <1>2, <1>3, <2>1, <2>3 DEF OnceWelcome
    <2>6. Good(c, q, b)'
      BY <1>11, <2>1, <2>3
    <2> QED BY <2>4, <2>5, <2>6 DEF Mirror
  <1>13. Mirrors'
    BY <1>1, <1>4, <1>12 DEF Mirrors
  <1> QED BY <1>5, <1>6, <1>7, <1>8, <1>9, <1>10, <1>13 DEF RoomInv, Orderly

-----------------------------------------------------------------------------
(* A message is queued to one peer.                                        *)

LEMMA WorkOwes ==
    ASSUME NEW h, NEW n, NEW s, WorkOf(h, n, s), NEW c, NEW q
    PROVE  /\ Owes(s, c, "peer-left", q) /\ q # h => SameClient(q, h) /\ Owes(s, c, "peer-joined", h)
           /\ Owes(s, c, "welcome", q) => q = h /\ c = h
           /\ Owes(s, c, "peer-joined", q) => q = h
  BY DEF WorkOf, Item, Owes

\* What the step of p that queues m to c0 does.
Sends(p, c0, m) ==
    /\ peers' = peers /\ info' = info /\ at' = at
    /\ m \in Message /\ c0 \in Peers
    /\ m.event = "welcome" => c0 = p
    /\ m.event \in {"peer-joined", "peer-state", "peer-info"} => m.id = p /\ m.info = info[p]
    /\ m.event \in {"peer-state", "peer-info"} => \A c, q : ~Owes(todo[p], c, "peer-joined", q)
    /\ Owes(todo[p], c0, m.event, m.id) /\ todo[p] # <<>>
    /\ m.event = "welcome" => \A q, b : Welcomes(todo[p], q, b) => b = m.peers[q]
    /\ \A h \in Peers :
        /\ WorkOf(h, info[h], todo'[h])
        /\ \A c, event, q : Owes(todo'[h], c, event, q) <=>
            Owes(todo[h], c, event, q) /\ ~(h = p /\ c = c0 /\ event = m.event /\ q = m.id)
        /\ \A q, b : Welcomes(todo[h], q, b) => Welcomes(todo'[h], q, b)
        /\ todo[h] = <<>> => todo'[h] = <<>>
    /\ early \subseteq early' /\ ghosts' = ghosts
    /\ m.event # "welcome" /\ Owed(c0, "welcome", c0) => <<c0, m.id, "welcome">> \in early'
    /\ m.event = "peer-left" /\ Owed(c0, "peer-joined", m.id) => <<c0, m.id, "joined">> \in early'
    /\ Send(c0, m)

LEMMA SendNextSends ==
    ASSUME RoomInv, NEW p, p \in Peers, SendNext(p)
    PROVE  \E c0 : \E m : Sends(p, c0, m)
  <1> DEFINE s == todo[p]
             w == s[1]
             m == w.msg
  <1>1. todo \in [Peers -> Seq(Work)] /\ WorkOf(p, info[p], s)
    BY DEF RoomInv, Typed, QueuesTyped, Orderly, Working
  <1>2. s # <<>> /\ s \in Seq(Work) /\ Head(s) = w /\ DOMAIN s = 1 .. Len(s) /\ Len(s) \in Nat /\ 1 \in DOMAIN s
        /\ w \in Work
    BY <1>1 DEF SendNext
  <1>3. IsMsg(w)
    BY <1>2 DEF SendNext, IsMsg
  <1>4. PICK c0 \in w.to :
            /\ Send(c0, m)
            /\ todo' = [todo EXCEPT ![p] = Tell(m, w.to \ {c0}) \o Tail(s)]
            /\ early' = early \union ({c0} \X {m.id} \X Overtaken(c0, m))
    BY <1>2 DEF SendNext
  <1>5. m \in Message /\ c0 \in Peers
    BY <1>2, <1>3, <1>4, WorkKinds
  <1>6. Item(p, info[p], s, 1)
    BY <1>1, <1>2 DEF WorkOf
  <1>7. todo'[p] = Tell(m, w.to \ {c0}) \o Tail(s) /\ \A h \in Peers : h # p => todo'[h] = todo[h]
    BY <1>1, <1>4
  <1>8. WorkOf(p, info[p], todo'[p]) /\ LessOne(s, todo'[p], c0)
    BY <1>1, <1>2, <1>3, <1>4, <1>7, SendWork
  <1>9. peers' = peers /\ info' = info /\ at' = at /\ ghosts' = ghosts
    BY DEF SendNext, voices
  <1>10. m.event = "welcome" => c0 = p
    BY <1>3, <1>4, <1>6 DEF Item
  <1>11. m.event \in {"peer-joined", "peer-state", "peer-info"} => m.id = p /\ m.info = info[p]
    BY <1>3, <1>6 DEF Item
  <1>12. ASSUME m.event \in {"peer-state", "peer-info"}, NEW c, NEW q PROVE ~Owes(s, c, "peer-joined", q)
    <2>1. DOMAIN s = {1}
      BY <1>2, <1>3, <1>6, <1>12 DEF Item
    <2> QED BY <1>12, <2>1 DEF Owes
  <1>13. Owes(s, c0, m.event, m.id)
    BY <1>2, <1>3, <1>4 DEF Owes
  <1>14. m.event = "welcome" => \A q, b : Welcomes(s, q, b) => b = m.peers[q]
    BY <1>2, <1>3 DEF Welcomes
  <1>15. ASSUME NEW h \in Peers
         PROVE  /\ WorkOf(h, info[h], todo'[h])
                /\ \A c, event, q : Owes(todo'[h], c, event, q) <=>
                    Owes(todo[h], c, event, q) /\ ~(h = p /\ c = c0 /\ event = m.event /\ q = m.id)
                /\ \A q, b : Welcomes(todo[h], q, b) => Welcomes(todo'[h], q, b)
                /\ todo[h] = <<>> => todo'[h] = <<>>
    <2>1. CASE h = p
      BY <1>2, <1>8, <2>1 DEF LessOne
    <2>2. CASE h # p
      <3>1. WorkOf(h, info[h], todo[h])
        BY DEF RoomInv, Orderly, Working
      <3> QED BY <1>7, <2>2, <3>1
    <2> QED BY <2>1, <2>2
  <1>16. early \subseteq early'
    BY <1>4
  <1>17. m.event # "welcome" /\ Owed(c0, "welcome", c0) => <<c0, m.id, "welcome">> \in early'
    BY <1>4 DEF Overtaken
  <1>18. m.event = "peer-left" /\ Owed(c0, "peer-joined", m.id) => <<c0, m.id, "joined">> \in early'
    BY <1>4 DEF Overtaken
  <1>19. Send(c0, m)
    BY <1>4
  <1> HIDE DEF s, w, m
  <1>20. Sends(p, c0, m)
    BY <1>2, <1>5, <1>9, <1>10, <1>11, <1>12, <1>13, <1>14, <1>15, <1>16, <1>17, <1>18, <1>19 DEF Sends, s
  <1> QED BY <1>20

\* What the step says of who was told of whom too early.
LEMMA SendsEarly ==
    ASSUME NEW p, NEW c0, NEW m, Sends(p, c0, m)
    PROVE  /\ \A c, q : ToldEarly(c, q) => ToldEarly(c, q)'
           /\ m.event # "welcome" /\ Owed(c0, "welcome", c0) =>
                \A q : q = m.id \/ SameClient(m.id, q) => ToldEarly(c0, q)'
           /\ m.event = "peer-left" /\ Owed(c0, "peer-joined", m.id) =>
                \A q : q = m.id \/ SameClient(m.id, q) => ToldEarly(c0, q)'
  <1>1. early \subseteq early'
    BY DEF Sends
  <1>2. \A c, q : ToldEarly(c, q) => ToldEarly(c, q)'
    BY <1>1 DEF ToldEarly, SameClient
  <1>3. ASSUME NEW k, <<c0, m.id, k>> \in early', NEW q, q = m.id \/ SameClient(m.id, q)
        PROVE  ToldEarly(c0, q)'
    <2> DEFINE e == <<c0, m.id, k>>
    <2>1. e[1] = c0 /\ e[2] = m.id
      OBVIOUS
    <2> HIDE DEF e
    <2>2. e \in early'
      BY <1>3 DEF e
    <2> QED BY <1>3, <2>1, <2>2 DEF ToldEarly, SameClient
  <1> QED BY <1>2, <1>3 DEF Sends

LEMMA SendOrderly ==
    ASSUME RoomInv, NEW p, p \in Peers, NEW c0, NEW m, Sends(p, c0, m)
    PROVE  Orderly'
  <1>1. peers' = peers /\ info' = info /\ at' = at /\ peers \in SUBSET Peers
    BY DEF Sends, RoomInv, Typed, RoomTyped
  <1>2. \A h \in Peers : \A c, event, q : Owes(todo'[h], c, event, q) => Owes(todo[h], c, event, q)
    BY DEF Sends
  <1>3. \A h \in Peers : \A c, event, q :
            Owes(todo[h], c, event, q) /\ ~(h = p /\ c = c0 /\ event = m.event /\ q = m.id)
                => Owes(todo'[h], c, event, q)
    BY DEF Sends
  <1>4. \A c, q : ~ToldEarly(c, q)' => ~ToldEarly(c, q)
    BY SendsEarly
  <1>5. \A h \in Peers : Working(h)' /\ (todo[h] = <<>> => todo'[h] = <<>>)
    BY <1>1 DEF Sends, RoomInv, Orderly, Working, Resting
  <1>6. ASSUME NEW h \in Peers PROVE Unheard(h)'
    <2>1. Unheard(h)
      BY DEF RoomInv, Orderly
    <2>2. Owes(todo[p], c0, m.event, m.id)
      BY DEF Sends
    <2>3. Unjoined(h)' <=> Unjoined(h)
      BY <1>1 DEF Unjoined
    <2>4. Unjoined(h) => h # c0
      BY <2>1, <2>2 DEF Unheard
    <2>5. h # c0 /\ out[h] = <<>> => out'[h] = <<>>
      <3>1. Send(c0, m) /\ out \in [Peers -> Seq(Delivery)]
        BY DEF Sends, RoomInv, Typed, QueuesTyped
      <3> QED BY <3>1 DEF Send, Cancel
    <2> QED BY <1>1, <1>2, <2>1, <2>3, <2>4, <2>5 DEF Unheard
  <1>7. ASSUME NEW h \in Peers PROVE Stays(h)'
    <2>1. Stays(h)
      BY DEF RoomInv, Orderly
    <2>2. Unjoined(h)' <=> Unjoined(h)
      BY <1>1 DEF Unjoined
    <2> QED BY <1>1, <1>2, <2>1, <2>2 DEF Stays
  <1>8. OneSession'
    BY <1>1 DEF RoomInv, Orderly, OneSession, SameClient
  <1>9. AllReplaced'
    <2>1. AllReplaced
      BY DEF RoomInv, Orderly
    <2> QED BY <1>1, <1>2, <1>4, <2>1 DEF AllReplaced, SameClient
  <1>10. ASSUME NEW elder \in [Peers -> SUBSET Peers], Ordered(elder) PROVE Ordered(elder)'
    <2>1. \A x, q \in Peers : x \in elder[q] => x # q /\ ~Unjoined(x)' /\ ~Unjoined(q)'
      BY <1>1, <1>10 DEF Ordered, Unjoined
    <2>2. \A q \in peers' : \A x \in Peers : x # q /\ SameClient(x, q) /\ todo'[x] # <<>> => x \in elder[q]
      BY <1>1, <1>5, <1>10 DEF Ordered
    <2>3. \A x, q \in Peers : \A c \in peers' : x # q /\ Owes(todo'[q], c, "peer-left", x) =>
            /\ x \in elder[q]
            /\ \A k \in Peers : SameClient(k, q) /\ k \in elder[q] /\ k # x => k \in elder[x]
      <3> SUFFICES ASSUME NEW x \in Peers, NEW q \in Peers, NEW c \in peers, x # q,
                          Owes(todo'[q], c, "peer-left", x)
                   PROVE  /\ x \in elder[q]
                          /\ \A k \in Peers : SameClient(k, q) /\ k \in elder[q] /\ k # x => k \in elder[x]
        BY <1>1
      <3>1. Owes(todo[q], c, "peer-left", x)
        BY <1>2
      <3> QED BY <1>10, <3>1 DEF Ordered
    <2>4. ASSUME NEW c \in peers, NEW x \in Peers, NEW q \in Peers, SameClient(x, q), x \in elder[q],
                 Owes(todo'[x], c, "peer-joined", x), ~ToldEarly(c, x)'
          PROVE  \E k \in Peers : k # q /\ Owes(todo'[q], c, "peer-left", k)
      <3>1. Owes(todo[x], c, "peer-joined", x) /\ ~ToldEarly(c, x)
        BY <1>2, <1>4, <2>4
      <3>2. PICK k \in Peers : k # q /\ Owes(todo[q], c, "peer-left", k)
        BY <1>10, <2>4, <3>1 DEF Ordered
      <3>3. ASSUME q = p, c = c0, m.event = "peer-left", m.id = k PROVE FALSE
        <4>1. SameClient(x, q) /\ SameClient(k, q)
          <5>1. WorkOf(q, info[q], todo[q])
            BY DEF RoomInv, Orderly, Working
          <5> QED BY <2>4, <3>2, <5>1, WorkOwes
        <4>2. SameClient(k, x)
          BY <4>1, Kinship
        <4>3. Owes(todo[k], c, "peer-joined", k)
          <5>1. CASE k = x
            BY <3>1, <5>1
          <5>2. CASE k # x
            <6>1. x \in elder[k]
              BY <1>10, <2>4, <3>2, <5>2 DEF Ordered
            <6>2. SameClient(x, k)
              BY <4>2, Kinship
            <6>3. PICK l \in Peers : l # k /\ Owes(todo[k], c, "peer-left", l)
              BY <1>10, <2>4, <3>1, <6>1, <6>2 DEF Ordered
            <6>4. WorkOf(k, info[k], todo[k])
              BY DEF RoomInv, Orderly, Working
            <6> QED BY <6>3, <6>4, WorkOwes
          <5> QED BY <5>1, <5>2
        <4>4. Owed(c0, "peer-joined", m.id)
          BY <3>2, <3>3, <4>3, OwedIs
        <4>5. ToldEarly(c0, x)'
          BY <3>3, <4>2, <4>4, SendsEarly
        <4> QED BY <2>4, <3>3, <4>5
      <3>4. Owes(todo'[q], c, "peer-left", k)
        BY <1>3, <3>2, <3>3
      <3> QED BY <3>2, <3>4
    <2>5. \A c \in peers' : \A x, q \in Peers :
            SameClient(x, q) /\ x \in elder[q] /\ Owes(todo'[x], c, "peer-joined", x) /\ ~ToldEarly(c, x)' =>
                \E k \in Peers : k # q /\ Owes(todo'[q], c, "peer-left", k)
      BY <1>1, <2>4
    <2> QED BY <2>1, <2>2, <2>3, <2>5 DEF Ordered, SameClient
  <1> QED BY <1>5, <1>6, <1>7, <1>8, <1>9, <1>10 DEF RoomInv, Orderly

\* Where nothing about q is queued to c, what is right to show of q stays so.
LEMMA SendGoodElsewhere ==
    ASSUME NEW p, p \in Peers, NEW c0, NEW m, Sends(p, c0, m),
           NEW c, NEW q, q \in Peers, ~(c = c0 /\ q = m.id), NEW b, Good(c, q, b)
    PROVE  Good(c, q, b)'
  <1>1. peers' = peers /\ info' = info /\ ghosts' = ghosts
    BY DEF Sends
  <1>2. \A h \in Peers : \A event : Owes(todo'[h], c, event, q) <=> Owes(todo[h], c, event, q)
    BY DEF Sends
  <1> QED BY <1>1, <1>2 DEF Good

\* The message changes what is right to show of q into what the client makes of it.
LEMMA SendGood ==
    ASSUME RoomInv, NEW p, p \in Peers, NEW c, c \in peers, NEW m, Sends(p, c, m), m.event # "welcome",
           NEW q, q \in Peers \ {c}, ~ToldEarly(c, q)', NEW b, b \in Entries, Good(c, q, b)
    PROVE  Good(c, q, Eff(c, q, b, m))'
  <1> DEFINE x == Eff(c, q, b, m)
  <1>0. CASE q \notin peers /\ <<c, q>> \in ghosts
    BY <1>0 DEF Good, Sends
  <1> SUFFICES ASSUME ~(q \notin peers /\ <<c, q>> \in ghosts) PROVE Good(c, q, x)'
    BY <1>0
  <1>1. peers' = peers /\ info' = info /\ info \in [Peers -> Info] /\ peers \in SUBSET Peers
    BY DEF Sends, RoomInv, Typed, RoomTyped
  <1>2. \A h \in Peers : \A event, k :
            Owes(todo'[h], c, event, k) <=> Owes(todo[h], c, event, k) /\ ~(h = p /\ event = m.event /\ k = m.id)
    BY DEF Sends
  <1>3. m.event \in {"peer-joined", "peer-left", "peer-state", "peer-info"}
    BY MessageKinds DEF Sends
  <1>4. Absent \notin Listed /\ Absent \notin Info
    BY WhatIsListed
  <1>5. CASE m.event = "peer-joined"
    <2>1. m.id = p /\ m.info = info[p] /\ Owes(todo[p], c, "peer-joined", p)
      BY <1>5 DEF Sends
    <2>2. CASE q = p
      <3>1. x = info[p] /\ x # Absent
        BY <1>1, <1>4, <1>5, <2>1, <2>2 DEF Eff
      <3>2. CASE q \in peers
        BY <1>1, <2>2, <3>1, <3>2 DEF Good
      <3>3. CASE q \notin peers
        <4>1. \E h \in Peers : Owes(todo[h], c, "peer-left", q)
          BY <2>1, <2>2, <3>3 DEF Good
        <4>2. \E h \in Peers : Owes(todo'[h], c, "peer-left", q)
          BY <1>2, <1>5, <4>1
        <4> QED BY <1>1, <3>3, <4>2 DEF Good
      <3> QED BY <3>2, <3>3
    <2>3. CASE q # p /\ SameClient(q, p)
      <3>1. x \in {Absent, b}
        BY <1>5, <2>1, <2>3 DEF Eff
      <3>2. CASE q \in peers
        <4>1. ~ToldEarly(c, p) /\ SameClient(p, q)
          BY <2>3, Kinship, SendsEarly
        <4>2. PICK elder \in [Peers -> SUBSET Peers] : Ordered(elder)
          BY DEF RoomInv, Orderly
        <4>3. p \in elder[q]
          BY <2>3, <3>2, <4>1, <4>2 DEF Ordered, Sends
        <4>4. PICK k \in Peers : k # q /\ Owes(todo[q], c, "peer-left", k)
          BY <2>1, <4>1, <4>2, <4>3 DEF Ordered
        <4>5. WorkOf(q, info[q], todo[q])
          BY DEF RoomInv, Orderly, Working
        <4>6. Owes(todo[q], c, "peer-joined", q)
          BY <4>4, <4>5, WorkOwes
        <4>7. Owes(todo'[q], c, "peer-joined", q)
          BY <1>2, <2>3, <4>6
        <4> QED BY <1>1, <3>2, <4>7 DEF Good
      <3>3. CASE q \notin peers
        <4>1. \/ \E h \in Peers : Owes(todo[h], c, "peer-left", q)
              \/ x = Absent /\ ~Owes(todo[q], c, "peer-joined", q)
          BY <3>1, <3>3 DEF Good
        <4>2. \/ \E h \in Peers : Owes(todo'[h], c, "peer-left", q)
              \/ x = Absent /\ ~Owes(todo'[q], c, "peer-joined", q)
          BY <1>2, <1>5, <4>1
        <4> QED BY <1>1, <3>3, <4>2 DEF Good
      <3> QED BY <3>2, <3>3
    <2>4. CASE q # p /\ ~SameClient(q, p)
      <3>1. x = b
        BY <1>5, <2>1, <2>4 DEF Eff
      <3> QED BY <2>1, <2>4, <3>1, SendGoodElsewhere
    <2> QED BY <2>2, <2>3, <2>4
  <1>6. CASE m.event = "peer-left"
    <2>1. CASE q = m.id
      <3>1. x = Absent
        BY <1>6, <2>1 DEF Eff
      <3>2. q \notin peers
        <4>1. Stays(q)
          BY DEF RoomInv, Orderly
        <4>2. Owes(todo[p], c, "peer-left", q)
          BY <1>6, <2>1 DEF Sends
        <4> QED BY <4>1, <4>2 DEF Stays
      <3>3. ~Owes(todo[q], c, "peer-joined", q)
        <4>1. Owes(todo[q], c, "peer-joined", q) => Owed(c, "peer-joined", m.id)
          BY <2>1, OwedIs
        <4> QED BY <1>6, <2>1, <4>1, SendsEarly
      <3>4. ~Owes(todo'[q], c, "peer-joined", q)
        BY <1>2, <3>3
      <3> QED BY <1>1, <3>1, <3>2, <3>4 DEF Good
    <2>2. CASE q # m.id
      <3>1. x = b
        BY <1>6, <2>2 DEF Eff
      <3> QED BY <2>2, <3>1, SendGoodElsewhere
    <2> QED BY <2>1, <2>2
  <1>7. CASE m.event \in {"peer-state", "peer-info"}
    <2>1. m.id = p /\ m.info = info[p] /\ ~Owes(todo[p], c, "peer-joined", p)
      BY <1>7 DEF Sends
    <2>2. CASE q # p
      <3>1. x = b
        BY <1>7, <2>1, <2>2 DEF Eff
      <3> QED BY <2>1, <2>2, <3>1, SendGoodElsewhere
    <2>3. CASE q = p
      <3>1. CASE q \notin peers
        <4>1. b # Absent => \E h \in Peers : Owes(todo'[h], c, "peer-left", q)
          BY <1>2, <1>7, <3>1 DEF Good
        <4>2. b = Absent => x = b
          BY <1>7 DEF Eff
        <4>3. \/ \E h \in Peers : Owes(todo[h], c, "peer-left", q)
              \/ ~Owes(todo[q], c, "peer-joined", q)
          BY <3>1 DEF Good
        <4>4. \/ \E h \in Peers : Owes(todo'[h], c, "peer-left", q)
              \/ ~Owes(todo'[q], c, "peer-joined", q)
          BY <1>2, <1>7, <4>3
        <4> QED BY <1>1, <3>1, <4>1, <4>2, <4>4 DEF Good
      <3>2. CASE q \in peers
        <4>1. /\ b # Absent
              /\ c \notin Lurkers =>
                /\ Owes(todo[q], c, "peer-state", q) \/ b.muted = info[q].muted
                /\ Owes(todo[q], c, "peer-info", q) \/ b.name = info[q].name
          BY <2>1, <2>3, <3>2 DEF Good
        <4>2. b \in Listed /\ info[p] \in Info
          BY <1>1, <4>1 DEF Entries
        <4>3. CASE c \in Lurkers
          <5>1. x = b
            BY <1>7, <4>3 DEF Eff
          <5> QED BY <1>1, <3>2, <4>1, <4>3, <5>1 DEF Good
        <4>4. CASE c \notin Lurkers /\ m.event = "peer-state"
          <5>1. x = [b EXCEPT !.muted = info[p].muted]
            BY <2>1, <2>3, <4>1, <4>4 DEF Eff
          <5>2. x \in Listed /\ x.muted = info[p].muted /\ x.name = b.name
            <6> DEFINE i == info[p]
                       y == [b EXCEPT !.muted = i.muted]
            <6>1. i \in Info
              BY <4>2
            <6> HIDE DEF i
            <6>2. y \in Listed /\ y.muted = i.muted /\ y.name = b.name
              BY <4>2, <6>1 DEF Info, Listed
            <6> HIDE DEF y
            <6>3. x = y
              BY <5>1 DEF i, y
            <6> QED BY <6>2, <6>3 DEF i
          <5>3. Owes(todo'[q], c, "peer-info", q) \/ x.name = info[q].name
            BY <1>2, <4>1, <4>4, <5>2
          <5> QED BY <1>1, <1>4, <2>3, <3>2, <5>2, <5>3 DEF Good
        <4>5. CASE c \notin Lurkers /\ m.event = "peer-info"
          <5>1. x = [b EXCEPT !.name = info[p].name]
            BY <2>1, <2>3, <4>1, <4>5 DEF Eff
          <5>2. x \in Listed /\ x.name = info[p].name /\ x.muted = b.muted
            <6> DEFINE i == info[p]
                       y == [b EXCEPT !.name = i.name]
            <6>1. i \in Info
              BY <4>2
            <6> HIDE DEF i
            <6>2. y \in Listed /\ y.name = i.name /\ y.muted = b.muted
              BY <4>2, <6>1 DEF Info, Listed
            <6> HIDE DEF y
            <6>3. x = y
              BY <5>1 DEF i, y
            <6> QED BY <6>2, <6>3 DEF i
          <5>3. Owes(todo'[q], c, "peer-state", q) \/ x.muted = info[q].muted
            BY <1>2, <4>1, <4>5, <5>2
          <5> QED BY <1>1, <1>4, <2>3, <3>2, <5>2, <5>3 DEF Good
        <4> QED BY <1>7, <4>3, <4>4, <4>5
      <3> QED BY <3>1, <3>2
    <2> QED BY <2>2, <2>3
  <1> QED BY <1>3, <1>5, <1>6, <1>7

LEMMA SendMirrors ==
    ASSUME RoomInv, NEW p, p \in Peers, NEW c0, NEW m, Sends(p, c0, m)
    PROVE  Mirrors'
  <1>1. /\ peers' = peers /\ peers \in SUBSET Peers /\ m \in Delivery /\ Send(c0, m) /\ c0 \in Peers
        /\ out \in [Peers -> Seq(Delivery)] /\ roster \in [Peers -> Listing]
        /\ cancelled \in [Peers -> BOOLEAN]
    BY DEF Sends, Delivery, RoomInv, Typed, RoomTyped, QueuesTyped
  <1>2. \A h \in Peers : \A q, b : Welcomes(todo[h], q, b) => Welcomes(todo'[h], q, b)
    BY DEF Sends
  <1>3. \A h \in Peers : \A c, event, q : Owes(todo'[h], c, event, q) <=>
            Owes(todo[h], c, event, q) /\ ~(h = p /\ c = c0 /\ event = m.event /\ q = m.id)
    BY DEF Sends
  <1>4. ASSUME NEW c \in peers, ~cancelled'[c], NEW q \in Peers \ {c}, ~ToldEarly(c, q)' PROVE Mirror(c, q)'
    <2>1. ~cancelled[c] /\ c \in Peers /\ roster'[c] = roster[c]
      BY <1>1, <1>4 DEF Send, Cancel
    <2>2. ~ToldEarly(c, q)
      BY <1>4, SendsEarly
    <2>3. Mirror(c, q)
      BY <1>4, <2>1, <2>2 DEF RoomInv, Mirrors
    <2>4. PICK e \in Entries, b \in Entries :
            RosterEnds(out[c], c, q, roster[c][q], e) /\ OnceWelcome(c, q, e, b) /\ Good(c, q, b)
      BY <2>3 DEF Mirror
    <2>5. CASE c # c0
      <3>1. out'[c] = out[c]
        BY <1>1, <2>5 DEF Send, Cancel
      <3>2. Good(c, q, b)'
        BY <2>4, <2>5, SendGoodElsewhere
      <3>3. OnceWelcome(c, q, e, b)'
        BY <1>2, <1>3, <2>1, <2>4, <2>5 DEF OnceWelcome
      <3> QED BY <2>1, <2>4, <3>1, <3>2, <3>3 DEF Mirror
    <2>6. CASE c = c0
      <3> DEFINE x == Eff(c, q, e, m)
      <3>1. out'[c] = Append(out[c], m)
        BY <1>1, <1>4, <2>1, <2>6 DEF Send, Cancel
      <3>2. RosterEnds(out'[c], c, q, roster'[c][q], x)
        BY <1>1, <2>1, <2>4, <3>1, RosterEndsAppend
      <3>3. x \in Entries
        BY <1>1, EffIsEntry
      <3>4. CASE m.event = "welcome"
        <4>1. p = c
          BY <2>6, <3>4 DEF Sends
        <4>2. WorkOf(c, info[c], todo[c])
          BY <2>1 DEF RoomInv, Orderly, Working
        <4>3. m.id = c /\ Owes(todo[c], c, "welcome", c)
          BY <2>6, <3>4, <4>1, <4>2, WorkOwes DEF Sends
        <4>4. b = m.peers[q]
          BY <2>4, <3>4, <4>1, <4>3 DEF OnceWelcome, Sends
        <4>5. x = b
          BY <3>4, <4>4 DEF Eff
        <4>6. OnceWelcome(c, q, x, b)'
          BY <1>3, <2>1, <2>6, <3>4, <4>1, <4>3, <4>5 DEF OnceWelcome
        <4>7. Good(c, q, b)'
          BY <2>4, <4>3, SendGoodElsewhere
        <4> QED BY <3>2, <3>3, <4>6, <4>7 DEF Mirror
      <3>5. CASE m.event # "welcome" /\ Owes(todo[c], c, "welcome", c)
        <4>1. Owed(c0, "welcome", c0)
          BY <2>1, <2>6, <3>5, OwedIs
        <4>2. q # m.id
          BY <1>4, <2>6, <3>5, <4>1, SendsEarly
        <4>3. Good(c, q, b)'
          BY <2>4, <4>2, SendGoodElsewhere
        <4>4. OnceWelcome(c, q, x, b)'
          BY <1>2, <1>3, <2>1, <2>4, <3>5 DEF OnceWelcome
        <4> QED BY <3>2, <3>3, <4>3, <4>4 DEF Mirror
      <3>6. CASE m.event # "welcome" /\ ~Owes(todo[c], c, "welcome", c)
        <4>1. b = e
          BY <2>4, <3>6 DEF OnceWelcome
        <4>2. OnceWelcome(c, q, x, x)'
          BY <1>3, <2>1, <3>6 DEF OnceWelcome
        <4>3. Good(c, q, x)'
          BY <1>4, <2>4, <2>6, <3>6, <4>1, SendGood
        <4> QED BY <3>2, <3>3, <4>2, <4>3 DEF Mirror
      <3> QED BY <3>4, <3>5, <3>6
    <2> QED BY <2>5, <2>6
  <1> QED BY <1>1, <1>4 DEF Mirrors

-----------------------------------------------------------------------------
(* A peer joins.                                                           *)

Evicted(p) == {q \in peers : SameClient(p, q)}

\* What the join of p does.
Joins(p, others) ==
    /\ others = peers \ Evicted(p) /\ peers' = others \union {p} /\ p \notin peers
    /\ at[p] = "hello" /\ at' = [at EXCEPT ![p] = "busy"]
    /\ todo[p] = <<>> /\ \A h \in Peers : h # p => todo'[h] = todo[h]
    /\ WorkOf(p, info[p], todo'[p]) /\ JoinOwes(todo'[p], p, Evicted(p), others, Snapshot(others))
    /\ UNCHANGED <<info, out, cancelled, roster, early, ghosts>>

LEMMA JoinJoins ==
    ASSUME RoomInv, NEW p, p \in Peers, Join(p)
    PROVE  \E others : Joins(p, others)
  <1> DEFINE S == Evicted(p)
             others == peers \ S
             snap == Snapshot(others)
  <1>1. /\ info \in [Peers -> Info] /\ peers \in SUBSET Peers /\ todo \in [Peers -> Seq(Work)]
        /\ Working(p) /\ Unheard(p) /\ OneSession
    BY DEF RoomInv, Typed, RoomTyped, QueuesTyped, Orderly
  <1>2. at[p] = "hello" /\ at' = [at EXCEPT ![p] = "busy"] /\ UNCHANGED <<info, out, cancelled, roster, early, ghosts>>
    BY DEF Join, voices
  <1>3. todo[p] = <<>> /\ p \notin peers
    BY <1>1, <1>2 DEF Working, Resting, Unheard, Unjoined
  <1>4. PICK order \in SetToSeqs(S) :
            /\ peers' = others \union {p}
            /\ todo' = [todo EXCEPT ![p] = JoinWorks(order, others, p, info[p], snap)]
    BY DEF Join, Evicted, JoinWorks, Evicts
  <1>5. S \in SUBSET Peers /\ others \in SUBSET Peers
    BY <1>1 DEF Evicted
  <1>6. \A q, r \in S : q = r
    <2> SUFFICES ASSUME NEW q \in S, NEW r \in S PROVE q = r
      OBVIOUS
    <2>1. q \in peers /\ r \in peers /\ SameClient(p, q) /\ SameClient(p, r)
      BY DEF Evicted
    <2>2. SameClient(q, r)
      BY <2>1, Kinship
    <2> QED BY <1>1, <2>1, <2>2 DEF OneSession
  <1>7. \A z \in S : z # p /\ SameClient(z, p)
    BY <1>3, Kinship DEF Evicted
  <1>8. snap \in Roster
    BY <1>1, <1>5 DEF Snapshot, Roster
  <1>9. todo'[p] = JoinWorks(order, others, p, info[p], snap) /\ \A h \in Peers : h # p => todo'[h] = todo[h]
    BY <1>1, <1>4
  <1>10. info[p] \in Info
    BY <1>1
  <1> HIDE DEF S, snap, others
  <1>11. MadeOf(todo'[p], Left(S, others), Welcoming(p, snap), Joining(p, info[p], others))
    BY <1>5, <1>6, <1>8, <1>9, <1>10, JoinMadeOf
  <1>12. WorkOf(p, info[p], todo'[p]) /\ JoinOwes(todo'[p], p, S, others, snap)
    BY <1>5, <1>6, <1>7, <1>8, <1>10, <1>11, JoinWork
  <1>13. Joins(p, others)
    BY <1>2, <1>3, <1>4, <1>9, <1>12 DEF Joins, S, others, snap
  <1> QED BY <1>13

\* What is owed once p has joined.
LEMMA JoinOwed ==
    ASSUME RoomInv, NEW p, p \in Peers, NEW others, Joins(p, others)
    PROVE  /\ \A h \in Peers : \A c, event, q : Owes(todo[h], c, event, q) => Owes(todo'[h], c, event, q)
           /\ \A h \in Peers : \A event, q : Owes(todo'[h], p, event, q) => event = "welcome" /\ q = p /\ h = p
           /\ \A h \in Peers : \A c, event, q :
                Owes(todo'[h], c, event, q) /\ h # p => Owes(todo[h], c, event, q)
           /\ \A c, event, q : Owes(todo'[p], c, event, q) <=>
                \/ event = "peer-left" /\ q \in Evicted(p) /\ c \in others
                \/ event = "welcome" /\ q = p /\ c = p
                \/ event = "peer-joined" /\ q = p /\ c \in others
           /\ p \notin others /\ p \notin Evicted(p) /\ Unjoined(p)
  <1>1. Unheard(p)
    BY DEF RoomInv, Orderly
  <1>2. Unjoined(p) /\ p \notin others /\ p \notin Evicted(p)
    BY DEF Joins, Evicted, Unjoined
  <1>3. \A h \in Peers : \A event, q : ~Owes(todo[h], p, event, q)
    BY <1>1, <1>2 DEF Unheard
  <1>4. \A c, event, q : Owes(todo'[p], c, event, q) <=>
            \/ event = "peer-left" /\ q \in Evicted(p) /\ c \in others
            \/ event = "welcome" /\ q = p /\ c = p
            \/ event = "peer-joined" /\ q = p /\ c \in others
    BY DEF Joins, JoinOwes
  <1>5. \A h \in Peers : h # p => todo'[h] = todo[h]
    BY DEF Joins
  <1>6. \A c, event, q : ~Owes(todo[p], c, event, q)
    BY OwesNothing DEF Joins
  <1>7. ASSUME NEW h \in Peers, NEW c, NEW event, NEW q, Owes(todo[h], c, event, q)
        PROVE  Owes(todo'[h], c, event, q)
    <2>1. h # p
      BY <1>6, <1>7
    <2> QED BY <1>5, <1>7, <2>1
  <1>8. ASSUME NEW h \in Peers, NEW event, NEW q, Owes(todo'[h], p, event, q)
        PROVE  event = "welcome" /\ q = p /\ h = p
    <2>1. h = p
      BY <1>3, <1>5, <1>8
    <2> QED BY <1>2, <1>4, <1>8, <2>1
  <1>9. ASSUME NEW h \in Peers, NEW c, NEW event, NEW q, Owes(todo'[h], c, event, q), h # p
        PROVE  Owes(todo[h], c, event, q)
    BY <1>5, <1>9
  <1> QED BY <1>2, <1>4, <1>7, <1>8, <1>9

LEMMA JoinOrderly ==
    ASSUME RoomInv, NEW p, p \in Peers, NEW others, Joins(p, others)
    PROVE  Orderly'
  <1> DEFINE S == Evicted(p)
  <1>1. /\ peers' = others \union {p} /\ others = peers \ S /\ p \notin peers /\ todo[p] = <<>>
        /\ info' = info /\ out' = out /\ early' = early /\ ghosts' = ghosts
        /\ at \in [Peers -> RoomStage] /\ at'[p] = "busy" /\ \A h \in Peers : h # p => at'[h] = at[h]
        /\ peers \in SUBSET Peers /\ S \in SUBSET peers
    BY DEF Joins, RoomInv, Typed, RoomTyped, Evicted
  <1>2. \A z \in peers : z \in S <=> SameClient(p, z)
    BY DEF Evicted
  <1> HIDE DEF S
  <1>3. /\ \A h \in Peers : \A c, event, q : Owes(todo[h], c, event, q) => Owes(todo'[h], c, event, q)
        /\ \A h \in Peers : \A event, q : Owes(todo'[h], p, event, q) => event = "welcome" /\ q = p /\ h = p
        /\ \A h \in Peers : \A c, event, q :
             Owes(todo'[h], c, event, q) /\ h # p => Owes(todo[h], c, event, q)
        /\ \A c, event, q : Owes(todo'[p], c, event, q) <=>
             \/ event = "peer-left" /\ q \in S /\ c \in others
             \/ event = "welcome" /\ q = p /\ c = p
             \/ event = "peer-joined" /\ q = p /\ c \in others
        /\ p \notin others /\ p \notin S /\ Unjoined(p)
    BY JoinOwed DEF S
  <1>4. \A h \in Peers : h # p => todo'[h] = todo[h]
    BY DEF Joins
  <1>5. \A c, q : ToldEarly(c, q)' <=> ToldEarly(c, q)
    BY <1>1 DEF ToldEarly
  <1>6. \A h \in Peers : Working(h) /\ Unheard(h) /\ Stays(h)
    BY DEF RoomInv, Orderly
  <1>7. \A h \in Peers : Unjoined(h)' => Unjoined(h) /\ h # p
    BY <1>1 DEF Unjoined
  <1>8. ASSUME NEW h \in Peers PROVE Working(h)'
    <2>1. CASE h = p
      BY <1>1, <2>1 DEF Joins, Working, Resting
    <2>2. CASE h # p
      BY <1>1, <1>4, <1>6, <2>2 DEF Working, Resting
    <2> QED BY <2>1, <2>2
  <1>9. ASSUME NEW h \in Peers PROVE Unheard(h)'
    <2> SUFFICES ASSUME Unjoined(h)'
                 PROVE  h \notin peers' /\ out'[h] = <<>> /\ \A k \in Peers : \A event, q : ~Owes(todo'[k], h, event, q)
      BY DEF Unheard
    <2>1. /\ h # p /\ h \notin peers /\ out[h] = <<>> /\ \A k \in Peers : \A event, q : ~Owes(todo[k], h, event, q)
      BY <1>6, <1>7 DEF Unheard
    <2>2. ASSUME NEW k \in Peers, NEW event, NEW q, Owes(todo'[k], h, event, q) PROVE FALSE
      <3>1. k = p
        BY <1>3, <2>1, <2>2
      <3> QED BY <1>1, <1>3, <2>1, <2>2, <3>1
    <2> QED BY <1>1, <2>1, <2>2
  <1>10. ASSUME NEW h \in Peers PROVE Stays(h)'
    <2>1. h \in peers' => at'[h] \in {"busy", "in"}
      BY <1>1, <1>6 DEF Stays
    <2>2. ASSUME h \in peers' \/ Unjoined(h)', NEW k \in Peers, NEW c, Owes(todo'[k], c, "peer-left", h)
          PROVE  FALSE
      <3>1. h \in peers \/ Unjoined(h)
        BY <1>1, <1>3, <1>7, <2>2
      <3>2. ~Owes(todo[k], c, "peer-left", h)
        BY <1>6, <3>1 DEF Stays
      <3>3. k = p
        BY <1>3, <2>2, <3>2
      <3>4. h \in S
        BY <1>3, <2>2, <3>3
      <3>5. h \in peers /\ ~Unjoined(h)
        BY <1>1, <1>6, <3>4 DEF Unheard
      <3> QED BY <1>1, <1>3, <1>7, <2>2, <3>4, <3>5
    <2> QED BY <2>1, <2>2 DEF Stays
  <1>11. OneSession'
    <2> SUFFICES ASSUME NEW x \in peers', NEW y \in peers', SameClient(x, y) PROVE x = y
      BY DEF OneSession, SameClient
    <2>1. OneSession
      BY DEF RoomInv, Orderly
    <2>2. CASE x \in others /\ y \in others
      BY <1>1, <2>1, <2>2 DEF OneSession
    <2>3. CASE x = p /\ y \in others
      BY <1>1, <1>2, <2>3
    <2>4. CASE y = p /\ x \in others
      BY <1>1, <1>2, <2>4, Kinship
    <2> QED BY <1>1, <2>2, <2>3, <2>4
  <1>12. AllReplaced'
    <2> SUFFICES ASSUME NEW c \in peers', NEW x \in Peers \ peers', Owes(todo'[x], c, "peer-joined", x),
                        ~ToldEarly(c, x)
                 PROVE  \E q \in peers' : SameClient(x, q)
      BY <1>5 DEF AllReplaced, SameClient
    <2>1. x # p /\ c # p
      <3>1. x # p
        BY <1>1
      <3>2. ASSUME c = p PROVE FALSE
        <4>1. Owes(todo'[x], p, "peer-joined", x)
          BY <3>2
        <4>2. "peer-joined" = "welcome"
          BY <1>3, <4>1
        <4> QED BY <4>2
      <3> QED BY <3>1, <3>2
    <2>2. Owes(todo[x], c, "peer-joined", x) /\ c \in peers
      BY <1>1, <1>3, <2>1
    <2>3. CASE x \in peers
      <3>1. SameClient(p, x)
        BY <1>1, <1>2, <2>3
      <3> QED BY <1>1, <3>1, Kinship
    <2>4. CASE x \notin peers
      <3>1. PICK q \in peers : SameClient(x, q)
        BY <2>2, <2>4 DEF RoomInv, Orderly, AllReplaced
      <3>2. CASE q \in others
        BY <1>1, <3>1, <3>2
      <3>3. CASE q \in S
        <4>1. SameClient(q, p)
          BY <1>2, <3>3, Kinship
        <4> QED BY <1>1, <3>1, <4>1, Kinship
      <3> QED BY <1>1, <3>2, <3>3
    <2> QED BY <2>3, <2>4
  <1>13. ASSUME NEW elder \in [Peers -> SUBSET Peers], Ordered(elder)
         PROVE  \E f \in [Peers -> SUBSET Peers] : Ordered(f)'
    <2> DEFINE P == {x \in Peers : x # p /\ (todo[x] # <<>> \/ x \in S)}
    <2>1. PICK next \in [Peers -> SUBSET Peers] :
            next[p] = P /\ \A q \in Peers : q # p => next[q] = elder[q]
      <3> DEFINE g == [elder EXCEPT ![p] = P]
      <3>1. g \in [Peers -> SUBSET Peers] /\ g[p] = P /\ \A q \in Peers : q # p => g[q] = elder[q]
        OBVIOUS
      <3> QED BY <3>1
    <2>2. \A x \in Peers : x \in P <=> x # p /\ (todo[x] # <<>> \/ x \in S)
      OBVIOUS
    <2> HIDE DEF P
    <2>3. \A x, q \in Peers : x \in elder[q] => x # q /\ ~Unjoined(x) /\ ~Unjoined(q)
      BY <1>13 DEF Ordered
    <2>4. \A x, q \in Peers : x \in elder[q] => x # p /\ q # p
      BY <1>3, <2>3
    <2>5. \A x \in Peers : todo[x] # <<>> \/ x \in S => ~Unjoined(x)
      BY <1>1, <1>6 DEF Working, Resting, Unheard, Unjoined
    <2>6. \A x, q \in Peers : x \in next[q] => x # q /\ ~Unjoined(x)' /\ ~Unjoined(q)'
      BY <1>7, <2>1, <2>2, <2>3, <2>5
    <2>7. ASSUME NEW q \in peers', NEW x \in Peers, x # q, SameClient(x, q), todo'[x] # <<>>
          PROVE  x \in next[q]
      <3>1. CASE q = p
        BY <1>4, <2>1, <2>2, <2>7, <3>1
      <3>2. CASE q # p
        <4>1. q \in peers /\ q \notin S
          BY <1>1, <3>2
        <4>2. x # p
          BY <1>2, <2>7, <4>1
        <4>3. todo[x] # <<>>
          BY <1>4, <2>7, <4>2
        <4>4. x \in elder[q]
          BY <1>13, <2>7, <4>1, <4>3 DEF Ordered
        <4> QED BY <1>1, <2>1, <3>2, <4>1, <4>4
      <3> QED BY <3>1, <3>2
    <2>8. ASSUME NEW x \in Peers, NEW q \in Peers, NEW c \in peers', x # q, Owes(todo'[q], c, "peer-left", x)
          PROVE  /\ x \in next[q]
                 /\ \A k \in Peers : SameClient(k, q) /\ k \in next[q] /\ k # x => k \in next[x]
      <3>1. c # p /\ c \in peers
        <4>1. ASSUME c = p PROVE FALSE
          <5>1. Owes(todo'[q], p, "peer-left", x)
            BY <2>8, <4>1
          <5>2. "peer-left" = "welcome"
            BY <1>3, <5>1
          <5> QED BY <5>2
        <4> QED BY <1>1, <4>1
      <3>2. CASE q = p
        <4>1. x \in S /\ x # p
          BY <1>3, <2>8, <3>2
        <4>2. x \in next[q]
          BY <2>1, <2>2, <3>2, <4>1
        <4>3. ASSUME NEW k \in Peers, SameClient(k, q), k \in next[q], k # x PROVE k \in next[x]
          <5>1. k # p /\ (todo[k] # <<>> \/ k \in S)
            BY <2>1, <2>2, <3>2, <4>3
          <5>2. SameClient(p, x) /\ x \in peers
            BY <1>1, <1>2, <4>1
          <5>3. SameClient(k, x)
            BY <3>2, <4>3, <5>2, Kinship
          <5>4. k \notin S
            BY <1>1, <4>3, <5>2, <5>3 DEF RoomInv, Orderly, OneSession
          <5>5. k \in elder[x]
            BY <1>13, <4>3, <5>1, <5>2, <5>3, <5>4 DEF Ordered
          <5> QED BY <2>1, <4>1, <5>5
        <4> QED BY <4>2, <4>3
      <3>3. CASE q # p
        <4>1. Owes(todo[q], c, "peer-left", x)
          BY <1>3, <2>8, <3>3
        <4>2. /\ x \in elder[q]
              /\ \A k \in Peers : SameClient(k, q) /\ k \in elder[q] /\ k # x => k \in elder[x]
          BY <1>13, <2>8, <3>1, <4>1 DEF Ordered
        <4>3. x # p
          BY <2>4, <4>2
        <4> QED BY <2>1, <3>3, <4>2, <4>3
      <3> QED BY <3>2, <3>3
    <2>9. ASSUME NEW c \in peers', NEW x \in Peers, NEW q \in Peers, SameClient(x, q), x \in next[q],
                 Owes(todo'[x], c, "peer-joined", x), ~ToldEarly(c, x)
          PROVE  \E k \in Peers : k # q /\ Owes(todo'[q], c, "peer-left", k)
      <3>1. c # p /\ c \in others /\ c \in peers
        BY <1>1, <1>3, <2>9
      <3>2. x # p
        BY <2>1, <2>2, <2>4, <2>9
      <3>3. Owes(todo[x], c, "peer-joined", x)
        BY <1>3, <2>9, <3>2
      <3>4. CASE q # p
        <4>1. x \in elder[q]
          BY <2>1, <2>9, <3>4
        <4>2. \E k \in Peers : k # q /\ Owes(todo[q], c, "peer-left", k)
          BY <1>13, <2>9, <3>1, <3>3, <4>1 DEF Ordered
        <4> QED BY <1>3, <4>2
      <3>5. CASE q = p
        <4>1. SameClient(p, x)
          BY <2>9, <3>5, Kinship
        <4>2. \E y \in S : y # p
          <5>1. CASE x \in peers
            BY <1>2, <3>2, <4>1, <5>1
          <5>2. CASE x \notin peers
            <6>1. PICK y \in peers : SameClient(x, y)
              BY <2>9, <3>1, <3>3, <5>2 DEF RoomInv, Orderly, AllReplaced
            <6>2. SameClient(p, y)
              BY <4>1, <6>1, Kinship
            <6> QED BY <1>1, <1>2, <6>1, <6>2
          <5> QED BY <5>1, <5>2
        <4> QED BY <1>1, <1>3, <3>1, <3>5, <4>2
      <3> QED BY <3>4, <3>5
    <2>10. \A q \in peers' : \A x \in Peers : x # q /\ SameClient(x, q) /\ todo'[x] # <<>> => x \in next[q]
      BY <2>7
    <2>11. \A x, q \in Peers : \A c \in peers' : x # q /\ Owes(todo'[q], c, "peer-left", x) =>
            /\ x \in next[q]
            /\ \A k \in Peers : SameClient(k, q) /\ k \in next[q] /\ k # x => k \in next[x]
      BY <2>8
    <2>12. \A c \in peers' : \A x, q \in Peers :
            SameClient(x, q) /\ x \in next[q] /\ Owes(todo'[x], c, "peer-joined", x) /\ ~ToldEarly(c, x)' =>
                \E k \in Peers : k # q /\ Owes(todo'[q], c, "peer-left", k)
      BY <1>5, <2>9
    <2>13. Ordered(next)'
      BY <2>6, <2>10, <2>11, <2>12 DEF Ordered, SameClient
    <2> QED BY <2>13
  <1>14. \E f \in [Peers -> SUBSET Peers] : Ordered(f)'
    BY <1>13 DEF RoomInv, Orderly
  <1> QED BY <1>8, <1>9, <1>10, <1>11, <1>12, <1>14 DEF Orderly

LEMMA JoinMirrors ==
    ASSUME RoomInv, NEW p, p \in Peers, NEW others, Joins(p, others)
    PROVE  Mirrors'
  <1> DEFINE S == Evicted(p)
  <1>1. /\ peers' = others \union {p} /\ others = peers \ S /\ p \notin peers
        /\ UNCHANGED <<info, out, cancelled, roster, early, ghosts>>
        /\ peers \in SUBSET Peers /\ S \in SUBSET peers /\ info \in [Peers -> Info]
        /\ roster \in [Peers -> Listing]
    BY DEF Joins, RoomInv, Typed, RoomTyped, QueuesTyped, Evicted
  <1> HIDE DEF S
  <1>2. /\ \A h \in Peers : \A c, event, q : Owes(todo[h], c, event, q) => Owes(todo'[h], c, event, q)
        /\ \A h \in Peers : \A event, q : Owes(todo'[h], p, event, q) => event = "welcome" /\ q = p /\ h = p
        /\ \A h \in Peers : \A c, event, q :
             Owes(todo'[h], c, event, q) /\ h # p => Owes(todo[h], c, event, q)
        /\ \A c, event, q : Owes(todo'[p], c, event, q) <=>
             \/ event = "peer-left" /\ q \in S /\ c \in others
             \/ event = "welcome" /\ q = p /\ c = p
             \/ event = "peer-joined" /\ q = p /\ c \in others
        /\ p \notin others /\ p \notin S /\ Unjoined(p)
    BY JoinOwed DEF S
  <1>3. \A h \in Peers : h # p => todo'[h] = todo[h]
    BY DEF Joins
  <1>4. \A c, q : ToldEarly(c, q)' <=> ToldEarly(c, q)
    BY <1>1 DEF ToldEarly
  <1>5. ASSUME NEW q \in Peers \ {p} PROVE Mirror(p, q)'
    <2>1. PICK e \in Entries : e = roster[p][q]
      BY <1>1 DEF Listing, Entries
    <2>2. PICK b \in Entries : b = Snapshot(others)[q]
      BY <1>1, WhatIsListed DEF Snapshot, Entries
    <2>3. b = IF q \in others THEN info[q] ELSE Absent
      BY <2>2 DEF Snapshot
    <2>4. out'[p] = <<>> /\ roster'[p][q] = e
      <3>1. Unheard(p)
        BY DEF RoomInv, Orderly
      <3> QED BY <1>1, <1>2, <2>1, <3>1 DEF Unheard
    <2>5. RosterEnds(out'[p], p, q, roster'[p][q], e)
      BY <2>4, RosterEndsNow
    <2>6. Welcomes(todo'[p], q, b)
      BY <2>2 DEF Joins, JoinOwes
    <2>7. OnceWelcome(p, q, e, b)'
      <3>1. Owes(todo'[p], p, "welcome", p)
        BY <1>2
      <3> QED BY <2>6, <3>1 DEF OnceWelcome
    <2>8. ~Owes(todo'[q], p, "peer-joined", q)
      BY <1>2
    <2>9. Good(p, q, b)'
      <3>1. CASE q \in others
        <4>1. b = info[q] /\ b # Absent /\ q \in peers'
          BY <1>1, <2>3, <3>1, WhatIsListed
        <4> QED BY <1>1, <4>1 DEF Good
      <3>2. CASE q \notin others
        <4>1. b = Absent /\ q \notin peers'
          BY <1>1, <2>3, <3>2
        <4> QED BY <2>8, <4>1 DEF Good
      <3> QED BY <3>1, <3>2
    <2> QED BY <2>5, <2>7, <2>9 DEF Mirror
  <1>6. ASSUME NEW c \in others, ~cancelled[c], NEW q \in Peers \ {c}, ~ToldEarly(c, q) PROVE Mirror(c, q)'
    <2>1. c \in peers /\ c # p /\ c \in Peers
      BY <1>1, <1>2
    <2>2. Mirror(c, q)
      BY <1>6, <2>1 DEF RoomInv, Mirrors
    <2>3. PICK e \in Entries, b \in Entries :
            RosterEnds(out[c], c, q, roster[c][q], e) /\ OnceWelcome(c, q, e, b) /\ Good(c, q, b)
      BY <2>2 DEF Mirror
    <2>4. RosterEnds(out'[c], c, q, roster'[c][q], e)
      BY <1>1, <2>3
    <2>5. OnceWelcome(c, q, e, b)'
      BY <1>3, <2>1, <2>3 DEF OnceWelcome
    <2>6. Good(c, q, b)'
      <3>1. CASE q = p
        <4>1. Owes(todo'[p], c, "peer-joined", p) /\ q \in peers'
          BY <1>1, <1>2, <1>6, <3>1
        <4> QED BY <3>1, <4>1 DEF Good
      <3>2. CASE q \in S
        <4>1. Owes(todo'[p], c, "peer-left", q) /\ q \notin peers'
          BY <1>1, <1>2, <1>6, <3>2
        <4> QED BY <4>1 DEF Good
      <3>3. CASE q \in others
        <4>1. q \in peers /\ q \in peers' /\ todo'[q] = todo[q] /\ info' = info
          BY <1>1, <1>2, <1>3, <3>3
        <4> QED BY <2>3, <4>1 DEF Good
      <3>4. CASE q \notin others /\ q # p /\ q \notin S
        <4>1. q \notin peers /\ q \notin peers' /\ todo'[q] = todo[q]
          BY <1>1, <1>3, <3>4
        <4>2. \A h \in Peers : Owes(todo[h], c, "peer-left", q) => Owes(todo'[h], c, "peer-left", q)
          BY <1>2
        <4> QED BY <1>1, <2>3, <4>1, <4>2 DEF Good
      <3> QED BY <3>1, <3>2, <3>3, <3>4
    <2> QED BY <2>4, <2>5, <2>6 DEF Mirror
  <1> QED BY <1>1, <1>4, <1>5, <1>6 DEF Mirrors

-----------------------------------------------------------------------------
(* A peer that is in the room leaves it, or updates its entry.             *)

\* A handler with nothing to do tells the others one thing about p.
Announcing(p, event) ==
    /\ p \in peers /\ at[p] = "in" /\ todo[p] = <<>>
    /\ \A h \in Peers : h # p => todo'[h] = todo[h]
    /\ WorkOf(p, info'[p], todo'[p])
    /\ \A c, k, q : Owes(todo'[p], c, k, q) <=> c \in Others(p) /\ k = event /\ q = p
    /\ UNCHANGED <<out, cancelled, roster, early, ghosts>>

LEMMA AnnouncesOwed ==
    ASSUME NEW p, p \in Peers, NEW event, Announcing(p, event)
    PROVE  /\ \A h \in Peers : \A c, k, q : Owes(todo[h], c, k, q) =>
                h # p /\ Owes(todo'[h], c, k, q)
           /\ \A h \in Peers : \A c, k, q : Owes(todo'[h], c, k, q) =>
                \/ h # p /\ Owes(todo[h], c, k, q)
                \/ h = p /\ c \in Others(p) /\ k = event /\ q = p
           /\ \A c \in Others(p) : Owes(todo'[p], c, event, p)
  <1>1. \A c, k, q : ~Owes(todo[p], c, k, q)
    BY OwesNothing DEF Announcing
  <1>2. ASSUME NEW h \in Peers, NEW c, NEW k, NEW q, Owes(todo[h], c, k, q)
        PROVE  h # p /\ Owes(todo'[h], c, k, q)
    <2>1. h # p
      BY <1>1, <1>2
    <2> QED BY <1>2, <2>1 DEF Announcing
  <1>3. ASSUME NEW h \in Peers, NEW c, NEW k, NEW q, Owes(todo'[h], c, k, q)
        PROVE  \/ h # p /\ Owes(todo[h], c, k, q)
               \/ h = p /\ c \in Others(p) /\ k = event /\ q = p
    <2>1. CASE h = p
      BY <1>3, <2>1 DEF Announcing
    <2>2. CASE h # p
      BY <1>3, <2>2 DEF Announcing
    <2> QED BY <2>1, <2>2
  <1>4. \A c \in Others(p) : Owes(todo'[p], c, event, p)
    BY DEF Announcing
  <1> QED BY <1>2, <1>3, <1>4

Leaves(p) ==
    /\ Announcing(p, "peer-left") /\ peers' = peers \ {p} /\ info' = info
    /\ at' = [at EXCEPT ![p] = "leaving"]

Updates(p, event) ==
    /\ Announcing(p, event) /\ peers' = peers /\ at' = [at EXCEPT ![p] = "busy"]
    /\ \A h \in Peers : h # p => info'[h] = info[h]
    /\ \/ event = "peer-state" /\ info'[p].name = info[p].name
       \/ event = "peer-info" /\ info'[p].muted = info[p].muted

\* The order of what is owed survives either.
LEMMA AnnouncesOrderly ==
    ASSUME RoomInv, NEW p, p \in Peers, NEW event, (Leaves(p) /\ event = "peer-left") \/ Updates(p, event)
    PROVE  Orderly'
  <1>1. /\ Announcing(p, event) /\ event \in {"peer-left", "peer-state", "peer-info"}
        /\ peers' = IF event = "peer-left" THEN peers \ {p} ELSE peers
        /\ peers \in SUBSET Peers /\ p \in peers /\ at \in [Peers -> RoomStage]
        /\ at'[p] = IF event = "peer-left" THEN "leaving" ELSE "busy"
        /\ \A h \in Peers : h # p => at'[h] = at[h] /\ info'[h] = info[h]
        /\ at[p] = "in" /\ todo[p] = <<>>
        /\ \A h \in Peers : h # p => todo'[h] = todo[h]
        /\ out' = out /\ early' = early /\ ghosts' = ghosts
    BY DEF Leaves, Updates, Announcing, RoomInv, Typed, RoomTyped
  <1>2. /\ \A h \in Peers : \A c, k, q : Owes(todo[h], c, k, q) =>
             h # p /\ Owes(todo'[h], c, k, q)
        /\ \A h \in Peers : \A c, k, q : Owes(todo'[h], c, k, q) =>
             \/ h # p /\ Owes(todo[h], c, k, q)
             \/ h = p /\ c \in Others(p) /\ k = event /\ q = p
    BY <1>1, AnnouncesOwed
  <1>3. \A c, q : ToldEarly(c, q)' <=> ToldEarly(c, q)
    BY <1>1 DEF ToldEarly
  <1>4. \A h \in Peers : Working(h) /\ Unheard(h) /\ Stays(h)
    BY DEF RoomInv, Orderly
  <1>5. \A h \in Peers : Unjoined(h)' <=> Unjoined(h)
    BY <1>1 DEF Unjoined
  <1>6. ASSUME NEW h \in Peers PROVE Working(h)'
    <2>1. CASE h = p
      BY <1>1, <2>1 DEF Announcing, Working, Resting
    <2>2. CASE h # p
      BY <1>1, <1>4, <2>2 DEF Working, Resting
    <2> QED BY <2>1, <2>2
  <1>7. ASSUME NEW h \in Peers PROVE Unheard(h)'
    <2> SUFFICES ASSUME Unjoined(h)'
                 PROVE  h \notin peers' /\ out'[h] = <<>> /\ \A k \in Peers : \A x, q : ~Owes(todo'[k], h, x, q)
      BY DEF Unheard
    <2>1. h \notin peers /\ out[h] = <<>> /\ \A k \in Peers : \A x, q : ~Owes(todo[k], h, x, q)
      BY <1>4, <1>5 DEF Unheard
    <2>2. h \notin Others(p)
      BY <2>1 DEF Others
    <2> QED BY <1>1, <1>2, <2>1, <2>2
  <1>8. ASSUME NEW h \in Peers PROVE Stays(h)'
    <2>1. h \in peers' => at'[h] \in {"busy", "in"}
      BY <1>1, <1>4 DEF Stays
    <2>2. ASSUME h \in peers' \/ Unjoined(h)', NEW k \in Peers, NEW c, Owes(todo'[k], c, "peer-left", h)
          PROVE  FALSE
      <3>1. h \in peers \/ Unjoined(h)
        BY <1>1, <1>5, <2>2
      <3>2. ~Owes(todo[k], c, "peer-left", h)
        BY <1>4, <3>1 DEF Stays
      <3>3. event = "peer-left" /\ h = p
        BY <1>2, <2>2, <3>2
      <3> QED BY <1>1, <1>5, <2>2, <3>3 DEF Unjoined
    <2> QED BY <2>1, <2>2 DEF Stays
  <1>9. OneSession
    BY DEF RoomInv, Orderly
  <1>10. OneSession'
    BY <1>1, <1>9 DEF OneSession, SameClient
  <1>11. PICK elder \in [Peers -> SUBSET Peers] : Ordered(elder)
    BY DEF RoomInv, Orderly
  <1>12. AllReplaced'
    <2> SUFFICES ASSUME NEW c \in peers', NEW x \in Peers \ peers', Owes(todo'[x], c, "peer-joined", x),
                        ~ToldEarly(c, x)
                 PROVE  \E q \in peers' : SameClient(x, q)
      BY <1>3 DEF AllReplaced, SameClient
    <2>1. x # p /\ Owes(todo[x], c, "peer-joined", x) /\ c \in peers /\ x \notin peers
      BY <1>1, <1>2
    <2>2. PICK q \in peers : SameClient(x, q)
      BY <2>1 DEF RoomInv, Orderly, AllReplaced
    <2>3. q # p
      <3> SUFFICES ASSUME q = p PROVE FALSE
        OBVIOUS
      <3>1. todo[x] # <<>>
        BY <2>1, OwesNothing
      <3>2. x \in elder[p]
        BY <1>1, <1>11, <2>1, <2>2, <3>1 DEF Ordered
      <3>3. \E k \in Peers : k # p /\ Owes(todo[p], c, "peer-left", k)
        BY <1>11, <2>1, <2>2, <3>2 DEF Ordered
      <3> QED BY <1>2, <3>3
    <2> QED BY <1>1, <2>2, <2>3
  <1>13. Ordered(elder)'
    <2>1. \A x, q \in Peers : x \in elder[q] => x # q /\ ~Unjoined(x)' /\ ~Unjoined(q)'
      BY <1>5, <1>11 DEF Ordered
    <2>2. ASSUME NEW q \in peers', NEW x \in Peers, x # q, SameClient(x, q), todo'[x] # <<>>
          PROVE  x \in elder[q]
      <3>1. q \in peers
        BY <1>1
      <3>2. x # p
        BY <1>1, <1>9, <2>2, <3>1 DEF OneSession
      <3>3. todo[x] # <<>>
        BY <1>1, <2>2, <3>2
      <3> QED BY <1>11, <2>2, <3>1, <3>3 DEF Ordered
    <2>3. ASSUME NEW x \in Peers, NEW q \in Peers, NEW c \in peers', x # q, Owes(todo'[q], c, "peer-left", x)
          PROVE  /\ x \in elder[q]
                 /\ \A k \in Peers : SameClient(k, q) /\ k \in elder[q] /\ k # x => k \in elder[x]
      <3>1. Owes(todo[q], c, "peer-left", x) /\ c \in peers
        BY <1>1, <1>2, <2>3
      <3> QED BY <1>11, <2>3, <3>1 DEF Ordered
    <2>4. ASSUME NEW c \in peers', NEW x \in Peers, NEW q \in Peers, SameClient(x, q), x \in elder[q],
                 Owes(todo'[x], c, "peer-joined", x), ~ToldEarly(c, x)
          PROVE  \E k \in Peers : k # q /\ Owes(todo'[q], c, "peer-left", k)
      <3>1. Owes(todo[x], c, "peer-joined", x) /\ c \in peers
        BY <1>1, <1>2, <2>4
      <3>2. \E k \in Peers : k # q /\ Owes(todo[q], c, "peer-left", k)
        BY <1>11, <2>4, <3>1 DEF Ordered
      <3> QED BY <1>2, <3>2
    <2>5. \A q \in peers' : \A x \in Peers : x # q /\ SameClient(x, q) /\ todo'[x] # <<>> => x \in elder[q]
      BY <2>2
    <2>6. \A x, q \in Peers : \A c \in peers' : x # q /\ Owes(todo'[q], c, "peer-left", x) =>
            /\ x \in elder[q]
            /\ \A k \in Peers : SameClient(k, q) /\ k \in elder[q] /\ k # x => k \in elder[x]
      BY <2>3
    <2>7. \A c \in peers' : \A x, q \in Peers :
            SameClient(x, q) /\ x \in elder[q] /\ Owes(todo'[x], c, "peer-joined", x) /\ ~ToldEarly(c, x)' =>
                \E k \in Peers : k # q /\ Owes(todo'[q], c, "peer-left", k)
      BY <1>3, <2>4
    <2> QED BY <2>1, <2>5, <2>6, <2>7 DEF Ordered, SameClient
  <1> QED BY <1>6, <1>7, <1>8, <1>10, <1>12, <1>13 DEF Orderly

LEMMA AnnouncesMirrors ==
    ASSUME RoomInv, NEW p, p \in Peers, NEW event, (Leaves(p) /\ event = "peer-left") \/ Updates(p, event)
    PROVE  Mirrors'
  <1>1. /\ Announcing(p, event)
        /\ peers' = IF event = "peer-left" THEN peers \ {p} ELSE peers
        /\ peers \in SUBSET Peers /\ p \in peers
        /\ \A h \in Peers : h # p => info'[h] = info[h]
        /\ \A h \in Peers : h # p => todo'[h] = todo[h]
        /\ UNCHANGED <<out, cancelled, roster, early, ghosts>>
    BY DEF Leaves, Updates, Announcing, RoomInv, Typed, RoomTyped
  <1>2. /\ \A h \in Peers : \A c, k, q : Owes(todo[h], c, k, q) =>
             h # p /\ Owes(todo'[h], c, k, q)
        /\ \A h \in Peers : \A c, k, q : Owes(todo'[h], c, k, q) =>
             \/ h # p /\ Owes(todo[h], c, k, q)
             \/ h = p /\ c \in Others(p) /\ k = event /\ q = p
        /\ \A c \in Others(p) : Owes(todo'[p], c, event, p)
    BY <1>1, AnnouncesOwed
  <1>3. \A c, q : ToldEarly(c, q)' <=> ToldEarly(c, q)
    BY <1>1 DEF ToldEarly
  <1>4. ASSUME NEW c \in peers', ~cancelled[c], NEW q \in Peers \ {c}, ~ToldEarly(c, q) PROVE Mirror(c, q)'
    <2>1. c \in peers /\ c \in Peers
      BY <1>1
    <2>2. Mirror(c, q)
      BY <1>4, <2>1 DEF RoomInv, Mirrors
    <2>3. PICK e \in Entries, b \in Entries :
            RosterEnds(out[c], c, q, roster[c][q], e) /\ OnceWelcome(c, q, e, b) /\ Good(c, q, b)
      BY <2>2 DEF Mirror
    <2>4. RosterEnds(out'[c], c, q, roster'[c][q], e)
      BY <1>1, <2>3
    <2>5. OnceWelcome(c, q, e, b)'
      <3>1. CASE c = p
        <4>2. ~Owes(todo[c], c, "welcome", c) /\ ~Owes(todo'[c], c, "welcome", c)
          BY <1>2, <2>1, <3>1 DEF Others
        <4> QED BY <2>3, <4>2 DEF OnceWelcome
      <3>2. CASE c # p
        BY <1>1, <2>1, <2>3, <3>2 DEF OnceWelcome
      <3> QED BY <3>1, <3>2
    <2>6. Good(c, q, b)'
      <3>1. CASE q # p
        <4>1. q \in peers' <=> q \in peers
          BY <1>1, <3>1
        <4>2. todo'[q] = todo[q] /\ info'[q] = info[q]
          BY <1>1, <3>1
        <4>3. \A h \in Peers : Owes(todo[h], c, "peer-left", q) => Owes(todo'[h], c, "peer-left", q)
          BY <1>2
        <4> QED BY <1>1, <2>3, <4>1, <4>2, <4>3 DEF Good
      <3>2. CASE q = p
        <4>1. c \in Others(p) /\ Owes(todo'[p], c, event, p)
          BY <1>2, <2>1, <3>2 DEF Others
        <4>2. CASE Leaves(p) /\ event = "peer-left"
          <5>1. q \notin peers' /\ Owes(todo'[p], c, "peer-left", q)
            BY <3>2, <4>1, <4>2 DEF Leaves
          <5> QED BY <5>1 DEF Good
        <4>3. CASE Updates(p, event)
          <5>1. /\ q \in peers /\ q \in peers'
                /\ \/ event = "peer-state" /\ info'[q].name = info[q].name
                   \/ event = "peer-info" /\ info'[q].muted = info[q].muted
            BY <1>1, <3>2, <4>3 DEF Updates
          <5>2. \A k : ~Owes(todo[q], c, k, q)
            BY <1>2, <3>2
          <5>3. b # Absent /\ (c \notin Lurkers => b.muted = info[q].muted /\ b.name = info[q].name)
            BY <2>3, <5>1, <5>2 DEF Good
          <5> QED BY <3>2, <4>1, <5>1, <5>3 DEF Good
        <4> QED BY <4>2, <4>3
      <3> QED BY <3>1, <3>2
    <2> QED BY <2>4, <2>5, <2>6 DEF Mirror
  <1> QED BY <1>1, <1>3, <1>4 DEF Mirrors

-----------------------------------------------------------------------------
(* The other steps are quiet.                                              *)

LEMMA StillQuiet ==
    ASSUME RoomInv, peers' = peers, info' = info, early' = early /\ ghosts' = ghosts, todo' = todo,
           UNCHANGED <<out, cancelled, roster>>,
           \A h \in Peers : /\ Unjoined(h)' => Unjoined(h)
                            /\ Resting(h)' => Resting(h) \/ todo[h] = <<>>
                            /\ h \in peers => at'[h] \in {"busy", "in"}
    PROVE  Quietly
  <1>1. ASSUME NEW h \in Peers
        PROVE  Working(h)' /\ (Unjoined(h)' => Unjoined(h) /\ out'[h] = <<>>)
    <2>1. Working(h) /\ Unheard(h)
      BY DEF RoomInv, Orderly
    <2>2. out' = out
      OBVIOUS
    <2> QED BY <2>1, <2>2 DEF Working, Unheard
  <1>2. out' = out /\ cancelled' = cancelled /\ roster' = roster
    OBVIOUS
  <1> QED BY <1>1, <1>2 DEF Quietly

LEMMA CancelIs ==
    ASSUME RoomInv, NEW z, z \in Peers, Cancel(z), NEW h, h \in Peers
    PROVE  /\ ~cancelled'[h] => ~cancelled[h] /\ out'[h] = out[h] /\ roster'[h] = roster[h]
           /\ out[h] = <<>> => out'[h] = <<>>
  <1>1. cancelled \in [Peers -> BOOLEAN] /\ out \in [Peers -> Seq(Delivery)] /\ roster \in [Peers -> Listing]
    BY DEF RoomInv, Typed, QueuesTyped
  <1> QED BY <1>1 DEF Cancel

LEMMA CancelQuiet ==
    ASSUME RoomInv, NEW z, z \in Peers, Cancel(z), peers' = peers, info' = info, early' = early /\ ghosts' = ghosts, at' = at,
           \A h \in Peers :
                /\ WorkOf(h, info[h], todo'[h])
                /\ \A c, event, q : Owes(todo'[h], c, event, q) <=> Owes(todo[h], c, event, q)
                /\ \A q, b : Welcomes(todo[h], q, b) => Welcomes(todo'[h], q, b)
                /\ todo[h] = <<>> => todo'[h] = <<>>
    PROVE  Quietly
  <1>1. ASSUME NEW h \in Peers
        PROVE  /\ Working(h)'
               /\ Unjoined(h)' => Unjoined(h) /\ out'[h] = <<>>
               /\ h \in peers => at'[h] \in {"busy", "in"}
    <2>1. Working(h) /\ Unheard(h) /\ Stays(h)
      BY DEF RoomInv, Orderly
    <2>2. out[h] = <<>> => out'[h] = <<>>
      BY CancelIs
    <2>3. (Unjoined(h)' <=> Unjoined(h)) /\ (Resting(h)' <=> Resting(h))
      BY DEF Unjoined, Resting
    <2> QED BY <2>1, <2>2, <2>3 DEF Working, Unheard, Stays
  <1>2. ASSUME NEW h \in Peers, ~cancelled'[h]
        PROVE  ~cancelled[h] /\ out'[h] = out[h] /\ roster'[h] = roster[h]
    BY <1>2, CancelIs
  <1> QED BY <1>1, <1>2 DEF Quietly

LEMMA DeliverQuiet ==
    ASSUME RoomInv, NEW p, p \in Peers, Deliver(p)
    PROVE  Quietly
  <1>1. /\ out \in [Peers -> Seq(Delivery)] /\ roster \in [Peers -> Listing] /\ out[p] # <<>>
        /\ out' = [out EXCEPT ![p] = Tail(@)]
        /\ roster' = [roster EXCEPT ![p] = Apply(p, Head(out[p]))]
        /\ UNCHANGED <<at, peers, info, todo, cancelled, early, ghosts>>
    BY DEF Deliver, voices, RoomInv, Typed, QueuesTyped
  <1> DEFINE m == out[p][1]
  <1>2. m \in Delivery /\ Head(out[p]) = m /\ out[p] \in Seq(Delivery)
    BY <1>1
  <1>3. /\ out'[p] = Tail(out[p]) /\ roster'[p] = Apply(p, m)
        /\ \A h \in Peers : h # p => out'[h] = out[h] /\ roster'[h] = roster[h]
    BY <1>1, <1>2
  <1>4. ASSUME NEW q \in Peers \ {p}, NEW e, RosterEnds(out[p], p, q, roster[p][q], e)
        PROVE  RosterEnds(out'[p], p, q, roster'[p][q], e)
    <2>1. Apply(p, m)[q] = Eff(p, q, roster[p][q], m)
      BY <1>1, <1>2, ApplyIs
    <2>2. RosterEnds(Tail(out[p]), p, q, Eff(p, q, roster[p][q], m), e)
      BY <1>1, <1>2, <1>4, RosterEndsTail
    <2> QED BY <1>3, <2>1, <2>2
  <1>5. ASSUME NEW h \in Peers
        PROVE  /\ Working(h)'
               /\ Unjoined(h)' => Unjoined(h) /\ out'[h] = <<>>
               /\ h \in peers => at'[h] \in {"busy", "in"}
    <2>1. Working(h) /\ Unheard(h) /\ Stays(h)
      BY DEF RoomInv, Orderly
    <2>2. Unjoined(h) => h # p
      BY <1>1, <2>1 DEF Unheard
    <2>3. (Unjoined(h)' <=> Unjoined(h)) /\ (Resting(h)' <=> Resting(h))
      BY <1>1 DEF Unjoined, Resting
    <2> QED BY <1>1, <1>3, <2>1, <2>2, <2>3 DEF Working, Unheard, Stays
  <1>6. ASSUME NEW h \in Peers, NEW q \in Peers \ {h}, NEW e, RosterEnds(out[h], h, q, roster[h][q], e)
        PROVE  RosterEnds(out'[h], h, q, roster'[h][q], e)
    <2>1. CASE h = p
      BY <1>4, <1>6, <2>1
    <2>2. CASE h # p
      BY <1>3, <1>6, <2>2
    <2> QED BY <2>1, <2>2
  <1> HIDE DEF m
  <1> QED BY <1>1, <1>5, <1>6 DEF Quietly

LEMMA CancelEvictedQuiet ==
    ASSUME RoomInv, NEW p, p \in Peers, CancelEvicted(p)
    PROVE  Quietly
  <1> DEFINE w == todo[p][1]
  <1>1. todo \in [Peers -> Seq(Work)] /\ \A h \in Peers : WorkOf(h, info[h], todo[h])
    BY DEF RoomInv, Typed, QueuesTyped, Orderly, Working
  <1>2. /\ todo[p] # <<>> /\ todo[p] \in Seq(Work) /\ Head(todo[p]) = w /\ w \in Work
        /\ "cancel" \in DOMAIN w /\ Cancel(w.cancel)
        /\ todo' = [todo EXCEPT ![p] = Tail(@)]
        /\ UNCHANGED <<at, peers, info, early, ghosts>>
    BY <1>1 DEF CancelEvicted, voices
  <1>3. ~IsMsg(w) /\ w.cancel \in Peers
    BY <1>2, WorkKinds
  <1>4. /\ WorkOf(p, info[p], Tail(todo[p]))
        /\ \A c, event, q : Owes(Tail(todo[p]), c, event, q) <=> Owes(todo[p], c, event, q)
        /\ \A q, b : Welcomes(todo[p], q, b) => Welcomes(Tail(todo[p]), q, b)
    BY <1>1, <1>2, <1>3, CancelWork
  <1>5. todo'[p] = Tail(todo[p]) /\ \A h \in Peers : h # p => todo'[h] = todo[h]
    BY <1>1, <1>2
  <1>6. \A h \in Peers :
            /\ WorkOf(h, info[h], todo'[h])
            /\ \A c, event, q : Owes(todo'[h], c, event, q) <=> Owes(todo[h], c, event, q)
            /\ \A q, b : Welcomes(todo[h], q, b) => Welcomes(todo'[h], q, b)
            /\ todo[h] = <<>> => todo'[h] = <<>>
    BY <1>1, <1>2, <1>4, <1>5
  <1> HIDE DEF w
  <1>7. PICK z \in Peers : Cancel(z)
    BY <1>2, <1>3
  <1> QED BY <1>2, <1>6, <1>7, CancelQuiet

\* A step on the connection's way in or out.
LEMMA ConnectionQuiet ==
    ASSUME RoomInv, NEW p, p \in Peers, p \notin peers,
           Accept(p) \/ Register(p) \/ NoHello(p) \/ Done(p) \/ Leave(p)
    PROVE  Quietly
  <1>1. /\ UNCHANGED <<peers, info, early, ghosts, todo, out, cancelled, roster>>
        /\ at \in [Peers -> RoomStage]
        /\ \A h \in Peers : h # p => at'[h] = at[h]
        /\ Unjoined(p)' => Unjoined(p)
        /\ Resting(p)' => Resting(p) \/ todo[p] = <<>>
    <2>1. at \in [Peers -> RoomStage]
      BY DEF RoomInv, Typed, RoomTyped
    <2>2. CASE Accept(p)
      BY <2>1, <2>2 DEF Accept, voices, Unjoined, Resting
    <2>3. CASE Register(p)
      BY <2>1, <2>3 DEF Register, voices, Unjoined, Resting
    <2>4. CASE NoHello(p)
      BY <2>1, <2>4 DEF NoHello, voices, Unjoined, Resting
    <2>5. CASE Done(p)
      BY <2>1, <2>5 DEF Done, voices, Unjoined, Resting
    <2>6. CASE Leave(p)
      BY <2>1, <2>6 DEF Leave, voices, Unjoined, Resting
    <2> QED BY <2>2, <2>3, <2>4, <2>5, <2>6
  <1>2. \A h \in Peers : /\ Unjoined(h)' => Unjoined(h)
                         /\ Resting(h)' => Resting(h) \/ todo[h] = <<>>
                         /\ h \in peers => at'[h] \in {"busy", "in"}
    <2> SUFFICES ASSUME NEW h \in Peers
                 PROVE  /\ Unjoined(h)' => Unjoined(h)
                        /\ Resting(h)' => Resting(h) \/ todo[h] = <<>>
                        /\ h \in peers => at'[h] \in {"busy", "in"}
      OBVIOUS
    <2>1. Stays(h)
      BY DEF RoomInv, Orderly
    <2> QED BY <1>1, <2>1 DEF Stays, Unjoined, Resting
  <1> QED BY <1>1, <1>2, StillQuiet

\* A handler of a peer that is in the room is done, or the shutdown takes a step of its own.
LEMMA RoomQuiet ==
    ASSUME RoomInv, UNCHANGED <<peers, info, early, ghosts, todo, out, cancelled, roster>>,
           at' = at \/ \E p \in peers : Done(p)
    PROVE  Quietly
  <1>1. \A h \in Peers : /\ Unjoined(h)' => Unjoined(h)
                         /\ Resting(h)' => Resting(h) \/ todo[h] = <<>>
                         /\ h \in peers => at'[h] \in {"busy", "in"}
    <2> SUFFICES ASSUME NEW h \in Peers
                 PROVE  /\ Unjoined(h)' => Unjoined(h)
                        /\ Resting(h)' => Resting(h) \/ todo[h] = <<>>
                        /\ h \in peers => at'[h] \in {"busy", "in"}
      OBVIOUS
    <2>1. Stays(h) /\ at \in [Peers -> RoomStage] /\ peers \in SUBSET Peers
      BY DEF RoomInv, Orderly, Typed, RoomTyped
    <2>2. CASE at' = at
      BY <2>1, <2>2 DEF Stays, Unjoined, Resting
    <2>3. CASE at' # at
      <3>1. PICK p \in peers : Done(p)
        BY <2>3
      <3>2. Stays(p)
        BY <2>1, <3>1 DEF RoomInv, Orderly
      <3>3. at[p] = "busy" /\ todo[p] = <<>> /\ at' = [at EXCEPT ![p] = "in"]
        BY <2>1, <3>1, <3>2 DEF Done, Stays
      <3> QED BY <2>1, <3>1, <3>3 DEF Stays, Unjoined, Resting
    <2> QED BY <2>2, <2>3
  <1> QED BY <1>1, StillQuiet

-----------------------------------------------------------------------------
(* Every step.                                                             *)

LEMMA TellsOthers ==
    ASSUME RoomInv, NEW p, p \in peers, at[p] = "in", NEW m, m \in Message, m.id = p,
           m.event \in {"peer-left", "peer-state", "peer-info"},
           m.event # "peer-left" => m.info = info'[p],
           todo' = [todo EXCEPT ![p] = Tell(m, Others(p))],
           UNCHANGED <<out, cancelled, roster, early, ghosts>>
    PROVE  Announcing(p, m.event)
  <1>1. p \in Peers /\ todo \in [Peers -> Seq(Work)] /\ Others(p) \in SUBSET Peers /\ Working(p)
    BY DEF RoomInv, Typed, RoomTyped, QueuesTyped, Orderly, Others
  <1>2. todo'[p] = Tell(m, Others(p)) /\ \A h \in Peers : h # p => todo'[h] = todo[h]
    BY <1>1
  <1>3. todo[p] = <<>>
    BY <1>1 DEF Working, Resting
  <1> DEFINE n == info'[p]
             to == Others(p)
  <1>4. to \in SUBSET Peers /\ (m.event # "peer-left" => m.info = n)
    BY <1>1
  <1> HIDE DEF n, to
  <1>5. /\ WorkOf(p, n, Tell(m, to))
        /\ \A c, event, q : Owes(Tell(m, to), c, event, q) <=> c \in to /\ event = m.event /\ q = p
    <2>1. p \in Peers
      BY <1>1
    <2> QED BY <1>4, <2>1, TellWork
  <1> QED BY <1>2, <1>3, <1>5 DEF Announcing, n, to

LEMMA LeaveLeaves ==
    ASSUME RoomInv, NEW p, p \in peers, Leave(p)
    PROVE  Leaves(p)
  <1> DEFINE m == [event |-> "peer-left", id |-> p]
  <1>1. /\ at[p] = "in" /\ peers' = peers \ {p} /\ info' = info /\ at' = [at EXCEPT ![p] = "leaving"]
        /\ todo' = [todo EXCEPT ![p] = Tell(m, Others(p))]
        /\ UNCHANGED <<out, cancelled, roster, early, ghosts>>
    BY DEF Leave, voices
  <1>2. p \in Peers
    BY DEF RoomInv, Typed, RoomTyped
  <1>3. m \in Message /\ m.id = p /\ m.event = "peer-left"
    BY <1>2 DEF Message
  <1> HIDE DEF m
  <1>4. Announcing(p, m.event)
    BY <1>1, <1>3, TellsOthers
  <1> QED BY <1>1, <1>3, <1>4 DEF Leaves

LEMMA UpdateUpdates ==
    ASSUME RoomInv, NEW p, p \in peers, NEW event, NEW new, new \in Info, Update(p, event, new),
           \/ event = "peer-state" /\ new.name = info[p].name
           \/ event = "peer-info" /\ new.muted = info[p].muted
    PROVE  Updates(p, event)
  <1> DEFINE m == [event |-> event, id |-> p, info |-> new]
  <1>1. /\ at[p] = "in" /\ peers' = peers /\ at' = [at EXCEPT ![p] = "busy"]
        /\ info' = [info EXCEPT ![p] = new]
        /\ todo' = [todo EXCEPT ![p] = Tell(m, Others(p))]
        /\ UNCHANGED <<out, cancelled, roster, early, ghosts>>
    BY DEF Update, voices
  <1>2. p \in Peers /\ info \in [Peers -> Info]
    BY DEF RoomInv, Typed, RoomTyped
  <1>3. info'[p] = new /\ \A h \in Peers : h # p => info'[h] = info[h]
    BY <1>1, <1>2
  <1>4. m \in Message /\ m.id = p /\ m.event = event /\ m.info = new
    BY <1>2 DEF Message
  <1> HIDE DEF m
  <1>5. Announcing(p, m.event)
    BY <1>1, <1>3, <1>4, TellsOthers
  <1> QED BY <1>1, <1>3, <1>4, <1>5 DEF Updates

\* What an update makes of the entry.
LEMMA UpdateIs ==
    ASSUME RoomInv, NEW p, p \in Peers, SetState(p) \/ SetDisplayName(p)
    PROVE  \E event : \E new \in Info :
                /\ Update(p, event, new)
                /\ \/ event = "peer-state" /\ new.name = info[p].name
                   \/ event = "peer-info" /\ new.muted = info[p].muted
  <1>1. PICK i \in Info : i = info[p]
    BY DEF RoomInv, Typed, RoomTyped
  <1>2. CASE SetState(p)
    <2>1. PICK muted \in BOOLEAN : Update(p, "peer-state", [i EXCEPT !.muted = muted])
      BY <1>1, <1>2 DEF SetState
    <2>2. [i EXCEPT !.muted = muted] \in Info /\ [i EXCEPT !.muted = muted].name = i.name
      BY DEF Info
    <2> QED BY <1>1, <2>1, <2>2
  <1>3. CASE SetDisplayName(p)
    <2>1. PICK name \in Names : Update(p, "peer-info", [i EXCEPT !.name = name])
      BY <1>1, <1>3 DEF SetDisplayName
    <2>2. [i EXCEPT !.name = name] \in Info /\ [i EXCEPT !.name = name].muted = i.muted
      BY DEF Info
    <2> QED BY <1>1, <2>1, <2>2
  <1> QED BY <1>2, <1>3

LEMMA UpdateStep ==
    ASSUME RoomInv, NEW p, p \in Peers, SetState(p) \/ SetDisplayName(p)
    PROVE  Orderly' /\ Mirrors'
  <1>1. PICK event : \E new \in Info :
            /\ Update(p, event, new)
            /\ \/ event = "peer-state" /\ new.name = info[p].name
               \/ event = "peer-info" /\ new.muted = info[p].muted
    BY UpdateIs
  <1>2. PICK new \in Info :
            /\ Update(p, event, new)
            /\ \/ event = "peer-state" /\ new.name = info[p].name
               \/ event = "peer-info" /\ new.muted = info[p].muted
    BY <1>1
  <1>3. CASE p \in peers
    <2>1. Updates(p, event)
      BY <1>2, <1>3, UpdateUpdates
    <2> QED BY <2>1, AnnouncesOrderly, AnnouncesMirrors
  <1>4. CASE p \notin peers
    <2>1. UNCHANGED <<at, peers, info, early, ghosts, todo, out, cancelled, roster>>
      BY <1>2, <1>4 DEF Update, voices
    <2>2. Quietly
      BY <2>1, RoomQuiet
    <2> QED BY <2>2, QuietStep
  <1> QED BY <1>3, <1>4

LEMMA LeaveStep ==
    ASSUME RoomInv, NEW p, p \in peers, Leave(p)
    PROVE  Orderly' /\ Mirrors'
  <1>1. p \in Peers
    BY DEF RoomInv, Typed, RoomTyped
  <1> DEFINE event == "peer-left"
  <1>2. Leaves(p) /\ event = "peer-left"
    BY LeaveLeaves
  <1> HIDE DEF event
  <1>3. (Leaves(p) /\ event = "peer-left") \/ Updates(p, event)
    BY <1>2
  <1> QED BY <1>1, <1>3, AnnouncesOrderly, AnnouncesMirrors

LEMMA RoomMoves ==
    ASSUME RoomInv, NEW p, p \in Peers,
           \/ Accept(p) \/ Register(p) \/ NoHello(p) \/ Join(p) \/ Handle(p)
           \/ SetState(p) \/ SetDisplayName(p) \/ Deliver(p) \/ Disconnect(p)
    PROVE  Orderly' /\ Mirrors'
  <1>1. Stays(p) /\ Unheard(p) /\ \A h \in Peers : WorkOf(h, info[h], todo[h])
    BY DEF RoomInv, Orderly, Working
  <1>2. CASE Accept(p) \/ Register(p) \/ NoHello(p)
    <2>1. p \notin peers
      BY <1>1, <1>2 DEF Accept, Register, NoHello, Stays
    <2> QED BY <1>2, <2>1, ConnectionQuiet, QuietStep
  <1>3. CASE Join(p)
    <2>1. PICK others : Joins(p, others)
      BY <1>3, JoinJoins
    <2> QED BY <2>1, JoinOrderly, JoinMirrors
  <1>4. CASE SendNext(p)
    <2>1. PICK c0 : \E m : Sends(p, c0, m)
      BY <1>4, SendNextSends
    <2>2. PICK m : Sends(p, c0, m)
      BY <2>1
    <2> QED BY <2>2, SendOrderly, SendMirrors
  <1>5. CASE CancelEvicted(p)
    BY <1>5, CancelEvictedQuiet, QuietStep
  <1>6. CASE Done(p)
    <2>1. CASE p \in peers
      <3>1. UNCHANGED <<peers, info, early, ghosts, todo, out, cancelled, roster>>
        BY <1>6 DEF Done, voices
      <3> QED BY <1>6, <2>1, <3>1, RoomQuiet, QuietStep
    <2>2. CASE p \notin peers
      BY <1>6, <2>2, ConnectionQuiet, QuietStep
    <2> QED BY <2>1, <2>2
  <1>7. CASE Leave(p)
    <2>1. CASE p \in peers
      BY <1>7, <2>1, LeaveStep
    <2>2. CASE p \notin peers
      BY <1>7, <2>2, ConnectionQuiet, QuietStep
    <2> QED BY <2>1, <2>2
  <1>8. CASE SetState(p) \/ SetDisplayName(p)
    BY <1>8, UpdateStep
  <1>9. CASE Deliver(p)
    BY <1>9, DeliverQuiet, QuietStep
  <1>10. CASE Disconnect(p)
    <2>1. Cancel(p) /\ peers' = peers /\ info' = info /\ early' = early /\ ghosts' = ghosts /\ at' = at /\ todo' = todo
      BY <1>10 DEF Disconnect, voices
    <2> QED BY <1>1, <2>1, CancelQuiet, QuietStep
  <1> QED BY <1>2, <1>3, <1>4, <1>5, <1>6, <1>7, <1>8, <1>9, <1>10 DEF Handle

LEMMA ShutdownMoves ==
    ASSUME RoomInv, Close \/ CancelNext \/ DisconnectAll
    PROVE  Orderly' /\ Mirrors'
  <1>1. CASE Close \/ DisconnectAll
    <2>1. UNCHANGED <<at, peers, info, early, ghosts, todo, out, cancelled, roster>>
      BY <1>1 DEF Close, DisconnectAll, voices
    <2> QED BY <2>1, RoomQuiet, QuietStep
  <1>2. CASE CancelNext
    <2>1. \A h \in Peers : WorkOf(h, info[h], todo[h])
      BY DEF RoomInv, Orderly, Working
    <2>2. PICK z \in toCancel : Cancel(z)
      BY <1>2 DEF CancelNext, CancelToken
    <2>3. z \in Peers
      BY DEF RoomInv, Typed, CountsTyped
    <2>4. peers' = peers /\ info' = info /\ early' = early /\ ghosts' = ghosts /\ at' = at /\ todo' = todo
      BY <1>2 DEF CancelNext, voices
    <2> QED BY <2>1, <2>2, <2>3, <2>4, CancelQuiet, QuietStep
  <1> QED BY <1>1, <1>2

-----------------------------------------------------------------------------
(* A slot is named to a client.                                            *)

\* What the naming of q0's slot to c0, in the room, does.
Hears(c0, q0) ==
    /\ c0 \in peers
    /\ Send(c0, [event |-> "audio-slots", id |-> q0])
    /\ ghosts \subseteq ghosts'
    /\ q0 \in peers \/ Owed(c0, "peer-left", q0) \/ <<c0, q0>> \in ghosts'
    /\ UNCHANGED <<at, peers, info, todo, early>>

\* Only the queue of a client in the room changes, and nothing of what is owed.
LEMMA NamesOrderly ==
    ASSUME RoomInv, NEW c0, NEW q0, Hears(c0, q0)
    PROVE  Orderly'
  <1>1. UNCHANGED <<at, peers, info, todo, early>> /\ Orderly
    BY DEF Hears, RoomInv
  <1>2. \A h \in Peers : h # c0 => out'[h] = out[h]
    BY DEF Hears, Send, Cancel, RoomInv, Typed, QueuesTyped
  <1>3. ASSUME NEW h \in Peers PROVE Working(h)' /\ Unheard(h)' /\ Stays(h)'
    <2>1. Working(h) /\ Unheard(h) /\ Stays(h)
      BY <1>1 DEF Orderly
    <2>2. Unjoined(h)' <=> Unjoined(h)
      BY <1>1 DEF Unjoined
    <2>3. h = c0 => ~Unjoined(h)
      BY <2>1 DEF Hears, Unheard
    <2>4. Working(h)' /\ Stays(h)'
      BY <1>1, <2>1, <2>2 DEF Working, Resting, Stays
    <2>5. Unheard(h)'
      BY <1>1, <1>2, <2>1, <2>2, <2>3 DEF Unheard
    <2> QED BY <2>4, <2>5
  <1>4. OneSession' /\ AllReplaced'
    BY <1>1 DEF Orderly, OneSession, AllReplaced, ToldEarly, SameClient
  <1>5. \E elder \in [Peers -> SUBSET Peers] : Ordered(elder)'
    <2>1. PICK elder \in [Peers -> SUBSET Peers] : Ordered(elder)
      BY <1>1 DEF Orderly
    <2>2. Ordered(elder)'
      BY <1>1, <2>1 DEF Ordered, Unjoined, ToldEarly, SameClient
    <2> QED BY <2>2
  <1> QED BY <1>3, <1>4, <1>5 DEF Orderly

\* A client that makes an entry of a voice shows a peer too much only if its leaving came before.
LEMMA NamesMirrors ==
    ASSUME RoomInv, NEW c0, NEW q0, q0 \in Peers, Hears(c0, q0)
    PROVE  Mirrors'
  <1> DEFINE m == [event |-> "audio-slots", id |-> q0]
  <1>1. /\ m \in Delivery /\ m.event = "audio-slots" /\ m.id = q0
        /\ Send(c0, m) /\ c0 \in peers /\ peers \in SUBSET Peers
        /\ UNCHANGED <<at, peers, info, todo, early>> /\ ghosts \subseteq ghosts'
        /\ out \in [Peers -> Seq(Delivery)] /\ cancelled \in [Peers -> BOOLEAN] /\ roster \in [Peers -> Listing]
    BY DEF Hears, Delivery, RoomInv, Typed, RoomTyped, QueuesTyped
  <1> HIDE DEF m
  <1>2. \A c, q : ToldEarly(c, q)' <=> ToldEarly(c, q)
    BY <1>1 DEF ToldEarly
  <1>3. ASSUME NEW c, NEW q, NEW b, Good(c, q, b) PROVE Good(c, q, b)'
    BY <1>1, <1>3 DEF Good
  <1>4. ASSUME NEW c \in peers, ~cancelled'[c], NEW q \in Peers \ {c}, ~ToldEarly(c, q) PROVE Mirror(c, q)'
    <2>1. ~cancelled[c] /\ c \in Peers /\ roster'[c] = roster[c]
      BY <1>1, <1>4 DEF Send, Cancel
    <2>2. PICK e \in Entries, b \in Entries :
            RosterEnds(out[c], c, q, roster[c][q], e) /\ OnceWelcome(c, q, e, b) /\ Good(c, q, b)
      BY <1>4, <2>1 DEF RoomInv, Mirrors, Mirror
    <2>3. CASE c # c0
      <3>1. out'[c] = out[c]
        BY <1>1, <2>3 DEF Send, Cancel
      <3>2. OnceWelcome(c, q, e, b)'
        BY <1>1, <2>2 DEF OnceWelcome
      <3> QED BY <1>3, <2>1, <2>2, <3>1, <3>2 DEF Mirror
    <2>4. CASE c = c0
      <3> DEFINE x == Eff(c, q, e, m)
      <3>1. out'[c] = Append(out[c], m)
        BY <1>1, <1>4, <2>1, <2>4 DEF Send, Cancel
      <3>2. RosterEnds(out'[c], c, q, roster'[c][q], x)
        BY <1>1, <2>1, <2>2, <3>1, RosterEndsAppend
      <3>3. x \in Entries /\ x = IF q = q0 /\ e = Absent THEN HeardOnly ELSE e
        BY <1>1, EffIsEntry DEF Eff
      <3>4. CASE Owes(todo[c], c, "welcome", c)
        <4>1. OnceWelcome(c, q, x, b)'
          BY <1>1, <2>2, <3>4 DEF OnceWelcome
        <4> QED BY <1>3, <2>2, <3>2, <3>3, <4>1 DEF Mirror
      <3>5. CASE ~Owes(todo[c], c, "welcome", c)
        <4>1. b = e /\ OnceWelcome(c, q, x, x)'
          BY <1>1, <2>2, <3>5 DEF OnceWelcome
        <4>2. CASE x = e
          BY <1>3, <2>2, <3>2, <3>3, <4>1, <4>2 DEF Mirror
        <4>3. CASE q = q0 /\ e = Absent
          <5>1. CASE q \in peers
            <6>1. Owes(todo[q], c, "peer-joined", q)
              BY <2>2, <4>1, <4>3, <5>1 DEF Good
            <6> QED BY <1>1, <3>2, <3>3, <4>1, <5>1, <6>1 DEF Good, Mirror
          <5>2. CASE q \notin peers
            <6>1. (\E h \in Peers : Owes(todo[h], c, "peer-left", q)) \/ <<c, q>> \in ghosts'
              BY <2>4, <4>3, <5>2, OwedIs DEF Hears
            <6>2. Good(c, q, x)'
              BY <1>1, <5>2, <6>1 DEF Good
            <6> QED BY <3>2, <3>3, <4>1, <6>2 DEF Mirror
          <5> QED BY <5>1, <5>2
        <4> QED BY <3>3, <4>2, <4>3
      <3> QED BY <3>4, <3>5
    <2> QED BY <2>3, <2>4
  <1> QED BY <1>1, <1>2, <1>4 DEF Mirrors

LEMMA VoiceMoves ==
    ASSUME RoomInv, Voice
    PROVE  Orderly' /\ Mirrors'
  <1>1. PICK c0 \in Peers, q0 \in Peers : ReadTrack(c0, q0) \/ NameSlot(c0, q0)
    BY DEF Voice
  <1>2. CASE UNCHANGED <<at, peers, info, early, ghosts, todo, out, cancelled, roster>>
    BY <1>2, RoomQuiet, QuietStep
  <1>3. ReadTrack(c0, q0) => UNCHANGED <<at, peers, info, early, ghosts, todo, out, cancelled, roster>>
    BY DEF ReadTrack
  <1>4. CASE NameSlot(c0, q0)
    <2>1. c0 \notin peers => UNCHANGED <<at, peers, info, early, ghosts, todo, out, cancelled, roster>>
      BY <1>4 DEF NameSlot
    <2>2. c0 \in peers => Hears(c0, q0)
      BY <1>4 DEF NameSlot, Hears
    <2> QED BY <1>2, <2>1, <2>2, NamesOrderly, NamesMirrors
  <1> QED BY <1>1, <1>2, <1>3, <1>4

-----------------------------------------------------------------------------
(* Types.                                                                  *)

\* The queues after a message to c or a cancellation of c.
QueuesOnly ==
    /\ out \in [Peers -> Seq(Delivery)]
    /\ \A p \in Peers : Len(out[p]) <= Cap
    /\ cancelled \in [Peers -> BOOLEAN]
    /\ roster \in [Peers -> Listing]

LEMMA CancelTyped ==
    ASSUME QueuesOnly, NEW c, c \in Peers, Cancel(c)
    PROVE  QueuesOnly'
  <1>1. Len(<<>>) = 0 /\ Cap \in Nat /\ 0 <= Cap /\ <<>> \in Seq(Delivery)
    BY RoomConstants
  <1>2. out' \in [Peers -> Seq(Delivery)] /\ \A p \in Peers : Len(out'[p]) <= Cap
    BY <1>1 DEF QueuesOnly, Cancel
  <1>3. cancelled' \in [Peers -> BOOLEAN] /\ roster' \in [Peers -> Listing]
    BY DEF QueuesOnly, Cancel, Listing
  <1> QED BY <1>2, <1>3 DEF QueuesOnly

LEMMA SendTyped ==
    ASSUME QueuesOnly, NEW c, c \in Peers, NEW m, m \in Delivery, Send(c, m)
    PROVE  QueuesOnly'
  <1>1. CASE cancelled[c]
    BY <1>1 DEF Send, QueuesOnly
  <1>2. CASE ~cancelled[c] /\ Len(out[c]) < Cap
    <2>1. out' = [out EXCEPT ![c] = Append(@, m)] /\ UNCHANGED <<cancelled, roster>>
      BY <1>2 DEF Send
    <2>2. out[c] \in Seq(Delivery) /\ Len(out[c]) < Cap /\ Cap \in Nat
      BY <1>2, RoomConstants DEF QueuesOnly
    <2>3. Append(out[c], m) \in Seq(Delivery) /\ Len(Append(out[c], m)) <= Cap
      BY <2>2
    <2> QED BY <2>1, <2>3 DEF QueuesOnly
  <1>3. CASE ~cancelled[c] /\ ~(Len(out[c]) < Cap)
    <2>1. Cancel(c)
      BY <1>3 DEF Send
    <2> QED BY <2>1, CancelTyped
  <1> QED BY <1>1, <1>2, <1>3

LEMMA DeliverTyped ==
    ASSUME QueuesOnly, NEW c, c \in Peers, Deliver(c)
    PROVE  QueuesOnly'
  <1>1. /\ out[c] \in Seq(Delivery) /\ out[c] # <<>> /\ Len(out[c]) <= Cap /\ Cap \in Nat
        /\ out' = [out EXCEPT ![c] = Tail(@)]
        /\ roster' = [roster EXCEPT ![c] = Apply(c, Head(out[c]))] /\ cancelled' = cancelled
    BY RoomConstants DEF Deliver, QueuesOnly
  <1>2. Tail(out[c]) \in Seq(Delivery) /\ Len(Tail(out[c])) <= Cap /\ Head(out[c]) \in Delivery
    BY <1>1
  <1>3. Apply(c, Head(out[c])) \in Listing
    BY <1>2, ApplyIs DEF QueuesOnly
  <1> QED BY <1>1, <1>2, <1>3 DEF QueuesOnly

LEMMA QueuesTypedStep ==
    ASSUME RoomInv, Orderly', [Next]_vars
    PROVE  QueuesTyped'
  <1>1. QueuesOnly /\ todo \in [Peers -> Seq(Work)]
    BY DEF RoomInv, Typed, QueuesTyped, QueuesOnly
  <1>2. \A h \in Peers : todo'[h] \in Seq(Work)
    BY DEF Orderly, Working, WorkOf
  <1>3. ASSUME NEW p \in Peers, NEW s, todo' = [todo EXCEPT ![p] = s] PROVE todo' \in [Peers -> Seq(Work)]
    <2>1. todo'[p] = s
      BY <1>1, <1>3
    <2> QED BY <1>1, <1>2, <1>3, <2>1
  <1>4. ASSUME UNCHANGED <<out, cancelled, roster>> PROVE QueuesOnly'
    BY <1>1, <1>4 DEF QueuesOnly
  <1>5. QueuesOnly' /\ todo' \in [Peers -> Seq(Work)]
    <2>1. ASSUME NEW p \in Peers, Accept(p) \/ Register(p) \/ NoHello(p) \/ Done(p)
          PROVE  QueuesOnly' /\ todo' \in [Peers -> Seq(Work)]
      BY <1>1, <1>4, <2>1 DEF Accept, Register, NoHello, Done
    <2>2. ASSUME NEW p \in Peers, Join(p)
          PROVE  QueuesOnly' /\ todo' \in [Peers -> Seq(Work)]
      <3>1. UNCHANGED <<out, cancelled, roster>> /\ \E s : todo' = [todo EXCEPT ![p] = s]
        BY <2>2 DEF Join
      <3> QED BY <1>3, <1>4, <3>1
    <2>3. ASSUME NEW p \in Peers, SendNext(p)
          PROVE  QueuesOnly' /\ todo' \in [Peers -> Seq(Work)]
      <3>1. PICK c : \E m : Sends(p, c, m)
        BY <2>3, SendNextSends
      <3>2. PICK m : Sends(p, c, m)
        BY <3>1
      <3>3. c \in Peers /\ m \in Delivery /\ Send(c, m)
        BY <3>2 DEF Sends, Delivery
      <3>4. \E s : todo' = [todo EXCEPT ![p] = s]
        BY <2>3 DEF SendNext
      <3> QED BY <1>1, <1>3, <3>3, <3>4, SendTyped
    <2>4. ASSUME NEW p \in Peers, CancelEvicted(p)
          PROVE  QueuesOnly' /\ todo' \in [Peers -> Seq(Work)]
      <3>1. todo[p] \in Seq(Work) /\ todo[p] # <<>> /\ "cancel" \in DOMAIN Head(todo[p])
            /\ Cancel(Head(todo[p]).cancel) /\ \E s : todo' = [todo EXCEPT ![p] = s]
        BY <1>1, <2>4 DEF CancelEvicted
      <3>2. Head(todo[p]) \in Work
        BY <3>1
      <3>3. Head(todo[p]).cancel \in Peers
        BY <3>1, <3>2, WorkKinds
      <3> QED BY <1>1, <1>3, <3>1, <3>3, CancelTyped
    <2>5. ASSUME NEW p \in Peers, Leave(p)
          PROVE  QueuesOnly' /\ todo' \in [Peers -> Seq(Work)]
      <3>1. UNCHANGED <<out, cancelled, roster>> /\ (todo' = todo \/ \E s : todo' = [todo EXCEPT ![p] = s])
        BY <2>5 DEF Leave
      <3> QED BY <1>1, <1>3, <1>4, <3>1
    <2>6. ASSUME NEW p \in Peers, SetState(p) \/ SetDisplayName(p)
          PROVE  QueuesOnly' /\ todo' \in [Peers -> Seq(Work)]
      <3>1. PICK event : \E new \in Info : Update(p, event, new)
        BY <2>6, UpdateIs
      <3>2. PICK new \in Info : Update(p, event, new)
        BY <3>1
      <3>3. UNCHANGED <<out, cancelled, roster>> /\ (todo' = todo \/ \E s : todo' = [todo EXCEPT ![p] = s])
        BY <3>2 DEF Update
      <3> QED BY <1>1, <1>3, <1>4, <3>3
    <2>7. ASSUME NEW p \in Peers, Deliver(p) \/ Disconnect(p)
          PROVE  QueuesOnly' /\ todo' \in [Peers -> Seq(Work)]
      <3>1. todo' = todo
        BY <2>7 DEF Deliver, Disconnect
      <3>2. CASE Deliver(p)
        BY <1>1, <3>1, <3>2, DeliverTyped
      <3>3. CASE Disconnect(p)
        <4>1. Cancel(p)
          BY <3>3 DEF Disconnect
        <4> QED BY <1>1, <3>1, <4>1, CancelTyped
      <3> QED BY <2>7, <3>2, <3>3
    <2>8. ASSUME Close \/ DisconnectAll
          PROVE  QueuesOnly' /\ todo' \in [Peers -> Seq(Work)]
      BY <1>1, <1>4, <2>8 DEF Close, DisconnectAll
    <2>9. ASSUME CancelNext
          PROVE  QueuesOnly' /\ todo' \in [Peers -> Seq(Work)]
      <3>1. PICK z \in toCancel : Cancel(z)
        BY <2>9 DEF CancelNext, CancelToken
      <3>2. z \in Peers /\ todo' = todo
        BY <2>9 DEF RoomInv, Typed, CountsTyped, CancelNext
      <3> QED BY <1>1, <3>1, <3>2, CancelTyped
    <2>10. CASE UNCHANGED vars
      BY <1>1, <1>4, <2>10 DEF vars
    <2>11. ASSUME Voice
           PROVE  QueuesOnly' /\ todo' \in [Peers -> Seq(Work)]
      <3>1. PICK c \in Peers, q \in Peers : ReadTrack(c, q) \/ NameSlot(c, q)
        BY <2>11 DEF Voice
      <3> DEFINE m == [event |-> "audio-slots", id |-> q]
      <3>2. m \in Delivery
        BY DEF Delivery
      <3>3. todo' = todo /\ (UNCHANGED <<out, cancelled, roster>> \/ Send(c, m))
        BY <3>1 DEF ReadTrack, NameSlot
      <3> HIDE DEF m
      <3> QED BY <1>1, <1>4, <3>2, <3>3, SendTyped
    <2> QED BY <2>1, <2>2, <2>3, <2>4, <2>5, <2>6, <2>7, <2>8, <2>9, <2>10, <2>11 DEF Next, Handle
  <1> QED BY <1>5 DEF QueuesTyped, QueuesOnly

LEMMA RoomTypedStep ==
    ASSUME RoomInv, [Next]_vars
    PROVE  RoomTyped' /\ CountsTyped'
  <1>1. /\ at \in [Peers -> RoomStage] /\ peers \in SUBSET Peers /\ info \in [Peers -> Info]
        /\ updates \in 0 .. MaxUpdates /\ shut \in {"up", "room", "registry"} /\ toCancel \in SUBSET Peers
        /\ early \in SUBSET (Peers \X Peers \X {"welcome", "joined"}) /\ MaxUpdates \in Nat
        /\ naming \in SUBSET (Peers \X Peers) /\ ghosts \in SUBSET (Peers \X Peers)
        /\ named \in 0 .. MaxNamed /\ MaxNamed \in Nat
    BY RoomConstants DEF RoomInv, Typed, RoomTyped, CountsTyped
  <1>2. ASSUME NEW p \in Peers, Accept(p) \/ Register(p) \/ NoHello(p) \/ Done(p)
        PROVE  RoomTyped' /\ CountsTyped'
    <2>1. UNCHANGED <<peers, info, updates, shut, toCancel, early, voices>>
      BY <1>2 DEF Accept, Register, NoHello, Done
    <2>2. at' \in [Peers -> RoomStage]
      BY <1>1, <1>2 DEF Accept, Register, NoHello, Done, RoomStage
    <2> QED BY <1>1, <2>1, <2>2 DEF voices, RoomTyped, CountsTyped
  <1>3. ASSUME NEW p \in Peers, Join(p)
        PROVE  RoomTyped' /\ CountsTyped'
    <2>1. UNCHANGED <<info, updates, shut, toCancel, early, voices>> /\ peers' \subseteq peers \union {p}
      BY <1>3 DEF Join
    <2>2. at' \in [Peers -> RoomStage]
      BY <1>1, <1>3 DEF Join, RoomStage
    <2> QED BY <1>1, <2>1, <2>2 DEF voices, RoomTyped, CountsTyped
  <1>4. ASSUME NEW p \in Peers, SendNext(p)
        PROVE  RoomTyped' /\ CountsTyped'
    <2>1. UNCHANGED <<at, peers, info, updates, shut, toCancel, voices>>
      BY <1>4 DEF SendNext
    <2> DEFINE w == Head(todo[p])
    <2>2. PICK c \in w.to : early' = early \union ({c} \X {w.msg.id} \X Overtaken(c, w.msg))
      BY <1>4 DEF SendNext
    <2>3. todo[p] \in Seq(Work) /\ todo[p] # <<>> /\ "msg" \in DOMAIN w
      BY <1>4 DEF SendNext, RoomInv, Typed, QueuesTyped
    <2>4. w \in Work
      BY <2>3
    <2> HIDE DEF w
    <2>5. w.msg \in Message /\ w.to \in SUBSET Peers
      BY <2>3, <2>4, WorkKinds DEF IsMsg
    <2>6. w.msg.id \in Peers
      BY <2>5, MessageKinds
    <2>7. Overtaken(c, w.msg) \subseteq {"welcome", "joined"}
      BY DEF Overtaken
    <2>8. early' \in SUBSET (Peers \X Peers \X {"welcome", "joined"})
      BY <1>1, <2>2, <2>5, <2>6, <2>7
    <2> QED BY <1>1, <2>1, <2>8 DEF voices, RoomTyped, CountsTyped
  <1>5. ASSUME NEW p \in Peers, CancelEvicted(p) \/ Deliver(p) \/ Disconnect(p)
        PROVE  RoomTyped' /\ CountsTyped'
    <2>1. UNCHANGED <<at, peers, info, updates, shut, toCancel, early, voices>>
      BY <1>5 DEF CancelEvicted, Deliver, Disconnect
    <2> QED BY <1>1, <2>1 DEF voices, RoomTyped, CountsTyped
  <1>6. ASSUME NEW p \in Peers, Leave(p)
        PROVE  RoomTyped' /\ CountsTyped'
    <2>1. UNCHANGED <<info, updates, shut, toCancel, early, voices>> /\ peers' \subseteq peers
      BY <1>6 DEF Leave
    <2>2. at' \in [Peers -> RoomStage]
      BY <1>1, <1>6 DEF Leave, RoomStage
    <2> QED BY <1>1, <2>1, <2>2 DEF voices, RoomTyped, CountsTyped
  <1>7. ASSUME NEW p \in Peers, SetState(p) \/ SetDisplayName(p)
        PROVE  RoomTyped' /\ CountsTyped'
    <2>1. PICK event : \E new \in Info : Update(p, event, new)
      BY <1>7, UpdateIs
    <2>2. PICK new \in Info : Update(p, event, new)
      BY <2>1
    <2>3. UNCHANGED <<peers, shut, toCancel, early, voices>>
      BY <2>2 DEF Update
    <2>4. updates' \in 0 .. MaxUpdates
      BY <1>1, <2>2 DEF Update
    <2>5. info' \in [Peers -> Info]
      BY <1>1, <2>2 DEF Update
    <2>6. at' \in [Peers -> RoomStage]
      BY <1>1, <2>2 DEF Update, RoomStage
    <2> QED BY <1>1, <2>3, <2>4, <2>5, <2>6 DEF voices, RoomTyped, CountsTyped
  <1>8. ASSUME Close \/ CancelNext \/ DisconnectAll
        PROVE  RoomTyped' /\ CountsTyped'
    <2>1. UNCHANGED <<at, peers, info, updates, early, voices>>
      BY <1>8 DEF Close, CancelNext, DisconnectAll
    <2>2. shut' \in {"up", "room", "registry"} /\ toCancel' \in SUBSET Peers
      BY <1>1, <1>8 DEF Close, CancelNext, DisconnectAll, RegisteredPeers
    <2> QED BY <1>1, <2>1, <2>2 DEF voices, RoomTyped, CountsTyped
  <1>9. CASE UNCHANGED vars
    BY <1>1, <1>9 DEF vars, voices, RoomTyped, CountsTyped
  <1>10. ASSUME NEW c \in Peers, NEW q \in Peers, ReadTrack(c, q) \/ NameSlot(c, q)
         PROVE  RoomTyped' /\ CountsTyped'
    <2>1. UNCHANGED <<at, peers, info, updates, shut, toCancel, early>>
      BY <1>10 DEF ReadTrack, NameSlot
    <2>2. naming' \in SUBSET (Peers \X Peers) /\ ghosts' \in SUBSET (Peers \X Peers)
      BY <1>1, <1>10 DEF ReadTrack, NameSlot
    <2>3. named' \in 0 .. MaxNamed
      BY <1>1, <1>10 DEF ReadTrack, NameSlot
    <2> QED BY <1>1, <2>1, <2>2, <2>3 DEF RoomTyped, CountsTyped
  <1> QED BY <1>2, <1>3, <1>4, <1>5, <1>6, <1>7, <1>8, <1>9, <1>10 DEF Next, Handle, Voice

LEMMA RoomStart == Init => RoomInv
  <1> SUFFICES ASSUME Init PROVE RoomInv
    OBVIOUS
  <1>0. GivenName \in Names /\ Cap \in Nat \ {0} /\ MaxUpdates \in Nat /\ MaxNamed \in Nat
    BY RoomConstants
  <1>1. NewInfo \in Info
    BY <1>0 DEF NewInfo, Info
  <1>2. <<>> \in Seq(Work) /\ <<>> \in Seq(Delivery) /\ Len(<<>>) = 0 /\ DOMAIN <<>> = {}
    OBVIOUS
  <1>3. RoomTyped
    BY <1>1 DEF Init, RoomTyped, RoomStage
  <1>4. QueuesTyped
    BY <1>0, <1>2 DEF Init, QueuesTyped, Listing
  <1>5. CountsTyped
    BY <1>0 DEF Init, CountsTyped
  <1>6. \A h \in Peers : todo[h] = <<>> /\ at[h] = "new" /\ out[h] = <<>> /\ peers = {}
    BY DEF Init
  <1>7. \A h \in Peers : \A c, event, q : ~Owes(todo[h], c, event, q)
    BY <1>6, OwesNothing
  <1>8. \A h \in Peers : Working(h)
    BY <1>2, <1>6 DEF Working, WorkOf
  <1>9. \A h \in Peers : Unheard(h) /\ Stays(h)
    BY <1>6, <1>7 DEF Unheard, Stays
  <1>10. OneSession /\ AllReplaced /\ Mirrors
    BY DEF Init, OneSession, AllReplaced, Mirrors
  <1>11. \E elder \in [Peers -> SUBSET Peers] : Ordered(elder)
    <2> DEFINE g == [q \in Peers |-> {}]
    <2>1. g \in [Peers -> SUBSET Peers] /\ \A q \in Peers : g[q] = {}
      OBVIOUS
    <2>2. peers = {}
      BY DEF Init
    <2> HIDE DEF g
    <2>3. Ordered(g)
      BY <2>1, <2>2 DEF Ordered
    <2> QED BY <2>1, <2>3
  <1> QED BY <1>3, <1>4, <1>5, <1>8, <1>9, <1>10, <1>11 DEF RoomInv, Typed, Orderly

LEMMA RoomStep == RoomInv /\ [Next]_vars => RoomInv'
  <1> SUFFICES ASSUME RoomInv, [Next]_vars PROVE RoomInv'
    OBVIOUS
  <1>1. Orderly' /\ Mirrors'
    <2>1. CASE UNCHANGED vars
      <3>1. UNCHANGED <<at, peers, info, early, ghosts, todo, out, cancelled, roster>>
        BY <2>1 DEF vars, voices
      <3> QED BY <3>1, RoomQuiet, QuietStep
    <2>2. CASE Close \/ CancelNext \/ DisconnectAll
      BY <2>2, ShutdownMoves
    <2>3. CASE \E p \in Peers :
                  \/ Accept(p) \/ Register(p) \/ NoHello(p) \/ Join(p) \/ Handle(p)
                  \/ SetState(p) \/ SetDisplayName(p) \/ Deliver(p) \/ Disconnect(p)
      BY <2>3, RoomMoves
    <2>4. CASE Voice
      BY <2>4, VoiceMoves
    <2> QED BY <2>1, <2>2, <2>3, <2>4 DEF Next
  <1>2. QueuesTyped' /\ RoomTyped' /\ CountsTyped'
    BY <1>1, QueuesTypedStep, RoomTypedStep
  <1> QED BY <1>1, <1>2 DEF RoomInv, Typed

LEMMA RoomAlways == Safety => []RoomInv
  BY RoomStart, RoomStep, PTL DEF Safety

LEMMA RoomInvTypes == RoomInv => TypeOK
  <1> SUFFICES ASSUME RoomInv PROVE TypeOK
    OBVIOUS
  <1>1. \A p \in Peers : \A i \in DOMAIN todo[p] : todo[p][i] \in Work
    BY DEF RoomInv, Typed, QueuesTyped
  <1>2. \A p \in Peers : \A i \in DOMAIN out[p] : out[p][i] \in Delivery
    BY DEF RoomInv, Typed, QueuesTyped
  <1> QED BY <1>1, <1>2 DEF RoomInv, Typed, RoomTyped, QueuesTyped, CountsTyped, TypeOK, RoomStage

\* The variables keep their types: above all no client's queue is ever longer than
\* PEER_OUT_BUF_LEN, since Peer::send (sfu/mod.rs) cancels a peer whose queue is full.
THEOREM QueuesAreBounded == Safety => []TypeOK
  BY RoomInvTypes, RoomAlways, PTL

\* A client at rest shows who is in the room and, unless it is a lurker, as they are: whatever
\* the interleaving of the broadcasts that serve_ws, add_peer and remove_peer (sfu/mod.rs) queue
\* after they released the room's lock, and however the client's handlers (sfu-handlers.ts,
\* useStore.ts) merge them and the voices it is told to hear, except for the peers it was told of
\* in the wrong order and those whose slot was named to it after their leaving.
THEOREM RosterIsTrue == Safety => []RosterTrue
  <1>1. RoomInv => RosterTrue
    <2> SUFFICES ASSUME RoomInv, NEW c \in Peers, AtRest(c), NEW q \in Peers \ {c}, ~ToldEarly(c, q)
                 PROVE  IF q \notin peers THEN roster[c][q] = Absent \/ <<c, q>> \in ghosts
                        ELSE IF c \in Lurkers THEN roster[c][q] # Absent
                             ELSE roster[c][q] = info[q]
      BY DEF RosterTrue
    <2>1. c \in peers /\ ~cancelled[c] /\ out[c] = <<>>
      BY DEF AtRest
    <2>2. \A h \in Peers : \A event, k : ~Owes(todo[h], c, event, k)
      BY DEF AtRest, Owes, IsMsg
    <2>3. Mirror(c, q)
      BY <2>1 DEF RoomInv, Mirrors
    <2>4. PICK e \in Entries, b \in Entries :
            RosterEnds(out[c], c, q, roster[c][q], e) /\ OnceWelcome(c, q, e, b) /\ Good(c, q, b)
      BY <2>3 DEF Mirror
    <2>5. e = roster[c][q]
      BY <2>1, <2>4, RosterEndsNow
    <2>6. b = e
      BY <2>2, <2>4 DEF OnceWelcome
    <2>7. CASE q \notin peers
      BY <2>2, <2>4, <2>5, <2>6, <2>7 DEF Good
    <2>8. CASE q \in peers
      <3>1. b # Absent /\ (c \notin Lurkers => b.muted = info[q].muted /\ b.name = info[q].name)
        BY <2>2, <2>4, <2>8 DEF Good
      <3>2. b \in Listed /\ info[q] \in Info
        BY <3>1 DEF Entries, RoomInv, Typed, RoomTyped
      <3>3. c \notin Lurkers => b = info[q]
        BY <3>1, <3>2 DEF Info, Listed
      <3> QED BY <2>5, <2>6, <2>8, <3>1, <3>3
    <2> QED BY <2>7, <2>8
  <1> QED BY <1>1, RoomAlways, PTL

-----------------------------------------------------------------------------
(* The presence hub.                                                       *)

HubTyped ==
    /\ pushes \in [Peers -> Seq(Frame)]
    /\ sub \in [Subs -> BOOLEAN]
    /\ queue \in [Subs -> Seq(Frame)]
    /\ \A s \in Subs : Len(queue[s]) <= OutBuf
    /\ shown \in [Subs -> Roster]
    /\ late \in SUBSET Peers

\* What is so of a peer.
Truth(q) == IF q \in peers THEN info[q] ELSE Absent

About(f, q) == f.event = "snapshot" \/ f.id = q
Says(f, q) == IF f.event = "snapshot" THEN f.peers[q] ELSE IF f.event = "left" THEN Absent ELSE f.info

\* A list that is to merge these frames will show v of q: the last frame about q says so, or
\* there is none and the list does.
Ends(frames, list, q, v) ==
    \/ \E i \in DOMAIN frames :
        /\ About(frames[i], q) /\ Says(frames[i], q) = v
        /\ \A j \in DOMAIN frames : j > i => ~About(frames[j], q)
    \/ (\A i \in DOMAIN frames : ~About(frames[i], q)) /\ list[q] = v

IsLeft(h, i, q) == pushes[h][i].event = "left" /\ pushes[h][i].id = q
LeftDue(q) == \E h \in Peers : \E i \in DOMAIN pushes[h] : IsLeft(h, i, q)

\* A handler announces its own peer, last, and only while it is at work.
Pushing(h) ==
    /\ at[h] \in {"new", "accepted", "hello", "in", "gone"} => pushes[h] = <<>>
    /\ \A i \in DOMAIN pushes[h] :
        /\ pushes[h][i].event \in {"left", "joined", "updated"}
        /\ pushes[h][i].event # "left" => pushes[h][i].id = h /\ i = Len(pushes[h])

\* Nobody is about to say that a member left, and what its handler announces is still true.
Member(q) ==
    /\ q \in peers => at[q] \in {"busy", "in"}
    /\ q \in peers \/ at[q] \in {"new", "accepted", "hello"} => ~LeftDue(q)
    /\ q \in peers => \A i \in DOMAIN pushes[q] :
        pushes[q][i].event # "left" => pushes[q][i].info = info[q]

\* The announcement of a peer that is out comes before its leaving, unless late says otherwise;
\* and a list differs from the truth only as long as a frame is to come.
InStep(q) ==
    q \notin late =>
        /\ q \notin peers /\ Announces(q, q) => LeftDue(q)
        /\ \A s \in Subs : sub[s] =>
            \/ Ends(queue[s], shown[s], q, Truth(q))
            \/ q \in peers /\ Announces(q, q)
            \/ q \notin peers /\ LeftDue(q)

HubInv == RoomTyped /\ HubTyped /\ \A q \in Peers : Pushing(q) /\ Member(q) /\ InStep(q)

-----------------------------------------------------------------------------
(* What a list shows in the end. *)

LEMMA EndsNow ==
    ASSUME NEW list, NEW q
    PROVE  Ends(<<>>, list, q, list[q]) /\ \A v : Ends(<<>>, list, q, v) => list[q] = v
  BY DEF Ends

LEMMA EndsSnapshot ==
    ASSUME NEW f, f.event = "snapshot", NEW list, NEW q
    PROVE  Ends(<<f>>, list, q, f.peers[q])
  <1>1. DOMAIN <<f>> = {1} /\ <<f>>[1] = f
    OBVIOUS
  <1>2. About(<<f>>[1], q) /\ Says(<<f>>[1], q) = f.peers[q]
    BY <1>1 DEF About, Says
  <1> QED BY <1>1, <1>2 DEF Ends

\* A frame about the peer has the last word, another leaves it as it is.
LEMMA EndsAppend ==
    ASSUME NEW frames \in Seq(Frame), NEW f \in Frame, NEW list, NEW q, NEW v
    PROVE  /\ About(f, q) => Ends(Append(frames, f), list, q, Says(f, q))
           /\ ~About(f, q) /\ Ends(frames, list, q, v) => Ends(Append(frames, f), list, q, v)
  <1> DEFINE n == Len(frames) + 1
             u == Append(frames, f)
  <1>1. /\ DOMAIN frames = 1 .. Len(frames) /\ Len(frames) \in Nat
        /\ DOMAIN u = 1 .. n /\ u[n] = f /\ n \in DOMAIN u /\ n \notin DOMAIN frames
        /\ \A i \in DOMAIN frames : i \in DOMAIN u /\ u[i] = frames[i]
        /\ \A i \in DOMAIN u : i # n => i \in DOMAIN frames
    OBVIOUS
  <1> HIDE DEF u
  <1>2. ASSUME About(f, q) PROVE Ends(u, list, q, Says(f, q))
    <2>1. \A j \in DOMAIN u : j > n => ~About(u[j], q)
      BY <1>1
    <2> QED BY <1>1, <1>2, <2>1 DEF Ends
  <1>3. ASSUME ~About(f, q), Ends(frames, list, q, v) PROVE Ends(u, list, q, v)
    <2>1. CASE (\A i \in DOMAIN frames : ~About(frames[i], q)) /\ list[q] = v
      <3>1. \A i \in DOMAIN u : ~About(u[i], q)
        BY <1>1, <1>3, <2>1
      <3> QED BY <2>1, <3>1 DEF Ends
    <2>2. ASSUME NEW i \in DOMAIN frames, About(frames[i], q), Says(frames[i], q) = v,
                 \A j \in DOMAIN frames : j > i => ~About(frames[j], q)
          PROVE  Ends(u, list, q, v)
      <3>1. \A j \in DOMAIN u : j > i => ~About(u[j], q)
        BY <1>1, <1>3, <2>2
      <3> QED BY <1>1, <2>2, <3>1 DEF Ends
    <2> QED BY <1>3, <2>1, <2>2 DEF Ends
  <1> QED BY <1>2, <1>3 DEF u

\* A merge keeps the list's type and shows of a peer what the frame says, if it says anything.
LEMMA MergeSays ==
    ASSUME NEW list, list \in Roster, NEW f, f \in Frame
    PROVE  /\ Merge(list, f) \in Roster
           /\ \A q \in Peers : Merge(list, f)[q] = IF About(f, q) THEN Says(f, q) ELSE list[q]
  <1> DEFINE m == Merge(list, f)
  <1>1. CASE f \in [event : {"left"}, id : Peers]
    <2>1. f.event = "left" /\ f.id \in Peers
      BY <1>1
    <2>2. m = [list EXCEPT ![f.id] = Absent]
      BY <2>1 DEF Merge
    <2> HIDE DEF m
    <2>3. m \in Roster /\ \A q \in Peers : m[q] = IF About(f, q) THEN Says(f, q) ELSE list[q]
      BY <2>1, <2>2 DEF Roster, About, Says
    <2> QED BY <2>3 DEF m
  <1>2. CASE f \in [event : {"joined", "updated"}, id : Peers, info : Info]
    <2>1. f.event \in {"joined", "updated"} /\ f.id \in Peers /\ f.info \in Info
      BY <1>2
    <2>2. m = [list EXCEPT ![f.id] = f.info]
      BY <2>1 DEF Merge
    <2> HIDE DEF m
    <2>3. m \in Roster /\ \A q \in Peers : m[q] = IF About(f, q) THEN Says(f, q) ELSE list[q]
      BY <2>1, <2>2 DEF Roster, About, Says
    <2> QED BY <2>3 DEF m
  <1>3. CASE f \in [event : {"snapshot"}, peers : Roster]
    <2>1. f.event = "snapshot" /\ f.peers \in Roster
      BY <1>3
    <2>2. m = f.peers
      BY <2>1 DEF Merge
    <2> HIDE DEF m
    <2>3. m \in Roster /\ \A q \in Peers : m[q] = IF About(f, q) THEN Says(f, q) ELSE list[q]
      BY <2>1, <2>2 DEF About, Says
    <2> QED BY <2>3 DEF m
  <1> QED BY <1>1, <1>2, <1>3 DEF Frame

\* To merge the first frame changes nothing of what the list shows in the end.
LEMMA EndsMerge ==
    ASSUME NEW frames, frames \in Seq(Frame), frames # <<>>, NEW list, list \in Roster,
           NEW q, q \in Peers, NEW v, Ends(frames, list, q, v)
    PROVE  Ends(Tail(frames), Merge(list, Head(frames)), q, v)
  <1> DEFINE f == Head(frames)
             u == Tail(frames)
             m == Merge(list, f)
  <1>1. /\ DOMAIN frames = 1 .. Len(frames) /\ Len(frames) \in Nat \ {0}
        /\ DOMAIN u = 1 .. (Len(frames) - 1)
        /\ \A i \in DOMAIN u : i + 1 \in DOMAIN frames /\ u[i] = frames[i + 1]
        /\ \A i \in DOMAIN frames : i # 1 => i - 1 \in DOMAIN u /\ u[i - 1] = frames[i]
        /\ f = frames[1] /\ f \in Frame
    OBVIOUS
  <1>2. /\ About(f, q) => m[q] = Says(f, q)
        /\ ~About(f, q) => m[q] = list[q]
    BY <1>1, MergeSays
  <1> HIDE DEF u, m, f
  <1>3. CASE (\A i \in DOMAIN frames : ~About(frames[i], q)) /\ list[q] = v
    <2>1. ~About(f, q)
      BY <1>1, <1>3
    <2>2. \A i \in DOMAIN u : ~About(u[i], q)
      BY <1>1, <1>3
    <2> QED BY <1>2, <1>3, <2>1, <2>2 DEF Ends, u, m, f
  <1>4. ASSUME NEW i \in DOMAIN frames, About(frames[i], q), Says(frames[i], q) = v,
               \A j \in DOMAIN frames : j > i => ~About(frames[j], q)
        PROVE  Ends(u, m, q, v)
    <2>1. CASE i = 1
      <3>1. \A j \in DOMAIN u : ~About(u[j], q)
        <4> SUFFICES ASSUME NEW j \in DOMAIN u PROVE ~About(u[j], q)
          OBVIOUS
        <4>1. j + 1 \in DOMAIN frames /\ u[j] = frames[j + 1] /\ j + 1 > i
          BY <1>1, <2>1
        <4> QED BY <4>1, <1>4
      <3>2. m[q] = v
        BY <1>1, <1>2, <1>4, <2>1
      <3> QED BY <3>1, <3>2 DEF Ends
    <2>2. CASE i # 1
      <3>1. i - 1 \in DOMAIN u /\ u[i - 1] = frames[i]
        BY <1>1, <2>2
      <3>2. \A j \in DOMAIN u : j > i - 1 => ~About(u[j], q)
        <4> SUFFICES ASSUME NEW j \in DOMAIN u, j > i - 1 PROVE ~About(u[j], q)
          OBVIOUS
        <4>1. j + 1 \in DOMAIN frames /\ u[j] = frames[j + 1] /\ j + 1 > i
          BY <1>1
        <4> QED BY <4>1, <1>4
      <3> QED BY <3>1, <3>2, <1>4 DEF Ends
    <2> QED BY <2>1, <2>2
  <1> QED BY <1>2, <1>3, <1>4 DEF Ends, u, m, f

-----------------------------------------------------------------------------
(* The frames a handler will push. *)

\* One frame for each peer of a set, all of one kind.
OneEach(F, event, S, i) ==
    /\ F \in Seq(Frame) /\ Len(F) = Cardinality(S)
    /\ \A k \in DOMAIN F :
        F[k].event = event /\ F[k].id \in S /\ (event # "left" => F[k].info = i)
    /\ \A q \in S : \E k \in DOMAIN F : F[k].id = q

LEMMA FramesAre ==
    ASSUME NEW S, S \in SUBSET Peers, NEW i, i \in Info,
           NEW event, event \in {"left", "joined", "updated"}
    PROVE  OneEach(Frames(event, S, i), event, S, i)
  <1> DEFINE n == Cardinality(S)
             w == SetToSeq(S)
             F == Frames(event, S, i)
  <1>1. IsFiniteSet(S) /\ n \in Nat /\ ExistsBijection(1 .. n, S)
    BY RoomConstants, FS_Subset, FS_CardinalityType
  <1>2. \E g \in [1 .. n -> S] : IsInjective(g)
    BY <1>1 DEF ExistsBijection, Bijection, Injection
  <1>3. w \in [1 .. n -> S] /\ IsInjective(w)
    BY <1>2 DEF SetToSeq
  <1>4. Cardinality(1 .. n) = n
    BY <1>1, FS_Interval
  <1>5. w \in Surjection(1 .. n, S)
    BY <1>1, <1>3, <1>4, FS_Injection DEF Injection
  <1>6. \A q \in S : \E k \in 1 .. n : w[k] = q
    BY <1>5 DEF Surjection
  <1>7. /\ DOMAIN F = 1 .. n
        /\ \A k \in 1 .. n : F[k] = IF event = "left" THEN [event |-> event, id |-> w[k]]
                                    ELSE [event |-> event, id |-> w[k], info |-> i]
        /\ F = [k \in 1 .. n |-> F[k]]
    BY DEF Frames
  <1> HIDE DEF F, n, w
  <1>8. \A k \in 1 .. n : F[k] \in Frame /\ F[k].event = event /\ F[k].id = w[k]
                          /\ (event # "left" => F[k].info = i)
    <2> SUFFICES ASSUME NEW k \in 1 .. n
                 PROVE  F[k] \in Frame /\ F[k].event = event /\ F[k].id = w[k]
                        /\ (event # "left" => F[k].info = i)
      OBVIOUS
    <2>1. w[k] \in Peers
      BY <1>3
    <2>2. CASE event = "left"
      BY <1>7, <2>1, <2>2 DEF Frame
    <2>3. CASE event # "left"
      BY <1>7, <2>1, <2>3 DEF Frame
    <2> QED BY <2>2, <2>3
  <1>9. F \in Seq(Frame) /\ Len(F) = n
    BY <1>1, <1>7, <1>8
  <1>10. \A k \in DOMAIN F :
           F[k].event = event /\ F[k].id \in S /\ (event # "left" => F[k].info = i)
    BY <1>3, <1>7, <1>8
  <1>11. \A q \in S : \E k \in DOMAIN F : F[k].id = q
    BY <1>6, <1>7, <1>8
  <1> QED BY <1>9, <1>10, <1>11 DEF OneEach, F, n

ComesAfter(F, L, f) ==
    /\ F \in Seq(Frame) /\ Len(F) = Len(L) + 1 /\ Len(L) \in Nat
    /\ DOMAIN F = 1 .. Len(L) + 1 /\ DOMAIN L = 1 .. Len(L)
    /\ \A k \in DOMAIN L : F[k] = L[k]
    /\ F[Len(L) + 1] = f

LEMMA OneMore ==
    ASSUME NEW L, L \in Seq(Frame), NEW J, J \in Seq(Frame), Len(J) = 1
    PROVE  ComesAfter(L \o J, L, J[1])
  <1> DEFINE F == L \o J
  <1>1. Len(L) \in Nat /\ DOMAIN L = 1 .. Len(L) /\ F \in Seq(Frame) /\ Len(F) = Len(L) + 1
    <2>1. Len(L) \in Nat /\ DOMAIN L = 1 .. Len(L)
      OBVIOUS
    <2>2. F \in Seq(Frame)
      OBVIOUS
    <2>3. Len(F) = Len(L) + Len(J)
      BY ConcatProperties
    <2> QED BY <2>1, <2>2, <2>3
  <1>2. DOMAIN F = 1 .. Len(L) + 1
    BY <1>1
  <1>3. \A k \in DOMAIN L : F[k] = L[k]
    OBVIOUS
  <1>4. F[Len(L) + 1] = J[1]
    OBVIOUS
  <1> HIDE DEF F
  <1>5. ComesAfter(F, L, J[1])
    BY <1>1, <1>2, <1>3, <1>4 DEF ComesAfter
  <1> QED BY <1>5 DEF F

OnlyOne(F, event, p, i) ==
    /\ F \in Seq(Frame) /\ Len(F) = 1
    /\ F[1].event = event /\ F[1].id = p /\ (event # "left" => F[1].info = i)

LEMMA FramesOfOne ==
    ASSUME NEW p, p \in Peers, NEW i, i \in Info, NEW event, event \in {"left", "joined", "updated"}
    PROVE  OnlyOne(Frames(event, {p}, i), event, p, i)
  <1> DEFINE S == {p}
             F == Frames(event, S, i)
  <1>1. S \in SUBSET Peers /\ Cardinality(S) = 1 /\ \A x \in S : x = p
    BY FS_Singleton
  <1> HIDE DEF S
  <1>0. OneEach(F, event, S, i)
    BY <1>1, FramesAre
  <1> HIDE DEF F
  <1>2. /\ F \in Seq(Frame) /\ Len(F) = Cardinality(S)
        /\ \A k \in DOMAIN F :
             F[k].event = event /\ F[k].id \in S /\ (event # "left" => F[k].info = i)
    BY <1>0 DEF OneEach
  <1>3. 1 \in DOMAIN F
    BY <1>1, <1>2
  <1>4. /\ F \in Seq(Frame) /\ Len(F) = 1
        /\ F[1].event = event /\ F[1].id = p /\ (event # "left" => F[1].info = i)
    BY <1>1, <1>2, <1>3
  <1> QED BY <1>4 DEF OnlyOne, F, S

LEMMA FramesOfNone ==
    ASSUME NEW event, NEW i PROVE Frames(event, {}, i) = <<>>
  <1>1. Cardinality({}) = 0
    BY FS_EmptySet
  <1> DEFINE e == {}
  <1>2. Cardinality(e) = 0
    BY <1>1
  <1> HIDE DEF e
  <1>3. Frames(event, e, i) = <<>>
    BY <1>2 DEF Frames
  <1> QED BY <1>3 DEF e

-----------------------------------------------------------------------------
(* The steps. *)

\* A handler that had nothing to push gets these frames to push.
SetTo(p, F) ==
    /\ pushes' \in [Peers -> Seq(Frame)] /\ pushes'[p] = F
    /\ \A q \in Peers : q # p => pushes'[q] = pushes[q]
    /\ \A q : LeftDue(q)' <=> LeftDue(q) \/ \E i \in DOMAIN F : F[i].event = "left" /\ F[i].id = q

LEMMA PushesSet ==
    ASSUME HubTyped, NEW p, p \in Peers, NEW F, F \in Seq(Frame), pushes[p] = <<>>,
           pushes' = [pushes EXCEPT ![p] = F]
    PROVE  SetTo(p, F)
  <1>1. pushes' \in [Peers -> Seq(Frame)] /\ pushes'[p] = F
        /\ \A q \in Peers : q # p => pushes'[q] = pushes[q]
    BY DEF HubTyped
  <1>2. DOMAIN pushes[p] = {}
    OBVIOUS
  <1>3. ASSUME NEW q
        PROVE  LeftDue(q)' <=> LeftDue(q) \/ \E i \in DOMAIN F : F[i].event = "left" /\ F[i].id = q
    <2>1. ASSUME NEW h \in Peers, NEW i \in DOMAIN pushes'[h], IsLeft(h, i, q)'
          PROVE  LeftDue(q) \/ \E j \in DOMAIN F : F[j].event = "left" /\ F[j].id = q
      BY <1>1, <2>1 DEF IsLeft, LeftDue
    <2>2. ASSUME NEW h \in Peers, NEW i \in DOMAIN pushes[h], IsLeft(h, i, q)
          PROVE  LeftDue(q)'
      <3>1. h # p
        BY <1>2, <2>2
      <3> QED BY <1>1, <2>2, <3>1 DEF IsLeft, LeftDue
    <2>3. ASSUME NEW i \in DOMAIN F, F[i].event = "left", F[i].id = q PROVE LeftDue(q)'
      BY <1>1, <2>3 DEF IsLeft, LeftDue
    <2>4. LeftDue(q)' => LeftDue(q) \/ \E i \in DOMAIN F : F[i].event = "left" /\ F[i].id = q
      BY <2>1 DEF LeftDue
    <2>5. LeftDue(q) => LeftDue(q)'
      BY <2>2 DEF LeftDue
    <2> QED BY <2>3, <2>4, <2>5
  <1> QED BY <1>1, <1>3 DEF SetTo

\* A step that moves connections and touches nothing the hub reads.
LEMMA HubMoves ==
    ASSUME HubInv, UNCHANGED <<peers, info, presVars>>, at' \in [Peers -> RoomStage],
           \A q \in Peers :
              /\ at'[q] \in {"new", "accepted", "hello", "in", "gone"} => pushes[q] = <<>>
              /\ q \in peers => at'[q] \in {"busy", "in"}
              /\ at'[q] \in {"new", "accepted", "hello"} => at[q] \in {"new", "accepted", "hello"}
    PROVE  HubInv'
  <1>1. RoomTyped' /\ HubTyped'
    BY DEF HubInv, RoomTyped, HubTyped, presVars
  <1>2. ASSUME NEW q \in Peers PROVE Pushing(q)' /\ Member(q)' /\ InStep(q)'
    <2>1. Pushing(q)'
      BY DEF HubInv, Pushing, presVars
    <2>2. LeftDue(q)' = LeftDue(q) /\ Announces(q, q)' = Announces(q, q)
      BY DEF LeftDue, IsLeft, Announces, presVars
    <2>3. Member(q)'
      BY <2>2 DEF HubInv, Member, presVars
    <2>4. InStep(q)'
      BY <2>2 DEF HubInv, InStep, Truth, presVars
    <2> QED BY <2>1, <2>3, <2>4
  <1> QED BY <1>1, <1>2 DEF HubInv

LEMMA HubJoin ==
    ASSUME HubInv, NEW p \in Peers, JoinPushes(p)
    PROVE  HubInv'
  <1> DEFINE E == {q \in peers : SameClient(p, q)}
             L == Frames("left", peers \ peers', info[p])
             J == Frames("joined", {p}, info[p])
             F == L \o J
  <1>1. /\ at[p] = "hello" /\ at' = [at EXCEPT ![p] = "busy"] /\ info' = info
        /\ peers' = (peers \ E) \union {p}
        /\ pushes' = [pushes EXCEPT ![p] = F]
        /\ UNCHANGED <<sub, queue, shown, late>>
    BY DEF JoinPushes, Join, WillPush
  <1>2. p \notin peers /\ pushes[p] = <<>> /\ ~LeftDue(p)
    BY <1>1 DEF HubInv, Member, Pushing
  <1>3. peers \ peers' = E /\ E \in SUBSET Peers /\ p \notin E /\ info[p] \in Info
    BY <1>1, <1>2 DEF HubInv, RoomTyped
  <1>4. /\ L \in Seq(Frame)
        /\ \A k \in DOMAIN L : L[k].event = "left" /\ L[k].id \in E
        /\ \A q \in E : \E k \in DOMAIN L : L[k].id = q
    <2>1. L = Frames("left", E, info[p])
      BY <1>3
    <2> HIDE DEF E
    <2>2. OneEach(Frames("left", E, info[p]), "left", E, info[p])
      BY <1>3, FramesAre
    <2> HIDE DEF L
    <2>3. OneEach(L, "left", E, info[p])
      BY <2>1, <2>2
    <2> QED BY <2>3 DEF OneEach
  <1>5. /\ J \in Seq(Frame) /\ Len(J) = 1
        /\ J[1].event = "joined" /\ J[1].id = p /\ J[1].info = info[p]
    <2>1. OnlyOne(J, "joined", p, info[p])
      BY <1>3, FramesOfOne
    <2> HIDE DEF J
    <2> QED BY <2>1 DEF OnlyOne
  <1> DEFINE n == Len(L) + 1
  <1> HIDE DEF L, J, E
  <1>6. /\ F \in Seq(Frame) /\ Len(F) = n /\ DOMAIN F = 1 .. n /\ n \in DOMAIN F
        /\ \A k \in DOMAIN F : k # n => k \in DOMAIN L /\ F[k] = L[k]
        /\ \A k \in DOMAIN L : k \in DOMAIN F /\ F[k] = L[k] /\ k # n
        /\ F[n] = J[1]
    <2>1. ComesAfter(F, L, J[1])
      BY <1>4, <1>5, OneMore
    <2> HIDE DEF F
    <2> QED BY <2>1 DEF ComesAfter, n
  <1> HIDE DEF F, n
  <1>7. SetTo(p, F)
    BY <1>1, <1>2, <1>6, PushesSet DEF HubInv
  <1>8. \A q : LeftDue(q)' <=> LeftDue(q) \/ q \in E
    <2>1. ASSUME NEW q PROVE (\E i \in DOMAIN F : F[i].event = "left" /\ F[i].id = q) <=> q \in E
      BY <1>4, <1>5, <1>6
    <2> QED BY <1>7, <2>1 DEF SetTo
  <1>9. RoomTyped' /\ HubTyped'
    BY <1>1, <1>3, <1>7 DEF HubInv, RoomTyped, HubTyped, RoomStage, SetTo
  <1>10. ASSUME NEW q \in Peers PROVE Pushing(q)' /\ Member(q)' /\ InStep(q)'
    <2>0. Pushing(q) /\ Member(q) /\ InStep(q)
      BY DEF HubInv
    <2>1. CASE q = p
      <3>1. at'[q] = "busy" /\ q \in peers'
        BY <1>1, <2>1 DEF HubInv, RoomTyped
      <3>2. Pushing(q)'
        BY <1>4, <1>5, <1>6, <1>7, <2>1, <3>1 DEF Pushing, SetTo
      <3>3. ~LeftDue(q)'
        BY <1>2, <1>3, <1>8, <2>1
      <3>4. Member(q)'
        BY <1>1, <1>4, <1>5, <1>6, <1>7, <2>1, <3>1, <3>3 DEF Member, SetTo
      <3>5. Announces(q, q)'
        BY <1>5, <1>6, <1>7, <2>1 DEF Announces, SetTo
      <3> QED BY <3>1, <3>2, <3>4, <3>5 DEF InStep
    <2>2. CASE q # p
      <3>1. at'[q] = at[q] /\ pushes'[q] = pushes[q] /\ (q \in peers' <=> q \in peers /\ q \notin E)
        BY <1>1, <1>7, <2>2 DEF HubInv, RoomTyped, SetTo
      <3>2. Announces(q, q)' = Announces(q, q)
        BY <3>1 DEF Announces
      <3>3. Pushing(q)'
        BY <2>0, <3>1 DEF Pushing
      <3>4. q \in E => q \in peers
        BY <1>3
      <3>5. Member(q)'
        BY <2>0, <1>1, <1>8, <3>1, <3>4 DEF Member
      <3>6. InStep(q)'
        <4>1. CASE q \in E
          BY <1>1, <1>8, <3>1, <4>1 DEF InStep
        <4>2. CASE q \notin E
          <5>1. LeftDue(q)' <=> LeftDue(q)
            BY <1>8, <4>2
          <5>2. Truth(q)' = Truth(q)
            BY <1>1, <3>1, <4>2 DEF Truth
          <5> QED BY <2>0, <1>1, <3>1, <3>2, <4>2, <5>1, <5>2 DEF InStep
        <4> QED BY <4>1, <4>2
      <3> QED BY <3>3, <3>5, <3>6
    <2> QED BY <2>1, <2>2
  <1> QED BY <1>9, <1>10 DEF HubInv

LEMMA HubLeave ==
    ASSUME HubInv, NEW p \in Peers, LeavePushes(p)
    PROVE  HubInv'
  <1> DEFINE F == Frames("left", {p} \intersect peers, info[p])
  <1>1. /\ at[p] = "in" /\ at' = [at EXCEPT ![p] = "leaving"] /\ info' = info
        /\ peers' = IF p \in peers THEN peers \ {p} ELSE peers
        /\ pushes' = [pushes EXCEPT ![p] = F]
        /\ UNCHANGED <<sub, queue, shown, late>>
    BY DEF LeavePushes, Leave, WillPush
  <1>2. pushes[p] = <<>> /\ info[p] \in Info /\ RoomTyped /\ HubTyped
    BY <1>1 DEF HubInv, Pushing, RoomTyped
  <1>3. CASE p \notin peers
    <2>1. F = <<>>
      <3>1. {p} \intersect peers = {}
        BY <1>3
      <3> QED BY <3>1, FramesOfNone
    <2> HIDE DEF F
    <2>2. UNCHANGED <<peers, info, presVars>>
      BY <1>1, <1>2, <1>3, <2>1 DEF HubTyped, presVars
    <2>3. at' \in [Peers -> RoomStage] /\ at'[p] = "leaving"
          /\ \A q \in Peers : q # p => at'[q] = at[q]
      BY <1>1, <1>2 DEF RoomTyped, RoomStage
    <2>4. \A q \in Peers :
            /\ at'[q] \in {"new", "accepted", "hello", "in", "gone"} => pushes[q] = <<>>
            /\ q \in peers => at'[q] \in {"busy", "in"}
            /\ at'[q] \in {"new", "accepted", "hello"} => at[q] \in {"new", "accepted", "hello"}
      BY <1>3, <2>3 DEF HubInv, Pushing, Member
    <2> QED BY <2>2, <2>3, <2>4, HubMoves
  <1>4. CASE p \in peers
    <2>1. OnlyOne(F, "left", p, info[p])
      <3>1. {p} \intersect peers = {p}
        BY <1>4
      <3>2. OnlyOne(Frames("left", {p}, info[p]), "left", p, info[p])
        BY <1>2, FramesOfOne
      <3> QED BY <3>1, <3>2
    <2> HIDE DEF F
    <2>2. SetTo(p, F)
      BY <1>1, <1>2, <2>1, PushesSet DEF OnlyOne
    <2>3. DOMAIN F = {1}
      BY <2>1 DEF OnlyOne
    <2>4. \A q : LeftDue(q)' <=> LeftDue(q) \/ q = p
      BY <2>1, <2>2, <2>3 DEF SetTo, OnlyOne
    <2>5. RoomTyped' /\ HubTyped'
      BY <1>1, <1>2, <1>4, <2>2 DEF RoomTyped, HubTyped, RoomStage, SetTo
    <2>6. ASSUME NEW q \in Peers PROVE Pushing(q)' /\ Member(q)' /\ InStep(q)'
      <3>0. Pushing(q) /\ Member(q) /\ InStep(q)
        BY DEF HubInv
      <3>1. CASE q = p
        <4>1. at'[q] = "leaving" /\ q \notin peers' /\ LeftDue(q)'
          BY <1>1, <1>2, <1>4, <2>4, <3>1 DEF RoomTyped
        <4>2. Pushing(q)'
          BY <2>1, <2>2, <2>3, <3>1, <4>1 DEF Pushing, OnlyOne, SetTo
        <4> QED BY <4>1, <4>2 DEF Member, InStep
      <3>2. CASE q # p
        <4>1. /\ at'[q] = at[q] /\ pushes'[q] = pushes[q] /\ (q \in peers' <=> q \in peers)
              /\ (LeftDue(q)' <=> LeftDue(q))
          BY <1>1, <1>2, <1>4, <2>2, <2>4, <3>2 DEF RoomTyped, SetTo
        <4>2. (Announces(q, q)' <=> Announces(q, q)) /\ Truth(q)' = Truth(q)
          BY <1>1, <4>1 DEF Announces, Truth
        <4>3. Pushing(q)' /\ Member(q)'
          BY <1>1, <3>0, <4>1 DEF Pushing, Member
        <4>4. InStep(q)'
          BY <1>1, <3>0, <4>1, <4>2 DEF InStep
        <4> QED BY <4>3, <4>4
      <3> QED BY <3>1, <3>2
    <2> QED BY <2>5, <2>6 DEF HubInv
  <1> QED BY <1>3, <1>4

LEMMA HubUpdate ==
    ASSUME HubInv, NEW p \in Peers, UpdatePushes(p)
    PROVE  HubInv'
  <1> DEFINE F == Frames("updated", {p} \intersect peers, info'[p])
  <1>1. /\ at[p] = "in" /\ peers' = peers
        /\ pushes' = [pushes EXCEPT ![p] = F]
        /\ UNCHANGED <<sub, queue, shown, late>>
        /\ \E new \in Info :
             IF p \in peers THEN info' = [info EXCEPT ![p] = new] /\ at' = [at EXCEPT ![p] = "busy"]
             ELSE UNCHANGED <<info, at>>
    <2>1. pushes' = [pushes EXCEPT ![p] = F] /\ UNCHANGED <<sub, queue, shown, late>>
      BY DEF UpdatePushes, WillPush
    <2>2. ASSUME NEW event, NEW new \in Info, Update(p, event, new)
          PROVE  /\ at[p] = "in" /\ peers' = peers
                 /\ IF p \in peers
                    THEN info' = [info EXCEPT ![p] = new] /\ at' = [at EXCEPT ![p] = "busy"]
                    ELSE UNCHANGED <<info, at>>
      BY <2>2 DEF Update
    <2>3. info[p] \in Info
      BY DEF HubInv, RoomTyped
    <2>4. \A muted \in BOOLEAN : [info[p] EXCEPT !.muted = muted] \in Info
      BY <2>3 DEF Info
    <2>5. \A name \in Names : [info[p] EXCEPT !.name = name] \in Info
      BY <2>3 DEF Info
    <2>6. \E event : \E new \in Info : Update(p, event, new)
      BY <2>4, <2>5 DEF UpdatePushes, SetState, SetDisplayName
    <2> QED BY <2>1, <2>2, <2>6
  <1>2. pushes[p] = <<>> /\ RoomTyped /\ HubTyped
    BY <1>1 DEF HubInv, Pushing
  <1>3. CASE p \notin peers
    <2>1. F = <<>>
      <3>1. {p} \intersect peers = {}
        BY <1>3
      <3> QED BY <3>1, FramesOfNone
    <2> HIDE DEF F
    <2>2. UNCHANGED <<at, peers, info, presVars>>
      BY <1>1, <1>2, <1>3, <2>1 DEF HubTyped, presVars
    <2>3. \A q \in Peers :
            /\ at'[q] \in {"new", "accepted", "hello", "in", "gone"} => pushes[q] = <<>>
            /\ q \in peers => at'[q] \in {"busy", "in"}
            /\ at'[q] \in {"new", "accepted", "hello"} => at[q] \in {"new", "accepted", "hello"}
      BY <2>2 DEF HubInv, Pushing, Member
    <2> QED BY <1>2, <2>2, <2>3, HubMoves DEF RoomTyped
  <1>4. CASE p \in peers
    <2>1. /\ info' \in [Peers -> Info] /\ at' = [at EXCEPT ![p] = "busy"]
          /\ \A q \in Peers : q # p => info'[q] = info[q]
      BY <1>1, <1>2, <1>4 DEF RoomTyped
    <2>2. OnlyOne(F, "updated", p, info'[p])
      <3>1. {p} \intersect peers = {p}
        BY <1>4
      <3>2. info'[p] \in Info
        BY <2>1
      <3>3. OnlyOne(Frames("updated", {p}, info'[p]), "updated", p, info'[p])
        BY <3>2, FramesOfOne
      <3> QED BY <3>1, <3>3
    <2> HIDE DEF F
    <2>3. SetTo(p, F)
      BY <1>1, <1>2, <2>2, PushesSet DEF OnlyOne
    <2>4. DOMAIN F = {1}
      BY <2>2 DEF OnlyOne
    <2>5. \A q : LeftDue(q)' <=> LeftDue(q)
      BY <2>2, <2>3, <2>4 DEF SetTo, OnlyOne
    <2>6. RoomTyped' /\ HubTyped'
      BY <1>1, <1>2, <2>1, <2>3 DEF RoomTyped, HubTyped, RoomStage, SetTo
    <2>7. ASSUME NEW q \in Peers PROVE Pushing(q)' /\ Member(q)' /\ InStep(q)'
      <3>0. Pushing(q) /\ Member(q) /\ InStep(q)
        BY DEF HubInv
      <3>1. CASE q = p
        <4>1. at'[q] = "busy" /\ q \in peers' /\ ~LeftDue(q)'
          BY <1>1, <1>2, <1>4, <2>1, <2>5, <3>0, <3>1 DEF RoomTyped, Member
        <4>2. Pushing(q)' /\ Member(q)' /\ Announces(q, q)'
          BY <2>2, <2>3, <2>4, <3>1, <4>1 DEF Pushing, Member, Announces, OnlyOne, SetTo
        <4> QED BY <4>1, <4>2 DEF InStep
      <3>2. CASE q # p
        <4>1. /\ at'[q] = at[q] /\ pushes'[q] = pushes[q] /\ info'[q] = info[q]
              /\ (LeftDue(q)' <=> LeftDue(q))
          BY <1>2, <2>1, <2>3, <2>5, <3>2 DEF RoomTyped, SetTo
        <4>2. (Announces(q, q)' <=> Announces(q, q)) /\ Truth(q)' = Truth(q)
          BY <1>1, <4>1 DEF Announces, Truth
        <4>3. Pushing(q)' /\ Member(q)'
          BY <1>1, <3>0, <4>1 DEF Pushing, Member
        <4>4. InStep(q)'
          BY <1>1, <3>0, <4>1, <4>2 DEF InStep
        <4> QED BY <4>3, <4>4
      <3> QED BY <3>1, <3>2
    <2> QED BY <2>6, <2>7 DEF HubInv
  <1> QED BY <1>3, <1>4

\* The room as it is, for a stream that starts or could not keep up.
LEMMA SnapshotIsTrue ==
    ASSUME HubInv, NEW list
    PROVE  /\ <<[event |-> "snapshot", peers |-> Snapshot(peers)]>> \in Seq(Frame)
           /\ Len(<<[event |-> "snapshot", peers |-> Snapshot(peers)]>>) <= OutBuf
           /\ \A q \in Peers :
                Ends(<<[event |-> "snapshot", peers |-> Snapshot(peers)]>>, list, q, Truth(q))
  <1> DEFINE S == Snapshot(peers)
             f == [event |-> "snapshot", peers |-> S]
  <1>1. S \in Roster /\ \A q \in Peers : S[q] = Truth(q)
    BY DEF HubInv, RoomTyped, Snapshot, Roster, Truth
  <1> HIDE DEF S
  <1>2. f \in Frame /\ f.event = "snapshot" /\ f.peers = S
    BY <1>1 DEF Frame
  <1> HIDE DEF f
  <1>3. <<f>> \in Seq(Frame) /\ Len(<<f>>) <= OutBuf
    BY <1>2, PresenceConstants
  <1>4. ASSUME NEW q \in Peers PROVE Ends(<<f>>, list, q, Truth(q))
    <2>1. Ends(<<f>>, list, q, f.peers[q])
      BY <1>2, EndsSnapshot
    <2> QED BY <1>1, <1>2, <2>1
  <1>5. <<f>> \in Seq(Frame) /\ Len(<<f>>) <= OutBuf
        /\ \A q \in Peers : Ends(<<f>>, list, q, Truth(q))
    BY <1>3, <1>4
  <1> QED BY <1>5 DEF f, S

LEMMA HubPush ==
    ASSUME HubInv, NEW p \in Peers, Push(p)
    PROVE  HubInv'
  <1> DEFINE f == Head(pushes[p])
  <1>1. /\ pushes[p] # <<>> /\ pushes' = [pushes EXCEPT ![p] = Tail(@)]
        /\ queue' = [s \in Subs |-> IF sub[s] THEN Enqueue(queue[s], f) ELSE queue[s]]
        /\ late' = IF f.event = "left" /\ \E h \in Peers : Announces(h, f.id)
                   THEN late \union {f.id} ELSE late
        /\ UNCHANGED <<at, peers, info, sub, shown>>
    BY DEF Push, vars
  <1>2. RoomTyped /\ HubTyped /\ \A q \in Peers : Pushing(q) /\ Member(q) /\ InStep(q)
    BY DEF HubInv
  <1>3. /\ pushes' \in [Peers -> Seq(Frame)]
        /\ \A q \in Peers : q # p => pushes'[q] = pushes[q]
        /\ pushes'[p] = Tail(pushes[p]) /\ pushes[p] \in Seq(Frame)
    BY <1>1, <1>2 DEF HubTyped
  <1>4. /\ 1 \in DOMAIN pushes[p] /\ f = pushes[p][1] /\ f \in Frame
        /\ Len(pushes[p]) \in Nat \ {0} /\ DOMAIN pushes[p] = 1 .. Len(pushes[p])
        /\ Len(pushes'[p]) = Len(pushes[p]) - 1
        /\ \A i \in DOMAIN pushes'[p] :
             i \in Nat /\ i + 1 \in DOMAIN pushes[p] /\ pushes'[p][i] = pushes[p][i + 1]
        /\ \A i \in DOMAIN pushes[p] :
             i # 1 => i - 1 \in DOMAIN pushes'[p] /\ pushes'[p][i - 1] = pushes[p][i]
    BY <1>1, <1>3
  <1> HIDE DEF f
  <1>5. f.event \in {"left", "joined", "updated"}
        /\ (f.event # "left" => f.id = p /\ Len(pushes[p]) = 1)
    <2>1. Pushing(p)
      BY <1>2
    <2>2. 1 \in DOMAIN pushes[p] /\ f = pushes[p][1]
      BY <1>4
    <2> QED BY <2>1, <2>2 DEF Pushing
  <1>6. ASSUME NEW s \in Subs, sub[s]
        PROVE  queue'[s] = Enqueue(queue[s], f)
    BY <1>1, <1>6
  <1>7. ASSUME NEW s \in Subs PROVE queue'[s] \in Seq(Frame) /\ Len(queue'[s]) <= OutBuf
    <2>1. CASE ~sub[s]
      BY <1>1, <1>2, <2>1 DEF HubTyped
    <2>2. CASE sub[s]
      <3>1. queue[s] \in Seq(Frame) /\ OutBuf \in Nat
        BY <1>2, PresenceConstants DEF HubTyped
      <3>2. CASE Len(queue[s]) < OutBuf
        <4>1. queue'[s] = Append(queue[s], f)
          BY <1>6, <2>2, <3>2 DEF Enqueue
        <4> QED BY <1>4, <3>1, <3>2, <4>1
      <3>3. CASE ~(Len(queue[s]) < OutBuf)
        <4>1. queue'[s] = <<[event |-> "snapshot", peers |-> Snapshot(peers)]>>
          BY <1>6, <2>2, <3>3 DEF Enqueue
        <4> QED BY <4>1, SnapshotIsTrue
      <3> QED BY <3>2, <3>3
    <2> QED BY <2>1, <2>2
  <1>8. RoomTyped' /\ HubTyped'
    <2>1. queue' \in [Subs -> Seq(Frame)] /\ \A s \in Subs : Len(queue'[s]) <= OutBuf
      BY <1>1, <1>7
    <2>2. f.event = "left" => f.id \in Peers
      BY <1>4 DEF Frame
    <2>3. late' \in SUBSET Peers
      BY <1>1, <1>2, <2>2 DEF HubTyped
    <2> QED BY <1>1, <1>2, <1>3, <2>1, <2>3 DEF RoomTyped, HubTyped
  <1>9. ASSUME NEW q \in Peers, LeftDue(q)' PROVE LeftDue(q)
    <2>1. PICK h \in Peers : \E i \in DOMAIN pushes'[h] : pushes'[h][i].event = "left" /\ pushes'[h][i].id = q
      BY <1>9 DEF LeftDue, IsLeft
    <2>2. PICK i \in DOMAIN pushes'[h] : pushes'[h][i].event = "left" /\ pushes'[h][i].id = q
      BY <2>1
    <2>3. \E j \in DOMAIN pushes[h] : pushes[h][j] = pushes'[h][i]
      <3>1. CASE h = p
        <4>1. i + 1 \in DOMAIN pushes[p] /\ pushes'[p][i] = pushes[p][i + 1]
          BY <1>4, <3>1
        <4> QED BY <3>1, <4>1
      <3>2. CASE h # p
        <4>1. pushes'[h] = pushes[h]
          BY <1>3, <3>2
        <4> QED BY <4>1
      <3> QED BY <3>1, <3>2
    <2> QED BY <2>2, <2>3 DEF LeftDue, IsLeft
  <1>10. ASSUME NEW q \in Peers, LeftDue(q), ~(f.event = "left" /\ f.id = q) PROVE LeftDue(q)'
    <2>1. PICK h \in Peers : \E i \in DOMAIN pushes[h] : pushes[h][i].event = "left" /\ pushes[h][i].id = q
      BY <1>10 DEF LeftDue, IsLeft
    <2>2. PICK i \in DOMAIN pushes[h] : pushes[h][i].event = "left" /\ pushes[h][i].id = q
      BY <2>1
    <2>3. \E j \in DOMAIN pushes'[h] : pushes'[h][j] = pushes[h][i]
      <3>1. CASE h = p
        <4>1. i # 1
          BY <1>4, <1>10, <2>2, <3>1
        <4>2. i - 1 \in DOMAIN pushes'[p] /\ pushes'[p][i - 1] = pushes[p][i]
          BY <1>4, <3>1, <4>1
        <4> QED BY <3>1, <4>2
      <3>2. CASE h # p
        <4>1. pushes'[h] = pushes[h]
          BY <1>3, <3>2
        <4> QED BY <4>1
      <3> QED BY <3>1, <3>2
    <2> QED BY <2>2, <2>3 DEF LeftDue, IsLeft
  <1>11. ASSUME NEW q \in Peers, Announces(q, q)' PROVE Announces(q, q)
    <2>1. PICK i \in DOMAIN pushes'[q] : pushes'[q][i].event # "left" /\ pushes'[q][i].id = q
      BY <1>11 DEF Announces
    <2>2. \E j \in DOMAIN pushes[q] : pushes[q][j] = pushes'[q][i]
      <3>1. CASE q = p
        <4>1. i + 1 \in DOMAIN pushes[q] /\ pushes'[q][i] = pushes[q][i + 1]
          BY <1>4, <2>1, <3>1
        <4> QED BY <4>1
      <3>2. CASE q # p
        BY <1>3, <2>1, <3>2
      <3> QED BY <3>1, <3>2
    <2> QED BY <2>1, <2>2 DEF Announces
  <1>12. ASSUME NEW q \in Peers, Announces(q, q), f.id # q PROVE Announces(q, q)'
    <2>1. PICK i \in DOMAIN pushes[q] : pushes[q][i].event # "left" /\ pushes[q][i].id = q
      BY <1>12 DEF Announces
    <2>2. \E j \in DOMAIN pushes'[q] : pushes'[q][j] = pushes[q][i]
      BY <1>3, <1>4, <1>12, <2>1
    <2> QED BY <2>1, <2>2 DEF Announces
  <1>13. ASSUME NEW q \in Peers PROVE Pushing(q)' /\ Member(q)'
    <2>1. Pushing(q)'
      <3>1. CASE q # p
        BY <1>1, <1>2, <1>3, <3>1 DEF Pushing
      <3>2. CASE q = p
        BY <1>1, <1>2, <1>4, <3>2 DEF Pushing
      <3> QED BY <3>1, <3>2
    <2>2. Member(q)'
      <3>1. CASE q # p
        BY <1>1, <1>2, <1>3, <1>9, <3>1 DEF Member
      <3>2. CASE q = p
        BY <1>1, <1>2, <1>4, <1>9, <3>2 DEF Member
      <3> QED BY <3>1, <3>2
    <2> QED BY <2>1, <2>2
  <1>14. ASSUME NEW q \in Peers, q \notin late'
         PROVE  /\ q \notin peers /\ Announces(q, q)' => LeftDue(q)'
                /\ \A s \in Subs : sub[s] =>
                    \/ Ends(queue'[s], shown[s], q, Truth(q))
                    \/ q \in peers /\ Announces(q, q)'
                    \/ q \notin peers /\ LeftDue(q)'
    <2>1. q \notin late /\ ~(f.event = "left" /\ f.id = q /\ Announces(q, q))
      BY <1>1, <1>14
    <2>2. /\ q \notin peers /\ Announces(q, q) => LeftDue(q)
          /\ \A s \in Subs : sub[s] =>
              \/ Ends(queue[s], shown[s], q, Truth(q))
              \/ q \in peers /\ Announces(q, q)
              \/ q \notin peers /\ LeftDue(q)
      BY <1>2, <2>1 DEF InStep
    <2>3. q \notin peers /\ Announces(q, q)' => LeftDue(q)'
      BY <1>10, <1>11, <2>1, <2>2
    <2>4. ASSUME NEW s \in Subs, sub[s]
          PROVE  \/ Ends(queue'[s], shown[s], q, Truth(q))
                 \/ q \in peers /\ Announces(q, q)'
                 \/ q \notin peers /\ LeftDue(q)'
      <3>1. CASE ~(Len(queue[s]) < OutBuf)
        <4>1. queue'[s] = <<[event |-> "snapshot", peers |-> Snapshot(peers)]>>
          BY <1>6, <2>4, <3>1 DEF Enqueue
        <4> QED BY <4>1, SnapshotIsTrue
      <3>2. CASE Len(queue[s]) < OutBuf
        <4>1. queue'[s] = Append(queue[s], f) /\ queue[s] \in Seq(Frame)
          BY <1>2, <1>6, <2>4, <3>2 DEF Enqueue, HubTyped
        <4>2. CASE f.id # q
          <5>1. ~About(f, q)
            BY <1>5, <4>2 DEF About
          <5>2. Ends(queue[s], shown[s], q, Truth(q)) => Ends(queue'[s], shown[s], q, Truth(q))
            BY <1>4, <4>1, <5>1, EndsAppend
          <5> QED BY <1>10, <1>12, <2>2, <2>4, <4>2, <5>2
        <4>3. CASE f.id = q
          <5>1. Ends(queue'[s], shown[s], q, Says(f, q))
            BY <1>4, <4>1, <4>3, EndsAppend DEF About
          <5>2. CASE f.event = "left"
            <6>1. LeftDue(q)
              BY <1>4, <4>3, <5>2 DEF LeftDue, IsLeft
            <6>2. Truth(q) = Absent /\ Says(f, q) = Absent
              BY <1>2, <5>2, <6>1 DEF Member, Truth, Says
            <6> QED BY <5>1, <6>2
          <5>3. CASE f.event # "left"
            <6>1. q = p /\ Announces(q, q)
              BY <1>4, <1>5, <4>3, <5>3 DEF Announces
            <6>2. CASE q \in peers
              <7>1. Truth(q) = f.info /\ Says(f, q) = f.info
                BY <1>2, <1>4, <1>5, <5>3, <6>1, <6>2 DEF Member, Truth, Says
              <7> QED BY <5>1, <7>1
            <6>3. CASE q \notin peers
              <7>1. LeftDue(q)'
                BY <1>10, <2>2, <5>3, <6>1, <6>3
              <7> QED BY <6>3, <7>1
            <6> QED BY <6>2, <6>3
          <5> QED BY <5>2, <5>3
        <4> QED BY <4>2, <4>3
      <3> QED BY <3>1, <3>2
    <2> QED BY <2>3, <2>4
  <1>15. ASSUME NEW q \in Peers PROVE InStep(q)'
    <2>1. Truth(q)' = Truth(q)
      BY <1>1 DEF Truth
    <2> QED BY <1>1, <1>14, <2>1 DEF InStep
  <1> QED BY <1>8, <1>13, <1>15 DEF HubInv

LEMMA HubSubscribe ==
    ASSUME HubInv, NEW s \in Subs, Subscribe(s)
    PROVE  HubInv'
  <1> DEFINE one == <<[event |-> "snapshot", peers |-> Snapshot(peers)]>>
  <1>1. /\ sub' = [sub EXCEPT ![s] = TRUE] /\ queue' = [queue EXCEPT ![s] = one]
        /\ UNCHANGED <<at, peers, info, pushes, shown, late>>
    BY DEF Subscribe, vars
  <1>2. one \in Seq(Frame) /\ Len(one) <= OutBuf
        /\ \A q \in Peers : Ends(one, shown[s], q, Truth(q))
    BY SnapshotIsTrue
  <1> HIDE DEF one
  <1>3. RoomTyped' /\ HubTyped'
    BY <1>1, <1>2 DEF HubInv, RoomTyped, HubTyped
  <1>4. ASSUME NEW q \in Peers PROVE Pushing(q)' /\ Member(q)' /\ InStep(q)'
    <2>1. Pushing(q)' /\ Member(q)'
      BY <1>1 DEF HubInv, Pushing, Member, LeftDue, IsLeft
    <2>2. /\ LeftDue(q)' <=> LeftDue(q)
          /\ Announces(q, q)' <=> Announces(q, q)
          /\ Truth(q)' = Truth(q)
      BY <1>1 DEF LeftDue, IsLeft, Announces, Truth
    <2>3. queue'[s] = one /\ \A t \in Subs : t # s => queue'[t] = queue[t] /\ sub'[t] = sub[t]
      BY <1>1 DEF HubInv, HubTyped
    <2>4. InStep(q)'
      BY <1>1, <1>2, <2>2, <2>3 DEF HubInv, InStep
    <2> QED BY <2>1, <2>4
  <1> QED BY <1>3, <1>4 DEF HubInv

LEMMA HubUnsubscribe ==
    ASSUME HubInv, NEW s \in Subs, Unsubscribe(s)
    PROVE  HubInv'
  <1>1. /\ sub' = [sub EXCEPT ![s] = FALSE] /\ queue' = [queue EXCEPT ![s] = <<>>]
        /\ shown' = [shown EXCEPT ![s] = NoOne]
        /\ UNCHANGED <<at, peers, info, pushes, late>>
    BY DEF Unsubscribe, vars
  <1>2. RoomTyped' /\ HubTyped'
    <2>1. NoOne \in Roster /\ <<>> \in Seq(Frame) /\ Len(<<>>) <= OutBuf
      BY PresenceConstants DEF NoOne, Roster
    <2> QED BY <1>1, <2>1 DEF HubInv, RoomTyped, HubTyped
  <1>3. ASSUME NEW q \in Peers PROVE Pushing(q)' /\ Member(q)' /\ InStep(q)'
    <2>1. Pushing(q)' /\ Member(q)'
      BY <1>1 DEF HubInv, Pushing, Member, LeftDue, IsLeft
    <2>2. /\ LeftDue(q)' <=> LeftDue(q)
          /\ Announces(q, q)' <=> Announces(q, q)
          /\ Truth(q)' = Truth(q)
      BY <1>1 DEF LeftDue, IsLeft, Announces, Truth
    <2>3. /\ ~sub'[s]
          /\ \A t \in Subs : t # s => queue'[t] = queue[t] /\ sub'[t] = sub[t] /\ shown'[t] = shown[t]
      BY <1>1 DEF HubInv, HubTyped
    <2>4. InStep(q)'
      BY <1>1, <2>2, <2>3 DEF HubInv, InStep
    <2> QED BY <2>1, <2>4
  <1> QED BY <1>2, <1>3 DEF HubInv

LEMMA HubShow ==
    ASSUME HubInv, NEW s \in Subs, Show(s)
    PROVE  HubInv'
  <1>1. /\ queue[s] # <<>>
        /\ queue' = [queue EXCEPT ![s] = Tail(queue[s])]
        /\ shown' = [shown EXCEPT ![s] = Merge(shown[s], Head(queue[s]))]
        /\ UNCHANGED <<at, peers, info, pushes, sub, late>>
    BY DEF Show, vars
  <1>2. queue[s] \in Seq(Frame) /\ Len(queue[s]) <= OutBuf /\ shown[s] \in Roster
    BY DEF HubInv, HubTyped
  <1>3. /\ Tail(queue[s]) \in Seq(Frame) /\ Head(queue[s]) \in Frame
        /\ Len(Tail(queue[s])) <= OutBuf
    BY <1>1, <1>2, PresenceConstants
  <1>4. Merge(shown[s], Head(queue[s])) \in Roster
    BY <1>2, <1>3, MergeSays
  <1>5. RoomTyped' /\ HubTyped'
    BY <1>1, <1>3, <1>4 DEF HubInv, RoomTyped, HubTyped
  <1>6. ASSUME NEW q \in Peers PROVE Pushing(q)' /\ Member(q)' /\ InStep(q)'
    <2>1. Pushing(q)' /\ Member(q)'
      BY <1>1 DEF HubInv, Pushing, Member, LeftDue, IsLeft
    <2>2. /\ LeftDue(q)' <=> LeftDue(q)
          /\ Announces(q, q)' <=> Announces(q, q)
          /\ Truth(q)' = Truth(q)
      BY <1>1 DEF LeftDue, IsLeft, Announces, Truth
    <2>3. /\ queue'[s] = Tail(queue[s]) /\ shown'[s] = Merge(shown[s], Head(queue[s]))
          /\ \A t \in Subs : t # s => queue'[t] = queue[t] /\ shown'[t] = shown[t]
      BY <1>1 DEF HubInv, HubTyped
    <2>4. Ends(queue[s], shown[s], q, Truth(q)) => Ends(queue'[s], shown'[s], q, Truth(q))
      BY <1>1, <1>2, <2>3, EndsMerge
    <2>5. InStep(q)'
      BY <1>1, <2>2, <2>3, <2>4 DEF HubInv, InStep
    <2> QED BY <2>1, <2>5
  <1> QED BY <1>5, <1>6 DEF HubInv

\* The room's own steps, of which the hub hears nothing.
LEMMA HubRests ==
    ASSUME HubInv, UNCHANGED <<at, peers, info, presVars>>
    PROVE  HubInv'
  <1>1. at' \in [Peers -> RoomStage]
    BY DEF HubInv, RoomTyped
  <1>2. \A q \in Peers :
          /\ at'[q] \in {"new", "accepted", "hello", "in", "gone"} => pushes[q] = <<>>
          /\ q \in peers => at'[q] \in {"busy", "in"}
          /\ at'[q] \in {"new", "accepted", "hello"} => at[q] \in {"new", "accepted", "hello"}
    BY DEF HubInv, Pushing, Member
  <1> QED BY <1>1, <1>2, HubMoves

\* A connection that moves on while its handler has nothing to push.
LEMMA HubMove ==
    ASSUME HubInv, NEW p \in Peers, NEW new \in RoomStage, at' = [at EXCEPT ![p] = new],
           UNCHANGED <<peers, info, presVars>>, pushes[p] = <<>>,
           p \in peers => new \in {"busy", "in"},
           new \in {"new", "accepted", "hello"} => at[p] \in {"new", "accepted", "hello"}
    PROVE  HubInv'
  <1>1. at' \in [Peers -> RoomStage] /\ at'[p] = new
        /\ \A q \in Peers : q # p => at'[q] = at[q]
    BY DEF HubInv, RoomTyped
  <1>2. \A q \in Peers :
          /\ at'[q] \in {"new", "accepted", "hello", "in", "gone"} => pushes[q] = <<>>
          /\ q \in peers => at'[q] \in {"busy", "in"}
          /\ at'[q] \in {"new", "accepted", "hello"} => at[q] \in {"new", "accepted", "hello"}
    BY <1>1 DEF HubInv, Pushing, Member
  <1> QED BY <1>1, <1>2, HubMoves

LEMMA HubConnection ==
    ASSUME HubInv, NEW p \in Peers,
           \/ (Accept(p) \/ Register(p) \/ NoHello(p)) /\ UNCHANGED presVars
           \/ DonePushing(p)
    PROVE  HubInv'
  <1> USE DEF RoomStage
  <1>1. CASE Accept(p) /\ UNCHANGED presVars
    <2>1. at[p] = "new" /\ at' = [at EXCEPT ![p] = "accepted"] /\ UNCHANGED <<peers, info, presVars>>
      BY <1>1 DEF Accept
    <2>2. pushes[p] = <<>> /\ p \notin peers
      BY <2>1 DEF HubInv, Pushing, Member
    <2> QED BY <2>1, <2>2, HubMove
  <1>2. CASE Register(p) /\ UNCHANGED presVars
    <2>1. at[p] = "accepted" /\ at' = [at EXCEPT ![p] = "hello"] /\ UNCHANGED <<peers, info, presVars>>
      BY <1>2 DEF Register
    <2>2. pushes[p] = <<>> /\ p \notin peers
      BY <2>1 DEF HubInv, Pushing, Member
    <2> QED BY <2>1, <2>2, HubMove
  <1>3. CASE NoHello(p) /\ UNCHANGED presVars
    <2>1. at[p] = "hello" /\ at' = [at EXCEPT ![p] = "gone"] /\ UNCHANGED <<peers, info, presVars>>
      BY <1>3 DEF NoHello
    <2>2. pushes[p] = <<>> /\ p \notin peers
      BY <2>1 DEF HubInv, Pushing, Member
    <2> QED BY <2>1, <2>2, HubMove
  <1>4. CASE DonePushing(p)
    <2>1. /\ pushes[p] = <<>> /\ at[p] \in {"busy", "leaving"} /\ UNCHANGED <<peers, info, presVars>>
          /\ at' = [at EXCEPT ![p] = IF at[p] = "busy" THEN "in" ELSE "gone"]
      BY <1>4 DEF DonePushing, Done
    <2>2. CASE at[p] = "busy"
      <3>1. at' = [at EXCEPT ![p] = "in"]
        BY <2>1, <2>2
      <3> QED BY <2>1, <3>1, HubMove
    <2>3. CASE at[p] = "leaving"
      <3>1. at' = [at EXCEPT ![p] = "gone"]
        BY <2>1, <2>3
      <3>2. p \notin peers
        BY <2>3 DEF HubInv, Member
      <3> QED BY <2>1, <3>1, <3>2, HubMove
    <2> QED BY <2>1, <2>2, <2>3
  <1> QED BY <1>1, <1>2, <1>3, <1>4

LEMMA HubStart == PresenceInit => HubInv
  <1> SUFFICES ASSUME PresenceInit PROVE HubInv
    OBVIOUS
  <1>1. RoomTyped
    BY RoomConstants DEF PresenceInit, Init, RoomTyped, RoomStage, NewInfo, Info
  <1>2. HubTyped
    <2>1. NoOne \in Roster /\ <<>> \in Seq(Frame) /\ Len(<<>>) <= OutBuf
      BY PresenceConstants DEF NoOne, Roster
    <2> QED BY <2>1 DEF PresenceInit, HubTyped
  <1>3. /\ peers = {} /\ \A p \in Peers : at[p] = "new" /\ pushes[p] = <<>> /\ DOMAIN pushes[p] = {}
        /\ \A s \in Subs : sub[s] = FALSE
    BY DEF PresenceInit, Init
  <1>4. ASSUME NEW q \in Peers PROVE Pushing(q) /\ Member(q) /\ InStep(q)
    BY <1>3 DEF Pushing, Member, InStep, LeftDue, Announces
  <1> QED BY <1>1, <1>2, <1>4 DEF HubInv

LEMMA HubStep == HubInv /\ [PresenceNext]_allVars => HubInv'
  <1> SUFFICES ASSUME HubInv, [PresenceNext]_allVars PROVE HubInv'
    OBVIOUS
  <1>1. ASSUME NEW p \in Peers, JoinPushes(p) PROVE HubInv'
    BY <1>1, HubJoin
  <1>2. ASSUME NEW p \in Peers, UpdatePushes(p) PROVE HubInv'
    BY <1>2, HubUpdate
  <1>3. ASSUME NEW p \in Peers, HandlePushes(p) PROVE HubInv'
    <2>1. CASE (SendNext(p) \/ CancelEvicted(p)) /\ UNCHANGED presVars
      BY <2>1, HubRests DEF SendNext, CancelEvicted
    <2>2. CASE LeavePushes(p)
      BY <2>2, HubLeave
    <2>3. CASE Push(p)
      BY <2>3, HubPush
    <2>4. CASE DonePushing(p)
      BY <2>4, HubConnection
    <2> QED BY <1>3, <2>1, <2>2, <2>3, <2>4 DEF HandlePushes
  <1>4. ASSUME NEW p \in Peers, (Accept(p) \/ Register(p) \/ NoHello(p)) /\ UNCHANGED presVars
        PROVE  HubInv'
    BY <1>4, HubConnection
  <1>5. ASSUME NEW p \in Peers, (Deliver(p) \/ Disconnect(p)) /\ UNCHANGED presVars PROVE HubInv'
    BY <1>5, HubRests DEF Deliver, Disconnect
  <1>6. ASSUME NEW s \in Subs, Subscribe(s) \/ Unsubscribe(s) \/ Show(s) PROVE HubInv'
    BY <1>6, HubSubscribe, HubUnsubscribe, HubShow
  <1>7. CASE (Close \/ CancelNext \/ DisconnectAll) /\ UNCHANGED presVars
    BY <1>7, HubRests DEF Close, CancelNext, DisconnectAll
  <1>9. CASE Voice /\ UNCHANGED presVars
    BY <1>9, HubRests DEF Voice, ReadTrack, NameSlot
  <1>8. CASE UNCHANGED allVars
    BY <1>8, HubRests DEF allVars, vars
  <1> QED BY <1>1, <1>2, <1>3, <1>4, <1>5, <1>6, <1>7, <1>8, <1>9 DEF PresenceNext

-----------------------------------------------------------------------------
\* The room takes its own steps below the hub.
LEMMA PresenceMovesRoom == [PresenceNext]_allVars => [Next]_vars
  BY DEF PresenceNext, allVars, JoinPushes, UpdatePushes, HandlePushes, LeavePushes, Push, DonePushing,
         Handle, Subscribe, Unsubscribe, Show, Next

LEMMA HubAlways == PresenceSpec => []HubInv
  BY HubStart, HubStep, PTL DEF PresenceSpec

\* The frames under way and the lists have their types, and a stream that is not read costs a
\* bounded queue (push in presence.rs).
THEOREM StreamsAreBounded == PresenceSpec => []PresenceTypeOK
  <1>1. HubInv => PresenceTypeOK
    BY DEF HubInv, HubTyped, PresenceTypeOK
  <1> QED BY <1>1, HubAlways, PTL

\* A browser that has read everything shows the room as it is, however queues overflowed and
\* snapshots crossed frames (push and subscribe in presence.rs, the merge in useRoomPeers.ts):
\* all but a peer whose leaving was pushed before what its own handler said of it.
THEOREM PresenceSettlesTrue == PresenceSpec => []PresenceTrue
  <1>1. ASSUME HubInv PROVE PresenceTrue
    <2> SUFFICES ASSUME NEW s \in Subs, Settled(s), NEW q \in Peers \ late
                 PROVE  shown[s][q] = Truth(q)
      BY DEF PresenceTrue, Truth
    <2>1. sub[s] /\ queue[s] = <<>> /\ \A p \in Peers : DOMAIN pushes[p] = {}
      BY DEF Settled
    <2>2. ~Announces(q, q) /\ ~LeftDue(q)
      BY <2>1 DEF Announces, LeftDue
    <2>3. Ends(<<>>, shown[s], q, Truth(q))
      BY <1>1, <2>1, <2>2 DEF HubInv, InStep
    <2> QED BY <2>3, EndsNow
  <1> QED BY <1>1, HubAlways, PTL

=============================================================================
