-------------------------------- MODULE Chat --------------------------------
(***************************************************************************)
(* The chat of a room: the broadcasts of the server (sfu/mod.rs), and the  *)
(* history a browser shows, saves and sends again from                     *)
(* (frontend/src: sfu/chat-client.ts, utils/chat-retry.ts, store/          *)
(* useStore.ts, components/ChatPanel.tsx, hooks/useLurkerWS.ts and         *)
(* useSessionManager.ts, utils/storage.ts).                                *)
(*                                                                         *)
(* A message is shown as pending until the server echoes it under an id.   *)
(* The server keeps no chat and knows no message: whatever is still        *)
(* pending at a welcome is sent again.  The history is loaded from the     *)
(* browser's database while echoes come in.                                *)
(***************************************************************************)
EXTENDS Naturals, Sequences, FiniteSets, SequencesExt

CONSTANTS
    Users,
    Msgs,
    AuthorOf,       \* [Msgs -> Users]
    MaxSockets,     \* bounds the WebSockets of each user
    MaxEchoes       \* bounds the broadcasts of messages

ASSUME ChatConstants ==
    /\ AuthorOf \in [Msgs -> Users]
    /\ MaxSockets \in [Users -> Nat] /\ MaxEchoes \in Nat

VARIABLES
    sock,           \* each user's WebSocket: its number, its state and what it is for
    here,           \* whether the page has had a welcome, and so shows the user as present
    up,             \* what each socket has sent and the server has not read
    room,           \* the sockets in the room, by their user and number
    work,           \* the broadcasts under way, each with the recipients it has not reached
    down,           \* Peer::out of each user's socket, with what is on its way
    list, db,     \* chatByRoom, and its copy in the database
    saveDue,        \* the timer of schedulePersist
    load,           \* what loadChatHistory is about to return
    upload,         \* what each upload under way will send through
    fresh,          \* the messages younger than RETRY_WINDOW_MS
    echoes,         \* history: the message of each id, and the sockets it was broadcast to
    erased,         \* history: the ids erased, and the sockets that was broadcast to
    overtaken,      \* history: ids erased for a user before they came, or while a load held them
    crossed         \* history: messages echoed to their author while a load held them as pending

browser == <<here, list, db, saveDue, load, upload, fresh>>
wires == <<sock, up, room, work, down>>
histories == <<echoes, erased, overtaken, crossed>>
chatVars == <<browser, wires, histories>>

NotLoading == [idle |-> TRUE]
NotUploading == "none"

Now(u) == <<u, sock[u].n>>

\* An entry of the history: id is 0 while it is pending. file: the upload ids are temporary
\* or the server's.
Entry == [m : Msgs, id : 0 .. MaxEchoes, file : {"none", "temporary", "stored"}, failed : BOOLEAN]

Pending(entries, m) == {e \in entries : e.m = m /\ e.id = 0}

ChatInit ==
    /\ sock = [u \in Users |-> [n |-> 0, is |-> "closed", via |-> "lurker"]]
    /\ here = [u \in Users |-> FALSE]
    /\ up = [u \in Users |-> <<>>] /\ down = [u \in Users |-> <<>>]
    /\ room = {} /\ work = {}
    /\ list = [u \in Users |-> {}] /\ db = list
    /\ saveDue = [u \in Users |-> FALSE] /\ load = [u \in Users |-> NotLoading]
    /\ upload = [m \in Msgs |-> NotUploading] /\ fresh = {}
    /\ echoes = <<>> /\ erased = {} /\ overtaken = {} /\ crossed = {}

-----------------------------------------------------------------------------
(* The WebSocket of a user. *)

\* connect: hello goes out first.
Open(u) ==
    /\ sock[u].is = "closed" /\ sock[u].n < MaxSockets[u]
    /\ sock' = [sock EXCEPT ![u].n = @ + 1, ![u].is = "open"]
    /\ up' = [up EXCEPT ![u] = <<>>] /\ down' = [down EXCEPT ![u] = <<>>]
    /\ UNCHANGED <<room, work, browser, histories>>

\* add_peer replaces what the client had before, then queues the welcome.
Enter(u) ==
    /\ sock[u].is = "open"
    /\ sock' = [sock EXCEPT ![u].is = "entered"]
    /\ room' = {c \in room : c[1] # u} \union {Now(u)}
    /\ UNCHANGED <<up, work, down, browser, histories>>

Greet(u) ==
    /\ sock[u].is = "entered"
    /\ sock' = [sock EXCEPT ![u].is = "greeted"]
    /\ down' = [down EXCEPT ![u] = Append(@, [event |-> "welcome"])]
    /\ UNCHANGED <<up, room, work, browser, histories>>

\* The connection is lost, with what is on its way; the server notices in time.
Lose(u) ==
    /\ sock[u].is # "closed"
    /\ sock' = [sock EXCEPT ![u].is = "closed"]
    /\ down' = [down EXCEPT ![u] = <<>>]
    /\ UNCHANGED <<up, room, work, browser, histories>>

Part(c) ==
    /\ c \in room /\ (c # Now(c[1]) \/ sock[c[1]].is = "closed")
    /\ room' = room \ {c}
    /\ UNCHANGED <<sock, up, work, down, browser, histories>>

-----------------------------------------------------------------------------
(* broadcast_chat and broadcast_chat_delete. *)

\* One message of a connection at a time; a peer that is gone is not heard, and files that
\* are not live uploads are refused.
HandleChat(u) ==
    /\ up[u] # <<>> /\ Now(u) \in room /\ sock[u].is \in {"greeted", "closed"}
    /\ \A w \in work : w.by # Now(u)
    /\ up' = [up EXCEPT ![u] = Tail(@)]
    /\ LET f == Head(up[u]) IN
       \/ /\ f.event = "chat-send" /\ f.file # "temporary"
          /\ Len(echoes) < MaxEchoes
          /\ echoes' = Append(echoes, [m |-> f.m, to |-> room])
          /\ work' = work \union
                {[by |-> Now(u), to |-> room,
                  sends |-> [event |-> "chat", m |-> f.m, file |-> f.file, id |-> Len(echoes')]]}
          /\ UNCHANGED erased
       \/ /\ f.event = "chat-send" /\ f.file # "none"
          /\ UNCHANGED <<work, echoes, erased>>
       \/ /\ f.event = "chat-delete"
          /\ erased' = erased \union {<<f.id, c>> : c \in room}
          /\ work' = work \union
                {[by |-> Now(u), to |-> room, sends |-> [event |-> "chat-deleted", id |-> f.id]]}
          /\ UNCHANGED echoes
    /\ UNCHANGED <<sock, room, down, browser, overtaken, crossed>>

\* To one recipient after the other, in any order.
SendTo(w, c) ==
    /\ w \in work /\ c \in w.to
    /\ work' = (work \ {w}) \union IF w.to = {c} THEN {} ELSE {[w EXCEPT !.to = @ \ {c}]}
    /\ LET u == c[1] IN
       /\ down' = IF c = Now(u) /\ sock[u].is # "closed"
                  THEN [down EXCEPT ![u] = Append(@, w.sends)] ELSE down
       /\ overtaken' = IF /\ w.sends.event = "chat-deleted"
                          /\ \E v \in work : v.sends.event = "chat" /\ v.sends.id = w.sends.id /\ c \in v.to
                       THEN overtaken \union {<<u, w.sends.id>>} ELSE overtaken
    /\ UNCHANGED <<sock, up, room, browser, echoes, erased, crossed>>

-----------------------------------------------------------------------------
(* What the browser does with a message. *)

\* sendChat and sendChatDelete through the client that via names.
Sent(u, via, frames) ==
    IF sock[u].is # "closed" /\ sock[u].via = via THEN [up EXCEPT ![u] = @ \o frames] ELSE up

ChatSend(e) == [event |-> "chat-send", m |-> e.m, file |-> e.file]

\* Mutant: a message whose files are still to be uploaded is sent again too.
AgainAll(u, e) == e.id = 0 /\ AuthorOf[e.m] = u /\ e.m \in fresh

\* What a welcome sends again.
Again(u, e) ==
    /\ e.id = 0 /\ AuthorOf[e.m] = u /\ e.m \in fresh
    /\ ~e.failed /\ e.file # "temporary"

Welcomed(u) ==
    /\ up' = Sent(u, sock[u].via, [i \in 1 .. Cardinality({e \in list[u] : Again(u, e)}) |->
                ChatSend(SetToSeq({e \in list[u] : Again(u, e)})[i])])
    /\ here' = [here EXCEPT ![u] = TRUE]
    /\ UNCHANGED <<list, db, saveDue, overtaken, crossed>>

\* Mutant: an echo replaces an entry that was echoed already.
ReplacedAny(entries, m) == {e \in entries : e.m = m}

\* The entry that an echo of m stands for.
Replaced(entries, m) == Pending(entries, m)

Received(u, f) ==
    /\ list' = [list EXCEPT ![u] =
            (@ \ Replaced(@, f.m)) \union {[m |-> f.m, id |-> f.id, file |-> f.file, failed |-> FALSE]}]
    /\ saveDue' = [saveDue EXCEPT ![u] = TRUE]
    /\ crossed' = IF load[u] # NotLoading /\ Pending(load[u].of, f.m) # {}
                  THEN crossed \union {<<u, f.m>>} ELSE crossed
    /\ UNCHANGED <<up, here, db, overtaken>>

\* What is not in the list is not removed from the database either.
Deleted(u, id) ==
    /\ list' = [list EXCEPT ![u] = {e \in @ : e.id # id}]
    /\ db' = IF \E e \in list[u] : e.id = id THEN [db EXCEPT ![u] = list'[u]] ELSE db
    /\ overtaken' = IF load[u] # NotLoading /\ \E e \in load[u].of : e.id = id
                    THEN overtaken \union {<<u, id>>} ELSE overtaken
    /\ UNCHANGED <<up, here, saveDue, crossed>>

DeliverChat(u) ==
    /\ down[u] # <<>>
    /\ down' = [down EXCEPT ![u] = Tail(@)]
    /\ LET f == Head(down[u]) IN
       CASE f.event = "welcome" -> Welcomed(u)
         [] f.event = "chat" -> Received(u, f)
         [] f.event = "chat-deleted" -> Deleted(u, f.id)
    /\ UNCHANGED <<sock, room, work, load, upload, fresh, echoes, erased>>

-----------------------------------------------------------------------------
(* What the user does. *)

\* What is saved of an upload under way or failed.
Saved(entries) == {[e EXCEPT !.failed = FALSE] : e \in entries}

Saves(u) == db' = [db EXCEPT ![u] = Saved(list'[u])]

\* sendMessage, which needs the user's own entry among the participants.
Compose(m, file) ==
    LET u == AuthorOf[m]
        e == [m |-> m, id |-> 0, file |-> file, failed |-> FALSE] IN
    /\ here[u] /\ m \notin fresh /\ \A v \in Users : \A x \in list[v] \union db[v] : x.m # m
    /\ \A i \in DOMAIN echoes : echoes[i].m # m
    /\ list' = [list EXCEPT ![u] = @ \union {e}]
    /\ Saves(u)
    /\ fresh' = fresh \union {m}
    /\ IF file = "none" THEN up' = Sent(u, sock[u].via, <<ChatSend(e)>>) /\ UNCHANGED upload
       ELSE upload' = [upload EXCEPT ![m] = sock[u].via] /\ UNCHANGED up
    /\ UNCHANGED <<sock, room, work, down, here, saveDue, load, histories>>

Patch(u, m, e) ==
    list' = [list EXCEPT ![u] = IF Pending(@, m) = {} THEN @ ELSE (@ \ Pending(@, m)) \union {e}]

Stored(m) == [m |-> m, id |-> 0, file |-> "stored", failed |-> FALSE]

\* uploadAttachmentsAndSend, to its end: onSend is the one of the render it began in.
UploadEnds(m) ==
    LET u == AuthorOf[m] IN
    /\ upload[m] # NotUploading /\ upload' = [upload EXCEPT ![m] = NotUploading]
    /\ \/ /\ Patch(u, m, Stored(m))
          /\ up' = Sent(u, upload[m], <<ChatSend(Stored(m))>>)
       \/ /\ Patch(u, m, [Stored(m) EXCEPT !.file = "temporary", !.failed = TRUE])
          /\ UNCHANGED up
    /\ Saves(u)
    /\ UNCHANGED <<sock, room, work, down, here, saveDue, load, fresh, histories>>

\* retryMessage, offered for a failed upload.
RetryMessage(m) ==
    LET u == AuthorOf[m] IN
    /\ \E e \in Pending(list[u], m) : e.failed
    /\ Patch(u, m, [Stored(m) EXCEPT !.file = "temporary"])
    /\ upload' = [upload EXCEPT ![m] = sock[u].via]
    /\ UNCHANGED <<wires, here, db, saveDue, load, fresh, histories>>

\* One's own messages can be deleted, once they have an id; each once, as a bound.
AskDelete(u, e) ==
    /\ e \in list[u] /\ e.id # 0 /\ AuthorOf[e.m] = u
    /\ \A x \in erased : x[1] # e.id
    /\ [event |-> "chat-delete", id |-> e.id] \notin Range(up[u])
    /\ sock[u].is # "closed"
    /\ up' = Sent(u, sock[u].via, <<[event |-> "chat-delete", id |-> e.id]>>)
    /\ UNCHANGED <<sock, room, work, down, browser, histories>>

\* Into the voice room or out of it: the old client is closed. Joining loads the history.
Switch(u) ==
    /\ load[u] = NotLoading
    /\ sock' = [sock EXCEPT ![u].is = "closed", ![u].via = IF @ = "lurker" THEN "voice" ELSE "lurker"]
    /\ down' = [down EXCEPT ![u] = <<>>]
    /\ load' = IF sock[u].via = "lurker" THEN [load EXCEPT ![u] = [of |-> db[u]]] ELSE load
    /\ UNCHANGED <<up, room, work, here, list, db, saveDue, upload, fresh, histories>>

-----------------------------------------------------------------------------
(* The page and its database. *)

\* persistChat, 250 ms after the last echo.
Persist(u) ==
    /\ saveDue[u] /\ saveDue' = [saveDue EXCEPT ![u] = FALSE]
    /\ db' = [db EXCEPT ![u] = Saved(list[u])]
    /\ UNCHANGED <<wires, here, list, load, upload, fresh, histories>>

SameKey(e, f) == e.id = f.id /\ (e.id = 0 => e.m = f.m)

\* Mutant: what was loaded takes the place of what is there.
MergedInPlace(loaded, entries) == loaded

Merged(loaded, entries) == {e \in loaded : \A f \in entries : ~SameKey(e, f)} \union entries

LoadEnds(u) ==
    /\ load[u] # NotLoading /\ load' = [load EXCEPT ![u] = NotLoading]
    /\ list' = [list EXCEPT ![u] = Merged(load[u].of, @)]
    /\ UNCHANGED <<wires, here, db, saveDue, upload, fresh, histories>>

\* The page is closed and opened again.
Reload(u) ==
    /\ sock[u].n < MaxSockets[u]
    /\ sock' = [sock EXCEPT ![u].is = "closed", ![u].via = "lurker"]
    /\ down' = [down EXCEPT ![u] = <<>>]
    /\ list' = [list EXCEPT ![u] = {}] /\ load' = [load EXCEPT ![u] = [of |-> db[u]]]
    /\ here' = [here EXCEPT ![u] = FALSE] /\ saveDue' = [saveDue EXCEPT ![u] = FALSE]
    /\ upload' = [m \in Msgs |-> IF AuthorOf[m] = u THEN NotUploading ELSE upload[m]]
    /\ UNCHANGED <<up, room, work, db, fresh, histories>>

Ages(m) ==
    /\ m \in fresh /\ fresh' = fresh \ {m}
    /\ UNCHANGED <<wires, here, list, db, saveDue, load, upload, histories>>

ChatNext ==
    \/ \E u \in Users :
        \/ Open(u) \/ Enter(u) \/ Greet(u) \/ Lose(u) \/ HandleChat(u) \/ DeliverChat(u)
        \/ Persist(u) \/ LoadEnds(u) \/ Switch(u) \/ Reload(u)
        \/ \E e \in list[u] : AskDelete(u, e)
    \/ \E c \in room : Part(c)
    \/ \E w \in work : \E c \in w.to : SendTo(w, c)
    \/ \E m \in Msgs :
        \/ \E file \in {"none", "temporary"} : Compose(m, file)
        \/ UploadEnds(m) \/ RetryMessage(m) \/ Ages(m)

ChatSpec == ChatInit /\ [][ChatNext]_chatVars

-----------------------------------------------------------------------------
ChatTypeOK ==
    /\ \A u \in Users :
        /\ sock[u].n \in 0 .. MaxSockets[u]
        /\ sock[u].is \in {"closed", "open", "entered", "greeted"} /\ sock[u].via \in {"lurker", "voice"}
        /\ list[u] \subseteq Entry /\ db[u] \subseteq Entry
        /\ load[u] = NotLoading \/ load[u].of \subseteq Entry
        /\ saveDue[u] \in BOOLEAN /\ here[u] \in BOOLEAN
    /\ Len(echoes) <= MaxEchoes
    /\ upload \in [Msgs -> {NotUploading, "lurker", "voice"}]
    /\ \A w \in work : w.to # {}
    /\ \A v, w \in work : v.by = w.by => v = w

\* The user is in the room and has everything that was broadcast.
CaughtUp(u) ==
    /\ sock[u].is = "greeted" /\ Now(u) \in room
    /\ down[u] = <<>> /\ load[u] = NotLoading
    /\ \A w \in work : Now(u) \notin w.to

\* The ids broadcast while the user's socket was in the room.
Heard(u) == {i \in DOMAIN echoes : Now(u) \in echoes[i].to}

Shows(u, i) == \E e \in list[u] : e.id = i

\* A user shows what was broadcast while they were there, less what was erased, through
\* loads and retries; but a deletion may overtake its message, or a load bring it back
\* (broadcast_chat, chatReceive, chatDelete and loadChatRoom).
HistoryTrue ==
    \A u \in Users : CaughtUp(u) =>
        \A i \in Heard(u) : <<u, i>> \notin overtaken => (Shows(u, i) <=> <<i, Now(u)>> \notin erased)

\* The author's message is not pending any more once they have heard it, unless a load that
\* began before brings the pending one back (chatReceive and loadChatRoom).
HeardIsNotPending ==
    \A m \in Msgs : LET u == AuthorOf[m] IN
        CaughtUp(u) /\ <<u, m>> \notin crossed /\ (\E i \in Heard(u) : echoes[i].m = m)
            => Pending(list[u], m) = {}

\* A message goes out with the files the server has, never with temporary names, whichever
\* of a welcome, an upload and a click on retry sends it (chat-retry.ts, ChatPanel.tsx).
SendsWhole ==
    \A u \in Users : \A i \in DOMAIN up[u] :
        up[u][i].event = "chat-send" => up[u][i].file # "temporary"

ChatHolds == HistoryTrue /\ HeardIsNotPending /\ SendsWhole

\* Not kept: what chat-retry.ts:7-8 says, a retry is for an echo lost with an earlier
\* WebSocket, so one WebSocket carries a message once.  The page shows its user as present
\* while it reconnects: what is sent between the opening and the welcome, the welcome
\* sends again.
SentOnce ==
    \A u \in Users : \A i, j \in DOMAIN up[u] :
        i # j /\ up[u][i].event = "chat-send" => up[u][i] # up[u][j]

\* Not kept: "re-send our own pending chat messages whose echo we never received"
\* (chat-retry.ts:7).  After a reload the welcome may come before the history is loaded,
\* and nothing sends what is pending in it until the next welcome.
PendingIsSent ==
    \A m \in fresh : LET u == AuthorOf[m] IN
        CaughtUp(u) /\ up[u] = <<>> /\ (\E e \in list[u] : e.m = m /\ Again(u, e) /\ e.file = "none")
            => \E w \in work : w.sends.event = "chat" /\ w.sends.m = m
=============================================================================
