# A specification of voice-hub

voice-hub is a self-hosted voice room: a Rust backend that forwards audio and
screen video between peers over WebRTC (an SFU), a web frontend, and a Windows
client around it.  This directory holds TLA+ modules translated from that code,
the TLC configurations that check them on small rooms, and proofs checked by
TLAPS.  Paths are relative to the repository, which is under `src/`.

## The system

| part | source | state | operations |
|---|---|---|---|
| room | `backend/src/sfu/mod.rs` | `State`: peers, microphone tracks, sessions by resume token, behind one mutex; each peer's queue of outgoing messages and cancellation token | join (evicting the same client), leave, name and state changes, chat, ping, close |
| screen shares | `sfu/screen.rs` | `ScreenSession` (owner, viewers, grace token, closed flag) behind its own mutex; each viewer's `ScreenSub`; the layer controls | start, stop, resume, subscribe, unsubscribe, end, grace expiry, first video, auto-downgrade |
| audio | `sfu/audio.rs` | each peer's slots and pending offer; each track's subscribers and its renumbering of sequence numbers | sync, answer, forward, mute, close |
| PC driver | `sfu/net.rs` | one `Rtc` per PeerConnection, its event queue, the socket's routes | with, write, receive, timer, close |
| forwarding | `sfu/screen.rs`, `codec.rs`, `dd.rs`, `audio.rs` | per viewer the target layer, its timed losses and the chain it follows; the parser's template structure; a track's dropped silence | forward, poll, parse, renumber |
| presence | `presence.rs` | a queue of 8 frames per SSE subscriber | subscribe, push, resync |
| admission | `auth/*`, `http/handlers.rs`, `http/ws.rs` | connection passwords on disk, failed logins per address, session cookies, live connections | login, create, rotate, revoke, validate, disconnect |
| files | `filestore.rs`, `http/upload.rs` | entries with a TTL, a byte budget, files on disk | upload, download, sweep, close |
| rate limits | `ratelimit.rs` | token buckets, at most `max_keys` | allow |
| chat | `sfu/mod.rs`, `frontend/src` | nothing on the server; in each browser a history, pending messages and their copy in IndexedDB | send, echo, retry, upload, delete, load |
| frontend | `frontend/src/sfu`, `hooks` | the connection, the roster, the merged presence | connect, reconnect, resume a share |
| desktop client | `src-tauri/src` | chosen server, pending update, the shortcut, pressed keys and focus, the alert icon | check, install, toggle, capture, flash |

Threads.  Every connection is a task that reads a frame, hands it to a blocking
thread, and awaits it, so one connection handles one message at a time and
different connections run in parallel.  A PeerConnection delivers its events in
order under a dispatch lock, in whichever thread drives it; its `on_closed` runs
once, in the thread that noticed the PC dead or closed it.  Grace windows, the
end of a share whose PC died, and re-synchronisations are spawned tasks.

What is hard: a screen share is described in four places (the publisher's entry,
the token table, the session and the viewers' entries) behind different locks,
which handlers take one after the other, and PCs that are closed inside a handler
call back into the room.  Messages are queued after the lock that decided them
is released, so they may be queued in another order.  Evictions, cancellations
and timeouts come in between.  `PROJECT.json` lists these hazards one by one.

What makes each part correct:

* shares: one owner per share and one share per owner; a share outlives its
  owner's connection for 5 s and no longer; once it ended nobody holds a PC of it;
  the encoder runs while somebody watches; ends and handlers return.
* room: what a client was told about the others converges to who is there.
* audio: a slot carries one track, its owner is announced before its packets, a
  track without a slot is eventually offered one; slot sequence numbers do not repeat.
* PC driver: events in order, `on_closed` once, no route to a closed PC, no output left unsent.
* forwarding: one run of sequence numbers per slot; no video frame without the one it
  needs; a layer that does not flap; descriptors read as they were written.
* presence: a subscriber's merged view converges to the rooms.
* admission: a retired password opens nothing, also after a failed write or a restart; the
  connections a disconnect finds end; an address does not guess past its limit.
* files: the budget equals what is stored; an entry never outlives its hard cap.
* rate limits: each client has a token bucket, given up early only by the one quiet for
  longest, when another finds no room.
* chat: a page that has heard everything shows everything, and nothing pending twice.
* desktop client: one install at a time and an offer that is not lost; one press, one toggle.

## Modules

`ShareLifecycle` is the abstract specification of screen shares: who is connected,
and for each share whether it is live and who owns it.  Five actions: a peer
arrives (replacing others), departs, begins a share, claims one whose owner is
gone, and a share finishes.  Nothing about locks, threads or PCs.

`ScreenShare` is the code.  One action is one lock section with what follows it
up to the next one.  The table says where each variable lives in the code.

| variable | code |
|---|---|
| `conn` | where `Room::serve_ws` is: before `hello`, in its loop, returned |
| `peers`, `tokens` | keys of `State.peers`, `State.sessions_by_token` |
| `screenSession`, `screenSubs` | `Entry.screen_session`, `Entry.screen_subs` |
| `session` | `ScreenSession`: `publisher_id`, `inner.closed`, `inner.grace` (the peer whose removal armed the window), `inner.subscribers`, state of the publisher PC |
| `sub` | `ScreenSub`: its viewer, its session, the state of its PC |
| `timer` | the task of `start_screen_share_grace`, by the peer whose removal spawned it |
| `encode` | the last `screen-share-encode-*` queued to a publisher |
| `handler` | the message, join or leave a connection is in, and its locals |
| `closer` | `ScreenSub::on_closed` in the thread that closed the PC |
| `ending` | `end_screen_share_session` after its first section, whoever called it |
| `video` | `first_screen_video_ready` |
| `lost` | the task spawned by `ScreenSession::on_closed` |

Conventions.  `SessionOf(k)` is the lookup through an entry.  `ClosePc` is
`Pc::close`: it starts `closer`, and the caller that closed the PC waits for it
(`Returned`), because `Pc::with` delivers `on_closed` before it returns; a caller
that finds the PC closed goes on.  `EndBegin` is the first section of
`end_screen_share_session`; the caller that gets past the closed check leaves the
rest to `ending`, and waits for it if it is a handler.  An end and a resume take the token of
the grace window under the locks and cancel it after them, in steps of their own
(`EndCancel`, `ResumeCancel`); a window whose sleep is over by then (`TimerExpires`) goes on.  A peer ID is a connection:
`new_peer_id` never repeats one.  Dropped as not bearing on any property: SDP, ICE
candidates, packet forwarding, layer choice, error replies.

`Room` is the membership of a room and what its clients make of it.  One action is
one lock section, one message queued to one recipient, or one message delivered: the
lists of recipients are taken under the lock and used after it.

| variable | code |
|---|---|
| `at`, `cancelled` | where a connection is between the request for its WebSocket and its return; its token |
| `peers`, `info` | `State.peers` and the name and mute flag of an `Entry` |
| `todo` | what `add_peer`, `remove_peer`, `set_state` or `set_display_name` has yet to do after its lock: cancel an evicted peer, queue a message to the recipients it has not reached |
| `out` | `Peer::out`; `Send` is `Peer::send`, which cancels the peer when the queue is full |
| `roster` | the participants of the browser's store, as the handlers of `welcome`, `peer-joined`, `peer-left`, `peer-state`, `peer-info` and `audio-slots` leave them |
| `naming`, `named` | a sync of a peer's slots between its read of the tracks and its `audio-slots`; their number |
| `shut`, `toCancel` | `Room::close`, then `WsRegistry::disconnect_all`, and the tokens they have yet to cancel |
| `early`, `ghosts` | history: the messages that reached a queue before the one they should have followed; the slots named after the leaving of their owner |

Queue and socket are one: a message is delivered when the writer takes it out.  A
cancelled peer's queue and view are dropped.  `deafened` goes with the mute flag.  Which slot
carries whom is the matter of `AudioSlots`; here a sync names somebody who was in the room
and has not returned (`ReadTrack`), and the client then lists them, under a made-up name if it
does not know them (`HeardOnly`).

`AudioSlots` is who hears whom.  A sync is two steps under the sync lock after the
read of the room's tracks: `Announce` (free, assign, tell the client) and `Feed` (add
the subscribers, offer more slots).  A sweep is `signal_all` in a handler or in the
task spawned by a track that was published or unpublished.

| variable | code |
|---|---|
| `at`, `peers`, `tracks` | the connection's task, `State.peers`, `State.tracks` (by owner) |
| `published`, `closed`, `cancelled` | `AudioPeer::track`, the audio PC, the token |
| `slots`, `pending`, `sync` | `SyncState`; who holds its lock, with `reconcile`'s locals |
| `subs` | `AudioTrack::subs`: pairs of a peer and a slot |
| `sweep` | each thread in `signal_all` and the peers it has yet to sync |
| `leaver`, `telling` | the `peer-left` a handler queues and whom it has yet to reach |
| `told` | history: the owners last announced to a client |

The remaining modules share no state with these or with each other, except `Presence`,
which extends `Room`.  Three configurations run them side by side: at the start a behaviour
picks its part, and the others do not move (`MCHttp`, `MCMedia`, `MCClients`).

`Admission` is the login, the passwords and the registry.  Time is ages and remaining
lifetimes; a password is the serial number of its generation.

| variable | code |
|---|---|
| `entries`, `disk`, `drawn`, `minted`, `faults` | `connpass::Store.state`, its file, and counts |
| `known`, `retired` | history: passwords the administrator was told, passwords a request answered Ok has replaced or revoked |
| `attempts`, `sweepAge` | `AuthLimiter` |
| `login` | each login handler: limiter read, body awaited, hash compared off the runtime, outcome counted |
| `sessions` | cookies issued and not expired |
| `conns`, `cutting` | connections from the validation of their cookie to their end, the registry; the tokens a disconnect has cloned |
| `adminVer`, `restarts` | the fingerprint of the administrator's hash; restarts |

`RateLimit` is `ratelimit.rs`: `buckets` with the age since their use.  `TokenBucket` is what
it promises, one token bucket per client.  Only for a client that is not remembered, and only
when there is no room for it, are others forgotten: some whose buckets are full, or the one
that has been quiet for longest (`MayForget`).  `RateLimit` implements it under the refinement
that refills a bucket when it is read.

`FileStore` is uploads and downloads: `onDisk`, `stored` (entries with what is left of their
lifetime and of the hard cap), `total`, the handlers (`upload`, `download`), the paths the
janitor has taken out and not yet removed (`sweeping`), `closed`.

`Presence` adds to `Room` what follows its lock: the frames a handler still has to push
(`pushes`), each subscriber's `queue`, and the list of the browser (`shown`).

`PcDriver` is one UDP socket.  `th` is where each thread is (the receive task, a thread with a
client's message, each PC's timer task) and what it has taken out of the PC; `pc` the `Rtc`
and `RtcState`; `dispatch`, `table` and `name` the holders of the three locks; `ufrags` and
`routes` the tables of the socket.

`VoiceStream` renumbers voices into one slot: `skips` of each track, `base` and `last` of the
slot, `hand` what the forwarding thread has read before it writes.

`VideoForward` is what one viewer gets of a share: the publisher's frames (`next`, `key`,
`flying`), `LayerCtl` (`target`, `loss`, `high`, `low`, and `moving` between the two stores of
`set_target_temp`), `SubForward` (`chain`, `fresh`).

`LayerParser` reads dependency descriptors bit by bit (`ext`, `pos`, `stage`, `work`, `made`) and
keeps a structure (`known`) as `dd.rs` does, from frames written as the RTP specification says;
`ParseVp9` does the same for a VP9 header.

`Chat` is the broadcasts of the room and the histories of the browsers.

| variable | code |
|---|---|
| `sock`, `here` | a page's WebSocket: its number, its state, whether the lurker's or the voice client's; whether the page shows its own user |
| `up`, `down`, `room`, `work` | what was sent and not read, `Peer::out`, the sockets in the room, the broadcasts under way |
| `list`, `db`, `saveDue`, `load` | `chatByRoom`, its IndexedDB record, the timer of `schedulePersist`, `loadChatHistory` under way |
| `upload`, `fresh` | uploads under way with the `onSend` they began with; the messages young enough to retry |
| `echoes`, `erased`, `overtaken`, `crossed` | history |

`DesktopUpdater` is the checks, installs, tray and banner of the Windows client (`pending`,
`installing`, `recent` are `UpdaterState`; `checking`, `applying` the tasks; `unbuilt` remembers a
menu that could not be rebuilt), `DesktopHotkey` the
global shortcut (`ListenerState`, the file, which a failed write cuts, commands between save and
lock, focus events that lag) and the alert icon (`alert`; `active` are the flags of
`tray_flash.rs`, which forget an icon that could not be set back; `broken` and `unsaved` remember
that a call or a write failed).

`MCScreenShare`, `MCRoom` and `MCAudioSlots` give the clients their `client_id`s and
the symmetries.

Proofs are in modules of their own, each of which extends what it is about:
`ScreenShare_proofs`; `Room_proofs` (`Room` and `Presence`);
`AudioSlots_proofs`; `Admission_proofs`; `Http_proofs` (`RateLimit`, `FileStore`);
`Media_proofs` (`PcDriver`, `VoiceStream`, `VideoForward`); `LayerParser_proofs`
(`LayerParser`, and the types of the composition `MCMedia`); `Clients_proofs` (`Chat`,
`DesktopUpdater`, `DesktopHotkey`, and the types of the composition `MCClients`).

## Runs

Every run is complete for its constants.  Deadlock is off: a room whose
connections are all gone has nothing left to do.

| run | room | shows |
|---|---|---|
| `ShareReconnect` | three publishers, two of them one client; two sessions, one whose PC may die | the lock sections implement `ShareLifecycle`; ownership agrees; a window that waits is held, or is about to be cancelled |
| `ShareViewers` | publisher that may resume, a viewer that reconnects, three PCs | an ended share has no viewers; a live one has only viewers whose PC is open; no PC is left open that nobody will close, unless its viewer subscribed to that share again |
| `ShareProgress` | two connections that may each publish or watch; PCs that fail | ends complete, handlers return, a share whose publisher left is claimed or ended |
| `RoomRoster` | a client with a chat-only and a voice session and another voice peer; two updates, or one and a slot that is named; queues of three | a client at rest shows the room as it is, unless it was told something in the wrong order |
| `RoomEnds` | two peers, queues of one, an update, a shutdown | a cancelled peer leaves although nobody reads; the shutdown ends what was registered |
| `AudioReconnect` | a speaker replaced by its reconnection, a listener, a bad answer | slots settle on the tracks, are announced before they are fed; a gone peer leaves nothing |
| `AudioHeard` | a voice and a listener, one request, one bad answer, one failure | every track gets a slot in the end |
| `Http` | parts: passwords, connections, logins, rate, files | a session opens what its password opens now; a retired password stays retired; failures are bounded; connections of a disconnect end; the store's budget and files agree, lifetimes stay bounded; the limiter is a token bucket per key |
| `Media` | parts: pc, voice, frames, levels, parser | events in order and once closed; no route to a gone PC; writes come out; one numbering per slot; frames follow their chain; the target does not flap; descriptors are read as written |
| `Clients` | parts: eviction, company, pages, talk, updater, hotkey | the lobby list is the room; the chat history is what was said; one install and a standing offer; one press, one toggle |
| `EncodeRace`, `SocketFreeze` | the smallest instance of each | a documented promise the code does not keep; see below |

Bounds.  Two sessions are the least that tell "this share" from "another share"
(a start while a resume is under way, a publisher that owns one and claims
another); the third connection is the one that makes two resumes compete.  Two
connections of one viewer make the last-viewer rule and the eviction matter; three
PCs let one be closing while the next is built and a third take its place (with two,
no open PC ever loses its place in the table, which hides `SubscribedAgain`).  A connection joins once, a PC is
used once, and a session starts once: more of them only repeat these.  The number
of starts and subscribes in flight is bounded by the unused sessions and PCs
(`Start`, `Subscribe`); the clock is abstracted, an armed window may expire at any
moment.

In `Room`, two sessions of one client and one onlooker are what an eviction takes, and
two updates let a second one chase the first; of the two sessions one is chat-only, as
when a visitor who reads the chat joins the call.  A queue of three holds what the
interesting orders queue; one of one overflows at once.  `MaxUpdates`, `MaxNamed`, `MaxEvents` and
`MaxCloses` are bounds of the model: two updates, or one and one named slot.  In `AudioSlots`, `InitialSlots` and `SlotGrowth` are 1 in place
of 8 and 4, so three peers outgrow the pool, when the track of an
evicted speaker is published late, next to that of its successor; `MaxRequests`,
`MaxBadAnswers` and `MaxFailures` count renegotiations, answers that do not apply, and
connections or PCs that fail.  A peer that only listens is not in `Speakers`.

`Http`: one store slot (`MaxEntries` 1) is full at once and can be used again; two ids, three
generated passwords, one failed write and one restart are the least in which an old
generation, a failed rotation and a reload meet.  Two logins of one address race for
`MaxFail` 2, with a window of one tick.  Three clients and `MaxKeys` 2 make the limiter evict;
`Burst` 3 and a TTL of three ticks let both rules of eviction apply.  Two uploads of at
most two bytes (`limited` lets one past `MaxUpload` through) overflow `MaxTotal` 3; two downloads, a TTL of 1 under a hard
cap of 2.  The parts differ in what they hold still: `passwords` has no connections,
`connections` one password and no two logins at once, `logins` no change of the store; the
operators `Alone`, `OnePassword` and `Kept` of `MCHttp` say exactly what.

`Media`: one PC, one address, two datagrams, two writes, one ICE restart, from four threads.
Two owners of a slot, five packets and one, a ring of three remembered drops where the code
has 64, a network that moves a packet two places; `VoiceConstants` is what the code's "older
drops are assumed to precede anything still in flight" asks of the network.  Eight frames
numbered from 9 modulo 12 with a window of 3 (the code: 16 bits and 128), so that numbers
and the ring wrap; three temporal layers in two chains; losses below, between and above the
limits of both modes.  One stream of eight descriptors, with wrapping template ids, frame
numbers at 65535 and three structures of disjoint ids; VP9 headers at every width of the picture number.

`Clients`: queues of two frames (8 in the code); two releases, two checks at a time, one
server; a left and a right modifier and a letter, a cooldown of two ticks, one focus event
in flight, with the keyboard in use (`hotkey`) or the alert (`icon`); a page that connects three times (`pages`) or two users with a connection each
(`talk`), one message, two echoes of it.

Fairness.  In `ScreenShare`, `HandlerStep`, `Timer`, `Video`, `PubLost`, `EndSession` and `OnClosed`
are weakly fair: they are threads and tasks already running, which the runtime
schedules and whose locks are released.  `Join`, `Leave`, `Message`, the first
packet and PC failures are not: clients and networks owe nothing.  In `Room` the handlers
and the shutdown are fair, and the wait for a hello, which has a timeout; deliveries are
not.  In `AudioSlots` sweeps, syncs and handlers are, and for `TracksAreHeard` a
client's answer to an offer.  In `Admission` a disconnect goes through the tokens it cloned, and a
cancelled connection ends.  In `PcDriver` the threads that drive a PC, the timer tasks and
the sections under the tables' locks; the watchdog that wakes a timer every second is left
out, so what comes out does so without it.  Presence, chat, files and the desktop client
have no liveness property and no fairness: their properties are about what holds once
everything under way has arrived.

## What the code does not keep

Two runs check one property each, and TLC finds a behaviour of the code that violates it.

* `EncodeRace`: the pause sent on the first video packet is decided before, and
  queued after, the resume of a viewer that joined in between.
* `SocketFreeze`: `unregister` takes the write lock of the socket's ufrags and then the PC's
  own (net.rs:504); `refresh_ufrag`, on an ICE restart, takes the PC's own and then the write lock
  (net.rs:473-475).  Both wait, and the receive task waits for the table with every datagram
  of the socket.  net.rs:129: "One misbehaving PC must not take down every PC on this socket."

More properties are stated in the modules, each with the line that promises it, and
have no run of their own; TLC refutes each when it takes the place of the properties
of the configuration named.

| property | configuration | what happens |
|---|---|---|
| `OrphanHasWindow` | `ShareReconnect` | replacing a publisher's connection arms no grace window |
| `OwnedShareHasNoWindow` | `ShareReconnect` | a window armed after a resume took the share over ends the share of a connected publisher |
| `NoDeadSubscription` | `ShareViewers` | a resume drops the viewers between the two inserts of a subscribe; the entry of a dead PC stays, and later subscribes are ignored |
| `WindowEndsItsShare` | `ShareReconnect` | a window whose sleep is over when a resume takes its token is past its select, and ends the share that was resumed in time (screen.rs:789-791 against 830) |
| `EndClosesEveryPc` | `ShareViewers` | a viewer that subscribes between a resume's close of its PC and the clearing of its entry (screen.rs:843-849) can subscribe once more; the end finds the last PC only (screen.rs:548) |
| `CloseTearsDown` | `RoomEnds` | a connection past the `is_closed` check joins a closed room |
| `LurkerSeesAll` | `RoomRoster` | a delta queued to a joiner before its welcome is wiped out by it, since the client clears its list on welcome (protocol.ts:108-109) |
| `EvictionMirrored` | `RoomRoster` | a join may evict a session whose own join is still being announced; the client then shows the old session in place of the new one (useStore.ts:323-326) |
| `LeftIsGone` | `RoomRoster` | a sync names a slot's owner after that peer's `peer-left` was queued; the client makes a participant `user-x` of it, which no message takes away (audio.rs:310, client.ts:166-180, useStore.ts:303-312) |
| `AnnouncedAfterLeft` | `AudioHeard` | a slot's change is announced before the `peer-left` of its owner (protocol.ts:140) |
| `OneStreamPerSlot` | `Media` | a thread that took its subscribers before the slot moved writes after the new owner began: a number is used twice (audio.rs:70-72) |
| `ForwardingStops` | `Media` | after an outage of 128 to 255 frames a number marked before it passes for one of the same place in the ring (codec.rs:77-81) |
| `FilesAreOwned` | `Http` | an upload handler dropped while it waits for its body leaves its temporary file (filestore.rs:1-4) |
| `PresenceSettles` | `Clients` | the left of an evicted peer is pushed before its own joined, which stays in the list (presence.rs:4-5) |
| `SentOnce` | `Clients` | the page shows its user while it reconnects: what is sent between the opening of the socket and the welcome is sent again by the welcome (chat-retry.ts:7-8; the comment accepts duplicates) |
| `PendingIsSent` | `Clients` | after a reload the welcome may come before the history is loaded; what is pending in it waits for the next welcome (chat-retry.ts:7) |
| `HeldTogglesOnce` | `Clients` | where a held key is released between repeats, a press caught by the cooldown does not start it again, so a later repeat toggles (listener.rs:65-67) |

`EndClosesEveryPc` needs three PCs of one viewer and a resume, be it the publisher's own: the
resume closes the first PC, then clears the viewer's entry by publisher ID and so forgets the
second, and the third takes the second's place in the session's table.  In the code the
`ScreenSub`, the handler of that PC, is dropped with its last place (net.rs:450), so the failure
of the PC no longer closes it either; the model lets every fragile PC fail.  `NoForgottenPc`
says, and `NoPcForgotten` proves, that a second subscribe to the same share is the only way to
lose a PC.

`OrphanIsSettled` of
`ShareProgress` is about disconnections: an evicted publisher's share is the case of
`OrphanHasWindow`.

The strong invariants hold in spite of these: `OwnedShareIsLive`, `OwnerKnowsItsShare` and the
refinement of the share's; `RosterTrue` and `PresenceTrue` say that the named wrong orders are
the only way a list can go wrong, but for the slot named late of `LeftIsGone`; `VoiceIsContinuous` that only a late writer repeats a
number; `FramesFollow` that only an outage of a whole window lets a frame dangle.
`ChatHolds` leaves out the messages deleted before they came or while a load held them, and
those echoed while a load held them as pending; there the database's copy returns.
`UpdatesHold` and `HotkeyHolds` leave out what follows a call that failed.  A tray menu that
cannot be rebuilt is only logged, while the update stays pending and so is known to every
later check (updater.rs:122-144): until the menu is rebuilt or an install begins from the
banner, it is not on offer in the tray.  `set_shortcut`, `clear_shortcut` and a captured button
write with `fs::write`, which empties the file first (shortcut.rs:58): when that fails, the
binding in use and the one a restart loads differ.  A window that does not say whether it has
the focus is taken not to have it (tray_flash.rs:49), so the alert may show in a focused one;
an icon that cannot be set back is not tried again (tray_flash.rs:78-94).

Smaller remarks.  Motion "never goes below T1" (screen.rs:43-44), but a change of the mode from
sharp at T0 leaves the target there.  The "sliding window" of limiter.rs:5-6 is a window
that starts with the first failure.  A pending update survives `set_host` and is then
installed from the former server.  After `change_server` a page may find the version
already known, and show no banner until the next release.

## Proofs

TLAPS checks these for every value of the constants that satisfies the assumptions of the
modules.  "Run" is the property a run checks and the theorem states.

| module | theorem | run | says |
|---|---|---|---|
| `ScreenShare_proofs` | `TypeCorrect` | | the variables of `ScreenShare` keep their types |
| | `OwnedIsLive`, `OwnerKnows` | `OwnedShareIsLive`, `OwnerKnowsItsShare` | the publisher's entry, the token table and the session's owner agree, in both directions |
| | `WindowIsHeld` | `ArmedWindowIsHeld` | the token of a grace task that still waits is held by its live session, or by the resume or the end that is about to cancel it |
| | `ViewersLeave` | `ClosedShareHasNoViewers` | an ended session holds no viewer |
| | `NoPcForgotten` | `NoForgottenPc` | once every thread is done, an open viewer PC is held by its live share, unless its viewer subscribed to it again |
| | `Implements` | `ImplementsLifecycle` | the lock sections implement `ShareLifecycle` |
| `Room_proofs` | `RosterIsTrue` | `RosterTrue` | a client at rest shows the room, but for peers it was told of in the wrong order and those whose slot was named after they left |
| | `QueuesAreBounded` | | types; no queue outgrows `PEER_OUT_BUF_LEN` |
| | `PresenceSettlesTrue` | `PresenceTrue` | a browser's list is the room once it has read everything |
| | `StreamsAreBounded` | | types; no stream's queue outgrows `OUT_BUF_LEN` |
| `AudioSlots_proofs` | `PoolsAreBounded` | `TypeOK` | types; a pool holds at most the first slots and a growth for each peer |
| | `NoChangeIsLost` | `SlotsSettle` | with no sweep to come and no offer pending, the slots carry the room's tracks |
| | `AnnouncedFirst` | `OwnerAnnounced` | a track feeds a slot only while the client knows its owner |
| | `GoneForgotten` | `GoneIsForgotten` | a connection that returned publishes nothing and subscribes to nothing |
| `Admission_proofs` | `SessionsAreCurrent` | `ValidIsCurrent` | a session opens what its password opens now |
| | `RetiredForGood` | `RetiredStaysRetired` | a rotated or revoked password never returns |
| | `GuessesAreFew` | `FailuresBounded` | one failure beyond the limit for each other request in flight, at most |
| | `AdmissionTypes` | | types |
| `Http_proofs` | `LimiterIsBucket` | `ImplementsBucket` | the limiter implements one token bucket per client, given up early only by the one quiet for longest and for want of room |
| | `MemoryIsBounded` | | it holds at most `MaxKeys` buckets |
| | `StoreTrue` | `StoreIsTrue` | an entry that reads as present has its file; what is charged is what the entries weigh, within the budget |
| | `TouchBounded` | `TouchIsBounded` | a touch revives nothing, and carries nothing past its hard cap |
| | `HttpTypes` | `TypesOK` | the types of the composition `MCHttp` |
| `Media_proofs` | `HandledInOrder` | `EventsInOrder` | a handler gets its PC's events in order, and the end once |
| | `GoneForGood` | `GoneIsUnrouted` | nothing leads to a PC that is gone |
| | `OneRunPerSlot` | `VoiceIsContinuous` | the numbers of a slot skip the dropped silence and nothing else |
| | `TargetSteady` | `TargetIsSteady` | the target does not move before its window has passed |
| | `FramesAreFollowed` | `FramesFollow` | a frame is forwarded only if its decoder has what it refers to, unless a whole window was missing |
| `LayerParser_proofs` | `PacketsAreDescribed` | `DescribesFrames` | a packet that arrived whole is described as what it is, or not at all and then for want of its structure; no structure is kept by half |
| | `MediaTypes` | `TypesOK` | the types of the composition `MCMedia` |
| `Clients_proofs` | `HistoryIsTrue` | `ChatHolds` | a user who was sent everything shows what was said, less what was erased |
| | `UpdaterHolds` | `UpdatesHold` | one install at a time, and an offer that stands unless the menu could not be rebuilt |
| | `HotkeyKeeps` | `HotkeyHolds` | one press, one toggle; an alert that ends; the shortcut in use is the one on disk; but for calls and writes that failed, and a save overtaken by a captured button |
| | `ClientsTypes` | `TypesOK` | the types of the composition `MCClients` |

Besides their types, this is assumed of the constants.  The special values are no members of
the sets they stand beside (`NoPeer`, `None`, `Absent`, the names of threads in `PcDriver`).  The
peers of a room and the login requests are finitely many, since the code counts them.  A
bucket idle for `IdleTtl` is full again (`Rate * IdleTtl >= Burst`; 3600 s at the rates `main.rs`
sets), and `FileTtl <= HardCap`.  A track remembers as many drops as the network can make
matter: `2 * Reorder <= Kept + 1`, for the code's "older drops are assumed to precede
anything still in flight"; the proof needs exactly that much.  The network moves a video frame
by less than a window (`Swaps < Half`, 128 frames in the code), and a pattern has the three
temporal layers that `VideoForward` gives chains to.  Some bound on `Swaps` is needed: with two layers, a window of 2,
numbers modulo 4 and `Swaps` 3, TLC finds a late frame marked for one a window ahead.

The sender writes what the AV1 RTP
specification allows (`StreamConstants`): a first frame with a structure, layers that go up by
one, at most 64 templates and 32 chains, and structures that differ have ids that differ.
Without the last, a packet that follows a lost structure would be read against the old one.

### Why the invariants are what they are

Screen shares.  `TypeOK` is not inductive: a handler that drops a viewer uses the session it
read some steps before.  `Linked` adds that the threads hold the sessions and PCs they are
about to use.  Ownership needs more.  `end_screen_share_session` may be called by a thread
that looked its session up long ago, so the invariant must say that such a session was
registered and, if its token is gone, has ended (`TimerKnown`, `HandlerKnown`,
`LostKnown`).  Otherwise a late end could finish a share that never began.  A token is
dropped, after the end, from the publisher that was read during it, so that publisher
must still be the owner (`EndingIsClosed`, `EndingKeepsOwner`): a resume checks
`closed` under the same two locks.  A newcomer must own nothing
(`AbsentOwnsNothing`, `PeersJoined`, `OwnersJoined`), and a session is registered
only once (`KnownIsBuilt`).  `Owned` is the conjunction.  Of the actions, most are
`Quiet`: they leave owners, tokens and ends alone; `QuietKeeps` does those at once,
and the eleven others have a lemma each.  The grace window and the viewers of ended shares (`Held`) need the
types and that a removal arms the window of a share that is live and known (`Owned`); a
token passes from the session to the thread that took it, and is there until that thread has
cancelled the window (`ResumesHold`, `EndsHold`).
An open PC is forgotten by nobody because of `Watched`: it is with the subscribe that made
it, in its session's table, with the resume or the end that drained it, or its viewer
subscribed again.  Steps that only hand PCs on or close them keep it together; subscribing,
which makes PCs, has three lemmas of its own.  The refinement maps a join to `Arrive`, a leave to
`Depart` or nothing (an evicted peer), a registration to `Begin`, a resume to `Claim` or
nothing (one's own share), the first section of an end to `Finish` or nothing (a later
caller), and everything else to nothing.

Room.  `Mirror(c, q)` says what the client of c will show of q once it has handled its queue
and had its welcome, and that this is right but for what the handlers still owe c.  A
broadcast in the wrong order would break it, and the exception in `RosterTrue`
(`ToldEarly`) is what c was already told early; so the invariant has to show that whenever an
announcement arrives out of order, something before it did.  `Ordered(elder)` does: it keeps
in which order the sessions of one client joined while their handlers were at work, with a
witness `elder` in place of a history variable.  `Good` has the exceptions: what is owed, and a slot named after the leaving (`ghosts`); the
naming of one whose leaving is still owed is taken back by it.  `Replaced`, `Unheard` and
`Stays` say what handlers cannot owe: a leaving of a peer in the room, a message to one that is not.

Presence (`HubInv`).  A peer is announced last by its own handler (`Member`), a list differs
from the room only while a frame about the difference is to come (`InStep`), and of several
frames on a stream the last one about a peer decides (`Ends`), so that an overflow, which
replaces the queue by a snapshot, loses nothing.

Audio.  `Pool` relates a peer's slots, its pending offer and the sync in progress; `Stages` what
a connection may no longer have at each point of its life.  `Fresh` is why no change is lost:
slots that do not fit the tracks have a sweep to come, a sync that read the tracks as they
are now, or an answer that will sync.

Admission.  `KnownOnDisk`: what the administrator was told is in the file as long as it is in
use, because it is told after the write.  `OneHolder`: two entries never share a password.
A session is good for an entry of a generation, so `SessionsProved` says that this generation
had that password in memory and on disk, or is past on both (`Past`): a restart between a
failed write and the next brings nothing back.  `LimitHolds` counts failures and requests past
the check together.

Limiter and files.  A bucket that is read lazily and one that is refilled every tick agree
because tokens are capped (`Refilled`); one forgotten while idle was full, and the oldest is the
one quiet for longest (`AllowIsEvent`).  `OneOwner` is what
lets the janitor, an upload and an entry remove files without looking at each other.  `Charged`
needs that the entries are finitely many, which no type says; sums over them (`SizeOf`, a fold)
are taken apart one file at a time, by an induction over finite sets.

PC driver.  `InOrder` numbers events as the `Rtc` makes them: those handled, the one in a
thread's hand, those that wait.  `Routed`: an address that leads to a PC is one the PC will
take with it when it goes, or the thread that is to do that has yet to come to it.

Voices.  A dropped packet is remembered for a while and then only counted.  `Remembers`: those
only counted precede whatever may still arrive.  `Placed`: a packet that was forwarded keeps
its place, since a drop behind it is refused.  `InTurn`: an owner's numbers are above those
others wrote in their own time.

Frames.  The invariant follows one chain, that of the last keyframe forwarded to the viewer's
layers (`Whole`): of this chain all frames before some s were forwarded (`Grown`), and in the
window after s nothing was, but frames of a later keyframe (`Apart`).  A place of the ring that is marked
stands for a frame forwarded, of which the one half a ring ahead was not (`Marked`); so a frame
that dangles finds its predecessor's place marked by a frame a multiple of the ring away, and
this one lies before s, at the far side of the window.  `Flight` is what `Swaps` allows.

Descriptors.  `ParserInv`: what has arrived is the beginning of what was sent (`Arrived`), and
what the parser has read is what the frame says up to there (`StageIs`).  For each stage there is
a predicate of the bits of the frame, from where the parser is to the end (`HeadStands` to
`CustomStands` show that the sender's bits satisfy them), and what `work` and `made` are by
then.  Of each stage two things are shown.  What it wants is there if the packet is whole, so no
stage but the lookup fails on a whole packet (`FailsStep`); and the numbers it reads are those
written, so that the next stage's predicate holds (`ReadIs`, `NsRead`).  Pieces are put together,
and bits made a number, by functions that go along a sequence: `Recursion` shows that these
exist, and `ValueOfBits` goes along the widths up to 16.  At the lookup, an id of another
structure finds no template (`KnownIs`).  A packet cut short may only be described against its
own structure; of the description only the number is certain.

Chat.  A frame of a message or of a deletion is either yet to be sent to a socket or on its
way to it (`Due`).  What was said in a socket's time in the room is shown unless its frame is
due; what was erased is neither shown, nor due, nor in a load under way, unless its deletion
is due or was overtaken (`HidesWhatWent`, with `Follows` for the order of the two in the
queue); what came to its author is not pending, here or in the load (`SettlesWhatCame`).

Desktop client.  A check that found a release found one newer than what runs; a press that
toggled is still believed to be down; what a command is about to put in use is in the file,
unless a captured button came between (`SavingKept`); an alert is one the next focus will
revert, or a call that failed left it (`AlertOwned`).

Some definitions were put in another form so that they could be reasoned about: sets and
bounded choices in place of `CHOOSE` in `AudioSlots` and `Admission`, one `EXCEPT` per field in
`Chat`, named pieces in place of nested functions in `LayerParser`.

## Only model-checked, and not modelled

Only model-checked:

* Liveness (`EndCompletes` and the other properties of `ShareProgress`, `RoomEnds`,
  `AudioHeard`, the ends of disconnected connections, `WritesComeOut`): the prover does not
  reason about fairness.

Not modelled, and why:

* ping, and the cooldown of renegotiation requests: they change no state others read.
* the schedule of `reconnect.ts` and the client's share resume: the server sees connections of
  one client that come, are evicted and resume in any order, and the modules have all of those.
* of the chat: pruning by age and number, cached blobs, deleted attachments.  A message sent on
  a lost socket counts as lost once the page connects again.  One load of a history at a time.
* the rewriting of RTP timestamps and markers, 32-bit extension of sequence numbers
  (`rebase_roc`), keyframe requests, batching of datagrams, SDP and ICE contents, panics in handlers.
* power loss in the middle of a write; the encoding of cookies and bodies; password hashing
  (a hash is its password); which requests need an administrator.
* static files, TURN credentials, configuration, the client's address: they keep no state.
* showing and hiding the desktop window and the autostart entry.
* the load test client, the UI and the audio worklets.

## Plan

1. Done: `ShareLifecycle`, `ScreenShare`, their runs and proofs.
2. Done: `Room`, `AudioSlots`; `Presence` over the room's changes.
3. Done: `Admission`, `RateLimit` with `TokenBucket`, `FileStore`.
4. Done: `PcDriver`, `VoiceStream`, `VideoForward`, `LayerParser`.
5. Done: `Chat`, `DesktopUpdater`, `DesktopHotkey`.
6. Done: the proofs of safety for all of these (see above).
7. Done: `FramesFollow` for every ring, the budget of the file store, the types of the compositions; the parser for every stream.
