--------------------------- MODULE Clients_proofs ---------------------------
(***************************************************************************)
(* The clients.  The desktop client, for any servers, releases, keys and   *)
(* bindings: two clicks never run two installs, an update that can be      *)
(* installed stays offered, and a press of the shortcut toggles once.  The *)
(* chat, for any users and messages: what a user was sent is what their    *)
(* history shows, through lost sockets, loads, retries and deletions.  The *)
(* types of these, of the pages and of the room together.                  *)
(***************************************************************************)
EXTENDS MCClients, Room_proofs, FiniteSetTheorems, SequenceTheorems, TLAPS

-----------------------------------------------------------------------------
(* The self-update.                                                        *)

\* A check that found a release found one newer than what runs, so not version 0.
FindsNewer ==
    \A c \in Checks : checking[c].stage \in {"found", "telling", "showing"} => checking[c].version # 0

UpdaterInv == UpdaterTypeOK /\ FindsNewer /\ UpdatesHold

\* Of two callers, at most one is not both.
LEMMA AtMostOne ==
    ASSUME NEW S \in SUBSET Callers
    PROVE  (Cardinality(S) <= 1) <=> ~("banner" \in S /\ "tray" \in S)
  <1>1. Cardinality({}) = 0 /\ Cardinality({"banner"}) = 1 /\ Cardinality({"tray"}) = 1
    BY FS_EmptySet, FS_Singleton
  <1>2. Cardinality({"banner", "tray"}) = 2
    <2>1. IsFiniteSet({"tray"}) /\ "banner" \notin {"tray"}
      BY FS_Singleton
    <2>2. Cardinality({"tray"} \union {"banner"}) = Cardinality({"tray"}) + 1
      BY <2>1, FS_AddElement
    <2>3. {"tray"} \union {"banner"} = {"banner", "tray"}
      OBVIOUS
    <2> QED BY <1>1, <2>2, <2>3
  <1>3. S \in {{}, {"banner"}, {"tray"}, {"banner", "tray"}}
    BY DEF Callers
  <1> QED BY <1>1, <1>2, <1>3

\* Started is what a start makes of everything but the server and the versions.
LEMMA StartInv ==
    ASSUME home \in Servers \union {NoServer}, latest \in [Servers -> Version],
           installed \in Version, Started, UNCHANGED <<home, latest>>, installed' \in Version
    PROVE  UpdaterInv'
  <1>1. UpdaterTypeOK'
    <2>1. 0 \in Version
      BY UpdaterConstants DEF Version
    <2>2. NoTask \in Task /\ [stage |-> "ready", force |-> TRUE] \in Task
      BY DEF Task
    <2>3. \A c \in Checks : checking'[c] \in Task
      BY <2>2 DEF Started
    <2> QED BY <2>1, <2>3 DEF UpdaterTypeOK, Started
  <1>2. FindsNewer'
    BY DEF FindsNewer, Started, NoTask
  <1>3. InstallsOnce'
    <2>1. \A a \in Callers : applying'[a].stage # "installing"
      BY DEF Started, NoTask
    <2>2. {a \in Callers : applying'[a].stage = "installing"} = {}
      BY <2>1
    <2> QED BY <2>1, <2>2, AtMostOne DEF InstallsOnce, Started
  <1>4. OfferStands'
    BY DEF OfferStands, Started
  <1> QED BY <1>1, <1>2, <1>3, <1>4 DEF UpdaterInv, UpdatesHold

\* A step of one check changes that check alone, and no install.
LEMMA CheckKeeps ==
    ASSUME UpdaterInv, NEW c \in Checks, NEW task \in Task, To(c, task),
           task.stage \in {"found", "telling", "showing"} => task.version # 0,
           UNCHANGED <<home, page, latest, installed, installing, applying>>,
           {pending', tray', banner'} \subseteq Version, {recent', unbuilt'} \subseteq BOOLEAN,
           OfferStands'
    PROVE  UpdaterInv'
  <1>1. checking' = [checking EXCEPT ![c] = task]
    BY DEF To
  <1>2. UpdaterTypeOK'
    BY <1>1 DEF UpdaterInv, UpdaterTypeOK
  <1>3. FindsNewer'
    BY <1>1 DEF UpdaterInv, FindsNewer, UpdaterTypeOK
  <1>4. InstallsOnce'
    BY DEF UpdaterInv, UpdatesHold, InstallsOnce
  <1> QED BY <1>2, <1>3, <1>4 DEF UpdaterInv, UpdatesHold

\* Every step keeps the invariant.
LEMMA UpdaterStep == UpdaterInv /\ [UpdaterNext]_updaterVars => UpdaterInv'
  <1> SUFFICES ASSUME UpdaterInv, [UpdaterNext]_updaterVars PROVE UpdaterInv'
    OBVIOUS
  <1>t. UpdaterTypeOK /\ FindsNewer /\ InstallsOnce /\ OfferStands
    BY DEF UpdaterInv, UpdatesHold
  <1>n. NoTask \in Task /\ NoTask.stage = "idle" /\ 0 \in Version
    BY UpdaterConstants DEF Task, NoTask, Version
  <1>1. ASSUME NEW c \in Checks, NEW force \in BOOLEAN, Spawn(c, force) PROVE UpdaterInv'
    <2> DEFINE task == [stage |-> "ready", force |-> force]
    <2>1. task \in Task
      BY DEF Task
    <2>2. \A d \in Checks : checking'[d].stage \notin {"telling", "showing"} =>
              checking[d].stage \notin {"telling", "showing"}
      BY <1>1, <1>t DEF Spawn, To, UpdaterTypeOK, NoTask
    <2>3. OfferStands'
      BY <1>1, <1>t, <2>2 DEF Spawn, OfferStands
    <2> QED BY <1>1, <1>t, <2>1, <2>3, CheckKeeps DEF Spawn, UpdaterTypeOK
  <1>2. ASSUME NEW c \in Checks, CheckBegin(c) PROVE UpdaterInv'
    <2> DEFINE asking == [stage |-> "asking", from |-> home]
    <2>1. CASE To(c, NoTask)
      <3>1. OfferStands'
        BY <1>2, <1>t, <2>1 DEF CheckBegin, To, OfferStands, UpdaterTypeOK
      <3> QED BY <1>2, <1>t, <1>n, <2>1, <3>1, CheckKeeps DEF CheckBegin, UpdaterTypeOK
    <2>2. CASE To(c, asking) /\ home # NoServer
      <3>1. asking \in Task
        BY <1>t, <2>2 DEF Task, UpdaterTypeOK
      <3>2. OfferStands'
        BY <1>2, <1>t, <2>2 DEF CheckBegin, To, OfferStands, UpdaterTypeOK
      <3> QED BY <1>2, <1>t, <2>2, <3>1, <3>2, CheckKeeps DEF CheckBegin, UpdaterTypeOK
    <2> QED BY <1>2, <2>1, <2>2 DEF CheckBegin
  <1>3. ASSUME NEW c \in Checks, CheckAnswer(c) PROVE UpdaterInv'
    <2> DEFINE found == [stage |-> "found", version |-> latest[checking[c].from]]
    <2>1. CASE To(c, NoTask)
      <3>1. OfferStands'
        BY <1>3, <1>t, <2>1 DEF CheckAnswer, To, OfferStands, UpdaterTypeOK
      <3> QED BY <1>3, <1>t, <1>n, <2>1, <3>1, CheckKeeps DEF CheckAnswer, UpdaterTypeOK
    <2>2. CASE To(c, found) /\ latest[checking[c].from] > installed
      <3>1. checking[c].from \in Servers
        BY <1>3, <1>t DEF CheckAnswer, UpdaterTypeOK, Task, NoTask
      <3>2. found.version \in Version /\ found.version # 0
        BY <1>t, <2>2, <3>1, UpdaterConstants DEF UpdaterTypeOK, Version
      <3>3. found \in Task
        BY <3>2 DEF Task
      <3>4. OfferStands'
        BY <1>3, <1>t, <2>2 DEF CheckAnswer, To, OfferStands, UpdaterTypeOK
      <3> QED BY <1>3, <1>t, <2>2, <3>2, <3>3, <3>4, CheckKeeps DEF CheckAnswer, UpdaterTypeOK
    <2> QED BY <1>3, <2>1, <2>2 DEF CheckAnswer
  <1>4. ASSUME NEW c \in Checks, CheckStore(c) PROVE UpdaterInv'
    <2> DEFINE telling == [stage |-> "telling", version |-> checking[c].version]
    <2>1. checking[c].version \in Version /\ checking[c].version # 0
      BY <1>4, <1>t DEF CheckStore, UpdaterTypeOK, FindsNewer, Task, NoTask
    <2>2. CASE Known(checking[c].version)
      <3>1. OfferStands'
        BY <1>4, <1>t, <1>n, <2>2 DEF CheckStore, Known, To, OfferStands, UpdaterTypeOK
      <3> QED BY <1>4, <1>t, <1>n, <2>1, <2>2, <3>1, CheckKeeps DEF CheckStore, UpdaterTypeOK
    <2>3. CASE ~Known(checking[c].version)
      <3>1. [checking[c] EXCEPT !.stage = "telling"] = telling
        BY <1>4, <1>t DEF CheckStore, UpdaterTypeOK, Task, NoTask
      <3>2. telling \in Task
        BY <2>1 DEF Task
      <3>3. OfferStands'
        BY <1>4, <1>t, <2>3, <3>1 DEF CheckStore, To, OfferStands, UpdaterTypeOK
      <3> QED BY <1>4, <1>t, <2>1, <2>3, <3>1, <3>2, <3>3, CheckKeeps DEF CheckStore, UpdaterTypeOK
    <2> QED BY <2>2, <2>3
  <1>5. ASSUME NEW c \in Checks, CheckTell(c) PROVE UpdaterInv'
    <2> DEFINE showing == [stage |-> "showing", version |-> checking[c].version]
    <2>1. checking[c].version \in Version /\ checking[c].version # 0
      BY <1>5, <1>t DEF CheckTell, UpdaterTypeOK, FindsNewer, Task, NoTask
    <2>2. [checking[c] EXCEPT !.stage = "showing"] = showing
      BY <1>5, <1>t DEF CheckTell, UpdaterTypeOK, Task, NoTask
    <2>3. showing \in Task
      BY <2>1 DEF Task
    <2>4. OfferStands'
      BY <1>5, <1>t, <2>2 DEF CheckTell, To, OfferStands, UpdaterTypeOK
    <2> QED BY <1>5, <1>t, <2>1, <2>2, <2>3, <2>4, CheckKeeps DEF CheckTell, UpdaterTypeOK
  <1>6. ASSUME NEW c \in Checks, CheckShow(c) PROVE UpdaterInv'
    <2>1. checking[c].version \in Version /\ checking[c].version # 0
      BY <1>6, <1>t DEF CheckShow, UpdaterTypeOK, FindsNewer, Task, NoTask
    <2>2. To(c, NoTask) /\ UNCHANGED <<home, page, latest, installed, pending, installing, recent, applying, banner>>
      BY <1>6 DEF CheckShow
    <2>3. CASE tray' = checking[c].version /\ unbuilt' = FALSE
      <3>1. OfferStands'
        BY <2>1, <2>3 DEF OfferStands
      <3> QED BY <1>t, <1>n, <2>1, <2>2, <2>3, <3>1, CheckKeeps DEF UpdaterTypeOK
    <2>4. CASE tray' = tray /\ unbuilt' = (unbuilt \/ tray = 0)
      <3>1. OfferStands'
        BY <2>4 DEF OfferStands
      <3>2. unbuilt' \in BOOLEAN
        BY <1>t, <2>4 DEF UpdaterTypeOK
      <3> QED BY <1>t, <1>n, <2>2, <2>4, <3>1, <3>2, CheckKeeps DEF UpdaterTypeOK
    <2> QED BY <1>6, <2>3, <2>4 DEF CheckShow
  <1>7. ASSUME NEW a \in Callers, ApplyBegin(a) PROVE UpdaterInv'
    <2> DEFINE installing2 == [stage |-> "installing", version |-> pending]
    <2>1. applying' = [applying EXCEPT ![a] = installing2] /\ pending \in Version
      BY <1>7, <1>t DEF ApplyBegin, UpdaterTypeOK
    <2>2. UpdaterTypeOK'
      <3>1. UNCHANGED <<home, page, latest, installed, recent, checking, tray, banner>>
        BY <1>7 DEF ApplyBegin
      <3>2. pending' = 0 /\ installing' = TRUE /\ unbuilt' = FALSE
        BY <1>7 DEF ApplyBegin
      <3>3. applying' \in [Callers -> {NoTask, [stage |-> "failed"]} \union [stage : {"installing"}, version : Version]]
        BY <1>t, <2>1 DEF UpdaterTypeOK
      <3> QED BY <1>t, <1>n, <3>1, <3>2, <3>3 DEF UpdaterTypeOK
    <2>3. \A b \in Callers : applying'[b].stage = "installing" <=> b = a
      BY <1>7, <1>t, <2>1 DEF ApplyBegin, MayApply, InstallsOnce, UpdaterTypeOK
    <2>4. ~({"banner", "tray"} \subseteq {b \in Callers : applying'[b].stage = "installing"})
      BY <2>3
    <2>5. InstallsOnce'
      BY <1>7, <2>3, <2>4, AtMostOne DEF InstallsOnce, ApplyBegin
    <2> QED BY <1>7, <1>t, <2>2, <2>5 DEF UpdaterInv, UpdatesHold, ApplyBegin, FindsNewer, OfferStands
  <1>8. ASSUME NEW a \in Callers, InstallFails(a) PROVE UpdaterInv'
    <2>1. applying' = [applying EXCEPT ![a] = [stage |-> "failed"]]
      BY <1>8 DEF InstallFails
    <2>2. UpdaterTypeOK'
      BY <1>8, <1>t, <2>1 DEF InstallFails, UpdaterTypeOK
    <2>3. \A b \in Callers : b # a => applying[b].stage # "installing"
      <3> DEFINE S == {b \in Callers : applying[b].stage = "installing"}
      <3>1. ~("banner" \in S /\ "tray" \in S)
        BY <1>t, AtMostOne DEF InstallsOnce
      <3> QED BY <1>8, <3>1 DEF InstallFails, Callers
    <2>4. {b \in Callers : applying'[b].stage = "installing"} = {}
      BY <1>t, <2>1, <2>3 DEF UpdaterTypeOK
    <2>5. InstallsOnce'
      BY <1>8, <2>4, AtMostOne DEF InstallsOnce, InstallFails
    <2> QED BY <1>8, <1>t, <2>2, <2>5 DEF UpdaterInv, UpdatesHold, InstallFails, FindsNewer, OfferStands
  <1>9. ASSUME NEW a \in Callers, ApplyFailed(a) PROVE UpdaterInv'
    <2> DEFINE ready == [stage |-> "ready", force |-> TRUE]
    <2>1. PICK c \in Checks : checking[c] = NoTask /\ checking' = [checking EXCEPT ![c] = ready]
      BY <1>9 DEF ApplyFailed, To
    <2>2. ready \in Task
      BY DEF Task
    <2>3. UpdaterTypeOK'
      BY <1>9, <1>t, <2>1, <2>2 DEF ApplyFailed, UpdaterTypeOK
    <2>4. FindsNewer' /\ OfferStands'
      BY <1>9, <1>t, <2>1 DEF ApplyFailed, FindsNewer, OfferStands, UpdaterTypeOK, NoTask
    <2>5. \A b \in Callers : applying'[b].stage = "installing" <=> applying[b].stage = "installing"
      BY <1>9, <1>t, <1>n DEF ApplyFailed, UpdaterTypeOK
    <2>6. {b \in Callers : applying'[b].stage = "installing"} = {b \in Callers : applying[b].stage = "installing"}
      BY <2>5
    <2>7. InstallsOnce'
      BY <1>9, <1>t, <2>5, <2>6 DEF InstallsOnce, ApplyFailed
    <2> QED BY <2>3, <2>4, <2>7 DEF UpdaterInv, UpdatesHold
  <1>10. ASSUME NEW a \in Callers, InstallDone(a) PROVE UpdaterInv'
    <2>1. applying[a].version \in Version
      BY <1>10, <1>t DEF InstallDone, UpdaterTypeOK, NoTask
    <2> QED BY <1>10, <1>t, <2>1, StartInv DEF InstallDone, UpdaterTypeOK
  <1>11. ASSUME NEW s \in Servers, SetHost(s) \/ Release(s) PROVE UpdaterInv'
    <2>1. UpdaterTypeOK'
      BY <1>11, <1>t, <1>n, UpdaterConstants DEF SetHost, Release, UpdaterTypeOK, Version
    <2>2. UNCHANGED <<pending, installing, checking, applying, tray, unbuilt>>
      BY <1>11 DEF SetHost, Release
    <2>3. FindsNewer' /\ OfferStands'
      BY <1>t, <2>2 DEF FindsNewer, OfferStands
    <2>4. InstallsOnce'
      BY <1>t, <2>2 DEF InstallsOnce
    <2> QED BY <2>1, <2>3, <2>4 DEF UpdaterInv, UpdatesHold
  <1>12. CASE TimeIsUp \/ RefreshMenu \/ ChangeServer
    <2>1. UpdaterTypeOK'
      BY <1>12, <1>t, <1>n DEF TimeIsUp, RefreshMenu, ChangeServer, UpdaterTypeOK
    <2>2. UNCHANGED <<pending, installing, checking, applying>> /\ (tray' = pending \/ UNCHANGED <<tray, unbuilt>>)
      BY <1>12 DEF TimeIsUp, RefreshMenu, ChangeServer
    <2>3. FindsNewer' /\ OfferStands'
      BY <1>t, <2>2 DEF FindsNewer, OfferStands
    <2>4. InstallsOnce'
      BY <1>t, <2>2 DEF InstallsOnce
    <2> QED BY <2>1, <2>3, <2>4 DEF UpdaterInv, UpdatesHold
  <1>13. CASE Quit
    BY <1>13, <1>t, StartInv DEF Quit, UpdaterTypeOK
  <1>14. CASE UNCHANGED updaterVars
    BY <1>14, <1>t DEF updaterVars, UpdaterInv, UpdaterTypeOK, FindsNewer, UpdatesHold, InstallsOnce, OfferStands
  <1> QED
    BY <1>1, <1>2, <1>3, <1>4, <1>5, <1>6, <1>7, <1>8, <1>9, <1>10, <1>11, <1>12, <1>13, <1>14
       DEF UpdaterNext

LEMMA UpdaterStart == UpdaterInit => UpdaterInv
  <1> SUFFICES ASSUME UpdaterInit PROVE UpdaterInv
    OBVIOUS
  <1>1. 0 \in Version
    BY UpdaterConstants DEF Version
  <1>2. NoTask \in Task /\ [stage |-> "ready", force |-> TRUE] \in Task
    BY DEF Task
  <1>3. UpdaterTypeOK
    BY <1>1, <1>2 DEF UpdaterInit, UpdaterTypeOK
  <1>6. FindsNewer /\ OfferStands
    <2>1. \A c \in Checks : checking[c].stage \in {"idle", "ready"}
      BY DEF UpdaterInit, NoTask
    <2>2. pending = 0
      BY DEF UpdaterInit
    <2> QED BY <2>1, <2>2 DEF FindsNewer, OfferStands
  <1>4. {a \in Callers : applying[a].stage = "installing"} = {}
    BY DEF UpdaterInit, NoTask
  <1>5. InstallsOnce
    BY <1>4, AtMostOne DEF UpdaterInit, InstallsOnce
  <1> QED BY <1>3, <1>5, <1>6 DEF UpdaterInv, UpdatesHold

\* Two clicks never run two installs, and an update that can be installed is offered once no
\* check is about to offer it, but after a menu that was to offer it could not be rebuilt
\* (apply_update and check in updater.rs, refresh_menu in tray.rs).
THEOREM UpdaterHolds == UpdaterSpec => []UpdatesHold
  <1>1. UpdaterInv => UpdatesHold
    BY DEF UpdaterInv
  <1> QED BY <1>1, UpdaterStart, UpdaterStep, PTL DEF UpdaterSpec

-----------------------------------------------------------------------------
(* The shortcut.                                                           *)

PlatformOK == platform \in [mutes : BOOLEAN, releases : BOOLEAN]

\* What toggled is either believed to be down, or no key can match.
ToggledIsDown == toggles # 0 /\ last \in held => last \in pressed \/ ~IsKeyboard(binding)

\* The last focus event under way is the focus the window has.
LastEvent == events # <<>> => events[Len(events)] = window

\* The alert icon is to be reverted at the next focus, or a call that failed left it.
AlertOwned == alert => active \/ broken

\* What a command saved is what it is about to put in use, unless the file was overtaken.
SavingKept == saving # Idle /\ ~unsaved => disk = saving.to

HotkeyInv ==
    /\ HotkeyTypeOK /\ PlatformOK
    /\ NoGhostKey
    /\ PressTogglesOnce /\ ToggledIsDown
    /\ AlertEnds /\ LastEvent /\ AlertOwned
    /\ ShortcutKept /\ SavingKept

\* fire_toggle counts one toggle at most, and from none reaches no more than one.
LEMMA FireCounts ==
    ASSUME NEW since \in 0 .. Cooldown, NEW base \in 0 .. 2, FireToggle(since, base)
    PROVE  age' \in 0 .. Cooldown /\ toggles' \in 0 .. 2 /\ (base = 0 => toggles' <= 1)
  BY HotkeyConstants DEF FireToggle

\* A press of a key that counts as down, or with no keys bound, does not toggle.
LEMMA PressCounts ==
    ASSUME NEW k \in Keys, NEW keys \in SUBSET Keys, NEW since \in 0 .. Cooldown, NEW base \in 0 .. 2,
           Press(k, keys, since, base)
    PROVE  /\ pressed' = keys \union {k}
           /\ UNCHANGED <<binding, capturing, focused>>
           /\ age' \in 0 .. Cooldown /\ toggles' \in 0 .. 2
           /\ base = 0 => toggles' <= 1
           /\ k \in keys \/ ~IsKeyboard(binding) => toggles' = base
  <1>1. CASE FireToggle(since, base) /\ k \notin keys /\ IsKeyboard(binding)
    BY <1>1, FireCounts DEF Press
  <1>2. CASE age' = since /\ toggles' = base
    BY <1>2 DEF Press
  <1> QED BY <1>1, <1>2 DEF Press, IsRepeat, Matches

\* What a repeat finds: the key that repeats, and the time that has passed.
LEMMA RepeatIsPress ==
    ASSUME HotkeyTypeOK, NEW k \in Keys, Repeat(k)
    PROVE  \E keys \in SUBSET Keys, since \in 0 .. Cooldown :
               /\ Press(k, keys, since, toggles)
               /\ keys \subseteq pressed
               /\ platform.releases \/ keys = pressed
  <1> DEFINE later == IF age < Cooldown THEN age + 1 ELSE age
             keys == IF platform.releases THEN pressed \ {k} ELSE pressed
  <1>1. later \in 0 .. Cooldown
    BY HotkeyConstants DEF HotkeyTypeOK
  <1>2. keys \in SUBSET Keys /\ keys \subseteq pressed /\ (platform.releases \/ keys = pressed)
    BY DEF HotkeyTypeOK
  <1>3. Press(k, keys, later, toggles)
    BY DEF Repeat
  <1> QED BY <1>1, <1>2, <1>3

\* What is first in a queue, and what remains.
LEMMA HeadTail ==
    ASSUME NEW S, NEW s \in Seq(S), s # <<>>
    PROVE  /\ Len(s) \in Nat \ {0} /\ Head(s) = s[1] /\ Len(Tail(s)) = Len(s) - 1
           /\ Tail(s) = <<>> => Len(s) = 1
           /\ Tail(s) # <<>> => Len(s) > 1 /\ Tail(s)[Len(Tail(s))] = s[Len(s)]
  <1>1. Head(s) = s[1]
    OBVIOUS
  <1>2. Len(s) \in Nat \ {0} /\ Tail(s) \in Seq(S) /\ Len(Tail(s)) = Len(s) - 1
    OBVIOUS
  <1>3. Tail(s) # <<>> => Len(Tail(s)) # 0
    BY <1>2, EmptySeq
  <1>4. Len(<<>>) = 0
    OBVIOUS
  <1>5. \A i \in 1 .. Len(Tail(s)) : Tail(s)[i] = s[i + 1]
    OBVIOUS
  <1>6. ASSUME Tail(s) = <<>> PROVE Len(s) = 1
    <2> DEFINE n == Len(s)
               m == Len(Tail(s))
    <2>1. m = 0
      BY <1>4, <1>6, Zenon
    <2>2. n \in Nat \ {0} /\ m = n - 1
      BY <1>2
    <2> HIDE DEF n, m
    <2>3. n = 1
      BY <2>1, <2>2
    <2> QED BY <2>3 DEF n
  <1>7. ASSUME Tail(s) # <<>> PROVE Len(s) > 1 /\ Tail(s)[Len(Tail(s))] = s[Len(s)]
    <2>1. Len(Tail(s)) \in 1 .. Len(Tail(s)) /\ Len(Tail(s)) + 1 = Len(s)
      BY <1>2, <1>3, <1>7
    <2>2. Tail(s)[Len(Tail(s))] = s[Len(Tail(s)) + 1]
      BY <1>5, <2>1
    <2> QED BY <2>1, <2>2
  <1> QED BY <1>1, <1>2, <1>6, <1>7

LEMMA HotkeyTypes == HotkeyTypeOK /\ PlatformOK /\ [HotkeyNext]_hotkeyVars => HotkeyTypeOK' /\ PlatformOK'
  <1> SUFFICES ASSUME HotkeyTypeOK, PlatformOK, [HotkeyNext]_hotkeyVars PROVE HotkeyTypeOK' /\ PlatformOK'
    OBVIOUS
  <1>c. 0 \in 0 .. Cooldown /\ Cooldown \in 0 .. Cooldown /\ 0 \in 0 .. 2
    BY HotkeyConstants
  <1>1. ASSUME NEW k \in Keys, KeyDown(k) PROVE HotkeyTypeOK' /\ PlatformOK'
    <2>1. pressed' \subseteq Keys /\ age' \in 0 .. Cooldown /\ toggles' \in 0 .. 2
          /\ UNCHANGED <<binding, capturing, focused>>
      <3>1. CASE Muted
        BY <1>1, <3>1, <1>c DEF KeyDown, HotkeyTypeOK, listener
      <3>2. CASE ~Muted
        <4>1. Press(k, pressed, age, 0)
          BY <1>1, <3>2 DEF KeyDown
        <4>2. pressed \in SUBSET Keys /\ age \in 0 .. Cooldown
          BY DEF HotkeyTypeOK
        <4> QED BY <1>c, <4>1, <4>2, PressCounts
      <3> QED BY <3>1, <3>2
    <2> QED BY <1>1, <2>1 DEF KeyDown, HotkeyTypeOK, PlatformOK, icon
  <1>2. ASSUME NEW k \in Keys, Repeat(k) PROVE HotkeyTypeOK' /\ PlatformOK'
    <2>1. pressed' \subseteq Keys /\ age' \in 0 .. Cooldown /\ toggles' \in 0 .. 2
          /\ UNCHANGED <<binding, capturing, focused>>
      <3>1. PICK keys \in SUBSET Keys, since \in 0 .. Cooldown : Press(k, keys, since, toggles)
        BY <1>2, RepeatIsPress
      <3>2. toggles \in 0 .. 2
        BY DEF HotkeyTypeOK
      <3> QED BY <3>1, <3>2, PressCounts
    <2> QED BY <1>2, <2>1 DEF Repeat, HotkeyTypeOK, PlatformOK, icon
  <1>3. ASSUME NEW k \in Keys, KeyUp(k) PROVE HotkeyTypeOK' /\ PlatformOK'
    BY <1>3, <1>c DEF KeyUp, HotkeyTypeOK, PlatformOK, icon
  <1>4. ASSUME NEW b \in Bindings, ButtonDown(b) PROVE HotkeyTypeOK' /\ PlatformOK'
    <2>1. CASE capturing
      BY <1>4, <2>1, <1>c DEF ButtonDown, CaptureMouse, HotkeyTypeOK, PlatformOK, icon
    <2>2. CASE ~capturing
      <3>1. age' \in 0 .. Cooldown /\ toggles' \in 0 .. 2
        BY <1>4, <2>2, <1>c, FireCounts DEF ButtonDown, HotkeyTypeOK
      <3> QED BY <1>4, <2>2, <3>1 DEF ButtonDown, HotkeyTypeOK, PlatformOK, icon
    <2> QED BY <2>1, <2>2
  <1>5. ASSUME NEW b \in Bindings \union {None}, Save(b) PROVE HotkeyTypeOK' /\ PlatformOK'
    <2>1. saving' = saving \/ saving'.to \in Bindings \union {None}
      BY <1>5 DEF Save
    <2> QED BY <1>5, <2>1 DEF Save, HotkeyTypeOK, PlatformOK, listener, icon
  <1>6. ASSUME NEW on \in BOOLEAN, SetCapturing(on) PROVE HotkeyTypeOK' /\ PlatformOK'
    BY <1>6, <1>c DEF SetCapturing, HotkeyTypeOK, PlatformOK, icon
  <1>7. CASE TimeGoesBy
    BY <1>7, HotkeyConstants DEF TimeGoesBy, HotkeyTypeOK, PlatformOK, icon
  <1>8. CASE FocusChange
    <2>1. (~window) \in BOOLEAN
      OBVIOUS
    <2>2. events' \in Seq(BOOLEAN) /\ Len(events') <= MaxLag
      BY <1>8, <2>1, HotkeyConstants DEF FocusChange, Changed, HotkeyTypeOK
    <2> QED BY <1>8, <2>1, <2>2 DEF FocusChange, Changed, HotkeyTypeOK, PlatformOK, listener, icon
  <1>9. CASE FocusEvent
    <2>1. Head(events) \in BOOLEAN /\ Tail(events) \in Seq(BOOLEAN) /\ Len(Tail(events)) <= MaxLag
      <3>1. events \in Seq(BOOLEAN) /\ events # <<>> /\ Len(events) \in Nat /\ Len(events) <= MaxLag
        BY <1>9, LenProperties DEF FocusEvent, HotkeyTypeOK
      <3>2. Len(Tail(events)) = Len(events) - 1
        BY <3>1, HeadTailProperties
      <3> QED BY <3>1, <3>2, HeadTailProperties, HotkeyConstants
    <2>2. {alert', active', broken'} \subseteq BOOLEAN
      BY <1>9 DEF FocusEvent, Revert, HotkeyTypeOK, icon
    <2> QED BY <1>9, <2>1, <2>2, <1>c DEF FocusEvent, HotkeyTypeOK, PlatformOK, AfterFocus
  <1>10. CASE SetShortcut \/ ClearShortcut
    BY <1>10, <1>c DEF SetShortcut, ClearShortcut, HotkeyTypeOK, PlatformOK, icon
  <1>11. CASE FlashAttention
    BY <1>11 DEF FlashAttention, HotkeyTypeOK, PlatformOK, listener
  <1>12. CASE StartAgain
    <2>1. binding' \in Bindings \union {None} /\ disk' \in Bindings \union {None, Missing}
      BY <1>12, HotkeyConstants DEF StartAgain, Loaded, HotkeyTypeOK
    <2>2. events' \in Seq(BOOLEAN) /\ Len(events') <= MaxLag
      BY <1>12, EmptySeq, HotkeyConstants DEF StartAgain
    <2> QED BY <1>12, <1>c, <2>1, <2>2 DEF StartAgain, HotkeyTypeOK, PlatformOK
  <1>13. CASE UNCHANGED hotkeyVars
    BY <1>13 DEF hotkeyVars, listener, icon, HotkeyTypeOK, PlatformOK
  <1> QED
    BY <1>1, <1>2, <1>3, <1>4, <1>5, <1>6, <1>7, <1>8, <1>9, <1>10, <1>11, <1>12, <1>13 DEF HotkeyNext

LEMMA GhostsKept ==
    HotkeyTypeOK /\ NoGhostKey /\ [HotkeyNext]_hotkeyVars => NoGhostKey'
  <1> SUFFICES ASSUME HotkeyTypeOK, NoGhostKey, [HotkeyNext]_hotkeyVars PROVE NoGhostKey'
    OBVIOUS
  <1> USE DEF NoGhostKey, FocusKnown
  <1>1. ASSUME NEW k \in Keys, KeyDown(k) PROVE NoGhostKey'
    <2>1. CASE Muted
      BY <1>1, <2>1 DEF KeyDown, listener, Muted
    <2>2. CASE ~Muted
      <3>1. pressed' = pressed \union {k}
        BY <1>1, <2>2 DEF KeyDown, Press
      <3> QED BY <1>1, <3>1 DEF KeyDown
    <2> QED BY <2>1, <2>2
  <1>2. ASSUME NEW k \in Keys, Repeat(k) PROVE NoGhostKey'
    <2>1. PICK keys \in SUBSET Keys, since \in 0 .. Cooldown :
              Press(k, keys, since, toggles) /\ keys \subseteq pressed
      BY <1>2, RepeatIsPress
    <2>2. pressed' = keys \union {k}
      BY <2>1 DEF Press
    <2> QED BY <1>2, <2>1, <2>2 DEF Repeat
  <1>3. ASSUME NEW k \in Keys, KeyUp(k) PROVE NoGhostKey'
    BY <1>3 DEF KeyUp, Muted
  <1>4. ASSUME NEW b \in Bindings, ButtonDown(b) PROVE NoGhostKey'
    BY <1>4 DEF ButtonDown, CaptureMouse
  <1>5. ASSUME NEW b \in Bindings \union {None}, Save(b) PROVE NoGhostKey'
    BY <1>5 DEF Save, listener
  <1>6. ASSUME NEW on \in BOOLEAN, SetCapturing(on) PROVE NoGhostKey'
    BY <1>6 DEF SetCapturing
  <1>7. CASE TimeGoesBy \/ SetShortcut
    BY <1>7 DEF TimeGoesBy, SetShortcut
  <1>8. CASE FocusChange
    <2>1. events' # <<>>
      BY <1>8, AppendProperties DEF FocusChange, Changed, HotkeyTypeOK
    <2> QED BY <2>1
  <1>9. CASE FocusEvent \/ ClearShortcut \/ StartAgain
    BY <1>9 DEF FocusEvent, AfterFocus, ClearShortcut, StartAgain
  <1>10. CASE FlashAttention \/ UNCHANGED hotkeyVars
    BY <1>10 DEF FlashAttention, hotkeyVars, listener
  <1> QED BY <1>1, <1>2, <1>3, <1>4, <1>5, <1>6, <1>7, <1>8, <1>9, <1>10 DEF HotkeyNext

TogglesInv == PressTogglesOnce /\ ToggledIsDown

LEMMA TogglesKept ==
    HotkeyTypeOK /\ TogglesInv /\ [HotkeyNext]_hotkeyVars => TogglesInv'
  <1> SUFFICES ASSUME HotkeyTypeOK, TogglesInv, [HotkeyNext]_hotkeyVars PROVE TogglesInv'
    OBVIOUS
  <1> USE DEF TogglesInv, PressTogglesOnce, ToggledIsDown
  <1>1. ASSUME NEW k \in Keys, KeyDown(k) PROVE TogglesInv'
    <2>1. CASE Muted
      BY <1>1, <2>1 DEF KeyDown
    <2>2. CASE ~Muted
      <3>1. Press(k, pressed, age, 0) /\ last' = k
        BY <1>1, <2>2 DEF KeyDown
      <3>2. 0 \in 0 .. 2 /\ age \in 0 .. Cooldown /\ pressed \in SUBSET Keys
        BY DEF HotkeyTypeOK
      <3>3. pressed' = pressed \union {k} /\ toggles' <= 1
        BY <3>1, <3>2, PressCounts
      <3> QED BY <3>1, <3>3
    <2> QED BY <2>1, <2>2
  <1>2. ASSUME NEW k \in Keys, Repeat(k) PROVE TogglesInv'
    <2>1. PICK keys \in SUBSET Keys, since \in 0 .. Cooldown :
              Press(k, keys, since, toggles) /\ (platform.releases \/ keys = pressed)
      BY <1>2, RepeatIsPress
    <2>2. toggles \in 0 .. 2 /\ k \in held /\ k = last /\ UNCHANGED <<held, last, platform>>
      BY <1>2 DEF Repeat, HotkeyTypeOK
    <2>3. /\ pressed' = keys \union {k} /\ toggles' \in 0 .. 2
          /\ toggles = 0 => toggles' <= 1
          /\ k \in keys \/ ~IsKeyboard(binding) => toggles' = toggles
      BY <2>1, <2>2, PressCounts
    <2>4. ToggledIsDown'
      BY <2>2, <2>3
    <2>5. PressTogglesOnce'
      <3>1. CASE toggles = 0
        BY <2>3, <3>1
      <3>2. CASE toggles # 0
        BY <2>1, <2>2, <2>3, <3>2
      <3> QED BY <3>1, <3>2
    <2> QED BY <2>4, <2>5
  <1>3. ASSUME NEW b \in Bindings, ButtonDown(b) PROVE TogglesInv'
    <2>1. CASE capturing \/ binding # b
      BY <1>3, <2>1 DEF ButtonDown, CaptureMouse
    <2>2. CASE ~capturing /\ binding = b
      BY <1>3, <2>2, FireCounts DEF ButtonDown, HotkeyTypeOK
    <2> QED BY <2>1, <2>2
  <1>4. ASSUME toggles' = 0 PROVE TogglesInv'
    BY <1>4
  <1>5. ASSUME UNCHANGED <<toggles, last, held, pressed, binding, platform>> PROVE TogglesInv'
    BY <1>5 DEF IsKeyboard
  <1>6. ASSUME NEW k \in Keys, KeyUp(k) PROVE toggles' = 0
    BY <1>6 DEF KeyUp
  <1>7. ASSUME NEW on \in BOOLEAN, SetCapturing(on) PROVE toggles' = 0
    BY <1>7 DEF SetCapturing
  <1>8. CASE FocusEvent \/ SetShortcut \/ ClearShortcut \/ StartAgain
    BY <1>4, <1>8 DEF FocusEvent, SetShortcut, ClearShortcut, StartAgain
  <1>9. ASSUME NEW b \in Bindings \union {None}, Save(b) PROVE TogglesInv'
    BY <1>5, <1>9 DEF Save, listener
  <1>10. CASE TimeGoesBy \/ FocusChange \/ FlashAttention \/ UNCHANGED hotkeyVars
    BY <1>5, <1>10 DEF TimeGoesBy, FocusChange, Changed, FlashAttention, hotkeyVars, listener
  <1> QED BY <1>1, <1>2, <1>3, <1>4, <1>6, <1>7, <1>8, <1>9, <1>10 DEF HotkeyNext

AlertInv == AlertEnds /\ LastEvent /\ AlertOwned

LEMMA AlertKept ==
    HotkeyTypeOK /\ AlertInv /\ [HotkeyNext]_hotkeyVars => AlertInv'
  <1> SUFFICES ASSUME HotkeyTypeOK, AlertInv, [HotkeyNext]_hotkeyVars PROVE AlertInv'
    OBVIOUS
  <1> USE DEF AlertInv, AlertEnds, FocusKnown, LastEvent, AlertOwned
  <1>1. CASE FocusChange
    <2>1. events' = Append(events, ~window) /\ window' = (~window) /\ events \in Seq(BOOLEAN)
      BY <1>1 DEF FocusChange, Changed, HotkeyTypeOK
    <2>2. events' # <<>> /\ events'[Len(events')] = (~window)
      BY <2>1, AppendProperties
    <2>3. UNCHANGED <<alert, active, broken>>
      BY <1>1 DEF FocusChange, Changed, icon
    <2> QED BY <2>1, <2>2, <2>3
  <1>2. CASE FocusEvent
    <2>1. events \in Seq(BOOLEAN) /\ events # <<>> /\ events' = Tail(events) /\ window' = window
          /\ Len(events) \in Nat
      BY <1>2, LenProperties DEF FocusEvent, HotkeyTypeOK
    <2>4. AlertOwned' /\ (Head(events) => ~alert' \/ broken')
      BY <1>2 DEF FocusEvent, Revert, icon
    <2>2. CASE events' = <<>>
      <3>1. events[1] = window /\ Head(events) = events[1]
        BY <2>1, <2>2, HeadTail
      <3> QED BY <2>1, <2>2, <2>4, <3>1
    <2>3. CASE events' # <<>>
      <3>1. events'[Len(events')] = events[Len(events)]
        BY <2>1, <2>3, HeadTail
      <3> QED BY <2>1, <2>3, <2>4, <3>1
    <2> QED BY <2>2, <2>3
  <1>3. CASE FlashAttention
    BY <1>3 DEF FlashAttention, MayFlash
  <1>4. CASE StartAgain
    BY <1>4 DEF StartAgain
  <1>5. ASSUME UNCHANGED <<events, window, alert, active, broken>> PROVE AlertInv'
    BY <1>5
  <1>6. ASSUME NEW k \in Keys, KeyDown(k) \/ Repeat(k) \/ KeyUp(k) PROVE AlertInv'
    BY <1>5, <1>6 DEF KeyDown, Repeat, KeyUp, icon
  <1>7. ASSUME NEW b \in Bindings \union {None}, ButtonDown(b) \/ Save(b) PROVE AlertInv'
    BY <1>5, <1>7 DEF ButtonDown, Save, icon
  <1>8. ASSUME NEW on \in BOOLEAN, SetCapturing(on) PROVE AlertInv'
    BY <1>5, <1>8 DEF SetCapturing, icon
  <1>9. CASE TimeGoesBy \/ SetShortcut \/ ClearShortcut \/ UNCHANGED hotkeyVars
    BY <1>5, <1>9 DEF TimeGoesBy, SetShortcut, ClearShortcut, hotkeyVars, icon
  <1> QED BY <1>1, <1>2, <1>3, <1>4, <1>6, <1>7, <1>8, <1>9 DEF HotkeyNext

SavingInv == ShortcutKept /\ SavingKept

LEMMA SavingsKept ==
    HotkeyTypeOK /\ SavingInv /\ [HotkeyNext]_hotkeyVars => SavingInv'
  <1> SUFFICES ASSUME HotkeyTypeOK, SavingInv, [HotkeyNext]_hotkeyVars PROVE SavingInv'
    OBVIOUS
  <1> USE DEF SavingInv, ShortcutKept, SavingKept
  <1>d. /\ \A b \in Bindings \union {None} : Loaded(b) = b
        /\ \A file : Loaded(Loaded(file)) = Loaded(file)
    BY HotkeyConstants DEF Loaded
  <1>1. ASSUME UNCHANGED <<binding, disk, saving, unsaved>> PROVE SavingInv'
    BY <1>1 DEF Loaded
  <1>2. ASSUME NEW k \in Keys, KeyDown(k) \/ Repeat(k) \/ KeyUp(k) PROVE SavingInv'
    BY <1>1, <1>2 DEF KeyDown, Repeat, KeyUp, Press, listener
  <1>3. ASSUME NEW b \in Bindings, ButtonDown(b) PROVE SavingInv'
    <2>1. CASE ~capturing
      BY <1>1, <1>3, <2>1 DEF ButtonDown
    <2>2. CASE capturing
      <3>1. saving' = saving /\ binding' = b
        BY <1>3, <2>2 DEF ButtonDown, CaptureMouse
      <3>2. CASE disk' = b /\ unsaved' = (saving # Idle)
        BY <1>d, <3>1, <3>2
      <3>3. CASE disk' \in {disk, Missing} /\ unsaved' = (unsaved \/ disk' # b)
        <4>1. b # Missing
          BY HotkeyConstants
        <4> QED BY <1>d, <3>1, <3>3, <4>1
      <3> QED BY <1>3, <2>2, <3>2, <3>3 DEF ButtonDown, CaptureMouse
    <2> QED BY <2>1, <2>2
  <1>4. ASSUME NEW b \in Bindings \union {None}, Save(b) PROVE SavingInv'
    <2>1. \/ saving' # Idle /\ saving'.to = b /\ disk' = b
          \/ saving' = Idle /\ unsaved' = TRUE
      BY <1>4 DEF Save, Idle
    <2> QED BY <2>1
  <1>5. CASE SetShortcut \/ ClearShortcut
    <2>1. /\ saving # Idle /\ saving.to \in Bindings \union {None}
          /\ binding' = saving.to /\ disk' = disk /\ saving' = Idle
          /\ unsaved' = (unsaved /\ disk # saving.to)
      BY <1>5 DEF SetShortcut, ClearShortcut, HotkeyTypeOK
    <2>2. ~unsaved' => disk' = saving.to
      BY <2>1
    <2> QED BY <1>d, <2>1, <2>2
  <1>6. CASE StartAgain
    <2>1. PICK file : /\ binding' = Loaded(file)
                      /\ unsaved' = (disk' \notin {file, Loaded(file)})
      BY <1>6 DEF StartAgain
    <2>2. saving' = Idle
      BY <1>6 DEF StartAgain
    <2>3. ~unsaved' => disk' = file \/ disk' = Loaded(file)
      BY <2>1
    <2>4. disk' = Loaded(file) => Loaded(disk') = Loaded(file)
      BY <1>d
    <2> QED BY <2>1, <2>2, <2>3, <2>4
  <1>7. ASSUME NEW on \in BOOLEAN, SetCapturing(on) PROVE SavingInv'
    BY <1>1, <1>7 DEF SetCapturing
  <1>8. CASE TimeGoesBy \/ FocusChange \/ FocusEvent \/ FlashAttention \/ UNCHANGED hotkeyVars
    BY <1>1, <1>8 DEF TimeGoesBy, FocusChange, Changed, FocusEvent, FlashAttention, hotkeyVars, listener
  <1> QED BY <1>2, <1>3, <1>4, <1>5, <1>6, <1>7, <1>8 DEF HotkeyNext

LEMMA HotkeyStart == HotkeyInit => HotkeyInv
  <1> SUFFICES ASSUME HotkeyInit PROVE HotkeyInv
    OBVIOUS
  <1>1. HotkeyTypeOK
    <2>1. events \in Seq(BOOLEAN) /\ Len(events) <= MaxLag
      BY EmptySeq, HotkeyConstants DEF HotkeyInit
    <2>2. age \in 0 .. Cooldown /\ toggles \in 0 .. 2 /\ {binding, disk} \subseteq Bindings \union {None}
      BY HotkeyConstants DEF HotkeyInit
    <2> QED BY <2>1, <2>2 DEF HotkeyInit, HotkeyTypeOK
  <1> QED
    BY <1>1, HotkeyConstants DEF HotkeyInit, HotkeyInv, PlatformOK, NoGhostKey, PressTogglesOnce, ToggledIsDown,
                AlertEnds, LastEvent, AlertOwned, ShortcutKept, SavingKept, Loaded

LEMMA HotkeyStep == HotkeyInv /\ [HotkeyNext]_hotkeyVars => HotkeyInv'
  BY HotkeyTypes, GhostsKept, TogglesKept, AlertKept, SavingsKept
     DEF HotkeyInv, TogglesInv, AlertInv, SavingInv

\* A press of the shortcut toggles once where a held key is not released between repeats, no
\* ghost of a muted key and no alert icon outlive the focus events, but an icon kept by a call
\* that failed, and the shortcut in use is the one a restart loads, but after a save that failed
\* or was overtaken (listener.rs, commands.rs, tray_flash.rs, lib.rs).
THEOREM HotkeyKeeps == HotkeySpec => []HotkeyHolds
  <1>1. HotkeyInv => HotkeyHolds
    BY DEF HotkeyInv, HotkeyHolds
  <1> QED BY <1>1, HotkeyStart, HotkeyStep, PTL DEF HotkeySpec

-----------------------------------------------------------------------------
(* The chat.                                                               *)

Socket == Users \X Nat

\* What a browser asks, which never names temporary files, and what it is sent.
Ask == [event : {"chat-send"}, m : Msgs, file : {"none", "stored"}] \union [event : {"chat-delete"}, id : Nat]
Sending ==
    [event : {"chat"}, m : Msgs, file : {"none", "stored"}, id : Nat]
        \union [event : {"chat-deleted"}, id : Nat]
Downstream == Sending \union [event : {"welcome"}]

WiresTyped ==
    /\ sock \in [Users -> [n : Nat, is : {"closed", "open", "entered", "greeted"}, via : {"lurker", "voice"}]]
    /\ up \in [Users -> Seq(Ask)] /\ down \in [Users -> Seq(Downstream)]
    /\ room \subseteq Socket
    /\ work \subseteq [by : Socket, to : SUBSET Socket, sends : Sending]
    /\ echoes \in Seq([m : Msgs, to : SUBSET Socket]) /\ Len(echoes) <= MaxEchoes

\* Finitely many entries, under ids that were given out.
Sound(entries, n) == entries \subseteq Entry /\ IsFiniteSet(entries) /\ \A e \in entries : e.id <= n

HistoriesSound ==
    /\ DOMAIN list = Users /\ DOMAIN db = Users /\ DOMAIN load = Users
    /\ \A u \in Users : Sound(list[u], Len(echoes)) /\ Sound(db[u], Len(echoes))
    /\ \A u \in Users : load[u] # NotLoading => Sound(load[u].of, Len(echoes))

\* A frame on its way to a socket says what was said, or erases what was erased for it.
TrueTo(f, c) ==
    /\ f.event = "chat" => f.id \in DOMAIN echoes /\ f.m = echoes[f.id].m
    /\ f.event = "chat-deleted" => f.id \in DOMAIN echoes /\ <<f.id, c>> \in erased

FramesTrue ==
    /\ \A w \in work : \A c \in w.to : TrueTo(w.sends, c)
    /\ \A u \in Users : \A k \in DOMAIN down[u] : TrueTo(down[u][k], Now(u))
    /\ \A u \in Users : \A k \in DOMAIN up[u] :
            up[u][k].event = "chat-delete" => up[u][k].id \in DOMAIN echoes

\* A socket that was in the room is not one that has yet to enter it.
WasIn(c) == c \in Socket /\ c[2] <= sock[c[1]].n /\ (c = Now(c[1]) => sock[c[1]].is # "open")

SocketsTrue ==
    /\ \A c \in room : WasIn(c)
    /\ \A i \in DOMAIN echoes : \A c \in echoes[i].to : WasIn(c)
    /\ \A o \in erased : o[1] \in DOMAIN echoes /\ WasIn(o[2])

ChatBase == WiresTyped /\ HistoriesSound /\ FramesTrue /\ SocketsTrue

\* A frame about i is on its way to the socket of u, or yet to be sent to it.
ToSend(u, event, i) == \E w \in work : Now(u) \in w.to /\ w.sends.event = event /\ w.sends.id = i
OnWay(u, event, i) == \E k \in DOMAIN down[u] : down[u][k].event = event /\ down[u][k].id = i
Due(u, event, i) == ToSend(u, event, i) \/ OnWay(u, event, i)

In(u) == sock[u].is \in {"entered", "greeted"}

\* A message arrives before its deletion, or is overtaken by it.
Follows(u) ==
    \A k \in DOMAIN down[u] :
        down[u][k].event = "chat-deleted" /\ <<u, down[u][k].id>> \notin overtaken =>
            /\ ~ToSend(u, "chat", down[u][k].id)
            /\ \A j \in DOMAIN down[u] :
                    k < j => ~(down[u][j].event = "chat" /\ down[u][j].id = down[u][k].id)

\* What came is shown, what was erased is neither shown nor about to be.
ShowsWhatCame(u, i) == ~Due(u, "chat", i) /\ <<i, Now(u)>> \notin erased => Shows(u, i)
HidesWhatWent(u, i) ==
    <<i, Now(u)>> \in erased /\ ~Due(u, "chat-deleted", i) /\ <<u, i>> \notin overtaken =>
        /\ ~Due(u, "chat", i) /\ ~Shows(u, i)
        /\ load[u] # NotLoading => \A e \in load[u].of : e.id # i

\* What came to its author is pending no more, and no load will say so.
SettlesWhatCame(u, i) ==
    AuthorOf[echoes[i].m] = u /\ ~Due(u, "chat", i) /\ <<u, echoes[i].m>> \notin crossed =>
        /\ Pending(list[u], echoes[i].m) = {}
        /\ load[u] # NotLoading => Pending(load[u].of, echoes[i].m) = {}

PageTrue(u) ==
    In(u) => \A i \in Heard(u) : ShowsWhatCame(u, i) /\ HidesWhatWent(u, i) /\ SettlesWhatCame(u, i)

ChatInv == ChatBase /\ \A u \in Users : Follows(u) /\ PageTrue(u)

-----------------------------------------------------------------------------
(* Histories. *)

LEMMA EntryIs ==
    /\ \A e \in Entry : e.m \in Msgs /\ e.id \in 0 .. MaxEchoes /\ e.file \in {"none", "temporary", "stored"}
    /\ \A m \in Msgs, id \in 0 .. MaxEchoes, file \in {"none", "temporary", "stored"}, failed \in BOOLEAN :
            [m |-> m, id |-> id, file |-> file, failed |-> failed] \in Entry
  BY DEF Entry

LEMMA SoundUnion ==
    ASSUME NEW n, NEW S, Sound(S, n), NEW T, Sound(T, n)
    PROVE  Sound(S \union T, n)
  BY FS_Union DEF Sound

LEMMA SoundPart ==
    ASSUME NEW n, NEW S, Sound(S, n), NEW T, T \subseteq S
    PROVE  Sound(T, n)
  BY FS_Subset, T \in SUBSET S DEF Sound

LEMMA SoundOne ==
    ASSUME NEW n, NEW e, e \in Entry, e.id <= n
    PROVE  Sound({e}, n)
  BY FS_Singleton DEF Sound

LEMMA SoundLater ==
    ASSUME NEW n, n \in Nat, NEW k, k \in Nat, n <= k, NEW S, Sound(S, n)
    PROVE  Sound(S, k)
  <1>1. MaxEchoes \in Nat
    BY ChatConstants
  <1>2. \A e \in S : e.id \in Nat /\ e.id <= n
    BY <1>1 DEF Sound, Entry
  <1>3. \A e \in S : e.id <= k
    BY <1>2
  <1> QED
    BY <1>3 DEF Sound

LEMMA SavedIs ==
    ASSUME NEW n, NEW S, Sound(S, n)
    PROVE  Sound(Saved(S), n)
  <1> DEFINE f == [e \in S |-> [e EXCEPT !.failed = FALSE]]
  <1>1. f \in Surjection(S, Saved(S))
    <2>1. \A e \in S : f[e] \in Saved(S)
      BY DEF Saved
    <2>2. \A o \in Saved(S) : \E e \in S : f[e] = o
      BY DEF Saved
    <2>3. f \in [S -> Saved(S)]
      BY <2>1
    <2> HIDE DEF f
    <2> QED
      BY <2>2, <2>3 DEF Surjection
  <1>2. IsFiniteSet(Saved(S))
    BY <1>1, FS_Surjection DEF Sound
  <1>3. \A e \in Entry : [e EXCEPT !.failed = FALSE] \in Entry /\ [e EXCEPT !.failed = FALSE].id = e.id
    BY DEF Entry
  <1> QED
    BY <1>2, <1>3 DEF Sound, Saved

LEMMA MergedIs ==
    ASSUME NEW n, NEW S, Sound(S, n), NEW T, Sound(T, n)
    PROVE  Sound(Merged(S, T), n)
  <1>1. Sound({e \in S : \A f \in T : ~SameKey(e, f)}, n)
    BY SoundPart
  <1> QED
    BY <1>1, SoundUnion DEF Merged

\* Every entry of a finite set is one of the sequence made of it, and that sequence has no other.
LEMMA SetToSeqIs ==
    ASSUME NEW S, IsFiniteSet(S)
    PROVE  \A i \in 1 .. Cardinality(S) : SetToSeq(S)[i] \in S
  <1>1. ExistsBijection(1 .. Cardinality(S), S)
    BY FS_CardinalityType
  <1>2. PICK f \in Bijection(1 .. Cardinality(S), S) : TRUE
    BY <1>1 DEF ExistsBijection
  <1>3. f \in [1 .. Cardinality(S) -> S] /\ IsInjective(f)
    BY <1>2 DEF Bijection, Injection, IsInjective
  <1>4. SetToSeq(S) \in [1 .. Cardinality(S) -> S]
    BY <1>3 DEF SetToSeq
  <1> QED
    BY <1>4

-----------------------------------------------------------------------------
(* What a step leaves. *)

LEMMA SentIs ==
    ASSUME WiresTyped, NEW u, u \in Users, NEW via, NEW frames, frames \in Seq(Ask)
    PROVE  /\ Sent(u, via, frames) \in [Users -> Seq(Ask)]
           /\ \A v \in Users : \A k \in DOMAIN Sent(u, via, frames)[v] :
                \/ k \in DOMAIN up[v] /\ Sent(u, via, frames)[v][k] = up[v][k]
                \/ \E j \in DOMAIN frames : Sent(u, via, frames)[v][k] = frames[j]
  <1> DEFINE both == up[u] \o frames
  <1>1. up \in [Users -> Seq(Ask)] /\ up[u] \in Seq(Ask)
    BY DEF WiresTyped
  <1>2. CASE Sent(u, via, frames) = up
    BY <1>1, <1>2
  <1>3. CASE Sent(u, via, frames) = [up EXCEPT ![u] = both]
    <2>1. both \in Seq(Ask)
      BY <1>1
    <2>2. \A k \in DOMAIN both :
            \/ k \in DOMAIN up[u] /\ both[k] = up[u][k]
            \/ \E j \in DOMAIN frames : both[k] = frames[j]
      <3> SUFFICES ASSUME NEW k \in DOMAIN both
                   PROVE  \/ k \in DOMAIN up[u] /\ both[k] = up[u][k]
                          \/ \E j \in DOMAIN frames : both[k] = frames[j]
        OBVIOUS
      <3>1. /\ Len(both) = Len(up[u]) + Len(frames) /\ Len(up[u]) \in Nat /\ Len(frames) \in Nat
            /\ \A i \in 1 .. Len(both) : both[i] = IF i <= Len(up[u]) THEN up[u][i] ELSE frames[i - Len(up[u])]
        BY <1>1, ConcatProperties
      <3>2. DOMAIN both = 1 .. Len(both) /\ DOMAIN up[u] = 1 .. Len(up[u]) /\ DOMAIN frames = 1 .. Len(frames)
        BY <1>1, <2>1
      <3> HIDE DEF both
      <3>3. CASE k <= Len(up[u])
        BY <3>1, <3>2, <3>3
      <3>4. CASE ~(k <= Len(up[u]))
        <4>1. k - Len(up[u]) \in DOMAIN frames
          BY <3>1, <3>2, <3>4
        <4> QED
          BY <3>1, <3>2, <3>4, <4>1
      <3> QED
        BY <3>3, <3>4
    <2> HIDE DEF both
    <2> QED
      BY <1>1, <1>3, <2>1, <2>2
  <1> QED
    BY <1>2, <1>3 DEF Sent

\* What a page shows stays true as long as nothing is heard, and nothing said is brought back.
Undisturbed(v) ==
    /\ sock'[v].n = sock[v].n /\ (In(v)' => In(v))
    /\ UNCHANGED <<echoes, erased>>
    /\ load'[v] = load[v]
    /\ overtaken \subseteq overtaken' /\ crossed \subseteq crossed'
    /\ \A i \in DOMAIN echoes : Shows(v, i)' <=> Shows(v, i)
    /\ \A i \in DOMAIN echoes : Pending(list[v], echoes[i].m) = {} => Pending(list'[v], echoes[i].m) = {}

LEMMA PageStays ==
    ASSUME NEW v, v \in Users, PageTrue(v), Undisturbed(v),
           \A i \in DOMAIN echoes : \A event \in {"chat", "chat-deleted"} : Due(v, event, i)' <=> Due(v, event, i)
    PROVE  PageTrue(v)'
  <1>1. Now(v)' = Now(v) /\ Heard(v)' = Heard(v)
    BY DEF Undisturbed, Now, Heard
  <1>2. Heard(v) \subseteq DOMAIN echoes
    BY DEF Heard
  <1>3. \A i \in Heard(v) : \A event \in {"chat", "chat-deleted"} : Due(v, event, i)' <=> Due(v, event, i)
    BY <1>2
  <1>4. ASSUME In(v)', NEW i \in Heard(v) PROVE ShowsWhatCame(v, i)'
    <2>1. In(v) /\ ShowsWhatCame(v, i)
      BY <1>4 DEF PageTrue, Undisturbed
    <2> QED
      BY <1>1, <1>2, <1>3, <2>1 DEF ShowsWhatCame, Undisturbed
  <1>5. ASSUME In(v)', NEW i \in Heard(v) PROVE HidesWhatWent(v, i)'
    <2>1. In(v) /\ HidesWhatWent(v, i)
      BY <1>5 DEF PageTrue, Undisturbed
    <2> QED
      BY <1>1, <1>2, <1>3, <2>1 DEF HidesWhatWent, Undisturbed
  <1>6. ASSUME In(v)', NEW i \in Heard(v) PROVE SettlesWhatCame(v, i)'
    <2>1. In(v) /\ SettlesWhatCame(v, i)
      BY <1>6 DEF PageTrue, Undisturbed
    <2> QED
      BY <1>1, <1>2, <1>3, <2>1 DEF SettlesWhatCame, Undisturbed
  <1> QED
    BY <1>1, <1>4, <1>5, <1>6 DEF PageTrue

LEMMA UndisturbedKeeps ==
    ASSUME FramesTrue, NEW v, v \in Users, Follows(v), PageTrue(v), Undisturbed(v), down'[v] = down[v],
           \A i \in DOMAIN echoes : \A event \in {"chat", "chat-deleted"} : ToSend(v, event, i)' <=> ToSend(v, event, i)
    PROVE  Follows(v)' /\ PageTrue(v)'
  <1>1. Follows(v)'
    <2>1. \A k \in DOMAIN down[v] : down[v][k].event = "chat-deleted" => down[v][k].id \in DOMAIN echoes
      BY DEF FramesTrue, TrueTo
    <2> QED
      BY <2>1 DEF Follows, Undisturbed
  <1>2. \A i \in DOMAIN echoes : \A event \in {"chat", "chat-deleted"} : Due(v, event, i)' <=> Due(v, event, i)
    BY DEF Due, OnWay
  <1> QED
    BY <1>1, <1>2, PageStays

\* A frame stays true when nothing new is said.
LEMMA TrueStays ==
    ASSUME NEW f, NEW c, TrueTo(f, c), echoes' = echoes, erased \subseteq erased'
    PROVE  TrueTo(f, c)'
  BY DEF TrueTo

\* The frames on their way to a page whose socket is lost are lost with it.
Departs(u) ==
    /\ \E s \in [n : Nat, is : {"closed", "open"}, via : {"lurker", "voice"}] :
        /\ sock' = [sock EXCEPT ![u] = s]
        /\ sock[u].n <= s.n /\ (s.is = "open" => sock[u].n < s.n)
    /\ down' = [down EXCEPT ![u] = <<>>]
    /\ up' = up \/ up' = [up EXCEPT ![u] = <<>>]
    /\ list' = list \/ list' = [list EXCEPT ![u] = {}]
    /\ load' = load \/ load' = [load EXCEPT ![u] = [of |-> db[u]]]
    /\ UNCHANGED <<room, work, db, echoes, erased, overtaken, crossed>>

LEMMA DepartsKeeps ==
    ASSUME ChatInv, NEW u, u \in Users, Departs(u)
    PROVE  ChatInv'
  <1>1. PICK s \in [n : Nat, is : {"closed", "open"}, via : {"lurker", "voice"}] :
            /\ sock' = [sock EXCEPT ![u] = s]
            /\ sock[u].n <= s.n /\ (s.is = "open" => sock[u].n < s.n)
    BY DEF Departs
  <1>2. /\ down' = [down EXCEPT ![u] = <<>>] /\ (up' = up \/ up' = [up EXCEPT ![u] = <<>>])
        /\ list' = list \/ list' = [list EXCEPT ![u] = {}]
        /\ load' = load \/ load' = [load EXCEPT ![u] = [of |-> db[u]]]
        /\ UNCHANGED <<room, work, db, echoes, erased, overtaken, crossed>>
    BY DEF Departs
  <1>3. WiresTyped /\ HistoriesSound /\ FramesTrue /\ SocketsTrue
    BY DEF ChatInv, ChatBase
  <1>4. /\ sock'[u] = s /\ \A v \in Users : v # u => sock'[v] = sock[v]
        /\ down'[u] = <<>> /\ \A v \in Users : v # u => down'[v] = down[v]
        /\ \A v \in Users : v # u => list'[v] = list[v] /\ load'[v] = load[v] /\ up'[v] = up[v]
        /\ up'[u] = up[u] \/ up'[u] = <<>>
        /\ list'[u] = list[u] \/ list'[u] = {}
        /\ load'[u] = load[u] \/ load'[u] = [of |-> db[u]]
    BY <1>1, <1>2, <1>3 DEF WiresTyped, HistoriesSound
  <1>5. WiresTyped'
    <2>1. s \in [n : Nat, is : {"closed", "open", "entered", "greeted"}, via : {"lurker", "voice"}]
      BY <1>1
    <2>2. sock' \in [Users -> [n : Nat, is : {"closed", "open", "entered", "greeted"}, via : {"lurker", "voice"}]]
      BY <1>1, <1>3, <2>1 DEF WiresTyped
    <2>3. <<>> \in Seq(Ask) /\ <<>> \in Seq(Downstream)
      OBVIOUS
    <2>4. up' \in [Users -> Seq(Ask)] /\ down' \in [Users -> Seq(Downstream)]
      <3>1. up \in [Users -> Seq(Ask)] /\ down \in [Users -> Seq(Downstream)]
        BY <1>3 DEF WiresTyped
      <3>2. down' \in [Users -> Seq(Downstream)]
        BY <1>2, <2>3, <3>1
      <3>3. up' \in [Users -> Seq(Ask)]
        BY <1>2, <2>3, <3>1
      <3> QED
        BY <3>2, <3>3
    <2> QED
      BY <1>2, <1>3, <2>2, <2>4 DEF WiresTyped
  <1>6. HistoriesSound'
    <2>1. Sound({}, Len(echoes))
      BY FS_EmptySet DEF Sound
    <2>2. DOMAIN list' = Users /\ DOMAIN db' = Users /\ DOMAIN load' = Users
      BY <1>2, <1>3 DEF HistoriesSound
    <2>3. \A v \in Users : Sound(list'[v], Len(echoes)) /\ Sound(db'[v], Len(echoes))
      BY <1>2, <1>3, <1>4, <2>1 DEF HistoriesSound
    <2>4. ASSUME NEW v \in Users, load'[v] # NotLoading PROVE Sound(load'[v].of, Len(echoes))
      <3>1. CASE load'[v] = load[v]
        BY <1>3, <2>4, <3>1 DEF HistoriesSound
      <3>2. CASE load'[v] = [of |-> db[v]]
        BY <1>3, <3>2 DEF HistoriesSound
      <3> QED
        BY <1>4, <3>1, <3>2
    <2> QED
      BY <1>2, <2>2, <2>3, <2>4 DEF HistoriesSound
  <1>7. FramesTrue'
    <2>1. \A w \in work' : \A c \in w.to : TrueTo(w.sends, c)'
      BY <1>2, <1>3, TrueStays DEF FramesTrue
    <2>2. \A v \in Users : \A k \in DOMAIN down'[v] : v # u
      BY <1>4
    <2>3. ASSUME NEW v \in Users, NEW k \in DOMAIN down'[v] PROVE TrueTo(down[v][k], Now(v))'
      <3>1. v # u /\ sock'[v] = sock[v] /\ down'[v] = down[v]
        BY <1>4, <2>2
      <3>2. TrueTo(down[v][k], Now(v))
        BY <1>3, <3>1 DEF FramesTrue
      <3> QED
        BY <1>2, <3>1, <3>2 DEF TrueTo, Now
    <2>4. ASSUME NEW v \in Users, NEW k \in DOMAIN up'[v], up'[v][k].event = "chat-delete" PROVE up'[v][k].id \in DOMAIN echoes'
      <3>1. up'[v] = up[v]
        BY <1>4
      <3> QED
        BY <1>2, <1>3, <2>4, <3>1 DEF FramesTrue
    <2> QED
      BY <2>1, <2>3, <2>4 DEF FramesTrue
  <1>8. \A c : WasIn(c) => WasIn(c)'
    <2> SUFFICES ASSUME NEW c, WasIn(c) PROVE WasIn(c)'
      OBVIOUS
    <2>1. c \in Socket /\ c[1] \in Users /\ c[2] \in Nat /\ c[2] <= sock[c[1]].n
      BY DEF WasIn, Socket
    <2>2. CASE c[1] = u
      <3>1. sock[u].n \in Nat /\ s.n \in Nat /\ s.is \in {"closed", "open"}
        BY <1>1, <1>3 DEF WiresTyped
      <3>2. c[2] <= s.n
        BY <1>1, <2>1, <2>2, <3>1
      <3>3. s.is = "open" => c[2] # s.n
        BY <1>1, <2>1, <2>2, <3>1
      <3>4. c = <<u, s.n>> => c[2] = s.n
        OBVIOUS
      <3> QED
        BY <1>4, <2>1, <2>2, <3>2, <3>3, <3>4 DEF WasIn, Now
    <2>3. CASE c[1] # u
      BY <1>4, <2>1, <2>3 DEF WasIn, Now
    <2> QED
      BY <2>2, <2>3
  <1>9. SocketsTrue'
    BY <1>2, <1>3, <1>8 DEF SocketsTrue
  <1>10. ASSUME NEW v \in Users PROVE Follows(v)' /\ PageTrue(v)'
    <2>1. CASE v = u
      <3>1. ~In(u)'
        BY <1>1, <1>4 DEF In
      <3>2. DOMAIN down'[u] = {}
        BY <1>4
      <3> QED
        BY <2>1, <3>1, <3>2 DEF Follows, PageTrue
    <2>2. CASE v # u
      <3>1. Follows(v) /\ PageTrue(v)
        BY DEF ChatInv
      <3>2. Undisturbed(v) /\ down'[v] = down[v] /\ \A event, i : ToSend(v, event, i)' <=> ToSend(v, event, i)
        BY <1>2, <1>4, <2>2 DEF Undisturbed, In, ToSend, Now, Shows, Pending
      <3> QED
        BY <1>3, <3>1, <3>2, UndisturbedKeeps
    <2> QED
      BY <2>1, <2>2
  <1> QED
    BY <1>5, <1>6, <1>7, <1>9, <1>10 DEF ChatInv, ChatBase

\* The page alone moves.
Local == UNCHANGED <<sock, room, work, down, load, echoes, erased, overtaken, crossed>>

\* What the user asks, and what becomes of the entries that are not echoed.
LEMMA LocalKeeps ==
    ASSUME ChatInv, Local, HistoriesSound', up' \in [Users -> Seq(Ask)],
           \A v \in Users : \A k \in DOMAIN up'[v] :
                up'[v][k].event = "chat-delete" => up'[v][k].id \in DOMAIN echoes,
           \A v \in Users, i \in DOMAIN echoes :
                /\ Shows(v, i)' <=> Shows(v, i)
                /\ Pending(list[v], echoes[i].m) = {} => Pending(list'[v], echoes[i].m) = {}
    PROVE  ChatInv'
  <1>1. WiresTyped /\ FramesTrue /\ SocketsTrue
    BY DEF ChatInv, ChatBase
  <1>2. WiresTyped'
    BY <1>1 DEF Local, WiresTyped
  <1>3. FramesTrue'
    <2>1. \A w \in work' : \A c \in w.to : TrueTo(w.sends, c)'
      BY <1>1, TrueStays DEF FramesTrue, Local
    <2>2. \A v \in Users : \A k \in DOMAIN down'[v] : TrueTo(down[v][k], Now(v))'
      BY <1>1 DEF FramesTrue, TrueTo, Now, Local
    <2> QED
      BY <2>1, <2>2 DEF FramesTrue, Local
  <1>4. SocketsTrue'
    BY <1>1 DEF SocketsTrue, WasIn, Now, Local
  <1>5. ASSUME NEW v \in Users PROVE Follows(v)' /\ PageTrue(v)'
    <2>1. Follows(v) /\ PageTrue(v)
      BY DEF ChatInv
    <2>2. Undisturbed(v) /\ down'[v] = down[v] /\ \A event, i : ToSend(v, event, i)' <=> ToSend(v, event, i)
      BY DEF Undisturbed, In, ToSend, Now, Local
    <2> QED
      BY <1>1, <2>1, <2>2, UndisturbedKeeps
  <1> QED
    BY <1>2, <1>3, <1>4, <1>5 DEF ChatInv, ChatBase

\* A message takes the place of what is pending of it.
LEMMA PatchDoes ==
    ASSUME HistoriesSound, NEW u, u \in Users, NEW m, NEW e, e \in Entry, e.id = 0, e.m = m, Patch(u, m, e)
    PROVE  /\ DOMAIN list' = Users /\ \A v \in Users : v # u => list'[v] = list[v]
           /\ Sound(list'[u], Len(echoes))
           /\ \A i : i # 0 => (Shows(u, i)' <=> Shows(u, i))
           /\ \A k : Pending(list[u], k) = {} => Pending(list'[u], k) = {}
  <1>1. /\ list' = [list EXCEPT ![u] = IF Pending(list[u], m) = {} THEN list[u] ELSE (list[u] \ Pending(list[u], m)) \union {e}]
        /\ Sound(list[u], Len(echoes)) /\ DOMAIN list = Users
    BY DEF Patch, HistoriesSound
  <1>2. CASE Pending(list[u], m) = {}
    <2>1. \A v \in Users : list'[v] = list[v]
      BY <1>1, <1>2
    <2> QED
      BY <1>1, <2>1 DEF Shows
  <1>3. CASE Pending(list[u], m) # {}
    <2>1. list'[u] = (list[u] \ Pending(list[u], m)) \union {e} /\ DOMAIN list' = Users /\ \A v \in Users : v # u => list'[v] = list[v]
      BY <1>1, <1>3
    <2>2. Sound({e}, Len(echoes))
      <3>1. \A o \in list[u] : o.id <= Len(echoes)
        BY <1>1 DEF Sound
      <3>2. \E o \in list[u] : o.id = 0
        BY <1>3 DEF Pending
      <3>3. e.id <= Len(echoes)
        BY <3>1, <3>2
      <3> QED
        BY <3>3, SoundOne
    <2>3. Sound(list'[u], Len(echoes))
      <3>1. Sound(list[u] \ Pending(list[u], m), Len(echoes))
        BY <1>1, SoundPart
      <3> QED
        BY <2>1, <2>2, <3>1, SoundUnion
    <2>4. \A i : i # 0 => (Shows(u, i)' <=> Shows(u, i))
      BY <2>1 DEF Shows, Pending
    <2>5. \A k : Pending(list[u], k) = {} => Pending(list'[u], k) = {}
      BY <1>3, <2>1 DEF Pending
    <2> QED
      BY <2>1, <2>3, <2>4, <2>5
  <1> QED
    BY <1>2, <1>3

\* Local steps that leave the list, or patch it.
LEMMA PageKeeps ==
    ASSUME ChatInv, NEW u, u \in Users,
           \/ Persist(u)
           \/ \E e \in list[u] : AskDelete(u, e)
           \/ \E m \in Msgs : AuthorOf[m] = u /\ (UploadEnds(m) \/ RetryMessage(m) \/ Ages(m))
    PROVE  ChatInv'
  <1>1. WiresTyped /\ HistoriesSound /\ FramesTrue /\ Local
    BY DEF ChatInv, ChatBase, Persist, AskDelete, UploadEnds, RetryMessage, Ages, Local, browser, wires, histories
  <1>2. up \in [Users -> Seq(Ask)] /\ \A v \in Users : \A k \in DOMAIN up[v] :
            up[v][k].event = "chat-delete" => up[v][k].id \in DOMAIN echoes
    BY <1>1 DEF WiresTyped, FramesTrue
  <1>3. /\ Len(echoes) \in Nat /\ DOMAIN echoes = 1 .. Len(echoes) /\ 0 \notin DOMAIN echoes
        /\ MaxEchoes \in Nat /\ echoes' = echoes /\ load' = load
    BY <1>1, ChatConstants DEF WiresTyped, Local
  <1>4. ASSUME list' = list, up' = up, db' = db \/ db' = [db EXCEPT ![u] = Saved(list[u])]
        PROVE  ChatInv'
    <2>1. Sound(Saved(list[u]), Len(echoes))
      BY <1>1, SavedIs DEF HistoriesSound
    <2>2. HistoriesSound'
      BY <1>1, <1>3, <1>4, <2>1 DEF HistoriesSound
    <2>3. \A v \in Users, i \in DOMAIN echoes : (Shows(v, i)' <=> Shows(v, i))
            /\ (Pending(list[v], echoes[i].m) = {} => Pending(list'[v], echoes[i].m) = {})
      BY <1>4 DEF Shows
    <2> QED
      BY <1>1, <1>2, <1>4, <2>2, <2>3, LocalKeeps
  <1>5. CASE Persist(u)
    BY <1>4, <1>5 DEF Persist, wires
  <1>6. ASSUME NEW m \in Msgs, Ages(m) PROVE ChatInv'
    BY <1>4, <1>6 DEF Ages, wires
  <1>7. ASSUME NEW e \in list[u], AskDelete(u, e) PROVE ChatInv'
    <2> DEFINE frames == <<[event |-> "chat-delete", id |-> e.id]>>
    <2>1. e.id \in DOMAIN echoes
      <3>1. e \in Entry /\ e.id <= Len(echoes) /\ e.id # 0
        BY <1>1, <1>7 DEF HistoriesSound, Sound, AskDelete
      <3>2. e.id \in 0 .. MaxEchoes
        BY <3>1, EntryIs
      <3> QED
        BY <1>3, <3>1, <3>2
    <2>2. frames \in Seq(Ask) /\ \A j \in DOMAIN frames : frames[j].id \in DOMAIN echoes
      <3>1. [event |-> "chat-delete", id |-> e.id] \in Ask
        BY <1>3, <2>1 DEF Ask
      <3> QED
        BY <2>1, <3>1
    <2>3. up' = Sent(u, sock[u].via, frames) /\ list' = list /\ db' = db
      BY <1>7 DEF AskDelete, browser
    <2> HIDE DEF frames
    <2>4. up' \in [Users -> Seq(Ask)] /\ \A v \in Users : \A k \in DOMAIN up'[v] :
            up'[v][k].event = "chat-delete" => up'[v][k].id \in DOMAIN echoes
      BY <1>1, <1>2, <2>2, <2>3, SentIs
    <2>5. HistoriesSound'
      BY <1>1, <1>3, <2>3 DEF HistoriesSound
    <2>6. \A v \in Users, i \in DOMAIN echoes : (Shows(v, i)' <=> Shows(v, i))
            /\ (Pending(list[v], echoes[i].m) = {} => Pending(list'[v], echoes[i].m) = {})
      BY <2>3 DEF Shows
    <2> QED
      BY <1>1, <2>4, <2>5, <2>6, LocalKeeps
  <1>8. ASSUME NEW m \in Msgs, AuthorOf[m] = u, NEW e \in Entry, e.id = 0, e.m = m, Patch(u, m, e),
               \/ up' = up
               \/ e.file = "stored" /\ up' = Sent(u, upload[m], <<ChatSend(e)>>),
               db' = db \/ db' = [db EXCEPT ![u] = Saved(list'[u])]
        PROVE  ChatInv'
    <2>1. /\ DOMAIN list' = Users /\ \A v \in Users : v # u => list'[v] = list[v]
          /\ Sound(list'[u], Len(echoes))
          /\ \A i : i # 0 => (Shows(u, i)' <=> Shows(u, i))
          /\ \A k : Pending(list[u], k) = {} => Pending(list'[u], k) = {}
      BY <1>1, <1>8, PatchDoes
    <2>2. PICK l : l = list'[u]
      OBVIOUS
    <2>3. Sound(Saved(l), Len(echoes)) /\ (db' = db \/ db' = [db EXCEPT ![u] = Saved(l)])
      BY <1>8, <2>1, <2>2, SavedIs
    <2>4. HistoriesSound'
      BY <1>1, <1>3, <2>1, <2>3 DEF HistoriesSound
    <2>5. up' \in [Users -> Seq(Ask)] /\ \A v \in Users : \A k \in DOMAIN up'[v] :
            up'[v][k].event = "chat-delete" => up'[v][k].id \in DOMAIN echoes
      <3>1. CASE up' = up
        BY <1>2, <3>1
      <3>2. CASE e.file = "stored" /\ up' = Sent(u, upload[m], <<ChatSend(e)>>)
        <4> DEFINE f == ChatSend(e)
        <4>1. f \in Ask /\ f.event = "chat-send"
          BY <1>8, <3>2 DEF ChatSend, Ask
        <4> HIDE DEF f
        <4>2. <<f>> \in Seq(Ask) /\ \A j \in DOMAIN <<f>> : <<f>>[j] = f
          BY <4>1
        <4>3. PICK q : q = <<f>>
          OBVIOUS
        <4>4. up' = Sent(u, upload[m], q) /\ q \in Seq(Ask) /\ \A j \in DOMAIN q : q[j].event = "chat-send"
          BY <3>2, <4>1, <4>2, <4>3 DEF f
        <4>5. /\ up' \in [Users -> Seq(Ask)]
              /\ \A v \in Users : \A k \in DOMAIN up'[v] :
                    (k \in DOMAIN up[v] /\ up'[v][k] = up[v][k]) \/ \E j \in DOMAIN q : up'[v][k] = q[j]
          BY <1>1, <4>4, SentIs
        <4> QED
          BY <1>2, <4>4, <4>5
      <3> QED
        BY <1>8, <3>1, <3>2
    <2>6. \A v \in Users, i \in DOMAIN echoes : (Shows(v, i)' <=> Shows(v, i))
            /\ (Pending(list[v], echoes[i].m) = {} => Pending(list'[v], echoes[i].m) = {})
      BY <1>3, <2>1 DEF Shows
    <2> QED
      BY <1>1, <2>4, <2>5, <2>6, LocalKeeps
  <1>9. \A m \in Msgs : Stored(m) \in Entry /\ Stored(m).id = 0 /\ Stored(m).m = m /\ Stored(m).file = "stored"
    BY <1>3 DEF Stored, Entry
  <1>10. ASSUME NEW m \in Msgs, AuthorOf[m] = u, UploadEnds(m) PROVE ChatInv'
    <2>1. db' = [db EXCEPT ![u] = Saved(list'[u])]
      BY <1>10 DEF UploadEnds, Saves
    <2>2. CASE Patch(u, m, Stored(m)) /\ up' = Sent(u, upload[m], <<ChatSend(Stored(m))>>)
      BY <1>8, <1>9, <1>10, <2>1, <2>2
    <2>3. CASE Patch(u, m, [Stored(m) EXCEPT !.file = "temporary", !.failed = TRUE]) /\ up' = up
      <3>1. LET e == [Stored(m) EXCEPT !.file = "temporary", !.failed = TRUE] IN e \in Entry /\ e.id = 0 /\ e.m = m
        <4>1. PICK r \in Entry : r = Stored(m)
          BY <1>9
        <4>2. LET e == [r EXCEPT !.file = "temporary", !.failed = TRUE] IN e \in Entry /\ e.id = r.id /\ e.m = r.m
          BY DEF Entry
        <4> QED
          BY <1>9, <4>1, <4>2
      <3> QED
        BY <1>8, <1>10, <2>1, <2>3, <3>1
    <2> QED
      BY <1>10, <2>2, <2>3 DEF UploadEnds
  <1>11. ASSUME NEW m \in Msgs, AuthorOf[m] = u, RetryMessage(m) PROVE ChatInv'
    <2>1. LET e == [Stored(m) EXCEPT !.file = "temporary"] IN e \in Entry /\ e.id = 0 /\ e.m = m
      <3>1. PICK r \in Entry : r = Stored(m)
        BY <1>9
      <3>2. LET e == [r EXCEPT !.file = "temporary"] IN e \in Entry /\ e.id = r.id /\ e.m = r.m
        BY DEF Entry
      <3> QED
        BY <1>9, <3>1, <3>2
    <2> QED
      BY <1>8, <1>11, <2>1 DEF RetryMessage, wires
  <1> QED
    BY <1>5, <1>6, <1>7, <1>10, <1>11

\* A new message is no one's yet.
LEMMA ComposeKeeps ==
    ASSUME ChatInv, NEW m, m \in Msgs, NEW file, file \in {"none", "temporary"}, Compose(m, file)
    PROVE  ChatInv'
  <1> DEFINE u == AuthorOf[m]
             e == [m |-> m, id |-> 0, file |-> file, failed |-> FALSE]
  <1>1. WiresTyped /\ HistoriesSound /\ FramesTrue /\ Local
    BY DEF ChatInv, ChatBase, Compose, Local, histories
  <1>2. up \in [Users -> Seq(Ask)] /\ \A v \in Users : \A k \in DOMAIN up[v] :
            up[v][k].event = "chat-delete" => up[v][k].id \in DOMAIN echoes
    BY <1>1 DEF WiresTyped, FramesTrue
  <1>3. /\ Len(echoes) \in Nat /\ DOMAIN echoes = 1 .. Len(echoes) /\ 0 \notin DOMAIN echoes
        /\ MaxEchoes \in Nat /\ echoes' = echoes /\ load' = load /\ u \in Users
    BY <1>1, ChatConstants DEF WiresTyped, Local
  <1>4. /\ list' = [list EXCEPT ![u] = list[u] \union {e}] /\ db' = [db EXCEPT ![u] = Saved(list'[u])]
        /\ \A i \in DOMAIN echoes : echoes[i].m # m
        /\ up' = up \/ (file = "none" /\ up' = Sent(u, sock[u].via, <<ChatSend(e)>>))
    BY DEF Compose, Saves
  <1>5. e \in Entry /\ e.id = 0 /\ e.m = m /\ e.file = file
    BY <1>3 DEF Entry
  <1> HIDE DEF u, e
  <1>6. list'[u] = list[u] \union {e} /\ \A v \in Users : v # u => list'[v] = list[v]
    BY <1>1, <1>3, <1>4 DEF HistoriesSound
  <1>7. Sound(list'[u], Len(echoes))
    <2>1. Sound({e}, Len(echoes))
      <3>1. e.id <= Len(echoes)
        BY <1>3, <1>5
      <3> QED
        BY <1>5, <3>1, SoundOne
    <2> QED
      BY <1>1, <1>3, <1>6, <2>1, SoundUnion DEF HistoriesSound
  <1>8. HistoriesSound'
    <2>1. PICK l, a : l = list'[u] /\ a = u
      OBVIOUS
    <2>2. Sound(Saved(l), Len(echoes))
      BY <1>7, <2>1, SavedIs
    <2>3. DOMAIN list' = Users /\ DOMAIN db' = Users /\ db' = [db EXCEPT ![a] = Saved(l)]
      BY <1>1, <1>4, <2>1 DEF HistoriesSound
    <2> QED
      BY <1>1, <1>3, <1>6, <1>7, <2>1, <2>2, <2>3 DEF HistoriesSound
  <1>9. up' \in [Users -> Seq(Ask)] /\ \A v \in Users : \A k \in DOMAIN up'[v] :
            up'[v][k].event = "chat-delete" => up'[v][k].id \in DOMAIN echoes
    <2>1. CASE up' = up
      BY <1>2, <2>1
    <2>2. CASE file = "none" /\ up' = Sent(u, sock[u].via, <<ChatSend(e)>>)
      <3>1. PICK f : f = ChatSend(e)
        OBVIOUS
      <3>2. f \in Ask /\ f.event = "chat-send"
        BY <1>5, <2>2, <3>1 DEF ChatSend, Ask
      <3>3. PICK q : q = <<f>>
        OBVIOUS
      <3>4. q \in Seq(Ask) /\ \A j \in DOMAIN q : q[j].event = "chat-send"
        BY <3>2, <3>3
      <3>5. /\ up' \in [Users -> Seq(Ask)]
            /\ \A v \in Users : \A k \in DOMAIN up'[v] :
                (k \in DOMAIN up[v] /\ up'[v][k] = up[v][k]) \/ \E j \in DOMAIN q : up'[v][k] = q[j]
        <4>1. PICK a : a = u
          OBVIOUS
        <4>2. a \in Users /\ up' = Sent(a, sock[a].via, q)
          BY <1>3, <2>2, <3>1, <3>3, <4>1
        <4> QED
          BY <1>1, <3>4, <4>2, SentIs
      <3> QED
        BY <1>2, <3>4, <3>5
    <2> QED
      BY <1>4, <2>1, <2>2
  <1>10. \A v \in Users, i \in DOMAIN echoes : (Shows(v, i)' <=> Shows(v, i))
            /\ (Pending(list[v], echoes[i].m) = {} => Pending(list'[v], echoes[i].m) = {})
    <2> SUFFICES ASSUME NEW v \in Users, NEW i \in DOMAIN echoes
                 PROVE  /\ Shows(v, i)' <=> Shows(v, i)
                        /\ Pending(list[v], echoes[i].m) = {} => Pending(list'[v], echoes[i].m) = {}
      OBVIOUS
    <2>1. i # 0 /\ echoes[i].m # m
      BY <1>3, <1>4
    <2>2. CASE v = u
      BY <1>5, <1>6, <2>1, <2>2 DEF Shows, Pending
    <2>3. CASE v # u
      BY <1>6, <2>3 DEF Shows
    <2> QED
      BY <2>2, <2>3
  <1> QED
    BY <1>1, <1>8, <1>9, <1>10, LocalKeeps

\* A socket enters the room before anything is said to it.
LEMMA EnterKeeps ==
    ASSUME ChatInv, NEW u, u \in Users, Enter(u)
    PROVE  ChatInv'
  <1>1. WiresTyped /\ HistoriesSound /\ FramesTrue /\ SocketsTrue
    BY DEF ChatInv, ChatBase
  <1>2. /\ sock' = [sock EXCEPT ![u].is = "entered"] /\ sock[u].is = "open"
        /\ UNCHANGED <<up, work, down, list, db, load, echoes, erased, overtaken, crossed>>
    BY DEF Enter, browser, histories
  <1>3. /\ \A v \in Users : v # u => sock'[v] = sock[v]
        /\ sock'[u] \in [n : Nat, is : {"closed", "open", "entered", "greeted"}, via : {"lurker", "voice"}]
        /\ \A v \in Users : sock'[v].n = sock[v].n /\ sock'[u].is = "entered"
        /\ sock' \in [Users -> [n : Nat, is : {"closed", "open", "entered", "greeted"}, via : {"lurker", "voice"}]]
    BY <1>1, <1>2 DEF WiresTyped
  <1>4. \A v \in Users : Now(v)' = Now(v)
    BY <1>3 DEF Now
  <1>5. \A c : WasIn(c) => WasIn(c)'
    <2> SUFFICES ASSUME NEW c, WasIn(c) PROVE WasIn(c)'
      OBVIOUS
    <2>1. c \in Socket /\ c[1] \in Users /\ c[2] <= sock[c[1]].n /\ (c = Now(c[1]) => sock[c[1]].is # "open")
      BY DEF WasIn, Socket
    <2>2. c[1] # u => sock'[c[1]] = sock[c[1]]
      BY <1>3, <2>1
    <2>3. sock'[c[1]].n = sock[c[1]].n /\ Now(c[1])' = Now(c[1])
      BY <1>3, <1>4, <2>1
    <2>4. c = Now(c[1]) => sock'[c[1]].is # "open"
      BY <1>3, <2>1, <2>2
    <2> QED
      BY <2>1, <2>3, <2>4 DEF WasIn
  <1>6. room' \subseteq room \union {Now(u)} /\ Now(u) \in Socket /\ WasIn(Now(u))'
    <2>1. room' \subseteq room \union {Now(u)}
      BY DEF Enter
    <2>2. PICK c : c = Now(u)
      OBVIOUS
    <2>3. c \in Socket /\ c[1] = u /\ c[2] = sock[u].n /\ sock[u].n \in Nat
      BY <1>1, <2>2 DEF Now, Socket, WiresTyped
    <2>4. WasIn(c)'
      BY <1>3, <2>3 DEF WasIn
    <2>5. WasIn(Now(u))'
      BY <1>4, <2>2, <2>4
    <2> QED
      BY <2>1, <2>2, <2>3, <2>5
  <1>7. WiresTyped' /\ HistoriesSound'
    BY <1>1, <1>2, <1>3, <1>6 DEF WiresTyped, HistoriesSound
  <1>8. FramesTrue'
    <2>1. \A w \in work' : \A c \in w.to : TrueTo(w.sends, c)'
      BY <1>1, <1>2, TrueStays DEF FramesTrue
    <2>2. \A v \in Users : \A k \in DOMAIN down'[v] : TrueTo(down[v][k], Now(v))'
      BY <1>1, <1>2, <1>4 DEF FramesTrue, TrueTo
    <2> QED
      BY <1>1, <1>2, <2>1, <2>2 DEF FramesTrue
  <1>9. SocketsTrue'
    <2>1. \A c \in room' : WasIn(c)'
      <3> SUFFICES ASSUME NEW c \in room' PROVE WasIn(c)'
        OBVIOUS
      <3>1. CASE c \in room
        BY <1>1, <1>5, <3>1 DEF SocketsTrue
      <3>2. CASE c = Now(u)
        <4>1. c = Now(u)'
          BY <1>4, <3>2
        <4> QED
          BY <1>6, <4>1
      <3> QED
        BY <1>6, <3>1, <3>2
    <2> QED
      BY <1>1, <1>2, <1>5, <2>1 DEF SocketsTrue
  <1>10. ASSUME NEW v \in Users PROVE Follows(v)' /\ PageTrue(v)'
    <2>1. Follows(v) /\ PageTrue(v)
      BY DEF ChatInv
    <2>2. \A event, i : ToSend(v, event, i)' <=> ToSend(v, event, i)
      BY <1>2, <1>4 DEF ToSend
    <2>3. CASE v = u
      <3>1. Follows(u)'
        BY <1>2, <2>1, <2>2, <2>3 DEF Follows
      <3>2. Heard(u)' = {}
        <4>1. \A i \in DOMAIN echoes : Now(u) \notin echoes[i].to
          <5> SUFFICES ASSUME NEW i \in DOMAIN echoes, Now(u) \in echoes[i].to PROVE FALSE
            OBVIOUS
          <5>1. WasIn(Now(u))
            BY <1>1 DEF SocketsTrue
          <5>2. Now(u)[1] = u
            BY DEF Now
          <5> QED
            BY <1>2, <5>1, <5>2 DEF WasIn
        <4> QED
          BY <1>2, <1>4, <4>1 DEF Heard
      <3> QED
        BY <2>3, <3>1, <3>2 DEF PageTrue
    <2>4. CASE v # u
      <3>1. Undisturbed(v) /\ down'[v] = down[v]
        BY <1>2, <1>3, <2>4 DEF Undisturbed, In, Shows
      <3> QED
        BY <1>1, <2>1, <2>2, <3>1, UndisturbedKeeps
    <2> QED
      BY <2>3, <2>4
  <1> QED
    BY <1>7, <1>8, <1>9, <1>10 DEF ChatInv, ChatBase

LEMMA PartKeeps ==
    ASSUME ChatInv, NEW c, Part(c)
    PROVE  ChatInv'
  <1>1. WiresTyped /\ HistoriesSound /\ FramesTrue /\ SocketsTrue
    BY DEF ChatInv, ChatBase
  <1>2. /\ room' \subseteq room
        /\ UNCHANGED <<sock, up, work, down, list, db, load, echoes, erased, overtaken, crossed>>
    BY DEF Part, browser, histories
  <1>3. WiresTyped' /\ HistoriesSound'
    BY <1>1, <1>2 DEF WiresTyped, HistoriesSound
  <1>4. FramesTrue'
    BY <1>1, <1>2 DEF FramesTrue, TrueTo, Now
  <1>5. SocketsTrue'
    BY <1>1, <1>2 DEF SocketsTrue, WasIn, Now
  <1>6. ASSUME NEW v \in Users PROVE Follows(v)' /\ PageTrue(v)'
    <2>1. Follows(v) /\ PageTrue(v)
      BY DEF ChatInv
    <2>2. Undisturbed(v) /\ down'[v] = down[v] /\ \A event, i : ToSend(v, event, i)' <=> ToSend(v, event, i)
      BY <1>2 DEF Undisturbed, In, Shows, ToSend, Now
    <2> QED
      BY <1>1, <2>1, <2>2, UndisturbedKeeps
  <1> QED
    BY <1>3, <1>4, <1>5, <1>6 DEF ChatInv, ChatBase

\* A frame at the end of a queue.
LEMMA LastIs ==
    ASSUME NEW T, NEW q, q \in Seq(T), NEW f, f \in T
    PROVE  /\ Append(q, f) \in Seq(T) /\ Len(q) \in Nat /\ DOMAIN q = 1 .. Len(q)
           /\ DOMAIN Append(q, f) = 1 .. Len(q) + 1 /\ Append(q, f)[Len(q) + 1] = f
           /\ \A k \in DOMAIN q : Append(q, f)[k] = q[k]
           /\ \A k \in DOMAIN Append(q, f) : k \in DOMAIN q \/ k = Len(q) + 1
           /\ \A k \in DOMAIN q : k < Len(q) + 1 /\ k \in DOMAIN Append(q, f) /\ ~(Len(q) + 1 < k)
           /\ Len(q) + 1 \in DOMAIN Append(q, f) /\ ~(Len(q) + 1 < Len(q) + 1)
  <1>1. Append(q, f) \in Seq(T) /\ Len(q) \in Nat /\ DOMAIN q = 1 .. Len(q) /\ Len(Append(q, f)) = Len(q) + 1
        /\ Append(q, f)[Len(q) + 1] = f /\ \A k \in 1 .. Len(q) : Append(q, f)[k] = q[k]
    OBVIOUS
  <1>2. DOMAIN Append(q, f) = 1 .. Len(q) + 1
    BY <1>1
  <1> QED
    BY <1>1, <1>2

LEMMA GrownIs ==
    ASSUME NEW T, NEW q, q \in Seq(T), NEW f, f \in T, NEW p, p = Append(q, f)
    PROVE  /\ p \in Seq(T) /\ Len(q) + 1 \in DOMAIN p /\ p[Len(q) + 1] = f
           /\ \A k \in DOMAIN q : k \in DOMAIN p /\ p[k] = q[k]
           /\ \A k \in DOMAIN p : (k \in DOMAIN q /\ p[k] = q[k]) \/ (k = Len(q) + 1 /\ p[k] = f)
           /\ \A k \in DOMAIN p : ~(Len(q) + 1 < k)
  <1>1. /\ Append(q, f) \in Seq(T) /\ Len(q) \in Nat /\ DOMAIN q = 1 .. Len(q)
        /\ DOMAIN Append(q, f) = 1 .. Len(q) + 1 /\ Append(q, f)[Len(q) + 1] = f
        /\ \A k \in DOMAIN q : Append(q, f)[k] = q[k]
        /\ \A k \in DOMAIN q : k \in DOMAIN Append(q, f)
        /\ \A k \in DOMAIN Append(q, f) : k \in DOMAIN q \/ k = Len(q) + 1
        /\ Len(q) + 1 \in DOMAIN Append(q, f)
    BY LastIs
  <1> QED
    BY <1>1

\* The welcome says nothing.
LEMMA GreetKeeps ==
    ASSUME ChatInv, NEW u, u \in Users, Greet(u)
    PROVE  ChatInv'
  <1> DEFINE hi == [event |-> "welcome"]
             q == down[u]
  <1>1. WiresTyped /\ HistoriesSound /\ FramesTrue /\ SocketsTrue
    BY DEF ChatInv, ChatBase
  <1>2. /\ sock' = [sock EXCEPT ![u].is = "greeted"] /\ sock[u].is = "entered"
        /\ down' = [down EXCEPT ![u] = Append(q, hi)]
        /\ UNCHANGED <<up, room, work, list, db, load, echoes, erased, overtaken, crossed>>
    BY DEF Greet, browser, histories
  <1>3. /\ \A v \in Users : v # u => sock'[v] = sock[v] /\ down'[v] = down[v]
        /\ \A v \in Users : sock'[v].n = sock[v].n /\ (sock'[v].is = "open" => sock[v].is = "open")
        /\ sock'[u].is = "greeted" /\ down'[u] = Append(q, hi)
        /\ sock' \in [Users -> [n : Nat, is : {"closed", "open", "entered", "greeted"}, via : {"lurker", "voice"}]]
    BY <1>1, <1>2 DEF WiresTyped
  <1>4. \A v \in Users : Now(v)' = Now(v)
    BY <1>3 DEF Now
  <1>5. hi \in Downstream /\ q \in Seq(Downstream) /\ hi.event = "welcome"
    BY <1>1 DEF WiresTyped, Downstream
  <1> HIDE DEF hi
  <1>6. /\ Append(q, hi) \in Seq(Downstream)
        /\ \A k \in DOMAIN Append(q, hi) : (k \in DOMAIN q /\ Append(q, hi)[k] = q[k]) \/ Append(q, hi)[k] = hi
        /\ \A k \in DOMAIN q : k \in DOMAIN Append(q, hi) /\ Append(q, hi)[k] = q[k]
    BY <1>5, LastIs
  <1>7. WiresTyped' /\ HistoriesSound'
    <2>1. down' \in [Users -> Seq(Downstream)]
      BY <1>1, <1>2, <1>6 DEF WiresTyped
    <2> QED
      BY <1>1, <1>2, <1>3, <2>1 DEF WiresTyped, HistoriesSound
  <1>8. FramesTrue'
    <2>1. \A w \in work' : \A c \in w.to : TrueTo(w.sends, c)'
      BY <1>1, <1>2, TrueStays DEF FramesTrue
    <2>2. ASSUME NEW v \in Users, NEW k \in DOMAIN down'[v] PROVE TrueTo(down[v][k], Now(v))'
      <3>1. (k \in DOMAIN down[v] /\ down'[v][k] = down[v][k]) \/ down'[v][k].event = "welcome"
        BY <1>3, <1>5, <1>6
      <3> QED
        BY <1>1, <1>2, <1>4, <3>1 DEF FramesTrue, TrueTo
    <2> QED
      BY <1>1, <1>2, <2>1, <2>2 DEF FramesTrue
  <1>9. SocketsTrue'
    <2>1. \A c : WasIn(c) => WasIn(c)'
      <3> SUFFICES ASSUME NEW c, WasIn(c) PROVE WasIn(c)'
        OBVIOUS
      <3>1. c \in Socket /\ c[1] \in Users
        BY DEF WasIn, Socket
      <3> QED
        BY <1>3, <1>4, <3>1 DEF WasIn
    <2> QED
      BY <1>1, <1>2, <2>1 DEF SocketsTrue
  <1>10. ASSUME NEW v \in Users PROVE Follows(v)' /\ PageTrue(v)'
    <2>1. Follows(v) /\ PageTrue(v)
      BY DEF ChatInv
    <2>2. \A event, i : ToSend(v, event, i)' <=> ToSend(v, event, i)
      BY <1>2, <1>4 DEF ToSend
    <2>3. Undisturbed(v)
      BY <1>2, <1>3 DEF Undisturbed, In, Shows
    <2>4. CASE v = u
      <3>1. \A event \in {"chat", "chat-deleted"} : \A i : OnWay(u, event, i)' <=> OnWay(u, event, i)
        BY <1>3, <1>5, <1>6 DEF OnWay
      <3>2. \A i \in DOMAIN echoes : \A event \in {"chat", "chat-deleted"} : Due(v, event, i)' <=> Due(v, event, i)
        BY <2>2, <2>4, <3>1 DEF Due
      <3>3. Follows(u)'
        <4> SUFFICES ASSUME NEW k \in DOMAIN down'[u], NEW i, i = down'[u][k].id,
                            down'[u][k].event = "chat-deleted", <<u, i>> \notin overtaken'
                     PROVE  /\ ~ToSend(u, "chat", i)'
                            /\ \A j \in DOMAIN down'[u] : k < j => ~(down'[u][j].event = "chat" /\ down'[u][j].id = i)
          BY DEF Follows
        <4>1. k \in DOMAIN q /\ down'[u][k] = q[k]
          BY <1>3, <1>5, <1>6
        <4>2. ~ToSend(u, "chat", i) /\ \A j \in DOMAIN q : k < j => ~(q[j].event = "chat" /\ q[j].id = i)
          BY <1>2, <2>1, <2>4, <4>1 DEF Follows
        <4>3. \A j \in DOMAIN down'[u] : down'[u][j].event = "chat" => j \in DOMAIN q /\ down'[u][j] = q[j]
          BY <1>3, <1>5, <1>6
        <4>4. ~ToSend(u, "chat", i)'
          BY <2>2, <2>4, <4>2
        <4> QED
          BY <4>2, <4>3, <4>4
      <3> QED
        BY <2>1, <2>3, <2>4, <3>2, <3>3, PageStays
    <2>5. CASE v # u
      BY <1>1, <1>3, <2>1, <2>2, <2>3, <2>5, UndisturbedKeeps
    <2> QED
      BY <2>4, <2>5
  <1> QED
    BY <1>7, <1>8, <1>9, <1>10 DEF ChatInv, ChatBase

\* A broadcast reaches one more recipient: what it was about to be sent is on its way, unless
\* its socket is gone.
LEMMA SendToKeeps ==
    ASSUME ChatInv, NEW w, NEW c, SendTo(w, c)
    PROVE  ChatInv'
  <1> DEFINE u == c[1]
             q == down[u]
             f == w.sends
             lands == c = Now(u) /\ sock[u].is # "closed"
  <1>1. WiresTyped /\ HistoriesSound /\ FramesTrue /\ SocketsTrue
    BY DEF ChatInv, ChatBase
  <1>2. /\ w \in work /\ c \in w.to
        /\ work' = (work \ {w}) \union IF w.to = {c} THEN {} ELSE {[w EXCEPT !.to = w.to \ {c}]}
        /\ down' = IF lands THEN [down EXCEPT ![u] = Append(q, f)] ELSE down
        /\ UNCHANGED <<sock, up, room, list, db, load, echoes, erased, crossed>>
        /\ \/ overtaken' = overtaken
           \/ f.event = "chat-deleted" /\ overtaken' = overtaken \union {<<u, f.id>>}
        /\ f.event = "chat-deleted" => \/ <<u, f.id>> \in overtaken'
                                       \/ \A v \in work : ~(v.sends.event = "chat" /\ v.sends.id = f.id /\ c \in v.to)
    BY DEF SendTo, browser
  <1>3. /\ w.by \in Socket /\ w.to \subseteq Socket /\ f \in Sending /\ f \in Downstream /\ c \in Socket /\ u \in Users
        /\ w = [by |-> w.by, to |-> w.to, sends |-> w.sends]
        /\ f.event \in {"chat", "chat-deleted"}
    <2>1. w \in [by : Socket, to : SUBSET Socket, sends : Sending]
      BY <1>1, <1>2 DEF WiresTyped
    <2>2. w.by \in Socket /\ w.to \subseteq Socket /\ f \in Sending /\ w = [by |-> w.by, to |-> w.to, sends |-> w.sends]
      BY <2>1
    <2>3. f.event \in {"chat", "chat-deleted"} /\ f \in Downstream
      BY <2>2 DEF Sending, Downstream
    <2>4. c \in Socket /\ c[1] \in Users
      BY <1>2, <2>2 DEF Socket
    <2> QED
      BY <2>2, <2>3, <2>4
  <1>4. PICK less : less = [by |-> w.by, to |-> w.to \ {c}, sends |-> w.sends]
    OBVIOUS
  <1>5. /\ less \in [by : Socket, to : SUBSET Socket, sends : Sending]
        /\ less.to = w.to \ {c} /\ less.sends = f
        /\ work' \subseteq (work \ {w}) \union {less} /\ (work \ {w}) \subseteq work'
        /\ w.to # {c} => less \in work'
    <2>1. [w EXCEPT !.to = w.to \ {c}] = less
      BY <1>3, <1>4
    <2>2. less \in [by : Socket, to : SUBSET Socket, sends : Sending] /\ less.to = w.to \ {c} /\ less.sends = f
      BY <1>3, <1>4
    <2> QED
      BY <1>2, <2>1, <2>2
  <1>6. Len(q) \in Nat /\ q \in Seq(Downstream)
    BY <1>1, <1>3 DEF WiresTyped
  <1>7. /\ \A v \in Users : v # u => down'[v] = down[v]
        /\ down'[u] = IF lands THEN Append(q, f) ELSE q
        /\ down' \in [Users -> Seq(Downstream)]
    <2>1. PICK g : g = f
      OBVIOUS
    <2>2. g \in Downstream /\ down \in [Users -> Seq(Downstream)]
      BY <1>1, <1>3, <2>1 DEF WiresTyped
    <2>3. PICK p : p = Append(q, g)
      OBVIOUS
    <2>4. p \in Seq(Downstream)
      BY <1>6, <2>2, <2>3, GrownIs
    <2>5. down' = IF lands THEN [down EXCEPT ![u] = p] ELSE down
      BY <1>2, <2>1, <2>3
    <2> HIDE DEF lands
    <2> QED
      BY <1>3, <2>1, <2>2, <2>3, <2>4, <2>5
  <1>16. ASSUME NEW v \in Users
         PROVE  /\ \A k \in DOMAIN down[v] : k \in DOMAIN down'[v] /\ down'[v][k] = down[v][k]
                /\ \A k \in DOMAIN down'[v] :
                    \/ k \in DOMAIN down[v] /\ down'[v][k] = down[v][k]
                    \/ v = u /\ lands /\ k = Len(q) + 1 /\ down'[v][k] = f
                /\ v = u /\ lands => /\ Len(q) + 1 \in DOMAIN down'[v] /\ down'[v][Len(q) + 1] = f
                                    /\ \A k \in DOMAIN down'[v] : ~(Len(q) + 1 < k)
    <2>1. CASE v = u /\ lands
      <3>1. PICK g, p, r : g = f /\ p = down'[u] /\ r = q
        OBVIOUS
      <3>2. g \in Downstream /\ r \in Seq(Downstream) /\ p = Append(r, g)
        BY <1>3, <1>6, <1>7, <2>1, <3>1
      <3>3. /\ Len(r) + 1 \in DOMAIN p /\ p[Len(r) + 1] = g
            /\ \A k \in DOMAIN r : k \in DOMAIN p /\ p[k] = r[k]
            /\ \A k \in DOMAIN p : (k \in DOMAIN r /\ p[k] = r[k]) \/ (k = Len(r) + 1 /\ p[k] = g)
            /\ \A k \in DOMAIN p : ~(Len(r) + 1 < k)
        BY <3>2, GrownIs
      <3> QED
        BY <2>1, <3>1, <3>3
    <2>2. CASE ~(v = u /\ lands)
      BY <1>7, <2>2
    <2> QED
      BY <2>1, <2>2
  <1>8. \A v \in Users : Now(v)' = Now(v) /\ Now(v)[1] = v
    BY <1>2 DEF Now
  <1>9. WiresTyped' /\ HistoriesSound'
    BY <1>1, <1>2, <1>5, <1>7 DEF WiresTyped, HistoriesSound
  <1>10. FramesTrue'
    <2>1. ASSUME NEW o \in work', NEW d \in o.to PROVE TrueTo(o.sends, d)'
      <3>1. TrueTo(o.sends, d)
        BY <1>1, <1>2, <1>5 DEF FramesTrue
      <3> QED
        BY <1>2, <3>1, TrueStays
    <2>2. ASSUME NEW v \in Users, NEW k \in DOMAIN down'[v] PROVE TrueTo(down[v][k], Now(v))'
      <3>1. \/ k \in DOMAIN down[v] /\ down'[v][k] = down[v][k]
            \/ Now(v) = c /\ down'[v][k] = f
        BY <1>16
      <3>2. \E d : d = down'[v][k] /\ TrueTo(d, Now(v))
        BY <1>1, <1>2, <3>1 DEF FramesTrue
      <3> QED
        BY <1>2, <1>8, <3>2 DEF TrueTo
    <2> QED
      BY <1>1, <1>2, <2>1, <2>2 DEF FramesTrue
  <1>11. SocketsTrue'
    BY <1>1, <1>2 DEF SocketsTrue, WasIn, Now
  <1>12. ASSUME NEW v \in Users, NEW event, NEW i
         PROVE  /\ ToSend(v, event, i)' => ToSend(v, event, i)
                /\ ToSend(v, event, i) => ToSend(v, event, i)' \/ (Now(v) = c /\ f.event = event /\ f.id = i)
    <2>1. ToSend(v, event, i)' => ToSend(v, event, i)
      BY <1>2, <1>5, <1>8 DEF ToSend
    <2>2. ASSUME ToSend(v, event, i), ~(Now(v) = c /\ f.event = event /\ f.id = i) PROVE ToSend(v, event, i)'
      <3>1. PICK o \in work : Now(v) \in o.to /\ o.sends.event = event /\ o.sends.id = i
        BY <2>2 DEF ToSend
      <3>2. CASE o # w
        BY <1>5, <1>8, <3>1, <3>2 DEF ToSend
      <3>3. CASE o = w
        <4>1. Now(v) # c
          BY <2>2, <3>1, <3>3
        <4>2. Now(v) \in less.to /\ less \in work'
          BY <1>5, <3>1, <3>3, <4>1
        <4> QED
          BY <1>5, <1>8, <3>1, <3>3, <4>2 DEF ToSend
      <3> QED
        BY <3>2, <3>3
    <2> QED
      BY <2>1, <2>2
  <1>13. ASSUME NEW v \in Users PROVE Undisturbed(v)
    BY <1>2 DEF Undisturbed, In, Shows
  <1>14. ASSUME NEW v \in Users PROVE PageTrue(v)'
    <2>1. CASE ~In(v)'
      BY <2>1 DEF PageTrue
    <2>2. CASE In(v)'
      <3>1. ASSUME NEW event \in {"chat", "chat-deleted"}, NEW i \in DOMAIN echoes PROVE Due(v, event, i)' <=> Due(v, event, i)
        <4>1. Now(v) = c => v = u /\ lands
          BY <1>2, <1>8, <2>2 DEF In
        <4>2. OnWay(v, event, i) => OnWay(v, event, i)'
          <5>1. \A k \in DOMAIN down[v] : k \in DOMAIN down'[v] /\ down'[v][k] = down[v][k]
            BY <1>16
          <5> QED
            BY <5>1 DEF OnWay
        <4>3. Now(v) = c /\ f.event = event /\ f.id = i => OnWay(v, event, i)'
          <5> SUFFICES ASSUME Now(v) = c, f.event = event, f.id = i PROVE OnWay(v, event, i)'
            OBVIOUS
          <5>1. Len(q) + 1 \in DOMAIN down'[v] /\ down'[v][Len(q) + 1] = f
            BY <1>16, <4>1
          <5> QED
            BY <5>1 DEF OnWay
        <4>4. OnWay(v, event, i)' => OnWay(v, event, i) \/ ToSend(v, event, i)
          <5> SUFFICES ASSUME NEW k \in DOMAIN down'[v], down'[v][k].event = event, down'[v][k].id = i
                       PROVE  OnWay(v, event, i) \/ ToSend(v, event, i)
            BY DEF OnWay
          <5>1. \/ k \in DOMAIN down[v] /\ down'[v][k] = down[v][k]
                \/ Now(v) = c /\ down'[v][k] = f
            BY <1>16
          <5> QED
            BY <1>2, <5>1 DEF OnWay, ToSend
        <4> QED
          BY <1>12, <4>2, <4>3, <4>4 DEF Due
      <3>2. PageTrue(v)
        BY DEF ChatInv
      <3> QED
        BY <1>13, <3>1, <3>2, PageStays
    <2> QED
      BY <2>1, <2>2
  <1>15. ASSUME NEW v \in Users PROVE Follows(v)'
    <2>1. Follows(v)
      BY DEF ChatInv
    <2> SUFFICES ASSUME NEW k \in DOMAIN down'[v], NEW i, i = down'[v][k].id,
                        down'[v][k].event = "chat-deleted", <<v, i>> \notin overtaken'
                 PROVE  /\ ~ToSend(v, "chat", i)'
                        /\ \A j \in DOMAIN down'[v] : k < j => ~(down'[v][j].event = "chat" /\ down'[v][j].id = i)
      BY DEF Follows
    <2>2. \A j \in DOMAIN down'[v] :
            \/ j \in DOMAIN down[v] /\ down'[v][j] = down[v][j]
            \/ Now(v) = c /\ v = u /\ lands /\ j = Len(q) + 1 /\ down'[v][j] = f
      BY <1>16
    <2>3. CASE k \in DOMAIN down[v] /\ down'[v][k] = down[v][k]
      <3>1. <<v, i>> \notin overtaken
        BY <1>2
      <3>2. ~ToSend(v, "chat", i) /\ \A j \in DOMAIN down[v] : k < j => ~(down[v][j].event = "chat" /\ down[v][j].id = i)
        BY <2>1, <2>3, <3>1 DEF Follows
      <3>3. Now(v) = c => ~(f.event = "chat" /\ f.id = i)
        BY <1>2, <3>2 DEF ToSend
      <3> QED
        BY <1>12, <2>2, <3>2, <3>3
    <2>4. CASE Now(v) = c /\ v = u /\ lands /\ k = Len(q) + 1 /\ down'[v][k] = f
      <3>1. \A o \in work : ~(o.sends.event = "chat" /\ o.sends.id = i /\ c \in o.to)
        BY <1>2, <2>4
      <3>2. ~ToSend(v, "chat", i)
        BY <2>4, <3>1 DEF ToSend
      <3>3. \A j \in DOMAIN down'[v] : ~(k < j)
        BY <1>16, <2>2, <2>4
      <3> QED
        BY <1>12, <3>2, <3>3
    <2> QED
      BY <2>2, <2>3, <2>4
  <1> QED
    BY <1>9, <1>10, <1>11, <1>14, <1>15 DEF ChatInv, ChatBase

\* What is left of a queue without its first frame.
LEMMA FirstIs ==
    ASSUME NEW T, NEW q, q \in Seq(T), q # <<>>, NEW p, p = Tail(q)
    PROVE  /\ p \in Seq(T) /\ 1 \in DOMAIN q /\ Head(q) = q[1] /\ Head(q) \in T
           /\ \A k \in DOMAIN p : k \in Nat /\ k + 1 \in DOMAIN q /\ p[k] = q[k + 1] /\ 1 < k + 1
           /\ \A k \in DOMAIN q : k = 1 \/ (k - 1 \in DOMAIN p /\ p[k - 1] = q[k])
  <1>1. /\ p \in Seq(T) /\ Head(q) = q[1] /\ Len(q) \in Nat /\ Len(q) >= 1 /\ Len(p) = Len(q) - 1
        /\ \A k \in 1 .. Len(q) - 1 : p[k] = q[k + 1]
    OBVIOUS
  <1>2. DOMAIN p = 1 .. Len(q) - 1 /\ DOMAIN q = 1 .. Len(q)
    BY <1>1
  <1>3. 1 \in DOMAIN q /\ Head(q) \in T
    BY <1>1, <1>2
  <1>4. \A k \in DOMAIN p : k \in Nat /\ k + 1 \in DOMAIN q /\ p[k] = q[k + 1] /\ 1 < k + 1
    BY <1>1, <1>2
  <1>5. \A k \in DOMAIN q : k = 1 \/ (k - 1 \in DOMAIN p /\ p[k - 1] = q[k])
    <2> SUFFICES ASSUME NEW k \in DOMAIN q, k # 1 PROVE k - 1 \in DOMAIN p /\ p[k - 1] = q[k]
      OBVIOUS
    <2>1. k - 1 \in 1 .. Len(q) - 1 /\ (k - 1) + 1 = k
      BY <1>1, <1>2
    <2> QED
      BY <1>1, <1>2, <2>1
  <1> QED
    BY <1>1, <1>3, <1>4, <1>5

\* The server says a message under a new id, refuses it, or has one erased.
LEMMA HandleChatKeeps ==
    ASSUME ChatInv, NEW u, u \in Users, HandleChat(u)
    PROVE  ChatInv'
  <1>1. WiresTyped /\ HistoriesSound /\ FramesTrue /\ SocketsTrue
    BY DEF ChatInv, ChatBase
  <1>2. PICK f : f = Head(up[u])
    OBVIOUS
  <1>3. /\ up[u] # <<>> /\ up' = [up EXCEPT ![u] = Tail(up[u])] /\ Now(u) \in room
        /\ UNCHANGED <<sock, room, down, list, db, load, overtaken, crossed>>
        /\ \/ /\ f.event = "chat-send" /\ f.file # "temporary" /\ Len(echoes) < MaxEchoes
              /\ echoes' = Append(echoes, [m |-> f.m, to |-> room])
              /\ work' = work \union
                    {[by |-> Now(u), to |-> room,
                      sends |-> [event |-> "chat", m |-> f.m, file |-> f.file, id |-> Len(echoes')]]}
              /\ UNCHANGED erased
           \/ UNCHANGED <<work, echoes, erased>>
           \/ /\ f.event = "chat-delete" /\ UNCHANGED echoes
              /\ erased' = erased \union {<<f.id, c>> : c \in room}
              /\ work' = work \union
                    {[by |-> Now(u), to |-> room, sends |-> [event |-> "chat-deleted", id |-> f.id]]}
    BY <1>2 DEF HandleChat, browser
  <1>4. /\ f \in Ask /\ (f.event = "chat-delete" => f.id \in DOMAIN echoes)
        /\ up' \in [Users -> Seq(Ask)]
        /\ \A v \in Users : \A k \in DOMAIN up'[v] : up'[v][k].event = "chat-delete" => up'[v][k].id \in DOMAIN echoes
    <2>1. up \in [Users -> Seq(Ask)] /\ \A v \in Users : \A k \in DOMAIN up[v] :
            up[v][k].event = "chat-delete" => up[v][k].id \in DOMAIN echoes
      BY <1>1 DEF WiresTyped, FramesTrue
    <2>2. PICK q, p : q = up[u] /\ p = Tail(q)
      OBVIOUS
    <2>3. /\ p \in Seq(Ask) /\ 1 \in DOMAIN q /\ Head(q) = q[1] /\ Head(q) \in Ask
          /\ \A k \in DOMAIN p : k + 1 \in DOMAIN q /\ p[k] = q[k + 1]
      <3>1. q \in Seq(Ask) /\ q # <<>>
        BY <1>3, <2>1, <2>2
      <3> QED
        BY <2>2, <3>1, FirstIs
    <2>4. up' = [up EXCEPT ![u] = p]
      BY <1>3, <2>2
    <2> QED
      BY <1>2, <2>1, <2>2, <2>3, <2>4
  <1>5. \A v \in Users : Now(v)' = Now(v)
    BY <1>3 DEF Now
  <1>6. /\ echoes \in Seq([m : Msgs, to : SUBSET Socket]) /\ Len(echoes) \in Nat /\ DOMAIN echoes = 1 .. Len(echoes)
        /\ room \in SUBSET Socket /\ Now(u) \in Socket
    BY <1>1, <1>3 DEF WiresTyped
  <1>7. ASSUME NEW s \in Sending, work' = work \union {[by |-> Now(u), to |-> room, sends |-> s]}
        PROVE  /\ work' \subseteq [by : Socket, to : SUBSET Socket, sends : Sending]
               /\ \A w \in work' : w \in work \/ (w.to = room /\ w.sends = s)
               /\ \A v \in Users : \A event, i :
                    ToSend(v, event, i)' <=> ToSend(v, event, i) \/ (Now(v) \in room /\ s.event = event /\ s.id = i)
    <2>1. PICK w : w = [by |-> Now(u), to |-> room, sends |-> s]
      OBVIOUS
    <2>2. w \in [by : Socket, to : SUBSET Socket, sends : Sending] /\ w.to = room /\ w.sends = s
      BY <1>6, <2>1
    <2>3. work' = work \union {w}
      BY <1>7, <2>1
    <2> QED
      BY <1>1, <1>5, <2>2, <2>3 DEF ToSend, WiresTyped
  <1>8. CASE UNCHANGED <<work, echoes, erased>>
    <2>1. WiresTyped' /\ HistoriesSound'
      BY <1>1, <1>3, <1>4, <1>8 DEF WiresTyped, HistoriesSound
    <2>2. FramesTrue'
      <3>1. \A w \in work' : \A c \in w.to : TrueTo(w.sends, c)'
        BY <1>1, <1>8, TrueStays DEF FramesTrue
      <3>2. \A v \in Users : \A k \in DOMAIN down'[v] : TrueTo(down[v][k], Now(v))'
        BY <1>1, <1>3, <1>5, <1>8 DEF FramesTrue, TrueTo
      <3> QED
        BY <1>3, <1>4, <1>8, <3>1, <3>2 DEF FramesTrue
    <2>3. SocketsTrue'
      BY <1>1, <1>3, <1>8 DEF SocketsTrue, WasIn, Now
    <2>4. ASSUME NEW v \in Users PROVE Follows(v)' /\ PageTrue(v)'
      <3>1. Follows(v) /\ PageTrue(v)
        BY DEF ChatInv
      <3>2. Undisturbed(v) /\ down'[v] = down[v] /\ \A event, i : ToSend(v, event, i)' <=> ToSend(v, event, i)
        BY <1>3, <1>5, <1>8 DEF Undisturbed, In, Shows, ToSend
      <3> QED
        BY <1>1, <3>1, <3>2, UndisturbedKeeps
    <2> QED
      BY <2>1, <2>2, <2>3, <2>4 DEF ChatInv, ChatBase
  <1>9. CASE /\ f.event = "chat-send" /\ f.file # "temporary" /\ Len(echoes) < MaxEchoes
             /\ echoes' = Append(echoes, [m |-> f.m, to |-> room])
             /\ work' = work \union
                    {[by |-> Now(u), to |-> room,
                      sends |-> [event |-> "chat", m |-> f.m, file |-> f.file, id |-> Len(echoes')]]}
             /\ UNCHANGED erased
    <2>1. PICK n, r, s : /\ n = Len(echoes) + 1 /\ r = [m |-> f.m, to |-> room]
                         /\ s = [event |-> "chat", m |-> f.m, file |-> f.file, id |-> n]
      OBVIOUS
    <2>2. f.m \in Msgs /\ f.file \in {"none", "stored"}
      BY <1>4, <1>9 DEF Ask
    <2>3. n \in Nat /\ n \notin DOMAIN echoes /\ r \in [m : Msgs, to : SUBSET Socket] /\ r.m = f.m /\ r.to = room
      BY <1>6, <2>1, <2>2
    <2>4. s \in Sending /\ s.event = "chat" /\ s.id = n /\ s.m = f.m
      BY <2>1, <2>2, <2>3 DEF Sending
    <2>5. /\ echoes' \in Seq([m : Msgs, to : SUBSET Socket]) /\ Len(echoes') = n
          /\ DOMAIN echoes' = DOMAIN echoes \union {n} /\ echoes'[n] = r
          /\ \A i \in DOMAIN echoes : echoes'[i] = echoes[i]
      <3>1. echoes' = Append(echoes, r)
        BY <1>9, <2>1
      <3>2. /\ echoes' \in Seq([m : Msgs, to : SUBSET Socket]) /\ Len(echoes') = n /\ echoes'[n] = r
            /\ \A i \in 1 .. Len(echoes) : echoes'[i] = echoes[i]
        BY <1>6, <2>1, <2>3, <3>1
      <3>3. DOMAIN echoes' = 1 .. n
        BY <3>2
      <3>4. 1 .. n = (1 .. Len(echoes)) \union {n}
        BY <1>6, <2>1
      <3> QED
        BY <1>6, <3>2, <3>3, <3>4
    <2>6. work' = work \union {[by |-> Now(u), to |-> room, sends |-> s]}
      BY <1>9, <2>1, <2>5
    <2>7. /\ work' \subseteq [by : Socket, to : SUBSET Socket, sends : Sending]
          /\ \A w \in work' : w \in work \/ (w.to = room /\ w.sends = s)
          /\ \A v \in Users : \A event, i :
                ToSend(v, event, i)' <=> ToSend(v, event, i) \/ (Now(v) \in room /\ event = "chat" /\ i = n)
      <3>1. /\ work' \subseteq [by : Socket, to : SUBSET Socket, sends : Sending]
            /\ \A w \in work' : w \in work \/ (w.to = room /\ w.sends = s)
            /\ \A v \in Users : \A event, i :
                ToSend(v, event, i)' <=> ToSend(v, event, i) \/ (Now(v) \in room /\ s.event = event /\ s.id = i)
        BY <1>7, <2>4, <2>6
      <3> QED
        BY <2>4, <3>1
    <2>8. WiresTyped'
      <3>1. Len(echoes') <= MaxEchoes
        BY <1>6, <1>9, <2>1, <2>5, ChatConstants
      <3> QED
        BY <1>1, <1>3, <1>4, <2>5, <2>7, <3>1 DEF WiresTyped
    <2>9. HistoriesSound'
      <3>1. Len(echoes) <= n
        BY <1>6, <2>1
      <3>2. \A S : Sound(S, Len(echoes)) => Sound(S, n)
        BY <1>6, <2>3, <3>1, SoundLater
      <3> QED
        BY <1>1, <1>3, <2>5, <3>2 DEF HistoriesSound
    <2>10. \A g, c : TrueTo(g, c) => TrueTo(g, c)'
      BY <1>9, <2>5 DEF TrueTo
    <2>11. FramesTrue'
      <3>1. ASSUME NEW w \in work', NEW c \in w.to PROVE TrueTo(w.sends, c)'
        <4>1. CASE w \in work
          BY <1>1, <2>10, <4>1 DEF FramesTrue
        <4>2. CASE w.to = room /\ w.sends = s
          BY <2>3, <2>4, <2>5, <4>2 DEF TrueTo
        <4> QED
          BY <2>7, <4>1, <4>2
      <3>2. ASSUME NEW v \in Users, NEW k \in DOMAIN down'[v] PROVE TrueTo(down[v][k], Now(v))'
        <4>1. TrueTo(down[v][k], Now(v))
          BY <1>1, <1>3 DEF FramesTrue
        <4> QED
          BY <1>3, <1>5, <2>5, <1>9, <4>1 DEF TrueTo
      <3> QED
        BY <1>3, <1>4, <2>5, <3>1, <3>2 DEF FramesTrue
    <2>12. SocketsTrue'
      <3>1. \A c : WasIn(c)' <=> WasIn(c)
        BY <1>3 DEF WasIn, Now
      <3>2. \A i \in DOMAIN echoes' : \A c \in echoes'[i].to : WasIn(c)
        BY <1>1, <2>3, <2>5 DEF SocketsTrue
      <3> QED
        BY <1>1, <1>3, <1>9, <2>5, <3>1, <3>2 DEF SocketsTrue
    <2>13. ASSUME NEW v \in Users PROVE Follows(v)'
      <3>1. Follows(v)
        BY DEF ChatInv
      <3>2. \A k \in DOMAIN down[v] : down[v][k].event = "chat-deleted" => down[v][k].id # n
        BY <1>1, <2>3 DEF FramesTrue, TrueTo
      <3> QED
        BY <1>3, <2>7, <3>1, <3>2 DEF Follows
    <2>14. ASSUME NEW v \in Users, In(v)', NEW i \in Heard(v)'
           PROVE  ShowsWhatCame(v, i)' /\ HidesWhatWent(v, i)' /\ SettlesWhatCame(v, i)'
      <3>1. /\ i \in DOMAIN echoes' /\ Now(v) \in echoes'[i].to /\ In(v) /\ PageTrue(v)
            /\ \A event : Due(v, event, i)' <=> Due(v, event, i) \/ (Now(v) \in room /\ event = "chat" /\ i = n)
            /\ Shows(v, i)' <=> Shows(v, i)
            /\ list'[v] = list[v] /\ load'[v] = load[v] /\ overtaken' = overtaken /\ crossed' = crossed /\ erased' = erased
        BY <1>3, <1>5, <1>9, <2>7, <2>14 DEF Heard, In, ChatInv, Due, OnWay, Shows
      <3>2. CASE i = n
        <4>1. Now(v) \in room
          BY <2>3, <2>5, <3>1, <3>2
        <4>2. Due(v, "chat", i)'
          BY <3>1, <3>2, <4>1
        <4>3. <<i, Now(v)>>' \notin erased'
          BY <1>1, <1>5, <2>3, <3>1, <3>2 DEF SocketsTrue
        <4> QED
          BY <4>2, <4>3 DEF ShowsWhatCame, HidesWhatWent, SettlesWhatCame
      <3>3. CASE i # n
        <4>1. i \in DOMAIN echoes /\ i \in Heard(v) /\ echoes'[i] = echoes[i]
          BY <2>5, <3>1, <3>3 DEF Heard
        <4>2. ShowsWhatCame(v, i) /\ HidesWhatWent(v, i) /\ SettlesWhatCame(v, i)
          BY <3>1, <4>1 DEF PageTrue
        <4>3. ShowsWhatCame(v, i)'
          BY <1>5, <3>1, <3>3, <4>2 DEF ShowsWhatCame
        <4>4. HidesWhatWent(v, i)'
          BY <1>5, <3>1, <3>3, <4>2 DEF HidesWhatWent
        <4>5. SettlesWhatCame(v, i)'
          BY <3>1, <3>3, <4>1, <4>2 DEF SettlesWhatCame
        <4> QED
          BY <4>3, <4>4, <4>5
      <3> QED
        BY <3>2, <3>3
    <2>15. \A v \in Users : PageTrue(v)'
      BY <2>14 DEF PageTrue
    <2> QED
      BY <2>8, <2>9, <2>11, <2>12, <2>13, <2>15 DEF ChatInv, ChatBase
  <1>10. CASE /\ f.event = "chat-delete" /\ UNCHANGED echoes
              /\ erased' = erased \union {<<f.id, c>> : c \in room}
              /\ work' = work \union
                    {[by |-> Now(u), to |-> room, sends |-> [event |-> "chat-deleted", id |-> f.id]]}
    <2>1. PICK s : s = [event |-> "chat-deleted", id |-> f.id]
      OBVIOUS
    <2>2. s \in Sending /\ s.event = "chat-deleted" /\ s.id = f.id /\ f.id \in DOMAIN echoes
      BY <1>4, <1>6, <1>10, <2>1 DEF Sending
    <2>3. /\ work' \subseteq [by : Socket, to : SUBSET Socket, sends : Sending]
          /\ \A w \in work' : w \in work \/ (w.to = room /\ w.sends = s)
          /\ \A v \in Users : \A event, i :
                ToSend(v, event, i)' <=> ToSend(v, event, i) \/ (Now(v) \in room /\ s.event = event /\ s.id = i)
      BY <1>7, <1>10, <2>1, <2>2
    <2>4. /\ erased \subseteq erased' /\ \A c \in room : <<f.id, c>> \in erased'
          /\ \A o \in erased' : o \in erased \/ (o[1] = f.id /\ o[2] \in room)
      BY <1>10
    <2>5. WiresTyped' /\ HistoriesSound'
      BY <1>1, <1>3, <1>4, <1>10, <2>3 DEF WiresTyped, HistoriesSound
    <2>6. FramesTrue'
      <3>1. ASSUME NEW w \in work', NEW c \in w.to PROVE TrueTo(w.sends, c)'
        <4>1. CASE w \in work
          <5>1. TrueTo(w.sends, c)
            BY <1>1, <4>1 DEF FramesTrue
          <5> QED
            BY <1>10, <2>4, <5>1, TrueStays
        <4>2. CASE w.to = room /\ w.sends = s
          BY <1>10, <2>2, <2>4, <4>2 DEF TrueTo
        <4> QED
          BY <2>3, <4>1, <4>2
      <3>2. ASSUME NEW v \in Users, NEW k \in DOMAIN down'[v] PROVE TrueTo(down[v][k], Now(v))'
        <4>1. TrueTo(down[v][k], Now(v))
          BY <1>1, <1>3 DEF FramesTrue
        <4> QED
          BY <1>3, <1>5, <1>10, <2>4, <4>1 DEF TrueTo
      <3> QED
        BY <1>3, <1>4, <1>10, <3>1, <3>2 DEF FramesTrue
    <2>7. SocketsTrue'
      <3>1. \A c : WasIn(c)' <=> WasIn(c)
        BY <1>3 DEF WasIn, Now
      <3> QED
        BY <1>1, <1>3, <1>10, <2>2, <2>4, <3>1 DEF SocketsTrue
    <2>8. ASSUME NEW v \in Users PROVE Follows(v)'
      <3>1. Follows(v)
        BY DEF ChatInv
      <3>2. \A i : ToSend(v, "chat", i)' <=> ToSend(v, "chat", i)
        BY <2>2, <2>3
      <3> QED
        BY <1>3, <3>1, <3>2 DEF Follows
    <2>9. ASSUME NEW v \in Users, In(v)', NEW i \in Heard(v)'
          PROVE  ShowsWhatCame(v, i)' /\ HidesWhatWent(v, i)' /\ SettlesWhatCame(v, i)'
      <3>1. /\ In(v) /\ i \in Heard(v) /\ PageTrue(v) /\ echoes' = echoes
            /\ \A event : Due(v, event, i)' <=> Due(v, event, i) \/ (Now(v) \in room /\ event = s.event /\ i = s.id)
            /\ Shows(v, i)' <=> Shows(v, i)
            /\ list'[v] = list[v] /\ load'[v] = load[v] /\ overtaken' = overtaken /\ crossed' = crossed
        BY <1>3, <1>5, <1>10, <2>3, <2>9 DEF Heard, In, ChatInv, Due, OnWay, Shows
      <3>2. ShowsWhatCame(v, i) /\ HidesWhatWent(v, i) /\ SettlesWhatCame(v, i)
        BY <3>1 DEF PageTrue
      <3>3. Due(v, "chat", i)' <=> Due(v, "chat", i)
        BY <2>2, <3>1
      <3>4. ShowsWhatCame(v, i)'
        BY <1>5, <2>4, <3>1, <3>2, <3>3 DEF ShowsWhatCame
      <3>5. HidesWhatWent(v, i)'
        <4>1. CASE <<i, Now(v)>> \in erased
          BY <1>5, <3>1, <3>2, <3>3, <4>1 DEF HidesWhatWent
        <4>2. CASE <<i, Now(v)>> \notin erased
          <5>1. <<i, Now(v)>> \in erased' => i = f.id /\ Now(v) \in room
            BY <2>4, <4>2
          <5>2. <<i, Now(v)>> \in erased' => Due(v, "chat-deleted", i)'
            BY <2>2, <3>1, <5>1
          <5> QED
            BY <1>5, <5>2 DEF HidesWhatWent
        <4> QED
          BY <4>1, <4>2
      <3>6. SettlesWhatCame(v, i)'
        BY <3>1, <3>2, <3>3 DEF SettlesWhatCame
      <3> QED
        BY <3>4, <3>5, <3>6
    <2>10. \A v \in Users : PageTrue(v)'
      BY <2>9 DEF PageTrue
    <2> QED
      BY <2>5, <2>6, <2>7, <2>8, <2>10 DEF ChatInv, ChatBase
  <1> QED
    BY <1>3, <1>8, <1>9, <1>10

\* What a welcome sends again names no temporary file.
LEMMA ResentIs ==
    ASSUME WiresTyped, HistoriesSound, NEW u, u \in Users, Welcomed(u)
    PROVE  /\ up' \in [Users -> Seq(Ask)]
           /\ \A v \in Users : \A k \in DOMAIN up'[v] : up'[v][k].event = "chat-delete" =>
                    k \in DOMAIN up[v] /\ up'[v][k] = up[v][k]
  <1>1. PICK S : S = {e \in list[u] : Again(u, e)}
    OBVIOUS
  <1>2. Sound(S, Len(echoes))
    BY <1>1, SoundPart DEF HistoriesSound
  <1>3. IsFiniteSet(S) /\ \A e \in S : ChatSend(e) \in Ask /\ ChatSend(e).event = "chat-send"
    <2>1. S \subseteq Entry /\ IsFiniteSet(S)
      BY <1>2 DEF Sound
    <2>2. ASSUME NEW e \in S PROVE ChatSend(e) \in Ask /\ ChatSend(e).event = "chat-send"
      <3>1. e.m \in Msgs /\ e.file \in {"none", "stored"}
        <4>1. e.m \in Msgs /\ e.file \in {"none", "temporary", "stored"}
          BY <2>1, EntryIs
        <4>2. e.file # "temporary"
          BY <1>1 DEF Again
        <4> QED
          BY <4>1, <4>2
      <3> QED
        BY <3>1 DEF ChatSend, Ask
    <2> QED
      BY <2>1, <2>2
  <1>4. PICK frames : frames = [i \in 1 .. Cardinality(S) |-> ChatSend(SetToSeq(S)[i])]
    OBVIOUS
  <1>5. Cardinality(S) \in Nat /\ \A i \in 1 .. Cardinality(S) : SetToSeq(S)[i] \in S
    BY <1>3, FS_CardinalityType, SetToSeqIs
  <1>6. frames \in Seq(Ask) /\ \A j \in DOMAIN frames : frames[j].event = "chat-send"
    <2>1. \A i \in 1 .. Cardinality(S) : ChatSend(SetToSeq(S)[i]) \in Ask /\ ChatSend(SetToSeq(S)[i]).event = "chat-send"
      BY <1>3, <1>5
    <2>2. \A i \in 1 .. Cardinality(S) : frames[i] = ChatSend(SetToSeq(S)[i])
      BY <1>4
    <2>3. DOMAIN frames = 1 .. Cardinality(S) /\ frames \in [1 .. Cardinality(S) -> Ask]
      BY <1>4, <2>1
    <2>4. frames \in Seq(Ask)
      BY <1>5, <2>3
    <2> QED
      BY <2>1, <2>2, <2>3, <2>4
  <1>7. up' = Sent(u, sock[u].via, frames)
    BY <1>1, <1>4 DEF Welcomed
  <1>8. PICK via : via = sock[u].via
    OBVIOUS
  <1>9. /\ up' \in [Users -> Seq(Ask)]
        /\ \A v \in Users : \A k \in DOMAIN up'[v] :
                (k \in DOMAIN up[v] /\ up'[v][k] = up[v][k]) \/ \E j \in DOMAIN frames : up'[v][k] = frames[j]
    BY <1>6, <1>7, <1>8, SentIs
  <1> QED
    BY <1>6, <1>9

\* What a browser is told changes what it shows as it should.
LEMMA DeliverKeeps ==
    ASSUME ChatInv, NEW u, u \in Users, DeliverChat(u)
    PROVE  ChatInv'
  <1>1. WiresTyped /\ HistoriesSound /\ FramesTrue /\ SocketsTrue
    BY DEF ChatInv, ChatBase
  <1>2. PICK q, p, f : q = down[u] /\ p = Tail(q) /\ f = Head(q)
    OBVIOUS
  <1>3. /\ q # <<>> /\ down' = [down EXCEPT ![u] = p]
        /\ UNCHANGED <<sock, room, work, load, upload, fresh, echoes, erased>>
        /\ f.event = "welcome" => Welcomed(u)
        /\ f.event = "chat" => Received(u, f)
        /\ f.event = "chat-deleted" => Deleted(u, f.id)
    BY <1>2 DEF DeliverChat
  <1>4. /\ q \in Seq(Downstream) /\ p \in Seq(Downstream) /\ 1 \in DOMAIN q /\ f = q[1] /\ f \in Downstream
        /\ \A k \in DOMAIN p : k \in Nat /\ k + 1 \in DOMAIN q /\ p[k] = q[k + 1] /\ 1 < k + 1
        /\ \A k \in DOMAIN q : k = 1 \/ (k - 1 \in DOMAIN p /\ p[k - 1] = q[k])
    <2>1. q \in Seq(Downstream)
      BY <1>1, <1>2 DEF WiresTyped
    <2> QED
      BY <1>2, <1>3, <2>1, FirstIs
  <1>5. /\ down' \in [Users -> Seq(Downstream)] /\ down'[u] = p /\ \A v \in Users : v # u => down'[v] = down[v]
    BY <1>1, <1>3, <1>4 DEF WiresTyped
  <1>6. /\ f.event \in {"welcome", "chat", "chat-deleted"} /\ TrueTo(f, Now(u))
        /\ f.event = "chat" => f.m \in Msgs /\ f.file \in {"none", "stored"}
    <2>1. TrueTo(f, Now(u))
      BY <1>1, <1>2, <1>4 DEF FramesTrue
    <2> QED
      BY <1>4, <2>1 DEF Downstream, Sending
  <1>7. \A v \in Users : Now(v)' = Now(v)
    BY <1>3 DEF Now
  <1>8. /\ Len(echoes) \in Nat /\ DOMAIN echoes = 1 .. Len(echoes) /\ Len(echoes) <= MaxEchoes /\ MaxEchoes \in Nat
        /\ 0 \notin DOMAIN echoes
    BY <1>1, ChatConstants DEF WiresTyped
  <1>9. /\ up' \in [Users -> Seq(Ask)]
        /\ \A v \in Users : \A k \in DOMAIN up'[v] : up'[v][k].event = "chat-delete" => up'[v][k].id \in DOMAIN echoes
    <2>1. up \in [Users -> Seq(Ask)] /\ \A v \in Users : \A k \in DOMAIN up[v] :
            up[v][k].event = "chat-delete" => up[v][k].id \in DOMAIN echoes
      BY <1>1 DEF WiresTyped, FramesTrue
    <2>2. CASE f.event = "welcome"
      <3>1. /\ up' \in [Users -> Seq(Ask)]
            /\ \A v \in Users : \A k \in DOMAIN up'[v] : up'[v][k].event = "chat-delete" =>
                    k \in DOMAIN up[v] /\ up'[v][k] = up[v][k]
        BY <1>1, <1>3, <2>2, ResentIs
      <3> QED
        BY <2>1, <3>1
    <2>3. CASE f.event # "welcome"
      <3>1. up' = up
        BY <1>3, <1>6, <2>3 DEF Received, Deleted
      <3> QED
        BY <2>1, <3>1
    <2> QED
      BY <2>2, <2>3
  <1>10. WiresTyped'
    BY <1>1, <1>3, <1>5, <1>9 DEF WiresTyped
  <1>11. PICK said : said = [m |-> f.m, id |-> f.id, file |-> f.file, failed |-> FALSE]
    OBVIOUS
  <1>12. f.event = "chat" => /\ said \in Entry /\ said.id <= Len(echoes) /\ said.m = f.m /\ said.id = f.id
                             /\ f.id \in DOMAIN echoes /\ echoes[f.id].m = f.m /\ f.id # 0
    <2> SUFFICES ASSUME f.event = "chat"
                 PROVE  /\ said \in Entry /\ said.id <= Len(echoes) /\ said.m = f.m /\ said.id = f.id
                        /\ f.id \in DOMAIN echoes /\ echoes[f.id].m = f.m /\ f.id # 0
      OBVIOUS
    <2>1. f.id \in DOMAIN echoes /\ echoes[f.id].m = f.m
      BY <1>6 DEF TrueTo
    <2>2. f.id \in 0 .. MaxEchoes /\ f.id <= Len(echoes) /\ f.id # 0
      BY <1>8, <2>1
    <2> QED
      BY <1>6, <1>11, <2>1, <2>2, EntryIs
  \* What becomes of the list.
  <1>13. /\ DOMAIN list' = Users /\ \A v \in Users : v # u => list'[v] = list[v]
         /\ f.event = "welcome" => list'[u] = list[u]
         /\ f.event = "chat" => list'[u] = (list[u] \ Pending(list[u], f.m)) \union {said}
         /\ f.event = "chat-deleted" => list'[u] = {e \in list[u] : e.id # f.id}
    <2>1. DOMAIN list = Users
      BY <1>1 DEF HistoriesSound
    <2>2. CASE f.event = "welcome"
      BY <1>3, <2>1, <2>2 DEF Welcomed
    <2>3. CASE f.event = "chat"
      BY <1>3, <1>11, <2>1, <2>3 DEF Received, Replaced
    <2>4. CASE f.event = "chat-deleted"
      BY <1>3, <2>1, <2>4 DEF Deleted
    <2> QED
      BY <1>6, <2>2, <2>3, <2>4
  <1>14. /\ overtaken \subseteq overtaken' /\ crossed \subseteq crossed'
         /\ f.event = "chat-deleted" /\ load[u] # NotLoading /\ (\E e \in load[u].of : e.id = f.id) => <<u, f.id>> \in overtaken'
         /\ f.event = "chat" /\ load[u] # NotLoading /\ Pending(load[u].of, f.m) # {} => <<u, f.m>> \in crossed'
    <2>1. CASE f.event = "welcome"
      BY <1>3, <2>1 DEF Welcomed
    <2>2. CASE f.event = "chat"
      BY <1>3, <2>2 DEF Received
    <2>3. CASE f.event = "chat-deleted"
      BY <1>3, <2>3 DEF Deleted
    <2> QED
      BY <1>6, <2>1, <2>2, <2>3
  <1>15. HistoriesSound'
    <2>1. Sound(list[u], Len(echoes)) /\ Sound(db[u], Len(echoes)) /\ DOMAIN db = Users /\ DOMAIN load = Users
      BY <1>1 DEF HistoriesSound
    <2>2. Sound(list'[u], Len(echoes))
      <3>1. CASE f.event = "chat"
        <4>1. Sound({said}, Len(echoes)) /\ Sound(list[u] \ Pending(list[u], f.m), Len(echoes))
          BY <1>12, <2>1, <3>1, SoundOne, SoundPart
        <4> QED
          BY <1>13, <3>1, <4>1, SoundUnion
      <3>2. CASE f.event # "chat"
        <4>1. list'[u] \subseteq list[u]
          BY <1>6, <1>13, <3>2
        <4>2. PICK l : l = list'[u]
          OBVIOUS
        <4>3. Sound(l, Len(echoes))
          BY <2>1, <4>1, <4>2, SoundPart
        <4> QED
          BY <4>2, <4>3
      <3> QED
        BY <3>1, <3>2
    <2>3. db' = db \/ db' = [db EXCEPT ![u] = list'[u]]
      BY <1>3, <1>6 DEF Welcomed, Received, Deleted
    <2>4. DOMAIN db' = Users /\ \A v \in Users : Sound(db'[v], Len(echoes))
      BY <1>1, <2>1, <2>2, <2>3 DEF HistoriesSound
    <2>5. \A v \in Users : Sound(list'[v], Len(echoes))
      BY <1>1, <1>13, <2>2 DEF HistoriesSound
    <2> QED
      BY <1>1, <1>3, <1>13, <2>1, <2>4, <2>5 DEF HistoriesSound
  <1>16. FramesTrue'
    <2>1. \A w \in work' : \A c \in w.to : TrueTo(w.sends, c)'
      BY <1>1, <1>3, TrueStays DEF FramesTrue
    <2>2. ASSUME NEW v \in Users, NEW k \in DOMAIN down'[v] PROVE TrueTo(down[v][k], Now(v))'
      <3>1. \E j \in DOMAIN down[v] : down'[v][k] = down[v][j]
        <4>1. CASE v = u
          <5>1. k \in DOMAIN p /\ down'[v][k] = p[k] /\ down[v] = q
            BY <1>2, <1>5, <4>1
          <5> QED
            BY <1>4, <5>1
        <4>2. CASE v # u
          BY <1>5, <4>2
        <4> QED
          BY <4>1, <4>2
      <3>2. \E d : d = down'[v][k] /\ TrueTo(d, Now(v))
        BY <1>1, <3>1 DEF FramesTrue
      <3> QED
        BY <1>3, <1>7, <3>2 DEF TrueTo
    <2> QED
      BY <1>3, <1>9, <2>1, <2>2 DEF FramesTrue
  <1>17. SocketsTrue'
    BY <1>1, <1>3 DEF SocketsTrue, WasIn, Now
  <1>18. \A v \in Users : \A event, i : ToSend(v, event, i)' <=> ToSend(v, event, i)
    BY <1>3, <1>7 DEF ToSend
  <1>19. ASSUME NEW v \in Users, v # u PROVE Follows(v)' /\ PageTrue(v)'
    <2>1. Follows(v) /\ PageTrue(v)
      BY DEF ChatInv
    <2>2. Undisturbed(v) /\ down'[v] = down[v]
      BY <1>3, <1>5, <1>13, <1>14, <1>19 DEF Undisturbed, In, Shows
    <2> QED
      BY <1>1, <1>18, <2>1, <2>2, UndisturbedKeeps
  <1>20. Follows(u)'
    <2> SUFFICES ASSUME NEW k \in DOMAIN p, p[k].event = "chat-deleted", <<u, p[k].id>> \notin overtaken'
                 PROVE  /\ ~ToSend(u, "chat", p[k].id)
                        /\ \A j \in DOMAIN p : k < j => ~(p[j].event = "chat" /\ p[j].id = p[k].id)
      BY <1>5, <1>18 DEF Follows
    <2>1. k + 1 \in DOMAIN q /\ q[k + 1] = p[k] /\ <<u, p[k].id>> \notin overtaken
      BY <1>4, <1>14
    <2>2. /\ ~ToSend(u, "chat", p[k].id)
          /\ \A j \in DOMAIN q : k + 1 < j => ~(q[j].event = "chat" /\ q[j].id = p[k].id)
      <3>1. Follows(u)
        BY DEF ChatInv
      <3> QED
        BY <1>2, <2>1, <3>1 DEF Follows
    <2>3. ASSUME NEW j \in DOMAIN p, k < j PROVE ~(p[j].event = "chat" /\ p[j].id = p[k].id)
      <3>1. j + 1 \in DOMAIN q /\ q[j + 1] = p[j] /\ k + 1 < j + 1
        BY <1>4, <2>3
      <3> QED
        BY <2>2, <3>1
    <2> QED
      BY <2>2, <2>3
  <1>21. \A event, i : /\ OnWay(u, event, i)' => OnWay(u, event, i)
                       /\ OnWay(u, event, i) => OnWay(u, event, i)' \/ (f.event = event /\ f.id = i)
    <2>1. ASSUME NEW event, NEW i, OnWay(u, event, i)' PROVE OnWay(u, event, i)
      BY <1>2, <1>4, <1>5, <2>1 DEF OnWay
    <2>2. ASSUME NEW event, NEW i, OnWay(u, event, i) PROVE OnWay(u, event, i)' \/ (f.event = event /\ f.id = i)
      <3>1. PICK k \in DOMAIN q : q[k].event = event /\ q[k].id = i
        BY <1>2, <2>2 DEF OnWay
      <3>2. CASE k = 1
        BY <1>4, <3>1, <3>2
      <3>3. CASE k # 1
        BY <1>4, <1>5, <3>1, <3>3 DEF OnWay
      <3> QED
        BY <3>2, <3>3
    <2> QED
      BY <2>1, <2>2
  <1>22. \A event, i : /\ Due(u, event, i)' => Due(u, event, i)
                       /\ Due(u, event, i) => Due(u, event, i)' \/ (f.event = event /\ f.id = i)
    BY <1>18, <1>21 DEF Due
  <1>23. (f.event \in {"chat", "chat-deleted"}) => OnWay(u, f.event, f.id)
    BY <1>2, <1>4 DEF OnWay
  <1>24. /\ f.event = "welcome" => \A i : Shows(u, i)' <=> Shows(u, i)
         /\ f.event = "chat" => \A i : i # 0 => (Shows(u, i)' <=> Shows(u, i) \/ i = f.id)
         /\ f.event = "chat-deleted" => \A i : Shows(u, i)' <=> Shows(u, i) /\ i # f.id
    <2>1. CASE f.event = "welcome"
      BY <1>13, <2>1 DEF Shows
    <2>2. CASE f.event = "chat"
      BY <1>12, <1>13, <2>2 DEF Shows, Pending
    <2>3. CASE f.event = "chat-deleted"
      BY <1>13, <2>3 DEF Shows
    <2> QED
      BY <1>6, <2>1, <2>2, <2>3
  <1>25. \A m : Pending(list[u], m) = {} => Pending(list'[u], m) = {}
    <2>1. CASE f.event = "chat"
      BY <1>12, <1>13, <2>1 DEF Pending
    <2>2. CASE f.event # "chat"
      BY <1>6, <1>13, <2>2 DEF Pending
    <2> QED
      BY <2>1, <2>2
  <1>26. ASSUME In(u)', NEW i \in Heard(u)'
         PROVE  ShowsWhatCame(u, i)' /\ HidesWhatWent(u, i)' /\ SettlesWhatCame(u, i)'
    <2>1. /\ i \in DOMAIN echoes /\ i \in Heard(u) /\ In(u) /\ i # 0
          /\ echoes' = echoes /\ erased' = erased /\ load' = load /\ Now(u)' = Now(u)
      BY <1>3, <1>7, <1>8, <1>26 DEF Heard, In
    <2>2. ShowsWhatCame(u, i) /\ HidesWhatWent(u, i) /\ SettlesWhatCame(u, i)
      BY <2>1 DEF ChatInv, PageTrue
    <2>3. ShowsWhatCame(u, i)'
      <3>1. ASSUME ~Due(u, "chat", i)', <<i, Now(u)>> \notin erased PROVE Shows(u, i)'
        <4>1. CASE f.event = "chat" /\ f.id = i
          BY <1>24, <2>1, <4>1
        <4>2. CASE ~(f.event = "chat" /\ f.id = i)
          <5>1. Shows(u, i)
            BY <1>22, <2>2, <3>1, <4>2 DEF ShowsWhatCame
          <5>2. f.event = "chat-deleted" => f.id # i
            BY <1>6, <3>1 DEF TrueTo
          <5> QED
            BY <1>6, <1>24, <2>1, <5>1, <5>2
        <4> QED
          BY <4>1, <4>2
      <3> QED
        BY <2>1, <3>1 DEF ShowsWhatCame
    <2>4. HidesWhatWent(u, i)'
      <3>1. ASSUME <<i, Now(u)>> \in erased, ~Due(u, "chat-deleted", i)', <<u, i>> \notin overtaken'
            PROVE  /\ ~Due(u, "chat", i)' /\ ~Shows(u, i)'
                   /\ load[u] # NotLoading => \A e \in load[u].of : e.id # i
        <4>1. CASE f.event = "chat-deleted" /\ f.id = i
          <5>1. Follows(u) /\ <<u, i>> \notin overtaken
            BY <1>14, <3>1 DEF ChatInv
          <5>2. ~ToSend(u, "chat", i) /\ \A j \in DOMAIN q : 1 < j => ~(q[j].event = "chat" /\ q[j].id = i)
            <6>1. 1 \in DOMAIN down[u] /\ down[u][1].event = "chat-deleted" /\ down[u][1].id = i /\ down[u] = q
              BY <1>2, <1>4, <4>1
            <6>2. /\ ~ToSend(u, "chat", i)
                  /\ \A j \in DOMAIN down[u] : 1 < j => ~(down[u][j].event = "chat" /\ down[u][j].id = i)
              BY <5>1, <6>1 DEF Follows
            <6> QED
              BY <6>1, <6>2
          <5>3. \A j \in DOMAIN p : ~(p[j].event = "chat" /\ p[j].id = i)
            BY <1>4, <5>2
          <5>4. ~Due(u, "chat", i)'
            BY <1>5, <1>18, <5>2, <5>3 DEF Due, OnWay
          <5>5. ~Shows(u, i)'
            BY <1>24, <4>1
          <5> QED
            BY <1>14, <3>1, <4>1, <5>4, <5>5
        <4>2. CASE ~(f.event = "chat-deleted" /\ f.id = i)
          <5>1. ~Due(u, "chat-deleted", i) /\ <<u, i>> \notin overtaken
            BY <1>14, <1>22, <3>1, <4>2
          <5>2. /\ ~Due(u, "chat", i) /\ ~Shows(u, i)
                /\ load[u] # NotLoading => \A e \in load[u].of : e.id # i
            BY <2>2, <3>1, <5>1 DEF HidesWhatWent
          <5>3. ~(f.event = "chat" /\ f.id = i)
            BY <1>23, <5>2 DEF Due
          <5>4. ~Due(u, "chat", i)' /\ ~Shows(u, i)'
            BY <1>6, <1>22, <1>24, <2>1, <5>2, <5>3
          <5> QED
            BY <5>2, <5>4
        <4> QED
          BY <4>1, <4>2
      <3> QED
        BY <2>1, <3>1 DEF HidesWhatWent
    <2>5. SettlesWhatCame(u, i)'
      <3>1. PICK m : m = echoes[i].m
        OBVIOUS
      <3>2. ASSUME AuthorOf[m] = u, ~Due(u, "chat", i)', <<u, m>> \notin crossed'
            PROVE  /\ Pending(list'[u], m) = {}
                   /\ load[u] # NotLoading => Pending(load[u].of, m) = {}
        <4>1. CASE f.event = "chat" /\ f.id = i
          <5>1. m = f.m
            BY <1>12, <3>1, <4>1
          <5>2. Pending(list'[u], m) = {}
            BY <1>12, <1>13, <4>1, <5>1 DEF Pending
          <5> QED
            BY <1>14, <3>2, <4>1, <5>1, <5>2
        <4>2. CASE ~(f.event = "chat" /\ f.id = i)
          <5>1. ~Due(u, "chat", i) /\ <<u, m>> \notin crossed
            BY <1>14, <1>22, <3>2, <4>2
          <5>2. Pending(list[u], m) = {} /\ (load[u] # NotLoading => Pending(load[u].of, m) = {})
            BY <2>2, <3>1, <3>2, <5>1 DEF SettlesWhatCame
          <5> QED
            BY <1>25, <5>2
        <4> QED
          BY <4>1, <4>2
      <3> QED
        BY <2>1, <3>1, <3>2 DEF SettlesWhatCame
    <2> QED
      BY <2>3, <2>4, <2>5
  <1>27. PageTrue(u)'
    BY <1>26 DEF PageTrue
  <1> QED
    BY <1>10, <1>15, <1>16, <1>17, <1>19, <1>20, <1>27 DEF ChatInv, ChatBase

\* What was loaded is neither erased nor echoed since, but for what was overtaken or crossed.
LEMMA LoadEndsKeeps ==
    ASSUME ChatInv, NEW u, u \in Users, LoadEnds(u)
    PROVE  ChatInv'
  <1>1. WiresTyped /\ HistoriesSound /\ FramesTrue /\ SocketsTrue
    BY DEF ChatInv, ChatBase
  <1>2. /\ load[u] # NotLoading /\ load' = [load EXCEPT ![u] = NotLoading]
        /\ list' = [list EXCEPT ![u] = Merged(load[u].of, list[u])]
        /\ UNCHANGED <<sock, up, room, work, down, db, echoes, erased, overtaken, crossed>>
    BY DEF LoadEnds, wires, histories
  <1>3. /\ load'[u] = NotLoading /\ list'[u] = Merged(load[u].of, list[u])
        /\ DOMAIN list' = Users /\ DOMAIN load' = Users
        /\ \A v \in Users : v # u => load'[v] = load[v] /\ list'[v] = list[v]
    BY <1>1, <1>2 DEF HistoriesSound
  <1>4. WiresTyped'
    BY <1>1, <1>2 DEF WiresTyped
  <1>5. HistoriesSound'
    <2>1. PICK S, T : S = load[u].of /\ T = list[u]
      OBVIOUS
    <2>2. Sound(Merged(S, T), Len(echoes))
      BY <1>1, <1>2, <2>1, MergedIs DEF HistoriesSound
    <2> QED
      BY <1>1, <1>2, <1>3, <2>1, <2>2 DEF HistoriesSound
  <1>6. FramesTrue' /\ SocketsTrue'
    BY <1>1, <1>2 DEF FramesTrue, SocketsTrue, TrueTo, WasIn, Now
  <1>7. \A v \in Users : \A event, i : ToSend(v, event, i)' <=> ToSend(v, event, i)
    BY <1>2 DEF ToSend, Now
  <1>8. ASSUME NEW v \in Users, v # u PROVE Follows(v)' /\ PageTrue(v)'
    <2>1. Follows(v) /\ PageTrue(v)
      BY DEF ChatInv
    <2>2. Undisturbed(v) /\ down'[v] = down[v]
      BY <1>2, <1>3, <1>8 DEF Undisturbed, In, Shows
    <2> QED
      BY <1>1, <1>7, <2>1, <2>2, UndisturbedKeeps
  <1>9. Follows(u)'
    <2>1. Follows(u)
      BY DEF ChatInv
    <2> QED
      BY <1>2, <1>7, <2>1 DEF Follows
  <1>10. PageTrue(u)'
    <2> SUFFICES ASSUME In(u)', NEW i \in Heard(u)'
                 PROVE  ShowsWhatCame(u, i)' /\ HidesWhatWent(u, i)' /\ SettlesWhatCame(u, i)'
      BY DEF PageTrue
    <2>1. /\ i \in DOMAIN echoes /\ i \in Heard(u) /\ In(u) /\ Now(u)' = Now(u)
          /\ \A event : Due(u, event, i)' <=> Due(u, event, i)
      BY <1>2, <1>7 DEF Heard, In, Now, Due, OnWay
    <2>2. ShowsWhatCame(u, i) /\ HidesWhatWent(u, i) /\ SettlesWhatCame(u, i)
      BY <2>1 DEF ChatInv, PageTrue
    <2>3. list[u] \subseteq list'[u] /\ list'[u] \subseteq list[u] \union load[u].of
      BY <1>3 DEF Merged
    <2>4. ShowsWhatCame(u, i)'
      BY <1>2, <2>1, <2>2, <2>3 DEF ShowsWhatCame, Shows
    <2>5. HidesWhatWent(u, i)'
      <3>1. ASSUME ~Shows(u, i), \A e \in load[u].of : e.id # i PROVE ~Shows(u, i)'
        BY <2>3, <3>1 DEF Shows
      <3> QED
        BY <1>2, <1>3, <2>1, <2>2, <3>1 DEF HidesWhatWent
    <2>6. SettlesWhatCame(u, i)'
      <3>1. \A m : Pending(list[u], m) = {} /\ Pending(load[u].of, m) = {} => Pending(list'[u], m) = {}
        BY <2>3 DEF Pending
      <3> QED
        BY <1>2, <1>3, <2>1, <2>2, <3>1 DEF SettlesWhatCame
    <2> QED
      BY <2>4, <2>5, <2>6
  <1> QED
    BY <1>4, <1>5, <1>6, <1>8, <1>9, <1>10 DEF ChatInv, ChatBase

\* Connecting, losing the connection, changing rooms and reloading.
LEMMA DepartsIs ==
    ASSUME ChatInv, NEW u, u \in Users, Open(u) \/ Lose(u) \/ Switch(u) \/ Reload(u)
    PROVE  Departs(u)
  <1>1. PICK r : r = sock[u]
    OBVIOUS
  <1>2. r \in [n : Nat, is : {"closed", "open", "entered", "greeted"}, via : {"lurker", "voice"}]
    BY <1>1 DEF ChatInv, ChatBase, WiresTyped
  <1>3. ASSUME NEW n, n = r.n, NEW via \in {"lurker", "voice"}
        PROVE  [n |-> n, is |-> "closed", via |-> via] \in [n : Nat, is : {"closed", "open"}, via : {"lurker", "voice"}]
    BY <1>2, <1>3
  <1>4. ASSUME NEW s, s.is = "closed", s.n = r.n,
               s \in [n : Nat, is : {"closed", "open"}, via : {"lurker", "voice"}], sock' = [sock EXCEPT ![u] = s]
        PROVE  /\ sock[u].n <= s.n
               /\ s.is = "open" => sock[u].n < s.n
    BY <1>1, <1>2, <1>4
  <1>5. CASE Open(u)
    <2>1. PICK s : s = [r EXCEPT !.n = @ + 1, !.is = "open"]
      OBVIOUS
    <2>2. s = [n |-> r.n + 1, is |-> "open", via |-> r.via]
      BY <1>2, <2>1
    <2>3. s \in [n : Nat, is : {"closed", "open"}, via : {"lurker", "voice"}] /\ r.n <= s.n /\ r.n < s.n
      BY <1>2, <2>2
    <2>4. sock' = [sock EXCEPT ![u] = s]
      <3>1. DOMAIN sock = Users
        BY DEF ChatInv, ChatBase, WiresTyped
      <3> QED
        BY <1>1, <1>2, <1>5, <2>2, <3>1 DEF Open
    <2> QED
      BY <1>1, <1>5, <2>3, <2>4 DEF Open, Departs, browser, histories
  <1>6. CASE Lose(u)
    <2>1. PICK s : s = [r EXCEPT !.is = "closed"]
      OBVIOUS
    <2>2. s \in [n : Nat, is : {"closed", "open"}, via : {"lurker", "voice"}] /\ s.is = "closed" /\ s.n = r.n
      BY <1>2, <2>1
    <2>3. sock' = [sock EXCEPT ![u] = s]
      BY <1>1, <1>6, <2>1 DEF Lose
    <2> QED
      BY <1>4, <1>6, <2>2, <2>3 DEF Lose, Departs, browser, histories
  <1>7. CASE Switch(u)
    <2>1. PICK s : s = [r EXCEPT !.is = "closed", !.via = IF @ = "lurker" THEN "voice" ELSE "lurker"]
      OBVIOUS
    <2>2. s \in [n : Nat, is : {"closed", "open"}, via : {"lurker", "voice"}] /\ s.is = "closed" /\ s.n = r.n
      BY <1>2, <2>1
    <2>3. sock' = [sock EXCEPT ![u] = s]
      <3>1. DOMAIN sock = Users
        BY DEF ChatInv, ChatBase, WiresTyped
      <3>2. s = [n |-> r.n, is |-> "closed", via |-> IF r.via = "lurker" THEN "voice" ELSE "lurker"]
        BY <1>2, <2>1
      <3> QED
        BY <1>1, <1>2, <1>7, <3>1, <3>2 DEF Switch
    <2> QED
      BY <1>4, <1>7, <2>2, <2>3 DEF Switch, Departs, histories
  <1>8. CASE Reload(u)
    <2>1. PICK s : s = [r EXCEPT !.is = "closed", !.via = "lurker"]
      OBVIOUS
    <2>2. s \in [n : Nat, is : {"closed", "open"}, via : {"lurker", "voice"}] /\ s.is = "closed" /\ s.n = r.n
      BY <1>2, <2>1
    <2>3. sock' = [sock EXCEPT ![u] = s]
      <3>1. DOMAIN sock = Users
        BY DEF ChatInv, ChatBase, WiresTyped
      <3>2. s = [n |-> r.n, is |-> "closed", via |-> "lurker"]
        BY <1>2, <2>1
      <3>3. sock' = [sock EXCEPT ![u].is = "closed", ![u].via = "lurker"]
        BY <1>8 DEF Reload
      <3>4. \A v \in Users : sock'[v] = IF v = u THEN [r EXCEPT !.is = "closed", !.via = "lurker"] ELSE sock[v]
        BY <1>1, <1>2, <3>1, <3>3
      <3>5. DOMAIN sock' = Users
        BY <3>1, <3>3
      <3>6. \A v \in Users : sock'[v] = [sock EXCEPT ![u] = s][v]
        BY <2>1, <3>1, <3>4
      <3> QED
        BY <3>1, <3>3, <3>5, <3>6
    <2> QED
      BY <1>4, <1>8, <2>2, <2>3 DEF Reload, Departs, histories
  <1> QED
    BY <1>5, <1>6, <1>7, <1>8

LEMMA ChatInvInit == ChatInit => ChatInv
  <1> SUFFICES ASSUME ChatInit PROVE ChatInv
    OBVIOUS
  <1>1. /\ sock = [u \in Users |-> [n |-> 0, is |-> "closed", via |-> "lurker"]]
        /\ up = [u \in Users |-> <<>>] /\ down = [u \in Users |-> <<>>] /\ room = {} /\ work = {}
        /\ list = [u \in Users |-> {}] /\ db = list /\ load = [u \in Users |-> NotLoading]
        /\ echoes = <<>> /\ erased = {}
    BY DEF ChatInit
  <1>2. Len(echoes) = 0 /\ DOMAIN echoes = {} /\ \A u \in Users : DOMAIN down[u] = {} /\ DOMAIN up[u] = {}
    BY <1>1
  <1>3. WiresTyped
    <2>1. <<>> \in Seq(Ask) /\ <<>> \in Seq(Downstream) /\ <<>> \in Seq([m : Msgs, to : SUBSET Socket])
      OBVIOUS
    <2>2. up \in [Users -> Seq(Ask)] /\ down \in [Users -> Seq(Downstream)]
      <3>1. up \in [Users -> Seq(Ask)]
        BY <1>1, <2>1
      <3>2. down \in [Users -> Seq(Downstream)]
        BY <1>1, <2>1
      <3> QED
        BY <3>1, <3>2
    <2>3. sock \in [Users -> [n : Nat, is : {"closed", "open", "entered", "greeted"}, via : {"lurker", "voice"}]]
      BY <1>1
    <2> QED
      BY <1>1, <1>2, <2>1, <2>2, <2>3, ChatConstants DEF WiresTyped
  <1>4. HistoriesSound
    <2>1. Sound({}, 0)
      BY FS_EmptySet DEF Sound
    <2> QED
      BY <1>1, <1>2, <2>1 DEF HistoriesSound
  <1>5. FramesTrue /\ SocketsTrue
    BY <1>1, <1>2 DEF FramesTrue, SocketsTrue
  <1>6. \A u \in Users : Follows(u) /\ PageTrue(u)
    BY <1>1, <1>2 DEF Follows, PageTrue, In
  <1> QED
    BY <1>3, <1>4, <1>5, <1>6 DEF ChatInv, ChatBase

LEMMA ChatInvStep == ChatInv /\ [ChatNext]_chatVars => ChatInv'
  <1> SUFFICES ASSUME ChatInv, [ChatNext]_chatVars PROVE ChatInv'
    OBVIOUS
  <1>1. CASE UNCHANGED chatVars
    <2>1. UNCHANGED <<sock, up, room, work, down, list, db, load, echoes, erased, overtaken, crossed>>
      BY <1>1 DEF chatVars, browser, wires, histories
    <2>2. WiresTyped' /\ HistoriesSound' /\ FramesTrue' /\ SocketsTrue'
      BY <2>1 DEF ChatInv, ChatBase, WiresTyped, HistoriesSound, FramesTrue, SocketsTrue, TrueTo, WasIn, Now
    <2>3. ASSUME NEW v \in Users PROVE Follows(v)' /\ PageTrue(v)'
      <3>1. Undisturbed(v) /\ down'[v] = down[v] /\ \A event, i : ToSend(v, event, i)' <=> ToSend(v, event, i)
        BY <2>1 DEF Undisturbed, In, Shows, ToSend, Now
      <3> QED
        BY <3>1, UndisturbedKeeps DEF ChatInv, ChatBase
    <2> QED
      BY <2>2, <2>3 DEF ChatInv, ChatBase
  <1>2. ASSUME NEW u \in Users, Open(u) \/ Lose(u) \/ Switch(u) \/ Reload(u) PROVE ChatInv'
    BY <1>2, DepartsIs, DepartsKeeps
  <1>3. ASSUME NEW u \in Users, Enter(u) PROVE ChatInv'
    BY <1>3, EnterKeeps
  <1>4. ASSUME NEW u \in Users, Greet(u) PROVE ChatInv'
    BY <1>4, GreetKeeps
  <1>5. ASSUME NEW u \in Users, HandleChat(u) PROVE ChatInv'
    BY <1>5, HandleChatKeeps
  <1>6. ASSUME NEW u \in Users, DeliverChat(u) PROVE ChatInv'
    BY <1>6, DeliverKeeps
  <1>7. ASSUME NEW u \in Users, LoadEnds(u) PROVE ChatInv'
    BY <1>7, LoadEndsKeeps
  <1>8. ASSUME NEW u \in Users, Persist(u) \/ \E e \in list[u] : AskDelete(u, e) PROVE ChatInv'
    BY <1>8, PageKeeps
  <1>9. ASSUME NEW c, Part(c) PROVE ChatInv'
    BY <1>9, PartKeeps
  <1>10. ASSUME NEW w, NEW c, SendTo(w, c) PROVE ChatInv'
    BY <1>10, SendToKeeps
  <1>11. ASSUME NEW m \in Msgs, NEW file \in {"none", "temporary"}, Compose(m, file) PROVE ChatInv'
    BY <1>11, ComposeKeeps
  <1>12. ASSUME NEW m \in Msgs, UploadEnds(m) \/ RetryMessage(m) \/ Ages(m) PROVE ChatInv'
    <2>1. PICK u \in Users : u = AuthorOf[m]
      BY ChatConstants
    <2> QED
      BY <1>12, <2>1, PageKeeps
  <1> QED
    BY <1>1, <1>2, <1>3, <1>4, <1>5, <1>6, <1>7, <1>8, <1>9, <1>10, <1>11, <1>12 DEF ChatNext

LEMMA CaughtUpShows ==
    ASSUME ChatInv, NEW u, u \in Users, CaughtUp(u), NEW i, i \in Heard(u)
    PROVE  /\ <<u, i>> \notin overtaken => (Shows(u, i) <=> <<i, Now(u)>> \notin erased)
           /\ AuthorOf[echoes[i].m] = u /\ <<u, echoes[i].m>> \notin crossed => Pending(list[u], echoes[i].m) = {}
  <1>1. In(u) /\ down[u] = <<>> /\ \A w \in work : Now(u) \notin w.to
    BY DEF CaughtUp, In
  <1>2. DOMAIN down[u] = {}
    BY <1>1
  <1>3. \A event : ~Due(u, event, i)
    BY <1>1, <1>2 DEF Due, OnWay, ToSend
  <1>4. ShowsWhatCame(u, i) /\ HidesWhatWent(u, i) /\ SettlesWhatCame(u, i)
    BY <1>1 DEF ChatInv, PageTrue
  <1> QED
    BY <1>3, <1>4 DEF ShowsWhatCame, HidesWhatWent, SettlesWhatCame

LEMMA ChatInvHolds == ChatInv => ChatHolds
  <1> SUFFICES ASSUME ChatInv PROVE ChatHolds
    OBVIOUS
  <1>1. HistoryTrue
    BY CaughtUpShows DEF HistoryTrue
  <1>2. HeardIsNotPending
    <2> SUFFICES ASSUME NEW m \in Msgs, NEW u, u = AuthorOf[m], CaughtUp(u), <<u, m>> \notin crossed,
                        NEW i \in Heard(u), echoes[i].m = m
                 PROVE  Pending(list[u], m) = {}
      BY DEF HeardIsNotPending
    <2>1. u \in Users
      BY ChatConstants
    <2> QED
      BY <2>1, CaughtUpShows
  <1>3. SendsWhole
    <2>1. up \in [Users -> Seq(Ask)]
      BY DEF ChatInv, ChatBase, WiresTyped
    <2>2. \A f \in Ask : f.event = "chat-send" => f.file # "temporary"
      BY DEF Ask
    <2>3. \A u \in Users : \A i \in DOMAIN up[u] : up[u][i] \in Ask
      BY <2>1
    <2> QED
      BY <2>2, <2>3 DEF SendsWhole
  <1> QED
    BY <1>1, <1>2, <1>3 DEF ChatHolds

\* A user who has everything that was broadcast to them shows it, less what was erased, their
\* own messages are pending no more, and no message goes out with temporary files
\* (broadcast_chat, chatReceive, chatDelete, loadChatRoom and the retries).
THEOREM HistoryIsTrue == ChatSpec => []ChatHolds
  <1>1. ChatSpec => []ChatInv
    BY ChatInvInit, ChatInvStep, PTL DEF ChatSpec
  <1> QED
    BY <1>1, ChatInvHolds, PTL

-----------------------------------------------------------------------------
(* Types, of all the clients have.                                         *)

\* What ChatInv leaves open: a connection's handler has one broadcast at a time, and each has
\* recipients left.
BroadcastsTyped ==
    /\ \A w \in work : w.to # {}
    /\ \A v, w \in work : v.by = w.by => v = w

PagesTyped ==
    /\ \A u \in Users : sock[u].n \in 0 .. MaxSockets[u]
    /\ here \in [Users -> BOOLEAN] /\ saveDue \in [Users -> BOOLEAN]
    /\ upload \in [Msgs -> {NotUploading, "lurker", "voice"}]

LEMMA BroadcastsStep ==
    ASSUME ChatInv, BroadcastsTyped, [ChatNext]_chatVars
    PROVE  BroadcastsTyped'
  <1>1. ASSUME NEW u \in Users, HandleChat(u) PROVE BroadcastsTyped'
    <2>1. /\ Now(u) \in room /\ \A w \in work : w.by # Now(u)
          /\ work' = work \/ \E f : work' = work \union {[by |-> Now(u), to |-> room, sends |-> f]}
      BY <1>1 DEF HandleChat
    <2>2. CASE work' = work
      BY <2>2 DEF BroadcastsTyped
    <2>3. ASSUME NEW f, work' = work \union {[by |-> Now(u), to |-> room, sends |-> f]}
          PROVE  BroadcastsTyped'
      BY <2>1, <2>3 DEF BroadcastsTyped
    <2> QED BY <2>1, <2>2, <2>3
  <1>2. ASSUME NEW w \in work, NEW c \in w.to, SendTo(w, c) PROVE BroadcastsTyped'
    <2>1. work' = (work \ {w}) \union IF w.to = {c} THEN {} ELSE {[w EXCEPT !.to = @ \ {c}]}
      BY <1>2 DEF SendTo
    <2>2. CASE w.to = {c}
      BY <2>1, <2>2 DEF BroadcastsTyped
    <2>3. CASE w.to # {c}
      <3> DEFINE left == [w EXCEPT !.to = @ \ {c}]
      <3>1. left.to # {} /\ left.by = w.by
        <4>1. w \in [by : Socket, to : SUBSET Socket, sends : Sending]
          BY DEF ChatInv, ChatBase, WiresTyped
        <4> QED BY <2>3, <4>1
      <3>2. work' = (work \ {w}) \union {left}
        BY <2>1, <2>3
      <3> HIDE DEF left
      <3> QED BY <3>1, <3>2 DEF BroadcastsTyped
    <2> QED BY <2>2, <2>3
  <1>3. CASE UNCHANGED work
    BY <1>3 DEF BroadcastsTyped
  <1>4. (~\E u \in Users : HandleChat(u)) /\ (~\E w \in work : \E c \in w.to : SendTo(w, c)) => UNCHANGED work
    BY DEF ChatNext, chatVars, wires, Open, Enter, Greet, Lose, DeliverChat, Persist, LoadEnds, Switch, Reload,
           AskDelete, Part, Compose, UploadEnds, RetryMessage, Ages
  <1> QED BY <1>1, <1>2, <1>3, <1>4

LEMMA DeliversOne ==
    ASSUME ChatInv, NEW u \in Users, DeliverChat(u)
    PROVE  Head(down[u]).event \in {"welcome", "chat", "chat-deleted"}
  <1>1. down[u] \in Seq(Downstream) /\ down[u] # <<>>
    BY DEF ChatInv, ChatBase, WiresTyped, DeliverChat
  <1>2. Head(down[u]) \in Downstream
    BY <1>1
  <1> QED BY <1>2 DEF Downstream, Sending

\* The page's flags are set and reset, and its sockets counted up to their bound.
LEMMA PagesStep ==
    ASSUME ChatInv, PagesTyped, [ChatNext]_chatVars
    PROVE  PagesTyped'
  <1>1. /\ sock \in [Users -> [n : Nat, is : {"closed", "open", "entered", "greeted"}, via : {"lurker", "voice"}]]
        /\ MaxSockets \in [Users -> Nat] /\ AuthorOf \in [Msgs -> Users]
    BY ChatConstants DEF ChatInv, ChatBase, WiresTyped
  <1>2. \A u \in Users : sock'[u].n \in 0 .. MaxSockets[u]
    <2>1. ASSUME NEW u \in Users, Open(u) PROVE \A v \in Users : sock'[v].n \in 0 .. MaxSockets[v]
      <3>1. sock[u].n \in Nat /\ MaxSockets[u] \in Nat
        BY <1>1
      <3> QED BY <1>1, <2>1, <3>1 DEF Open, PagesTyped
    <2>2. ASSUME NEW u \in Users, Enter(u) \/ Greet(u) \/ Lose(u) \/ Switch(u) \/ Reload(u)
          PROVE  \A v \in Users : sock'[v].n = sock[v].n
      <3>1. CASE Enter(u)
        BY <1>1, <3>1 DEF Enter
      <3>2. CASE Greet(u)
        BY <1>1, <3>2 DEF Greet
      <3>3. CASE Lose(u)
        BY <1>1, <3>3 DEF Lose
      <3>4. CASE Switch(u)
        BY <1>1, <3>4 DEF Switch
      <3>5. CASE Reload(u)
        BY <1>1, <3>5 DEF Reload
      <3> QED BY <2>2, <3>1, <3>2, <3>3, <3>4, <3>5
    <2>3. (~\E u \in Users : Open(u) \/ Enter(u) \/ Greet(u) \/ Lose(u) \/ Switch(u) \/ Reload(u)) => UNCHANGED sock
      BY DEF ChatNext, chatVars, wires, HandleChat, DeliverChat, Persist, LoadEnds, AskDelete, Part, SendTo,
             Compose, UploadEnds, RetryMessage, Ages
    <2> QED BY <2>1, <2>2, <2>3 DEF PagesTyped
  <1>3. here' \in [Users -> BOOLEAN]
    <2>1. ASSUME NEW u \in Users, DeliverChat(u) \/ Reload(u) PROVE here' \in [Users -> BOOLEAN]
      <3>1. here' = here \/ here' = [here EXCEPT ![u] = TRUE] \/ here' = [here EXCEPT ![u] = FALSE]
        <4>1. Head(down[u]).event \in {"welcome", "chat", "chat-deleted"} \/ ~DeliverChat(u)
          BY DeliversOne
        <4> QED BY <2>1, <4>1 DEF DeliverChat, Welcomed, Received, Deleted, Reload
      <3> QED BY <3>1 DEF PagesTyped
    <2>2. (~\E u \in Users : DeliverChat(u) \/ Reload(u)) => UNCHANGED here
      BY DEF ChatNext, chatVars, browser, Open, Enter, Greet, Lose, HandleChat, Persist, LoadEnds, Switch,
             AskDelete, Part, SendTo, Compose, UploadEnds, RetryMessage, Ages
    <2> QED BY <2>1, <2>2 DEF PagesTyped
  <1>4. saveDue' \in [Users -> BOOLEAN]
    <2>1. ASSUME NEW u \in Users, DeliverChat(u) \/ Persist(u) \/ Reload(u) PROVE saveDue' \in [Users -> BOOLEAN]
      <3>1. saveDue' = saveDue \/ saveDue' = [saveDue EXCEPT ![u] = TRUE] \/ saveDue' = [saveDue EXCEPT ![u] = FALSE]
        <4>1. Head(down[u]).event \in {"welcome", "chat", "chat-deleted"} \/ ~DeliverChat(u)
          BY DeliversOne
        <4> QED BY <2>1, <4>1 DEF DeliverChat, Welcomed, Received, Deleted, Persist, Reload
      <3> QED BY <3>1 DEF PagesTyped
    <2>2. (~\E u \in Users : DeliverChat(u) \/ Persist(u) \/ Reload(u)) => UNCHANGED saveDue
      BY DEF ChatNext, chatVars, browser, Open, Enter, Greet, Lose, HandleChat, LoadEnds, Switch,
             AskDelete, Part, SendTo, Compose, UploadEnds, RetryMessage, Ages
    <2> QED BY <2>1, <2>2 DEF PagesTyped
  <1>5. upload' \in [Msgs -> {NotUploading, "lurker", "voice"}]
    <2>1. ASSUME NEW m \in Msgs, UploadEnds(m) \/ RetryMessage(m) \/ \E file \in {"none", "temporary"} : Compose(m, file)
          PROVE  upload' \in [Msgs -> {NotUploading, "lurker", "voice"}]
      <3>1. sock[AuthorOf[m]].via \in {"lurker", "voice"}
        BY <1>1
      <3>2. \/ upload' = upload \/ upload' = [upload EXCEPT ![m] = NotUploading]
            \/ upload' = [upload EXCEPT ![m] = sock[AuthorOf[m]].via]
        BY <2>1 DEF UploadEnds, RetryMessage, Compose
      <3> QED BY <3>1, <3>2 DEF PagesTyped
    <2>2. ASSUME NEW u \in Users, Reload(u) PROVE upload' \in [Msgs -> {NotUploading, "lurker", "voice"}]
      BY <2>2 DEF Reload, PagesTyped
    <2>3. (~\E m \in Msgs : UploadEnds(m) \/ RetryMessage(m) \/ \E file \in {"none", "temporary"} : Compose(m, file))
            /\ (~\E u \in Users : Reload(u)) => UNCHANGED upload
      BY DEF ChatNext, chatVars, browser, Open, Enter, Greet, Lose, HandleChat, DeliverChat, Persist, LoadEnds, Switch,
             AskDelete, Part, SendTo, Ages
    <2> QED BY <2>1, <2>2, <2>3 DEF PagesTyped
  <1> QED BY <1>2, <1>3, <1>4, <1>5 DEF PagesTyped

ClientsInv ==
    /\ RoomInv /\ HubInv
    /\ ChatInv /\ BroadcastsTyped /\ PagesTyped
    /\ UpdaterInv /\ HotkeyInv

LEMMA ClientsTyped == ClientsInv => TypesOK
  <1> SUFFICES ASSUME ClientsInv PROVE TypesOK
    OBVIOUS
  <1>1. TypeOK
    BY RoomInvTypes DEF ClientsInv
  <1>2. PresenceTypeOK
    BY DEF ClientsInv, HubInv, HubTyped, PresenceTypeOK
  <1>3. ChatTypeOK
    <2>1. /\ sock \in [Users -> [n : Nat, is : {"closed", "open", "entered", "greeted"}, via : {"lurker", "voice"}]]
          /\ Len(echoes) <= MaxEchoes
      BY DEF ClientsInv, ChatInv, ChatBase, WiresTyped
    <2>2. \A u \in Users : /\ list[u] \subseteq Entry /\ db[u] \subseteq Entry
                           /\ load[u] = NotLoading \/ load[u].of \subseteq Entry
      BY DEF ClientsInv, ChatInv, ChatBase, HistoriesSound, Sound
    <2>3. PagesTyped /\ BroadcastsTyped
      BY DEF ClientsInv
    <2> QED BY <2>1, <2>2, <2>3 DEF PagesTyped, BroadcastsTyped, ChatTypeOK
  <1>4. UpdaterTypeOK /\ HotkeyTypeOK
    BY DEF ClientsInv, UpdaterInv, HotkeyInv
  <1> QED BY <1>1, <1>2, <1>3, <1>4 DEF TypesOK

\* The variables of the room, the presence hub, the chat and the desktop client keep their
\* types, whatever the room, the streams, the users, the releases and the keys.
THEOREM ClientsTypes == ClientsSpec => []TypesOK
  <1>1. ClientsInit => ClientsInv
    <2> SUFFICES ASSUME ClientsInit PROVE ClientsInv
      OBVIOUS
    <2>1. ChatInit /\ PresenceInit /\ UpdaterInit /\ HotkeyInit /\ Init
      BY DEF ClientsInit, PresenceInit
    <2>2. BroadcastsTyped
      BY <2>1 DEF ChatInit, BroadcastsTyped
    <2>3. PagesTyped
      <3>1. \A u \in Users : 0 \in 0 .. MaxSockets[u]
        BY ChatConstants
      <3> QED BY <2>1, <3>1 DEF ChatInit, PagesTyped
    <2> QED BY <2>1, <2>2, <2>3, RoomStart, HubStart, ChatInvInit, UpdaterStart, HotkeyStart DEF ClientsInv
  <1>2. ClientsInv /\ [ClientsNext]_<<allVars, chatVars, updaterVars, hotkeyVars, part>> => ClientsInv'
    <2> SUFFICES ASSUME ClientsInv, [ClientsNext]_<<allVars, chatVars, updaterVars, hotkeyVars, part>>
                 PROVE  ClientsInv'
      OBVIOUS
    <2>1. /\ [PresenceNext]_allVars /\ [ChatNext]_chatVars
          /\ [UpdaterNext]_updaterVars /\ [HotkeyNext]_hotkeyVars
      BY DEF ClientsNext, PresencePart, ChatPart, UpdaterPart, HotkeyPart
    <2>2. [Next]_vars
      BY <2>1, PresenceMovesRoom
    <2> QED BY <2>1, <2>2, RoomStep, HubStep, ChatInvStep, BroadcastsStep, PagesStep, UpdaterStep, HotkeyStep
            DEF ClientsInv
  <1> QED BY <1>1, <1>2, ClientsTyped, PTL DEF ClientsSpec
=============================================================================
