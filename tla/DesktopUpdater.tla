--------------------------- MODULE DesktopUpdater ---------------------------
(***************************************************************************)
(* The self-update of the desktop client (src-tauri/src/updater.rs), the   *)
(* tray menu that offers it (tray.rs), the banner of the page that offers  *)
(* it too (frontend/src/hooks/useAppVersion.ts) and the choice of the      *)
(* server that is asked (connection.rs).                                   *)
(*                                                                         *)
(* Checks are tasks: each waits for its server without the lock, stores    *)
(* what it found under it, and tells the page and the tray after it.  The  *)
(* main thread runs the menu and the synchronous commands one by one.      *)
(***************************************************************************)
EXTENDS Naturals, FiniteSets

CONSTANTS
    Servers,        \* servers of the user
    NoServer,       \* connect.html, or nothing in the keychain
    MaxVersion,     \* bounds the releases; version 0 is none
    Checks          \* bounds the checks under way at a time

ASSUME UpdaterConstants == MaxVersion \in Nat /\ NoServer \notin Servers

VARIABLES
    home,           \* the host in the keychain
    page,           \* what the webview shows
    latest,         \* the release each server names in latest.json
    installed,      \* the version that runs
    pending,        \* UpdaterState.pending
    installing,     \* UpdaterState.installing
    recent,         \* last_checked is within FOCUS_THROTTLE
    checking,       \* the check tasks
    applying,       \* the apply_update of the banner and of the tray
    tray,           \* the version the menu offers to install
    banner,         \* the version the page offers
    unbuilt         \* history: the menu was to offer an update, offers none, and could not be rebuilt

updaterVars ==
    <<home, page, latest, installed, pending, installing, recent, checking, applying, tray, banner, unbuilt>>

Version == 0 .. MaxVersion
Callers == {"banner", "tray"}
NoTask == [stage |-> "idle"]

Task ==
    {NoTask} \union [stage : {"ready"}, force : BOOLEAN] \union [stage : {"asking"}, from : Servers]
        \union [stage : {"found", "telling", "showing"}, version : Version]

\* init: the first check is forced. A page is loaded from the stored host.
Started ==
    /\ pending' = 0 /\ installing' = FALSE /\ recent' = FALSE
    /\ \E c \in Checks : checking' = [d \in Checks |-> IF d = c THEN [stage |-> "ready", force |-> TRUE] ELSE NoTask]
    /\ applying' = [a \in Callers |-> NoTask]
    /\ tray' = 0 /\ banner' = 0 /\ unbuilt' = FALSE
    /\ page' = home

UpdaterInit ==
    /\ home \in Servers \union {NoServer} /\ page = home
    /\ latest = [s \in Servers |-> 0] /\ installed = 0
    /\ pending = 0 /\ installing = FALSE /\ recent = FALSE
    /\ \E c \in Checks : checking = [d \in Checks |-> IF d = c THEN [stage |-> "ready", force |-> TRUE] ELSE NoTask]
    /\ applying = [a \in Callers |-> NoTask]
    /\ tray = 0 /\ banner = 0 /\ unbuilt = FALSE

-----------------------------------------------------------------------------
(* A check. *)

To(c, task) == checking' = [checking EXCEPT ![c] = task]

\* The menu and a failed install force it, the hourly loop and a focus do not.
Spawn(c, force) ==
    /\ checking[c] = NoTask
    /\ To(c, [stage |-> "ready", force |-> force])
    /\ UNCHANGED <<home, page, latest, installed, pending, installing, recent, applying, tray, banner, unbuilt>>

CheckBegin(c) ==
    /\ checking[c].stage = "ready"
    /\ IF recent /\ ~checking[c].force THEN To(c, NoTask) /\ UNCHANGED recent
       ELSE /\ recent' = TRUE
            /\ To(c, IF home = NoServer THEN NoTask ELSE [stage |-> "asking", from |-> home])
    /\ UNCHANGED <<home, page, latest, installed, pending, installing, applying, tray, banner, unbuilt>>

\* The answer, none at all, or an error.
CheckAnswer(c) ==
    /\ checking[c].stage = "asking"
    /\ \/ /\ latest[checking[c].from] > installed
          /\ To(c, [stage |-> "found", version |-> latest[checking[c].from]])
       \/ To(c, NoTask)
    /\ UNCHANGED <<home, page, latest, installed, pending, installing, recent, applying, tray, banner, unbuilt>>

\* Mutant: an update the page was told of counts as known.
KnownToPage(v) == banner = v

Known(v) == pending = v

CheckStore(c) ==
    /\ checking[c].stage = "found"
    /\ pending' = checking[c].version
    /\ To(c, IF Known(checking[c].version) THEN NoTask ELSE [checking[c] EXCEPT !.stage = "telling"])
    /\ UNCHANGED <<home, page, latest, installed, installing, recent, applying, tray, banner, unbuilt>>

\* update-available: only the page of a server listens.
CheckTell(c) ==
    /\ checking[c].stage = "telling"
    /\ banner' = IF page = NoServer THEN banner ELSE checking[c].version
    /\ To(c, [checking[c] EXCEPT !.stage = "showing"])
    /\ UNCHANGED <<home, page, latest, installed, pending, installing, recent, applying, tray, unbuilt>>

\* set_update_available. A menu that cannot be rebuilt is only logged, and the update stays pending.
CheckShow(c) ==
    /\ checking[c].stage = "showing"
    /\ \/ tray' = checking[c].version /\ unbuilt' = FALSE
       \/ tray' = tray /\ unbuilt' = (unbuilt \/ tray = 0)
    /\ To(c, NoTask)
    /\ UNCHANGED <<home, page, latest, installed, pending, installing, recent, applying, banner>>

TimeIsUp ==
    /\ recent /\ recent' = FALSE
    /\ UNCHANGED <<home, page, latest, installed, pending, installing, checking, applying, tray, banner, unbuilt>>

-----------------------------------------------------------------------------
(* An install. *)

Offered(a) == IF a = "banner" THEN banner # 0 ELSE tray # 0

\* Mutant: a second install is not refused.
MayApplyAgain(a) == pending # 0

MayApply(a) == ~installing /\ pending # 0

\* A click on an offer; what is refused changes nothing.
ApplyBegin(a) ==
    /\ applying[a] = NoTask /\ Offered(a) /\ MayApply(a)
    /\ pending' = 0 /\ installing' = TRUE
    /\ applying' = [applying EXCEPT ![a] = [stage |-> "installing", version |-> pending]]
    /\ unbuilt' = FALSE
    /\ UNCHANGED <<home, page, latest, installed, recent, checking, tray, banner>>

InstallFails(a) ==
    /\ applying[a].stage = "installing"
    /\ installing' = FALSE
    /\ applying' = [applying EXCEPT ![a] = [stage |-> "failed"]]
    /\ UNCHANGED <<home, page, latest, installed, pending, recent, checking, tray, banner, unbuilt>>

\* update-error, and the check that is to find the update again.
ApplyFailed(a) ==
    /\ applying[a].stage = "failed"
    /\ applying' = [applying EXCEPT ![a] = NoTask]
    /\ \E c \in Checks : checking[c] = NoTask /\ To(c, [stage |-> "ready", force |-> TRUE])
    /\ UNCHANGED <<home, page, latest, installed, pending, installing, recent, tray, banner, unbuilt>>

\* The program restarts as the new version.
InstallDone(a) ==
    /\ applying[a].stage = "installing"
    /\ installed' = applying[a].version
    /\ Started
    /\ UNCHANGED <<home, latest>>

-----------------------------------------------------------------------------
(* The main thread, the server and the user. *)

\* The autostart item rebuilds the menu; if that fails it stays as it is.
RefreshMenu ==
    /\ tray' = pending /\ unbuilt' = FALSE
    /\ UNCHANGED <<home, page, latest, installed, pending, installing, recent, checking, applying, banner>>

\* set_host: what was found on the former server stays pending.
SetHost(s) ==
    /\ page = NoServer
    /\ home' = s /\ page' = s /\ banner' = 0
    /\ UNCHANGED <<latest, installed, pending, installing, recent, checking, applying, tray, unbuilt>>

ChangeServer ==
    /\ page # NoServer
    /\ page' = NoServer /\ banner' = 0
    /\ UNCHANGED <<home, latest, installed, pending, installing, recent, checking, applying, tray, unbuilt>>

Release(s) ==
    /\ latest[s] < MaxVersion
    /\ latest' = [latest EXCEPT ![s] = @ + 1]
    /\ UNCHANGED <<home, page, installed, pending, installing, recent, checking, applying, tray, banner, unbuilt>>

Quit ==
    /\ Started
    /\ UNCHANGED <<home, latest, installed>>

UpdaterNext ==
    \/ \E c \in Checks :
        \/ \E force \in BOOLEAN : Spawn(c, force)
        \/ CheckBegin(c) \/ CheckAnswer(c) \/ CheckStore(c) \/ CheckTell(c) \/ CheckShow(c)
    \/ \E a \in Callers : ApplyBegin(a) \/ InstallFails(a) \/ ApplyFailed(a) \/ InstallDone(a)
    \/ \E s \in Servers : SetHost(s) \/ Release(s)
    \/ TimeIsUp \/ RefreshMenu \/ ChangeServer \/ Quit

UpdaterSpec == UpdaterInit /\ [][UpdaterNext]_updaterVars

-----------------------------------------------------------------------------
UpdaterTypeOK ==
    /\ home \in Servers \union {NoServer} /\ page \in Servers \union {NoServer}
    /\ latest \in [Servers -> Version] /\ {installed, pending, tray, banner} \subseteq Version
    /\ {installing, recent, unbuilt} \subseteq BOOLEAN
    /\ checking \in [Checks -> Task]
    /\ applying \in [Callers -> {NoTask, [stage |-> "failed"]} \union [stage : {"installing"}, version : Version]]

\* Two clicks, on the banner and in the tray, never run two installs, though a check that ends
\* during the first makes another update pending (apply_update, updater.rs).
InstallsOnce ==
    /\ Cardinality({a \in Callers : applying[a].stage = "installing"}) <= 1
    /\ installing <=> \E a \in Callers : applying[a].stage = "installing"

\* An update that can be installed is in the tray's menu as soon as no check is about to put
\* it there, through failed installs, menus rebuilt while one ran, and changes of the server
\* (check and apply_update in updater.rs, refresh_menu in tray.rs). But for one case: a failed
\* rebuild is only logged while the update is pending, so to every later check it is known.
OfferStands ==
    (\A c \in Checks : checking[c].stage \notin {"telling", "showing"}) /\ pending # 0 /\ ~unbuilt
        => tray # 0

UpdatesHold == InstallsOnce /\ OfferStands
=============================================================================
