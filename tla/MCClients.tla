----------------------------- MODULE MCClients ------------------------------
(***************************************************************************)
(* Instances of Presence, with the Room below it, Chat, DesktopUpdater and *)
(* DesktopHotkey for TLC.  They share no variable: every behaviour is      *)
(* about one of them, chosen at the start.                                 *)
(*                                                                         *)
(* A browser watches a room of two: sessions x and y of one client, one of *)
(* which evicts the other (part "eviction"), or x and another client, z    *)
(* (part "company").  In the chat, one user's page connects three times    *)
(* (part "pages"), or another user is there too (part "talk").  The        *)
(* keyboard is used (part "hotkey"), or the alert is shown (part "icon").  *)
(***************************************************************************)
EXTENDS Chat, Presence, DesktopUpdater, DesktopHotkey

CONSTANTS x, y, z, me, them, nobody, tab

VARIABLE part

MCPeers == {x, y, z}
MCClientIds == {me, them, nobody}
Reconnecting == [p \in MCPeers |-> IF p = z THEN them ELSE me]

KeyLabel == [k \in Keys |-> IF k = "m" THEN "M" ELSE "Ctrl"]
CtrlM == [keys |-> {"Ctrl", "M"}]
ThreeBindings == {CtrlM, [keys |-> {"Ctrl"}], [button |-> "Right"]}

OwnMessages == [m \in Msgs |-> me]
SocketsOf == [u \in Users |-> IF u = me THEN 3 ELSE 1]

ClientsInit ==
    /\ ChatInit /\ PresenceInit /\ UpdaterInit /\ HotkeyInit
    /\ part \in {"eviction", "company", "pages", "talk", "updater", "hotkey", "icon"}
    /\ last = "m"
    /\ part # "hotkey" => platform = [mutes |-> FALSE, releases |-> FALSE]
    /\ part # "updater" => home = NoServer /\ checking[CHOOSE c \in Checks : TRUE] # NoTask

PresencePart ==
    /\ \/ part = "eviction" /\ PresenceNext /\ at'[z] = "new"
       \/ part = "company" /\ PresenceNext /\ at'[y] = "new"
    /\ UNCHANGED <<chatVars, updaterVars, hotkeyVars>>
ChatPart ==
    /\ \/ part = "pages" /\ ChatNext /\ sock'[them] = sock[them] /\ load'[them] = load[them]
       \/ part = "talk" /\ ChatNext /\ sock'[me].n < 2 /\ sock'[them].via = sock[them].via
    /\ UNCHANGED <<allVars, updaterVars, hotkeyVars>>
UpdaterPart == part = "updater" /\ UpdaterNext /\ UNCHANGED <<chatVars, allVars, hotkeyVars>>
HotkeyPart ==
    /\ \/ part = "hotkey" /\ HotkeyNext /\ ~alert'
       \/ part = "icon" /\ HotkeyNext /\ held' = {}
    /\ UNCHANGED <<chatVars, allVars, updaterVars>>

ClientsNext == UNCHANGED part /\ (PresencePart \/ ChatPart \/ UpdaterPart \/ HotkeyPart)

ClientsSpec == ClientsInit /\ [][ClientsNext]_<<allVars, chatVars, updaterVars, hotkeyVars, part>>

TypesOK == TypeOK /\ ChatTypeOK /\ PresenceTypeOK /\ UpdaterTypeOK /\ HotkeyTypeOK
=============================================================================
