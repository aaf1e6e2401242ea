--------------------------- MODULE DesktopHotkey ----------------------------
(***************************************************************************)
(* The global shortcut of the desktop client (src-tauri/src/listener.rs,   *)
(* commands.rs, shortcut.rs) and its attention icon (tray_flash.rs), with  *)
(* the focus events of lib.rs that both depend on.                         *)
(*                                                                         *)
(* The listener hears keys and buttons on a thread of its own.  The        *)
(* commands of the page and the focus events run on the main thread, a     *)
(* focus event some time after the focus changed.                          *)
(***************************************************************************)
EXTENDS Naturals, Sequences, FiniteSets

CONSTANTS
    Keys,           \* the keys of the keyboard
    Label,          \* Label[k]: the name of k in a binding, one for both variants of a modifier
    Modifiers,      \* the names of the modifiers
    Bindings,       \* what the user binds: [keys |-> names] or [button |-> name]
    Default,        \* the binding of a first run
    None,           \* no binding
    Missing,        \* no file, or one that cannot be read
    Cooldown,       \* COOLDOWN, in the time between two repeats of a held key
    MaxLag          \* bounds the focus events under way

ASSUME HotkeyConstants ==
    /\ Label \in [Keys -> STRING] /\ Modifiers \subseteq STRING
    /\ Default \in Bindings /\ None \notin Bindings /\ Missing \notin Bindings \union {None}
    /\ Cooldown \in Nat /\ MaxLag \in Nat \ {0}

VARIABLES
    binding, capturing, pressed, focused,   \* ListenerState
    age,            \* the time since last_fire, as far as the cooldown tells
    disk,           \* shortcut.json
    saving,         \* the command between its save and its lock
    alert,          \* the alert icon is shown
    active,         \* tray_active or window_icon_active: a focus is to revert it
    broken,         \* history: a call of the window or of the icon failed and the alert shows for it
    window,         \* the window has the focus
    events,         \* focus events not yet handled
    held,           \* the keys that are down
    last,           \* the key pressed last, the one a keyboard repeats
    platform,       \* whether a focused window mutes the keyboard, and a repeat begins with a release
    toggles,        \* history: toggles since the user last did something but hold a key; 2 is several
    unsaved         \* history: the file was left behind by a failed or an overtaken save

listener == <<binding, capturing, pressed, focused, age>>
icon == <<alert, active, broken>>
hotkeyVars == <<listener, disk, saving, icon, window, events, held, last, platform, toggles, unsaved>>

Idle == [of |-> "nothing"]

\* ListenerState::new with what load_or_seed returns.
Loaded(file) == IF file = Missing THEN Default ELSE file

HotkeyInit ==
    /\ disk = Default /\ binding = Default
    /\ capturing = FALSE /\ pressed = {} /\ focused = FALSE /\ age = Cooldown
    /\ saving = Idle /\ window = FALSE /\ events = <<>> /\ held = {} /\ last \in Keys
    /\ alert = FALSE /\ active = FALSE /\ broken = FALSE
    /\ platform \in [mutes : BOOLEAN, releases : BOOLEAN]
    /\ toggles = 0 /\ unsaved = FALSE

-----------------------------------------------------------------------------
(* What the listener hears. *)

IsModifier(k) == Label[k] \in Modifiers
IsKeyboard(b) == b # None /\ "keys" \in DOMAIN b
ModifierOnly(b) == IsKeyboard(b) /\ b.keys # {} /\ b.keys \subseteq Modifiers

\* The keys of a name: both variants of a modifier, or the key label_to_key has for it.
KeysOf(name) == {k \in Keys : Label[k] = name}

\* Exactly the modifiers of the binding are down, and all of its other keys.
Matches(b, down) ==
    /\ IsKeyboard(b)
    /\ \A m \in Modifiers : m \in b.keys <=> KeysOf(m) \intersect down # {}
    /\ \A n \in b.keys \ Modifiers : KeysOf(n) \intersect down # {}

\* fire_toggle; the count starts from base.
FireToggle(since, base) ==
    IF since < Cooldown THEN age' = since /\ toggles' = base
    ELSE age' = 0 /\ toggles' = IF base = 0 THEN 1 ELSE 2

\* Mutant: a key that is down already counts as pressed again.
IsRepeatNever(k, down) == FALSE

IsRepeat(k, down) == k \in down

\* handle_event of a press of k, when the keys in down were believed to be down.
Press(k, down, since, base) ==
    /\ pressed' = down \union {k}
    /\ IF /\ ~IsRepeat(k, down) /\ ~capturing /\ ~focused
          /\ IsModifier(k) <=> ModifierOnly(binding)
          /\ Matches(binding, down \union {k})
       THEN FireToggle(since, base)
       ELSE age' = since /\ toggles' = base
    /\ UNCHANGED <<binding, capturing, focused>>

Muted == platform.mutes /\ window

KeyDown(k) ==
    /\ k \notin held
    /\ held' = held \union {k} /\ last' = k
    /\ IF Muted THEN toggles' = 0 /\ UNCHANGED listener ELSE Press(k, pressed, age, 0)
    /\ UNCHANGED <<disk, saving, icon, window, events, platform, unsaved>>

\* The keyboard repeats the key pressed last while it is held.
Repeat(k) ==
    /\ k \in held /\ k = last /\ ~Muted
    /\ LET later == IF age < Cooldown THEN age + 1 ELSE age
           down == IF platform.releases THEN pressed \ {k} ELSE pressed
       IN Press(k, down, later, toggles)
    /\ UNCHANGED <<disk, saving, icon, window, events, held, last, platform, unsaved>>

KeyUp(k) ==
    /\ k \in held
    /\ held' = held \ {k} /\ toggles' = 0
    /\ pressed' = IF Muted THEN pressed ELSE pressed \ {k}
    /\ UNCHANGED <<binding, capturing, focused, age, disk, saving, icon, window, events, last, platform, unsaved>>

\* capture_mouse: the binding is taken even if it cannot be saved. fs::write cuts the file first.
CaptureMouse(b) ==
    /\ binding' = b /\ pressed' = {} /\ capturing' = FALSE /\ age' = 0
    /\ toggles' = 0
    /\ \/ disk' = b /\ unsaved' = (saving # Idle)
       \/ disk' \in {disk, Missing} /\ unsaved' = (unsaved \/ disk' # b)
    /\ UNCHANGED focused

\* A press of the button that b names; the left button has no name and does nothing.
ButtonDown(b) ==
    /\ ~IsKeyboard(b)
    /\ IF capturing THEN CaptureMouse(b)
       ELSE /\ IF binding = b THEN FireToggle(age, 0) ELSE toggles' = 0 /\ UNCHANGED age
            /\ UNCHANGED <<binding, capturing, pressed, focused, disk, unsaved>>
    /\ UNCHANGED <<saving, icon, window, events, held, last, platform>>

TimeGoesBy ==
    /\ age < Cooldown /\ age' = age + 1
    /\ UNCHANGED <<binding, capturing, pressed, focused, disk, saving, icon, window, events, held, last, platform, toggles, unsaved>>

-----------------------------------------------------------------------------
(* The main thread. *)

Changed(focus) ==
    /\ Len(events) < MaxLag
    /\ window' = focus
    /\ events' = Append(events, focus)
    /\ UNCHANGED <<listener, disk, saving, icon, held, last, platform, toggles, unsaved>>

FocusChange == Changed(~window)

\* Mutant: the keys believed to be down survive a change of the focus.
AfterFocusAll(down) == down

AfterFocus(down) == {}

\* revert_if_active: an icon that could not be set is not tried again.
Revert ==
    IF ~active THEN UNCHANGED icon
    ELSE /\ active' = FALSE
         /\ \/ alert' = FALSE /\ broken' = FALSE
            \/ alert' = alert /\ broken' = TRUE

FocusEvent ==
    /\ saving = Idle /\ events # <<>>
    /\ focused' = Head(events) /\ events' = Tail(events)
    /\ pressed' = AfterFocus(pressed) /\ toggles' = 0
    /\ IF Head(events) THEN Revert ELSE UNCHANGED icon
    /\ UNCHANGED <<binding, capturing, age, disk, saving, window, held, last, platform, unsaved>>

\* set_shortcut and clear_shortcut save first, and stop if that fails, which may have cut the file.
Save(b) ==
    /\ saving = Idle
    /\ \/ disk' = b /\ saving' = [of |-> "command", to |-> b] /\ UNCHANGED unsaved
       \/ disk' = Missing /\ unsaved' = TRUE /\ UNCHANGED saving
    /\ UNCHANGED <<listener, icon, window, events, held, last, platform, toggles>>

\* A capture that came between is replaced in memory and not in the file.
SetShortcut ==
    /\ saving # Idle /\ saving.to # None
    /\ binding' = saving.to /\ age' = 0
    /\ saving' = Idle /\ toggles' = 0
    /\ unsaved' = (unsaved /\ disk # saving.to)
    /\ UNCHANGED <<capturing, pressed, focused, disk, icon, window, events, held, last, platform>>

ClearShortcut ==
    /\ saving # Idle /\ saving.to = None
    /\ binding' = None /\ capturing' = FALSE /\ pressed' = {} /\ age' = 0
    /\ saving' = Idle /\ toggles' = 0
    /\ unsaved' = (unsaved /\ disk # None)
    /\ UNCHANGED <<focused, disk, icon, window, events, held, last, platform>>

\* start_capture and cancel_capture.
SetCapturing(on) ==
    /\ saving = Idle
    /\ capturing' = on /\ pressed' = {} /\ toggles' = 0
    /\ UNCHANGED <<binding, focused, age, disk, saving, icon, window, events, held, last, platform, unsaved>>

\* Mutant: the icon changes whether or not the window has the focus.
MayFlashAlways(answers) == TRUE

\* The window is asked whether it has the focus; one that does not answer is taken not to have it.
MayFlash(answers) == answers => ~window

FlashAttention ==
    /\ saving = Idle
    /\ \E answers \in BOOLEAN :
        /\ MayFlash(answers)
        /\ broken' = (broken \/ (window /\ ~answers))
    /\ alert' = TRUE /\ active' = TRUE
    /\ UNCHANGED <<listener, disk, saving, window, events, held, last, platform, toggles, unsaved>>

\* The program ends and starts again, maybe with a file that is gone, was cut short or cannot
\* be read. load_or_seed takes the default then and tries to save it, which may fail.
StartAgain ==
    /\ \E file \in {disk, Missing} :
        /\ binding' = Loaded(file) /\ disk' \in {disk, file, Loaded(file)}
        /\ unsaved' = (disk' \notin {file, Loaded(file)})
    /\ capturing' = FALSE /\ pressed' = {} /\ focused' = FALSE /\ age' = Cooldown
    /\ saving' = Idle /\ window' = FALSE /\ events' = <<>> /\ toggles' = 0
    /\ alert' = FALSE /\ active' = FALSE /\ broken' = FALSE
    /\ UNCHANGED <<held, last, platform>>

HotkeyNext ==
    \/ \E k \in Keys : KeyDown(k) \/ Repeat(k) \/ KeyUp(k)
    \/ \E b \in Bindings : ButtonDown(b)
    \/ \E b \in Bindings \union {None} : Save(b)
    \/ \E on \in BOOLEAN : SetCapturing(on)
    \/ TimeGoesBy \/ FocusChange \/ FocusEvent \/ SetShortcut \/ ClearShortcut \/ FlashAttention \/ StartAgain

HotkeySpec == HotkeyInit /\ [][HotkeyNext]_hotkeyVars

-----------------------------------------------------------------------------
HotkeyTypeOK ==
    /\ binding \in Bindings \union {None} /\ disk \in Bindings \union {None, Missing}
    /\ {capturing, focused, alert, active, broken, window, unsaved} \subseteq BOOLEAN
    /\ pressed \subseteq Keys /\ held \subseteq Keys /\ last \in Keys
    /\ age \in 0 .. Cooldown /\ toggles \in 0 .. 2
    /\ saving = Idle \/ saving.to \in Bindings \union {None}
    /\ events \in Seq(BOOLEAN) /\ Len(events) <= MaxLag

FocusKnown == events = <<>>

\* What the handler of focus events in lib.rs says: no key that went up while the focused
\* window muted the keyboard is left in pressed, so no later press fires with a ghost of it.
NoGhostKey == FocusKnown /\ ~window => pressed \subseteq held

\* One press toggles once however long it is held, where a repeat is a press only
\* (handle_event in listener.rs).
PressTogglesOnce == ~platform.releases => toggles <= 1

\* The alert icon does not outlive a focus (flash_attention and revert_if_active in
\* tray_flash.rs against the focus events of lib.rs), but where a call failed: a focused window
\* that did not say so, or an icon that could not be set back, which is forgotten.
AlertEnds == FocusKnown /\ window /\ ~broken => ~alert

\* The shortcut in use is the one a restart loads (commands.rs, capture_mouse, load_or_seed),
\* but after a save that failed, of a command or of a captured button, which may leave the old
\* file or a cut one; after a button captured between the two steps of a command; and after a
\* start that could neither read the file nor replace it.
ShortcutKept == saving = Idle /\ ~unsaved => binding = Loaded(disk)

HotkeyHolds == NoGhostKey /\ PressTogglesOnce /\ AlertEnds /\ ShortcutKept

\* What listener.rs:65-67 says of a platform that releases a held key between two repeats: the
\* cooldown catches those presses, so a key that is held toggles once. Not kept:
\* what it catches does not start it again, and a later repeat is past it.
HeldTogglesOnce == toggles <= 1
=============================================================================
