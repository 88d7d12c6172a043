------------------------------ MODULE Settings ------------------------------
(***************************************************************************)
(* The shortcuts of the settings: recorded and cleared on the settings     *)
(* page (SettingsPage.tsx), told apart by their keys (shortcuts.ts), kept  *)
(* in localStorage and moved on when a later version loads what an earlier *)
(* one stored (appSettings.ts).                                            *)
(*                                                                         *)
(* A shortcut is a set of modifiers and a key.  Of the shortcuts there are *)
(* the ones that are treated apart and one or two of the others.  The rest *)
(* of the settings is one thing that can be changed.                       *)
(***************************************************************************)
EXTENDS Integers, FiniteSets

CONSTANTS
    MaxChanges,     \* Bound on the changes made on the settings page.
    PeriodIsFree    \* Nobody gave Mod+Period away before completion took it.

VARIABLES
    mac,         \* isMac.
    added,       \* The shortcuts the version that runs does not know yet.
    revision,    \* The version's SHORTCUTS_REVISION.
    shortcuts,   \* settings.shortcuts of the running program.
    stored,      \* localStorage: Nothing, or the shortcuts and their revision.
    changes

vars == <<mac, added, revision, shortcuts, stored, changes>>

Chord(modifiers, key) == [modifiers |-> modifiers, key |-> key]
Unbound == Chord({}, "")
Nothing == [revision |-> -1]

DefaultShortcuts ==
    [runQuery |-> Chord({"Mod"}, "Enter"),
     cancelQuery |-> Chord({}, "Escape"),
     cancelQueryAlternate |-> Unbound,
     triggerCompletion |-> Chord({"Mod"}, "Period"),
     addNextMatch |-> Chord({"Mod"}, "KeyL"),
     newQueryTab |-> Chord({"Mod"}, "KeyT"),
     nextTab |-> Chord({"Ctrl"}, "Tab"),
     tabByNumber |-> Chord({"Mod"}, "Digit"),
     aiSend |-> Chord({"Mod"}, "Enter"),
     openConnections |-> Chord({"Mod"}, "KeyN")]

Ids == DOMAIN DefaultShortcuts
ShortcutScope(id) == IF id = "aiSend" THEN "ai" ELSE "app"

Digits == {"Digit1", "Digit2"}

(* Keystrokes: the ones of the defaults, the old defaults and the digits,   *)
(* with either modifier that can be Mod, and the keys that clear.           *)
Keystroke(modifiers, key) == [modifiers |-> modifiers, key |-> key]
Keystrokes ==
    {Keystroke({"Meta"}, k) : k \in {"KeyT", "KeyN", "KeyL", "Period", "Enter"} \cup Digits}
      \cup {Keystroke({"Control"}, k) : k \in {"Tab", "KeyT", "Digit1"}}
      \cup {Keystroke({"Meta", "Shift"}, "KeyD"), Keystroke({}, "Escape"), Keystroke({}, "Backspace")}

----------------------------------------------------------------------------
(* shortcuts.ts *)

EventKey(e, digitPattern) == IF e.key \in Digits /\ digitPattern THEN "Digit" ELSE e.key

ShortcutFromEvent(e, digitPattern) ==
    LET pressed == e.modifiers
        mod == "Meta" \in pressed \/ (~mac /\ "Control" \in pressed)
    IN  Chord((IF mod THEN {"Mod"} ELSE {})
                \cup (IF mac /\ "Control" \in pressed THEN {"Ctrl"} ELSE {})
                \cup (pressed \cap {"Alt", "Shift"}),
              EventKey(e, digitPattern))

Signature(s) ==
    Chord({IF m = "Mod" THEN (IF mac THEN "Meta" ELSE "Ctrl") ELSE m : m \in s.modifiers}, s.key)

ShortcutsConflict(left, right) ==
    LET a == Signature(left)
        b == Signature(right)
    IN  /\ left # Unbound /\ right # Unbound
        /\ a.modifiers = b.modifiers
        /\ \/ a.key = b.key
           \/ a.key = "Digit" /\ b.key \in Digits
           \/ b.key = "Digit" /\ a.key \in Digits

ShortcutMatches(e, s) ==
    s # Unbound /\ ShortcutsConflict(ShortcutFromEvent(e, s.key = "Digit"), s)

----------------------------------------------------------------------------
(* appSettings.ts *)

(* JSON.stringify keeps what this version knows. *)
Store(next) ==
    /\ shortcuts' = next
    /\ stored' = [revision |-> revision, shortcuts |-> next]

(* Before completion had Mod+Period it was the alternate cancel. *)
FreePeriod(value) ==
    IF "triggerCompletion" \notin DOMAIN value.shortcuts
         /\ value.shortcuts["cancelQueryAlternate"] = Chord({"Mod"}, "Period")
    THEN [value EXCEPT !.shortcuts["cancelQueryAlternate"] = Unbound]
    ELSE value

(* Before revision 1 addNextMatch was Mod+Shift+D; `old` is what was stored. *)
MoveNextMatch(value, old) ==
    IF /\ old.revision < 1
       /\ old.shortcuts["addNextMatch"] = Chord({"Mod", "Shift"}, "KeyD")
       /\ \A id \in DOMAIN old.shortcuts : old.shortcuts[id] # Chord({"Mod"}, "KeyL")
    THEN [value EXCEPT !.shortcuts["addNextMatch"] = Chord({"Mod"}, "KeyL")]
    ELSE value

(* "A shortcut added later must not take a key the user already bound". *)
LeaveTaken(value, old, id) ==
    IF id \notin DOMAIN old.shortcuts
         /\ \E other \in DOMAIN old.shortcuts : old.shortcuts[other] = DefaultShortcuts[id]
    THEN [value EXCEPT !.shortcuts = [i \in DOMAIN @ \cup {id} |-> IF i = id THEN Unbound ELSE @[i]]]
    ELSE value

(* Mutated form of Load: the old default moves on whenever it is met. *)
LoadMovesAlways(old) ==
    IF old = Nothing THEN DefaultShortcuts
    ELSE LET value == LeaveTaken(LeaveTaken(MoveNextMatch(FreePeriod(old), [old EXCEPT !.revision = 0]),
                                            old, "newQueryTab"), old, "openConnections")
         IN  [id \in Ids |-> IF id \in DOMAIN value.shortcuts THEN value.shortcuts[id]
                             ELSE DefaultShortcuts[id]]

Load(old) ==
    IF old = Nothing THEN DefaultShortcuts
    ELSE LET value == LeaveTaken(LeaveTaken(MoveNextMatch(FreePeriod(old), old), old, "newQueryTab"),
                                 old, "openConnections")
         IN  [id \in Ids |-> IF id \in DOMAIN value.shortcuts THEN value.shortcuts[id]
                             ELSE DefaultShortcuts[id]]

----------------------------------------------------------------------------
(* The settings page. *)
Known == DOMAIN shortcuts
UserDoes == changes < MaxChanges /\ changes' = changes + 1

Bind(id, s) == Store([shortcuts EXCEPT ![id] = s])

(* handleKeyDown of the recorder: a key that is taken changes nothing. *)
Record(id, e) ==
    LET s == ShortcutFromEvent(e, id = "tabByNumber")
    IN  /\ UserDoes
        /\ IF e.key = "Backspace" THEN Bind(id, Unbound)
           ELSE /\ \A other \in Known \ {id} : ShortcutScope(other) = ShortcutScope(id)
                                                => ~ShortcutsConflict(shortcuts[other], s)
                /\ PeriodIsFree /\ "triggerCompletion" \in added => s # DefaultShortcuts["triggerCompletion"]
                /\ Bind(id, s)
        /\ UNCHANGED <<mac, added, revision>>

(* The button that clears a shortcut. *)
Clear(id) ==
    /\ UserDoes /\ shortcuts[id] # Unbound
    /\ Bind(id, Unbound)
    /\ UNCHANGED <<mac, added, revision>>

(* setAppSettings of a theme, a font or a model stores the shortcuts too. *)
ChangeOther ==
    /\ UserDoes
    /\ Store(shortcuts)
    /\ UNCHANGED <<mac, added, revision>>

(* What the version that runs starts with: earlier versions had fewer       *)
(* shortcuts and other defaults for two of them.                            *)
VersionDefaults ==
    [id \in Ids \ added |->
        IF id = "cancelQueryAlternate" /\ "triggerCompletion" \in added
          THEN Chord({"Mod"}, "Period")
        ELSE IF id = "addNextMatch" /\ revision = 0 THEN Chord({"Mod", "Shift"}, "KeyD")
        ELSE DefaultShortcuts[id]]

ResetAppSettings ==
    /\ UserDoes
    /\ shortcuts' = VersionDefaults /\ stored' = Nothing
    /\ UNCHANGED <<mac, added, revision>>

(* The program is started again, in its latest version. *)
Start ==
    /\ added' = {} /\ revision' = 1
    /\ shortcuts' = Load(stored)
    /\ UNCHANGED <<mac, stored, changes>>

(* Any version, as it comes. *)
Init ==
    /\ mac \in BOOLEAN /\ revision \in {0, 1}
    /\ added \in SUBSET {"triggerCompletion", "newQueryTab", "openConnections"}
    /\ added = {} => revision = 1
    /\ shortcuts = VersionDefaults
    /\ stored = Nothing /\ changes = 0

Next ==
    \/ \E id \in Known : Clear(id) \/ \E e \in Keystrokes : Record(id, e)
    \/ ChangeOther \/ ResetAppSettings \/ Start

Spec == Init /\ [][Next]_vars

----------------------------------------------------------------------------
(* A keystroke means one thing: no two shortcuts that listen in the same   *)
(* place answer to it, whatever was recorded, cleared, stored and moved on *)
(* from an earlier version (handleKeyDown, shortcutsConflict, load).       *)
OneMeaning ==
    \A e \in Keystrokes :
        LET heard == {id \in Known : ShortcutMatches(e, shortcuts[id])}
        IN  \A id, other \in heard : ShortcutScope(id) = ShortcutScope(other) => id = other

(* What the user chose in this version is there after a restart, "the      *)
(* unbound shortcut" (shortcuts.ts:59) and a key that an upgrade would     *)
(* have moved included.                                                    *)
SurvivesRestart == added = {} /\ revision = 1 => Load(stored) = shortcuts

(* Shortcuts are told apart and kept. *)
ShortcutsAreKept == OneMeaning /\ SurvivesRestart
=============================================================================
