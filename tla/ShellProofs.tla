---------------------------- MODULE ShellProofs ----------------------------
(***************************************************************************)
(* Proofs about the stores behind the shell.  The shortcuts: that no two   *)
(* of one scope answer to one keystroke, whatever was recorded in whatever *)
(* version, and that a restart changes none, for any number of changes.    *)
(* The profiles and connections: that the page and the rail show what the  *)
(* backend has.  The layout: that no tab is lost or shown twice, for any   *)
(* number of tabs.                                                         *)
(***************************************************************************)
EXTENDS MCShell, WellFoundedInduction, TLAPS

Modifiers == {"Mod", "Ctrl", "Alt", "Shift"}
KeyNames == {"", "Enter", "Escape", "Tab", "Period", "KeyL", "KeyD", "KeyT", "KeyN",
             "Digit", "Digit1", "Digit2"}

(* The shortcuts a machine can hold: off a Mac the recorder never gives    *)
(* Ctrl, so only the default of nextTab has it.                            *)
ChordsOf(m) ==
    {c \in [modifiers : SUBSET Modifiers, key : KeyNames] :
        "Ctrl" \in c.modifiers => m \/ c.key = "Tab"}

(* ShortcutsConflict with the kind of machine as a parameter. *)
Keys(m, c) == {IF x = "Mod" THEN (IF m THEN "Meta" ELSE "Ctrl") ELSE x : x \in c.modifiers}
Conflict(m, l, r) ==
    /\ l # S!Unbound /\ r # S!Unbound
    /\ Keys(m, l) = Keys(m, r)
    /\ \/ l.key = r.key
       \/ l.key = "Digit" /\ r.key \in S!Digits
       \/ r.key = "Digit" /\ l.key \in S!Digits

Apart(m, sc) ==
    \A a, b \in DOMAIN sc :
        a # b /\ S!ShortcutScope(a) = S!ShortcutScope(b) => ~Conflict(m, sc[a], sc[b])

Later == {"triggerCompletion", "newQueryTab", "openConnections"}
Period == S!Chord({"Mod"}, "Period")

(* What a version that does not know the shortcuts `a` yet can hold: no    *)
(* two conflict, and completion's key is at most the alternate cancel's.   *)
Held(m, a, r, sc) ==
    /\ a \in SUBSET Later /\ r \in {0, 1} /\ (a = {} => r = 1)
    /\ sc \in [S!Ids \ a -> ChordsOf(m)]
    /\ Apart(m, sc)
    /\ "triggerCompletion" \in a =>
         \A id \in DOMAIN sc : sc[id] = Period => id = "cancelQueryAlternate"

StoredIsHeld ==
    \/ stored = S!Nothing
    \/ \E a \in SUBSET Later, r \in {0, 1} :
         \E sc \in [S!Ids \ a -> ChordsOf(mac)] :
            Held(mac, a, r, sc) /\ stored = [revision |-> r, shortcuts |-> sc]

(* The inductive invariant of the settings. *)
SettingsInv ==
    /\ mac \in BOOLEAN
    /\ Held(mac, added, revision, shortcuts)
    /\ StoredIsHeld
    /\ S!SurvivesRestart

----------------------------------------------------------------------------
(* Chords and conflicts. *)

(* The shortcuts by name (DEFAULT_SHORTCUTS). *)
LEMMA IdsAre ==
    S!Ids = {"runQuery", "cancelQuery", "cancelQueryAlternate", "triggerCompletion",
             "addNextMatch", "newQueryTab", "nextTab", "tabByNumber", "aiSend", "openConnections"}
  BY DEF S!Ids, S!DefaultShortcuts

(* shortcutsConflict reads the kind of machine and nothing else. *)
LEMMA ConflictIs ==
    ASSUME NEW l, NEW r
    PROVE  S!ShortcutsConflict(l, r) <=> Conflict(mac, l, r)
  BY DEF S!ShortcutsConflict, S!Signature, S!Chord, Conflict, Keys

(* It does not matter which of two shortcuts was there first. *)
LEMMA ConflictIsMutual ==
    ASSUME NEW m, NEW l, NEW r
    PROVE  Conflict(m, l, r) <=> Conflict(m, r, l)
  BY DEF Conflict

(* Signatures tell modifiers apart, except for Mod and Ctrl off a Mac. *)
LEMMA KeysTellApart ==
    ASSUME NEW m \in BOOLEAN, NEW l \in ChordsOf(m), NEW r \in ChordsOf(m),
           m \/ ("Ctrl" \notin l.modifiers /\ "Ctrl" \notin r.modifiers),
           Keys(m, l) = Keys(m, r)
    PROVE  l.modifiers = r.modifiers
  <1>1. l.modifiers \subseteq Modifiers /\ r.modifiers \subseteq Modifiers
    BY DEF ChordsOf
  <1>2. ASSUME NEW c, NEW d, c \subseteq Modifiers, d \subseteq Modifiers,
               m \/ ("Ctrl" \notin c /\ "Ctrl" \notin d),
               {IF x = "Mod" THEN (IF m THEN "Meta" ELSE "Ctrl") ELSE x : x \in c}
                 = {IF x = "Mod" THEN (IF m THEN "Meta" ELSE "Ctrl") ELSE x : x \in d},
               NEW y \in c
        PROVE  y \in d
    <2>1. (IF y = "Mod" THEN (IF m THEN "Meta" ELSE "Ctrl") ELSE y)
            \in {IF x = "Mod" THEN (IF m THEN "Meta" ELSE "Ctrl") ELSE x : x \in d}
      BY <1>2
    <2>2. PICK z \in d : (IF y = "Mod" THEN (IF m THEN "Meta" ELSE "Ctrl") ELSE y)
                           = (IF z = "Mod" THEN (IF m THEN "Meta" ELSE "Ctrl") ELSE z)
      BY <2>1
    <2> QED  BY <1>2, <2>2 DEF Modifiers
  <1>3. \A y \in l.modifiers : y \in r.modifiers
    BY <1>1, <1>2 DEF Keys
  <1>4. \A y \in r.modifiers : y \in l.modifiers
    BY <1>1, <1>2 DEF Keys
  <1> QED  BY <1>3, <1>4

(* A shortcut that conflicts with one of the defaults an upgrade brings is *)
(* that default, letter for letter: load compares with `===` on strings.   *)
Fresh == {"triggerCompletion", "addNextMatch", "newQueryTab", "openConnections"}

(* The defaults an upgrade brings, and what they are. *)
LEMMA FreshDefaults ==
    ASSUME NEW id \in Fresh
    PROVE  /\ S!DefaultShortcuts[id].modifiers = {"Mod"}
           /\ S!DefaultShortcuts[id].key \in {"Period", "KeyL", "KeyT", "KeyN"}
           /\ \A m : S!DefaultShortcuts[id] \in ChordsOf(m)
           /\ \A other \in Fresh : S!DefaultShortcuts[id].key = S!DefaultShortcuts[other].key
                                    => id = other
  <1> DEFINE Is(i, k) == S!DefaultShortcuts[i] = [modifiers |-> {"Mod"}, key |-> k]
  <1>1. /\ Is("triggerCompletion", "Period") /\ Is("addNextMatch", "KeyL")
        /\ Is("newQueryTab", "KeyT") /\ Is("openConnections", "KeyN")
    BY DEF S!DefaultShortcuts, S!Chord
  <1>2. \A i, k : Is(i, k) => /\ S!DefaultShortcuts[i].modifiers = {"Mod"}
                             /\ S!DefaultShortcuts[i].key = k
    OBVIOUS
  <1>3. ASSUME NEW i, NEW k \in KeyNames, Is(i, k), NEW m
        PROVE  S!DefaultShortcuts[i] \in ChordsOf(m)
    <2>1. {"Mod"} \in SUBSET Modifiers /\ "Ctrl" \notin {"Mod"}
      BY DEF Modifiers
    <2>2. S!DefaultShortcuts[i] \in [modifiers : SUBSET Modifiers, key : KeyNames]
      BY <2>1, <1>3
    <2> QED  BY <2>1, <2>2, <1>2, <1>3 DEF ChordsOf
  <1> HIDE DEF Is
  <1>4. PICK k \in {"Period", "KeyL", "KeyT", "KeyN"} : Is(id, k)
    BY <1>1 DEF Fresh
  <1>5. \A m : S!DefaultShortcuts[id] \in ChordsOf(m)
    <2>1. k \in KeyNames
      BY DEF KeyNames
    <2> QED  BY <2>1, <1>3, <1>4
  <1>6. /\ S!DefaultShortcuts["triggerCompletion"].key = "Period"
        /\ S!DefaultShortcuts["addNextMatch"].key = "KeyL"
        /\ S!DefaultShortcuts["newQueryTab"].key = "KeyT"
        /\ S!DefaultShortcuts["openConnections"].key = "KeyN"
    BY <1>1, <1>2
  <1>7. \A other \in Fresh : S!DefaultShortcuts[id].key = S!DefaultShortcuts[other].key
                            => id = other
    BY <1>6 DEF Fresh
  <1> QED  BY <1>2, <1>4, <1>5, <1>7

(* As said of Fresh. *)
LEMMA FreshConflict ==
    ASSUME NEW m \in BOOLEAN, NEW id \in Fresh, NEW c \in ChordsOf(m),
           Conflict(m, S!DefaultShortcuts[id], c)
    PROVE  c = S!DefaultShortcuts[id]
  <1> DEFINE d == S!DefaultShortcuts[id]
  <1>1. d.modifiers = {"Mod"} /\ d.key \in {"Period", "KeyL", "KeyT", "KeyN"} /\ d \in ChordsOf(m)
    BY FreshDefaults
  <1> HIDE DEF d
  <1>2. Conflict(m, d, c)
    BY DEF d
  <1>3. d.key = c.key
    BY <1>1, <1>2 DEF Conflict, S!Digits
  <1>4. m \/ ("Ctrl" \notin d.modifiers /\ "Ctrl" \notin c.modifiers)
    BY <1>1, <1>3 DEF ChordsOf
  <1>5. d.modifiers = c.modifiers
    BY <1>1, <1>2, <1>4, KeysTellApart DEF Conflict
  <1>6. c = d
    BY <1>1, <1>3, <1>5 DEF ChordsOf
  <1> QED  BY <1>6 DEF d

----------------------------------------------------------------------------
(* Keystrokes. *)

(* What a keystroke is made of. *)
LEMMA KeystrokeType ==
    ASSUME NEW e \in S!Keystrokes
    PROVE  /\ e.modifiers \subseteq {"Meta", "Control", "Shift"}
           /\ e.key \in (KeyNames \cup {"Backspace"}) \ {"Digit", ""}
  <1>1. \/ \E k \in {"KeyT", "KeyN", "KeyL", "Period", "Enter"} \cup S!Digits :
             e = [modifiers |-> {"Meta"}, key |-> k]
        \/ \E k \in {"Tab", "KeyT", "Digit1"} : e = [modifiers |-> {"Control"}, key |-> k]
        \/ e = [modifiers |-> {"Meta", "Shift"}, key |-> "KeyD"]
        \/ e = [modifiers |-> {}, key |-> "Escape"]
        \/ e = [modifiers |-> {}, key |-> "Backspace"]
    BY DEF S!Keystrokes, S!Keystroke
  <1>2. e.key \in {"KeyT", "KeyN", "KeyL", "Period", "Enter", "Digit1", "Digit2", "Tab",
                  "KeyD", "Escape", "Backspace"}
    BY <1>1 DEF S!Digits
  <1>3. e.modifiers \in {{"Meta"}, {"Control"}, {"Meta", "Shift"}, {}}
    BY <1>1
  <1> QED  BY <1>2, <1>3 DEF KeyNames

(* What the recorder makes of a keystroke (shortcutFromEvent). *)
LEMMA RecordedIsChord ==
    ASSUME mac \in BOOLEAN, NEW e \in S!Keystrokes, NEW d \in BOOLEAN, e.key # "Backspace"
    PROVE  S!ShortcutFromEvent(e, d) \in ChordsOf(mac)
  <1> DEFINE s == S!ShortcutFromEvent(e, d)
  <1>1. s.modifiers \subseteq {"Mod", "Ctrl", "Shift"} /\ ("Ctrl" \in s.modifiers => mac)
    BY KeystrokeType DEF S!ShortcutFromEvent, S!Chord
  <1>2. s.key \in KeyNames
    BY KeystrokeType DEF S!ShortcutFromEvent, S!Chord, S!EventKey, S!Digits, KeyNames
  <1>3. s = [modifiers |-> s.modifiers, key |-> s.key]
    BY DEF S!ShortcutFromEvent, S!Chord
  <1> HIDE DEF s
  <1>4. s.modifiers \in SUBSET Modifiers
    BY <1>1 DEF Modifiers
  <1>5. s \in ChordsOf(mac)
    BY <1>1, <1>2, <1>3, <1>4 DEF ChordsOf
  <1> QED  BY <1>5 DEF s

(* Two shortcuts that one keystroke matches conflict: what the recorder    *)
(* refuses is as much as shortcutMatches can mix up.                       *)
LEMMA MatchedConflict ==
    ASSUME NEW e \in S!Keystrokes, NEW a, NEW b,
           S!ShortcutMatches(e, a), S!ShortcutMatches(e, b)
    PROVE  Conflict(mac, a, b)
  <1> DEFINE ev(c) == S!ShortcutFromEvent(e, c.key = "Digit")
  <1>1. e.key # "Digit"
    BY KeystrokeType
  <1>2. a # S!Unbound /\ b # S!Unbound /\ Conflict(mac, ev(a), a) /\ Conflict(mac, ev(b), b)
    BY ConflictIs DEF S!ShortcutMatches
  <1>3. \A c : ev(c).key = S!EventKey(e, c.key = "Digit")
    BY DEF S!ShortcutFromEvent, S!Chord
  <1>4. ev(a).modifiers = ev(b).modifiers
    BY DEF S!ShortcutFromEvent, S!Chord
  <1> HIDE DEF ev
  <1>5. Keys(mac, a) = Keys(mac, b)
    BY <1>2, <1>4 DEF Conflict, Keys
  <1>6. \A c : Conflict(mac, ev(c), c) => c.key = e.key \/ (c.key = "Digit" /\ e.key \in S!Digits)
    <2> SUFFICES ASSUME NEW c, Conflict(mac, ev(c), c)
                 PROVE  c.key = e.key \/ (c.key = "Digit" /\ e.key \in S!Digits)
      OBVIOUS
    <2> QED  BY <1>1, <1>3 DEF Conflict, S!EventKey, S!Digits
  <1> QED  BY <1>2, <1>5, <1>6 DEF Conflict

(* Shortcuts that are held have one meaning. *)
LEMMA HeldHasOneMeaning ==
    ASSUME Apart(mac, shortcuts)
    PROVE  S!OneMeaning
  <1> SUFFICES ASSUME NEW e \in S!Keystrokes,
                      NEW a \in DOMAIN shortcuts, NEW b \in DOMAIN shortcuts,
                      S!ShortcutMatches(e, shortcuts[a]), S!ShortcutMatches(e, shortcuts[b]),
                      S!ShortcutScope(a) = S!ShortcutScope(b)
               PROVE  a = b
    BY DEF S!OneMeaning, S!Known
  <1>1. Conflict(mac, shortcuts[a], shortcuts[b])
    BY MatchedConflict
  <1> QED  BY <1>1 DEF Apart

----------------------------------------------------------------------------
(* The defaults of a version. *)

(* Shortcuts whose keys differ, digits aside, do not conflict. *)
LEMMA KeysDiffer ==
    ASSUME NEW m, NEW l, NEW r, l.key # r.key, l.key \notin S!Digits, r.key \notin S!Digits
    PROVE  ~Conflict(m, l, r)
  BY DEF Conflict

(* VersionDefaults of a version that misses the shortcuts av. *)
Defaults(av, rv) ==
    [id \in S!Ids \ av |->
        IF id = "cancelQueryAlternate" /\ "triggerCompletion" \in av
          THEN S!Chord({"Mod"}, "Period")
        ELSE IF id = "addNextMatch" /\ rv = 0 THEN S!Chord({"Mod", "Shift"}, "KeyD")
        ELSE S!DefaultShortcuts[id]]

(* A version starts with shortcuts it may hold (DEFAULT_SHORTCUTS). *)
LEMMA DefaultsAreHeld ==
    ASSUME NEW mv \in BOOLEAN, NEW av \in SUBSET Later, NEW rv \in {0, 1}, av = {} => rv = 1
    PROVE  Held(mv, av, rv, Defaults(av, rv))
  <1> DEFINE V == Defaults(av, rv)
  <1>1. DOMAIN V = S!Ids \ av
    BY DEF Defaults
  <1> DEFINE Is(id, m, k) == id \notin av => V[id] = [modifiers |-> m, key |-> k]
  <1>2. /\ Is("runQuery", {"Mod"}, "Enter") /\ Is("cancelQuery", {}, "Escape")
        /\ Is("triggerCompletion", {"Mod"}, "Period") /\ Is("newQueryTab", {"Mod"}, "KeyT")
        /\ Is("nextTab", {"Ctrl"}, "Tab") /\ Is("tabByNumber", {"Mod"}, "Digit")
        /\ Is("aiSend", {"Mod"}, "Enter") /\ Is("openConnections", {"Mod"}, "KeyN")
    BY IdsAre DEF Defaults, S!DefaultShortcuts, S!Chord
  <1>3. IF "triggerCompletion" \in av THEN Is("cancelQueryAlternate", {"Mod"}, "Period")
                                         ELSE Is("cancelQueryAlternate", {}, "")
    BY IdsAre DEF Defaults, S!DefaultShortcuts, S!Chord, S!Unbound
  <1>4. IF rv = 0 THEN Is("addNextMatch", {"Mod", "Shift"}, "KeyD")
                        ELSE Is("addNextMatch", {"Mod"}, "KeyL")
    BY IdsAre DEF Defaults, S!DefaultShortcuts, S!Chord
  <1>5. \A id, m, k : Is(id, m, k) /\ id \notin av => V[id].modifiers = m /\ V[id].key = k
    OBVIOUS
  <1>6. ASSUME NEW id, NEW m \in SUBSET Modifiers, NEW k \in KeyNames, Is(id, m, k), id \notin av,
               "Ctrl" \in m => k = "Tab"
        PROVE  V[id] \in ChordsOf(mv)
    BY <1>6 DEF ChordsOf
  <1> HIDE DEF Is, V
  <1>7. ASSUME NEW id \in S!Ids \ av
        PROVE  \E m \in SUBSET Modifiers, k \in KeyNames :
                  Is(id, m, k) /\ ("Ctrl" \in m => k = "Tab")
    <2>1. {"Mod"} \in SUBSET Modifiers /\ {} \in SUBSET Modifiers /\ {"Ctrl"} \in SUBSET Modifiers
            /\ {"Mod", "Shift"} \in SUBSET Modifiers
      BY DEF Modifiers
    <2>2. /\ "Ctrl" \notin {"Mod"} /\ "Ctrl" \notin {} /\ "Ctrl" \notin {"Mod", "Shift"}
      OBVIOUS
    <2>3. KeyNames = {"", "Enter", "Escape", "Tab", "Period", "KeyL", "KeyD", "KeyT", "KeyN",
                      "Digit", "Digit1", "Digit2"}
      BY DEF KeyNames
    <2> QED  BY <1>2, <1>3, <1>4, <2>1, <2>2, <2>3, IdsAre
  <1>8. V \in [S!Ids \ av -> ChordsOf(mv)]
    <2>1. \A id \in S!Ids \ av : V[id] \in ChordsOf(mv)
      BY <1>6, <1>7
    <2>2. V = [id \in DOMAIN V |-> V[id]]
      BY DEF V, Defaults
    <2> QED  BY <1>1, <2>1, <2>2
  <1>9. Apart(mv, V)
    <2> SUFFICES ASSUME NEW a \in S!Ids \ av, NEW b \in S!Ids \ av, a # b,
                        S!ShortcutScope(a) = S!ShortcutScope(b)
                 PROVE  ~Conflict(mv, V[a], V[b])
      BY <1>1 DEF Apart
    <2> DEFINE Key(id, k) == id \notin av => V[id].key = k
    <2>0. /\ Key("runQuery", "Enter") /\ Key("cancelQuery", "Escape") /\ Key("nextTab", "Tab")
          /\ Key("triggerCompletion", "Period") /\ Key("newQueryTab", "KeyT")
          /\ Key("tabByNumber", "Digit") /\ Key("aiSend", "Enter") /\ Key("openConnections", "KeyN")
          /\ IF "triggerCompletion" \in av THEN Key("cancelQueryAlternate", "Period")
                                              ELSE Key("cancelQueryAlternate", "")
          /\ Key("addNextMatch", "KeyD") \/ Key("addNextMatch", "KeyL")
      BY <1>2, <1>3, <1>4, <1>5
    <2> DEFINE Known == {"Enter", "Escape", "Tab", "Period", "KeyT", "Digit", "KeyN", "", "KeyD", "KeyL"}
               Whose(id) == /\ V[id].key \in Known
                            /\ V[id].key = "Enter" => id \in {"runQuery", "aiSend"}
                            /\ V[id].key = "Escape" => id = "cancelQuery"
                            /\ V[id].key = "Tab" => id = "nextTab"
                            /\ V[id].key = "Period" =>
                                 IF "triggerCompletion" \in av THEN id = "cancelQueryAlternate"
                                                               ELSE id = "triggerCompletion"
                            /\ V[id].key = "KeyT" => id = "newQueryTab"
                            /\ V[id].key = "Digit" => id = "tabByNumber"
                            /\ V[id].key = "KeyN" => id = "openConnections"
                            /\ V[id].key = "" => id = "cancelQueryAlternate"
                            /\ V[id].key \in {"KeyD", "KeyL"} => id = "addNextMatch"
    <2>k. ASSUME NEW id \in S!Ids \ av PROVE Whose(id)
      <3>1. CASE id \in {"runQuery", "aiSend"}
        BY ZenonT(60), <2>0, <3>1
      <3>2. CASE id \in {"cancelQuery", "nextTab"}
        BY ZenonT(60), <2>0, <3>2
      <3>3. CASE id \in {"newQueryTab", "tabByNumber", "openConnections"}
        BY ZenonT(60), <2>0, <3>3
      <3>4. CASE id = "addNextMatch"
        BY ZenonT(60), <2>0, <3>4
      <3>5. CASE id = "triggerCompletion"
        BY ZenonT(60), <2>0, <3>5
      <3>6. CASE id = "cancelQueryAlternate"
        BY ZenonT(60), <2>0, <3>6
      <3> QED  BY <3>1, <3>2, <3>3, <3>4, <3>5, <3>6, IdsAre
    <2>1. \A id \in S!Ids \ av : V[id].key \notin S!Digits
      BY <2>k DEF S!Digits
    <2>2. (a = "aiSend") <=> (b = "aiSend")
      BY DEF S!ShortcutScope
    <2>3. V[a].key # V[b].key
      <3>1. Whose(a) /\ Whose(b)
        BY <2>k
      <3> SUFFICES ASSUME V[a].key = V[b].key PROVE FALSE
        OBVIOUS
      <3>2. CASE V[a].key = "Enter"
        BY Zenon, <2>2, <3>1, <3>2
      <3>3. CASE V[a].key \in {"Escape", "Tab", "KeyT"}
        BY Zenon, <3>1, <3>3
      <3>4. CASE V[a].key \in {"Digit", "KeyN", ""}
        BY Zenon, <3>1, <3>4
      <3>5. CASE V[a].key \in {"KeyD", "KeyL"}
        BY Zenon, <3>1, <3>5
      <3>6. CASE V[a].key = "Period"
        BY Zenon, <3>1, <3>6
      <3> QED  BY Zenon, <3>1, <3>2, <3>3, <3>4, <3>5, <3>6
    <2> QED  BY <2>1, <2>3, KeysDiffer
  <1>10. ASSUME "triggerCompletion" \in av, NEW id \in S!Ids \ av, V[id] = Period
         PROVE  id = "cancelQueryAlternate"
    <2>1. V[id].key = "Period"
      BY <1>10 DEF Period, S!Chord
    <2> QED  BY <1>2, <1>4, <1>5, <1>10, <2>1, IdsAre
  <1>11. Held(mv, av, rv, V)
    BY <1>1, <1>8, <1>9, <1>10 DEF Held
  <1> QED  BY <1>11 DEF V

(* The defaults of the latest version are the ones load falls back on. *)
LEMMA LatestDefaults ==
    Defaults({}, 1) = S!DefaultShortcuts
  <1>1. S!DefaultShortcuts = [id \in S!Ids |-> S!DefaultShortcuts[id]]
    BY DEF S!DefaultShortcuts, S!Ids
  <1>2. Defaults({}, 1) = [id \in S!Ids |-> S!DefaultShortcuts[id]]
    BY DEF Defaults
  <1> QED  BY <1>1, <1>2

----------------------------------------------------------------------------
(* Loading what an earlier version stored. *)

Moves(r, sc) ==
    /\ r < 1
    /\ sc["addNextMatch"] = S!Chord({"Mod", "Shift"}, "KeyD")
    /\ \A id \in DOMAIN sc : sc[id] # S!Chord({"Mod"}, "KeyL")
Taken(sc, id) ==
    id \notin DOMAIN sc /\ \E other \in DOMAIN sc : sc[other] = S!DefaultShortcuts[id]
Freed(sc, id) ==
    id = "cancelQueryAlternate" /\ "triggerCompletion" \notin DOMAIN sc /\ sc[id] = Period

(* Load at one go: what becomes of each shortcut. *)
Loaded(r, sc) ==
    [id \in S!Ids |->
        IF id \in DOMAIN sc
        THEN IF Freed(sc, id) THEN S!Unbound
             ELSE IF id = "addNextMatch" /\ Moves(r, sc) THEN S!Chord({"Mod"}, "KeyL")
             ELSE sc[id]
        ELSE IF id \in {"newQueryTab", "openConnections"} /\ Taken(sc, id) THEN S!Unbound
             ELSE S!DefaultShortcuts[id]]

Stored(r, sc) == [revision |-> r, shortcuts |-> sc]

(* The parts of what is stored. *)
LEMMA StoredParts ==
    ASSUME NEW r, NEW f
    PROVE  Stored(r, f).revision = r /\ Stored(r, f).shortcuts = f
  BY DEF Stored

(* The steps of load, one by one. *)
LEMMA FreePeriodGives ==
    ASSUME NEW r, NEW D, NEW R, NEW sc \in [D -> R], "cancelQueryAlternate" \in D
    PROVE  S!FreePeriod(Stored(r, sc))
             = Stored(r, [id \in D |-> IF Freed(sc, id) THEN S!Unbound ELSE sc[id]])
  <1> DEFINE g == [id \in D |-> IF Freed(sc, id) THEN S!Unbound ELSE sc[id]]
             cancel == "cancelQueryAlternate"
  <1>1. CASE Freed(sc, cancel)
    <2>1. [sc EXCEPT ![cancel] = S!Unbound] = g
      BY <1>1 DEF Freed
    <2>2. S!FreePeriod(Stored(r, sc)) = [Stored(r, sc) EXCEPT !.shortcuts[cancel] = S!Unbound]
      BY <1>1 DEF S!FreePeriod, Stored, Freed, Period
    <2>3. [Stored(r, sc) EXCEPT !.shortcuts[cancel] = S!Unbound]
            = Stored(r, [sc EXCEPT ![cancel] = S!Unbound])
      BY DEF Stored
    <2> QED  BY <2>1, <2>2, <2>3
  <1>2. CASE ~Freed(sc, cancel)
    <2>1. sc = g
      BY <1>2 DEF Freed
    <2>2. S!FreePeriod(Stored(r, sc)) = Stored(r, sc)
      BY <1>2 DEF S!FreePeriod, Stored, Freed, Period
    <2> QED  BY <2>1, <2>2
  <1> QED  BY <1>1, <1>2

(* The old default of addNextMatch moves on. *)
LEMMA MoveNextMatchGives ==
    ASSUME NEW r, NEW sc, NEW D, NEW R, NEW g \in [D -> R], "addNextMatch" \in D
    PROVE  S!MoveNextMatch(Stored(r, g), Stored(r, sc))
             = Stored(r, [id \in D |-> IF id = "addNextMatch" /\ Moves(r, sc)
                                       THEN S!Chord({"Mod"}, "KeyL") ELSE g[id]])
  <1> DEFINE h == [id \in D |-> IF id = "addNextMatch" /\ Moves(r, sc)
                                THEN S!Chord({"Mod"}, "KeyL") ELSE g[id]]
             L == S!Chord({"Mod"}, "KeyL")
  <1>1. CASE Moves(r, sc)
    <2>1. [g EXCEPT !["addNextMatch"] = L] = h
      BY <1>1
    <2>2. S!MoveNextMatch(Stored(r, g), Stored(r, sc))
            = [Stored(r, g) EXCEPT !.shortcuts["addNextMatch"] = L]
      BY <1>1, StoredParts DEF S!MoveNextMatch, Moves
    <2>3. [Stored(r, g) EXCEPT !.shortcuts["addNextMatch"] = L]
            = Stored(r, [g EXCEPT !["addNextMatch"] = L])
      BY DEF Stored
    <2> QED  BY <2>1, <2>2, <2>3
  <1>2. CASE ~Moves(r, sc)
    <2>1. g = h
      BY <1>2
    <2>2. S!MoveNextMatch(Stored(r, g), Stored(r, sc)) = Stored(r, g)
      BY <1>2, StoredParts DEF S!MoveNextMatch, Moves
    <2> QED  BY <2>1, <2>2
  <1> QED  BY <1>1, <1>2

(* An added shortcut leaves a key alone that is taken. *)
Left(sc, g, h, id) ==
    /\ DOMAIN h = IF Taken(sc, id) THEN DOMAIN g \cup {id} ELSE DOMAIN g
    /\ \A i \in DOMAIN h : h[i] = IF i = id /\ Taken(sc, id) THEN S!Unbound ELSE g[i]

(* As said of Left. *)
LEMMA LeaveTakenGives ==
    ASSUME NEW r, NEW sc, NEW g, NEW id
    PROVE  \E h : S!LeaveTaken(Stored(r, g), Stored(r, sc), id) = Stored(r, h) /\ Left(sc, g, h, id)
  <1>1. CASE Taken(sc, id)
    <2> DEFINE h == [i \in DOMAIN g \cup {id} |-> IF i = id THEN S!Unbound ELSE g[i]]
    <2>1. S!LeaveTaken(Stored(r, g), Stored(r, sc), id) = Stored(r, h)
      BY <1>1, StoredParts DEF S!LeaveTaken, Stored, Taken
    <2>2. Left(sc, g, h, id)
      BY <1>1 DEF Left
    <2> QED  BY <2>1, <2>2
  <1>2. CASE ~Taken(sc, id)
    <2>1. S!LeaveTaken(Stored(r, g), Stored(r, sc), id) = Stored(r, g)
      BY <1>2, StoredParts DEF S!LeaveTaken, Taken
    <2>2. Left(sc, g, g, id)
      BY <1>2 DEF Left
    <2> QED  BY <2>1, <2>2
  <1> QED  BY <1>1, <1>2

(* load is Loaded. *)
LEMMA LoadIs ==
    ASSUME NEW a \in SUBSET Later, NEW r \in {0, 1}, NEW R, NEW sc \in [S!Ids \ a -> R]
    PROVE  S!Load(Stored(r, sc)) = Loaded(r, sc)
  <1> DEFINE D == S!Ids \ a
             L == S!Chord({"Mod"}, "KeyL")
             v1 == [id \in D |-> IF Freed(sc, id) THEN S!Unbound ELSE sc[id]]
             v2 == [id \in D |-> IF id = "addNextMatch" /\ Moves(r, sc) THEN L ELSE v1[id]]
  <1>1. /\ "cancelQueryAlternate" \in D /\ "addNextMatch" \in D /\ DOMAIN sc = D
        /\ "newQueryTab" \in S!Ids /\ "openConnections" \in S!Ids
    BY IdsAre DEF Later
  <1>2. S!FreePeriod(Stored(r, sc)) = Stored(r, v1)
    BY <1>1, FreePeriodGives
  <1>3. v1 \in [D -> R \cup {S!Unbound}]
    OBVIOUS
  <1>4. S!MoveNextMatch(Stored(r, v1), Stored(r, sc)) = Stored(r, v2)
    <2> DEFINE Q == R \cup {S!Unbound}
    <2>1. v1 \in [D -> Q] /\ "addNextMatch" \in D
      BY <1>1, <1>3
    <2> HIDE DEF v1, D, Q
    <2>2. S!MoveNextMatch(Stored(r, v1), Stored(r, sc))
            = Stored(r, [id \in D |-> IF id = "addNextMatch" /\ Moves(r, sc)
                                      THEN S!Chord({"Mod"}, "KeyL") ELSE v1[id]])
      BY <2>1, MoveNextMatchGives
    <2> QED  BY <2>2
  <1>5. DOMAIN v2 = D
    OBVIOUS
  <1>6. \A id \in D : v2[id] = IF id = "addNextMatch" /\ Moves(r, sc) THEN L
                               ELSE IF Freed(sc, id) THEN S!Unbound ELSE sc[id]
    OBVIOUS
  <1> HIDE DEF v1, v2, L, D
  <1>7. PICK v3 : /\ S!LeaveTaken(Stored(r, v2), Stored(r, sc), "newQueryTab") = Stored(r, v3)
                  /\ Left(sc, v2, v3, "newQueryTab")
    BY LeaveTakenGives
  <1>8. PICK v4 : /\ S!LeaveTaken(Stored(r, v3), Stored(r, sc), "openConnections") = Stored(r, v4)
                  /\ Left(sc, v3, v4, "openConnections")
    BY LeaveTakenGives
  <1>9. Stored(r, sc) # S!Nothing
    <2>1. Stored(r, sc).revision = r /\ S!Nothing.revision = -1 /\ r # -1
      BY DEF Stored, S!Nothing
    <2> QED  BY <2>1
  <1>10. S!Load(Stored(r, sc))
           = [id \in S!Ids |-> IF id \in DOMAIN v4 THEN v4[id] ELSE S!DefaultShortcuts[id]]
    <2>1. Stored(r, v4).shortcuts = v4
      BY DEF Stored
    <2> QED  BY <1>2, <1>4, <1>7, <1>8, <1>9, <2>1 DEF S!Load
  <1>11. ASSUME NEW id \in S!Ids
         PROVE  (IF id \in DOMAIN v4 THEN v4[id] ELSE S!DefaultShortcuts[id]) = Loaded(r, sc)[id]
    <2>1. Loaded(r, sc)[id] =
            IF id \in D
            THEN IF Freed(sc, id) THEN S!Unbound
                 ELSE IF id = "addNextMatch" /\ Moves(r, sc) THEN L
                 ELSE sc[id]
            ELSE IF id \in {"newQueryTab", "openConnections"} /\ Taken(sc, id) THEN S!Unbound
                 ELSE S!DefaultShortcuts[id]
      BY <1>1 DEF Loaded, L
    <2>2. /\ Taken(sc, "newQueryTab") => "newQueryTab" \notin D
          /\ Taken(sc, "openConnections") => "openConnections" \notin D
      BY <1>1 DEF Taken
    <2>3. Freed(sc, id) => id = "cancelQueryAlternate"
      BY DEF Freed
    <2>4. CASE id \in D
      <3>1. id \in DOMAIN v4 /\ v4[id] = v2[id]
        BY <2>2, <2>4, <1>5, <1>7, <1>8 DEF Left
      <3> QED  BY <3>1, <2>1, <2>3, <2>4, <1>6
    <2>5. CASE id \notin D
      BY <2>1, <2>2, <2>5, <1>5, <1>7, <1>8 DEF Left
    <2> QED  BY <2>4, <2>5
  <1>12. Loaded(r, sc) = [id \in S!Ids |-> Loaded(r, sc)[id]]
    BY DEF Loaded
  <1> QED  BY <1>10, <1>11, <1>12

(* What became of a shortcut that was loaded. *)
Outcome(sc, f, id) ==
    \/ f[id] = S!Unbound
    \/ /\ id \in DOMAIN sc /\ f[id] = sc[id]
       /\ "triggerCompletion" \notin DOMAIN sc => f[id] # Period
    \/ /\ id \in Fresh /\ f[id] = S!DefaultShortcuts[id]
       /\ id = "triggerCompletion" => id \notin DOMAIN sc
       /\ id # "triggerCompletion" => \A other \in DOMAIN sc : sc[other] # S!DefaultShortcuts[id]

(* A shortcut is unbound, or what it was, or has a default nobody else had. *)
LEMMA LoadOutcome ==
    ASSUME NEW m, NEW a, NEW r, NEW sc, Held(m, a, r, sc), NEW id \in S!Ids
    PROVE  Outcome(sc, Loaded(r, sc), id)
  <1> DEFINE f == Loaded(r, sc)
  <1>1. DOMAIN sc = S!Ids \ a /\ a \in SUBSET Later
    BY DEF Held
  <1>2. f[id] =
          IF id \in DOMAIN sc
          THEN IF Freed(sc, id) THEN S!Unbound
               ELSE IF id = "addNextMatch" /\ Moves(r, sc) THEN S!Chord({"Mod"}, "KeyL")
               ELSE sc[id]
          ELSE IF id \in {"newQueryTab", "openConnections"} /\ Taken(sc, id) THEN S!Unbound
               ELSE S!DefaultShortcuts[id]
    BY DEF Loaded
  <1> SUFFICES Outcome(sc, f, id)
    OBVIOUS
  <1> HIDE DEF f
  <1>3. CASE id \in DOMAIN sc
    <2>1. CASE Freed(sc, id)
      BY <1>2, <1>3, <2>1 DEF Outcome
    <2>2. CASE ~Freed(sc, id) /\ id = "addNextMatch" /\ Moves(r, sc)
      <3>1. S!DefaultShortcuts[id] = S!Chord({"Mod"}, "KeyL")
        BY <2>2 DEF S!DefaultShortcuts
      <3>2. f[id] = S!DefaultShortcuts[id] /\ id \in Fresh
        BY <1>2, <1>3, <2>2, <3>1 DEF Fresh
      <3> QED  BY <2>2, <3>1, <3>2 DEF Moves, Outcome
    <2>3. CASE ~Freed(sc, id) /\ ~(id = "addNextMatch" /\ Moves(r, sc))
      <3>1. f[id] = sc[id]
        BY <1>2, <1>3, <2>3
      <3>2. ASSUME "triggerCompletion" \notin DOMAIN sc, sc[id] = Period
            PROVE  FALSE
        <4>1. "triggerCompletion" \in a
          BY <1>1, <3>2, IdsAre
        <4>2. id = "cancelQueryAlternate"
          BY <4>1, <3>2, <1>3 DEF Held
        <4> QED  BY <4>2, <3>2, <2>3 DEF Freed
      <3> QED  BY <1>3, <3>1, <3>2 DEF Outcome
    <2> QED  BY <2>1, <2>2, <2>3
  <1>4. CASE id \notin DOMAIN sc
    <2>1. id \in Later /\ id \in Fresh /\ id # "addNextMatch"
      BY <1>1, <1>4 DEF Later, Fresh
    <2>2. CASE id \in {"newQueryTab", "openConnections"} /\ Taken(sc, id)
      BY <1>2, <1>4, <2>2 DEF Outcome
    <2>3. CASE ~(id \in {"newQueryTab", "openConnections"} /\ Taken(sc, id))
      <3>1. f[id] = S!DefaultShortcuts[id]
        BY <1>2, <1>4, <2>3
      <3>2. id # "triggerCompletion" => \A other \in DOMAIN sc : sc[other] # S!DefaultShortcuts[id]
        BY <1>4, <2>1, <2>3 DEF Taken, Later
      <3> QED  BY <1>4, <2>1, <3>1, <3>2 DEF Outcome
    <2> QED  BY <2>2, <2>3
  <1> QED  BY <1>3, <1>4

(* What one version held, the latest one holds after loading it. *)
LEMMA LoadedIsHeld ==
    ASSUME NEW m \in BOOLEAN, NEW a, NEW r, NEW sc, Held(m, a, r, sc)
    PROVE  Held(m, {}, 1, Loaded(r, sc))
  <1> DEFINE f == Loaded(r, sc)
  <1>1. DOMAIN sc = S!Ids \ a /\ sc \in [S!Ids \ a -> ChordsOf(m)] /\ Apart(m, sc)
    BY DEF Held
  <1>2. \A id \in S!Ids : Outcome(sc, f, id)
    BY LoadOutcome
  <1>3. DOMAIN f = S!Ids /\ f = [id \in S!Ids |-> f[id]]
    BY DEF Loaded
  <1> HIDE DEF f
  <1>4. S!Unbound \in ChordsOf(m)
    <2>1. S!Unbound = [modifiers |-> {}, key |-> ""] /\ {} \in SUBSET Modifiers /\ "" \in KeyNames
      BY DEF S!Unbound, S!Chord, KeyNames
    <2> QED  BY <2>1 DEF ChordsOf
  <1>5. \A id \in S!Ids : f[id] \in ChordsOf(m)
    BY <1>1, <1>2, <1>4, FreshDefaults DEF Outcome
  <1>6. f \in [S!Ids -> ChordsOf(m)]
    BY <1>3, <1>5
  <1>7. S!DefaultShortcuts["triggerCompletion"] = Period
    BY DEF S!DefaultShortcuts, Period
  <1> DEFINE Kept(id) == /\ id \in DOMAIN sc /\ f[id] = sc[id]
                         /\ "triggerCompletion" \notin DOMAIN sc => f[id] # Period
             New(id) == /\ id \in Fresh /\ f[id] = S!DefaultShortcuts[id]
                        /\ id = "triggerCompletion" => id \notin DOMAIN sc
                        /\ id # "triggerCompletion" =>
                             \A other \in DOMAIN sc : sc[other] # S!DefaultShortcuts[id]
  <1>8. ASSUME NEW x \in S!Ids, NEW y \in S!Ids, Conflict(m, f[x], f[y]), New(x), Kept(y)
        PROVE  FALSE
    <2>1. f[y] = S!DefaultShortcuts[x]
      BY <1>5, <1>8, FreshConflict
    <2>2. CASE x = "triggerCompletion"
      BY <1>7, <1>8, <2>1, <2>2
    <2>3. CASE x # "triggerCompletion"
      BY <1>8, <2>1, <2>3
    <2> QED  BY <2>2, <2>3
  <1>9. Apart(m, f)
    <2> SUFFICES ASSUME NEW x \in S!Ids, NEW y \in S!Ids, x # y,
                        S!ShortcutScope(x) = S!ShortcutScope(y), Conflict(m, f[x], f[y])
                 PROVE  FALSE
      BY <1>3 DEF Apart
    <2>1. (New(x) \/ Kept(x)) /\ (New(y) \/ Kept(y))
      BY <1>2 DEF Outcome, Conflict
    <2>2. CASE Kept(x) /\ Kept(y)
      BY <1>1, <2>2 DEF Apart
    <2>3. CASE New(x) /\ New(y)
      <3>1. f[y] = S!DefaultShortcuts[x]
        BY <1>5, <2>3, FreshConflict
      <3> QED  BY <2>3, <3>1, FreshDefaults
    <2>4. CASE New(x) /\ Kept(y)
      BY <1>8, <2>4
    <2>5. CASE Kept(x) /\ New(y)
      BY <1>8, <2>5, ConflictIsMutual
    <2> QED  BY <2>1, <2>2, <2>3, <2>4, <2>5
  <1>10. Held(m, {}, 1, f)
    <2>1. S!Ids \ {} = S!Ids
      OBVIOUS
    <2> QED  BY <1>6, <1>9, <2>1 DEF Held
  <1> QED  BY <1>10 DEF f

(* What the latest version holds it loads as it is. *)
LEMMA LoadedAgain ==
    ASSUME NEW m, NEW sc, Held(m, {}, 1, sc)
    PROVE  S!Load(Stored(1, sc)) = sc
  <1>1. sc \in [S!Ids -> ChordsOf(m)]
    <2>1. S!Ids \ {} = S!Ids
      OBVIOUS
    <2> QED  BY <2>1 DEF Held
  <1>2. ~Moves(1, sc) /\ \A id : ~Freed(sc, id)
    BY <1>1, IdsAre DEF Moves, Freed
  <1>3. Loaded(1, sc) = sc
    BY <1>1, <1>2 DEF Loaded
  <1>4. S!Load(Stored(1, sc)) = Loaded(1, sc)
    <2>1. sc \in [S!Ids \ {} -> ChordsOf(m)] /\ {} \in SUBSET Later
      BY DEF Held
    <2> QED  BY <2>1, LoadIs
  <1> QED  BY <1>3, <1>4

----------------------------------------------------------------------------
(* The invariant of the settings is inductive, as long as nobody gives     *)
(* Mod+Period away before completion takes it: load only frees it of the   *)
(* alternate cancel.                                                       *)

(* Storing shortcuts that this version may hold. *)
LEMMA StoreKeeps ==
    ASSUME SettingsInv, NEW next, Held(mac, added, revision, next), S!Store(next),
           UNCHANGED <<mac, added, revision>>
    PROVE  SettingsInv'
  <1>1. stored' = Stored(revision, next) /\ shortcuts' = next
    BY DEF S!Store, Stored
  <1>2. Held(mac, added, revision, shortcuts)'
    BY <1>1
  <1>3. StoredIsHeld'
    <2>1. /\ added \in SUBSET Later /\ revision \in {0, 1}
          /\ next \in [S!Ids \ added -> ChordsOf(mac)]
      BY DEF Held
    <2> QED  BY <1>1, <2>1 DEF StoredIsHeld, Stored
  <1>4. S!SurvivesRestart'
    <2> SUFFICES ASSUME added = {}, revision = 1
                 PROVE  S!Load(stored') = next
      BY <1>1 DEF S!SurvivesRestart
    <2> QED  BY <1>1, LoadedAgain
  <1> QED  BY <1>2, <1>3, <1>4 DEF SettingsInv

(* Clearing a shortcut. *)
LEMMA UnboundIsHeld ==
    ASSUME NEW m, NEW a, NEW r, NEW sc, Held(m, a, r, sc), NEW id \in DOMAIN sc
    PROVE  Held(m, a, r, [sc EXCEPT ![id] = S!Unbound])
  <1> DEFINE f == [sc EXCEPT ![id] = S!Unbound]
  <1>1. sc \in [S!Ids \ a -> ChordsOf(m)]
    BY DEF Held
  <1>2. DOMAIN f = DOMAIN sc /\ f[id] = S!Unbound /\ \A o \in DOMAIN sc : o # id => f[o] = sc[o]
    BY <1>1
  <1>3. S!Unbound \in ChordsOf(m)
    <2>1. S!Unbound = [modifiers |-> {}, key |-> ""] /\ {} \in SUBSET Modifiers /\ "" \in KeyNames
      BY DEF S!Unbound, S!Chord, KeyNames
    <2> QED  BY <2>1 DEF ChordsOf
  <1>4. f \in [S!Ids \ a -> ChordsOf(m)]
    BY <1>1, <1>3
  <1> HIDE DEF f
  <1>5. Apart(m, f)
    <2>1. Apart(m, sc)
      BY DEF Held
    <2> QED  BY <1>2, <2>1 DEF Apart, Conflict
  <1>6. S!Unbound # Period
    <2>1. S!Unbound.key = "" /\ Period.key = "Period"
      BY DEF S!Unbound, Period, S!Chord
    <2> QED  BY <2>1
  <1>7. Held(m, a, r, f)
    BY <1>2, <1>4, <1>5, <1>6 DEF Held
  <1> QED  BY <1>7 DEF f

(* Recording a shortcut that conflicts with no other. *)
LEMMA RecordedIsHeld ==
    ASSUME NEW m, NEW a, NEW r, NEW sc, Held(m, a, r, sc), NEW id \in DOMAIN sc,
           NEW s \in ChordsOf(m), "triggerCompletion" \in a => s # Period,
           \A other \in DOMAIN sc \ {id} : S!ShortcutScope(other) = S!ShortcutScope(id)
                                            => ~Conflict(m, sc[other], s)
    PROVE  Held(m, a, r, [sc EXCEPT ![id] = s])
  <1> DEFINE f == [sc EXCEPT ![id] = s]
  <1>1. sc \in [S!Ids \ a -> ChordsOf(m)]
    BY DEF Held
  <1>2. DOMAIN f = DOMAIN sc /\ f[id] = s /\ \A o \in DOMAIN sc : o # id => f[o] = sc[o]
    BY <1>1
  <1>3. f \in [S!Ids \ a -> ChordsOf(m)]
    BY <1>1
  <1> HIDE DEF f
  <1>4. Apart(m, f)
    <2>1. Apart(m, sc)
      BY DEF Held
    <2> SUFFICES ASSUME NEW x \in DOMAIN sc, NEW y \in DOMAIN sc, x # y,
                        S!ShortcutScope(x) = S!ShortcutScope(y)
                 PROVE  ~Conflict(m, f[x], f[y])
      BY <1>2 DEF Apart
    <2>2. CASE x = id
      BY <1>2, <2>2, ConflictIsMutual
    <2>3. CASE y = id
      BY <1>2, <2>3
    <2>4. CASE x # id /\ y # id
      BY <1>2, <2>1, <2>4 DEF Apart
    <2> QED  BY <2>2, <2>3, <2>4
  <1>5. Held(m, a, r, f)
    BY <1>2, <1>3, <1>4 DEF Held
  <1> QED  BY <1>5 DEF f

(* Every step of the settings keeps the invariant. *)
LEMMA SettingsStep ==
    ASSUME PeriodIsFree, SettingsInv, S!Next
    PROVE  SettingsInv'
  <1>1. mac \in BOOLEAN /\ Held(mac, added, revision, shortcuts)
    BY DEF SettingsInv
  <1>2. ASSUME NEW id \in S!Known, S!Clear(id)
        PROVE  SettingsInv'
    <2>1. Held(mac, added, revision, [shortcuts EXCEPT ![id] = S!Unbound])
      BY <1>1, UnboundIsHeld DEF S!Known
    <2> QED  BY <1>2, <2>1, StoreKeeps DEF S!Clear, S!Bind
  <1>3. ASSUME NEW id \in S!Known, NEW e \in S!Keystrokes, S!Record(id, e)
        PROVE  SettingsInv'
    <2> DEFINE s == S!ShortcutFromEvent(e, id = "tabByNumber")
    <2>1. CASE e.key = "Backspace"
      <3>1. Held(mac, added, revision, [shortcuts EXCEPT ![id] = S!Unbound])
        BY <1>1, UnboundIsHeld DEF S!Known
      <3> QED  BY <1>3, <2>1, <3>1, StoreKeeps DEF S!Record, S!Bind
    <2>2. CASE e.key # "Backspace"
      <3>1. s \in ChordsOf(mac)
        BY <1>1, <2>2, RecordedIsChord
      <3>2. /\ \A other \in S!Known \ {id} : S!ShortcutScope(other) = S!ShortcutScope(id)
                                             => ~S!ShortcutsConflict(shortcuts[other], s)
            /\ "triggerCompletion" \in added => s # S!DefaultShortcuts["triggerCompletion"]
            /\ S!Store([shortcuts EXCEPT ![id] = s])
            /\ UNCHANGED <<mac, added, revision>>
        BY <1>3, <2>2 DEF S!Record, S!Bind
      <3>3. S!DefaultShortcuts["triggerCompletion"] = Period
        BY DEF S!DefaultShortcuts, Period
      <3> HIDE DEF s
      <3>4. Held(mac, added, revision, [shortcuts EXCEPT ![id] = s])
        BY <1>1, <3>1, <3>2, <3>3, RecordedIsHeld, ConflictIs DEF S!Known
      <3> QED  BY <3>2, <3>4, StoreKeeps
    <2> QED  BY <2>1, <2>2
  <1>4. CASE S!ChangeOther
    BY <1>1, <1>4, StoreKeeps DEF S!ChangeOther
  <1>5. CASE S!ResetAppSettings
    <2>1. S!VersionDefaults = Defaults(added, revision)
      BY DEF S!VersionDefaults, Defaults
    <2>2. /\ shortcuts' = Defaults(added, revision) /\ stored' = S!Nothing
          /\ mac' = mac /\ added' = added /\ revision' = revision
      BY <1>5, <2>1 DEF S!ResetAppSettings
    <2>3. Held(mac, added, revision, Defaults(added, revision))
      BY <1>1, DefaultsAreHeld DEF Held
    <2>4. S!SurvivesRestart'
      BY <2>2, LatestDefaults DEF S!SurvivesRestart, S!Load
    <2> QED  BY <1>1, <2>2, <2>3, <2>4 DEF SettingsInv, StoredIsHeld
  <1>6. CASE S!Start
    <2>1. /\ added' = {} /\ revision' = 1 /\ shortcuts' = S!Load(stored)
          /\ mac' = mac /\ stored' = stored
      BY <1>6 DEF S!Start
    <2>2. S!SurvivesRestart'
      BY <2>1 DEF S!SurvivesRestart
    <2>3. StoredIsHeld'
      BY <2>1 DEF SettingsInv, StoredIsHeld
    <2>4. Held(mac, {}, 1, S!Load(stored))
      <3>1. CASE stored = S!Nothing
        <4>1. S!Load(stored) = S!DefaultShortcuts
          BY <3>1 DEF S!Load
        <4>2. Held(mac, {}, 1, Defaults({}, 1))
          BY <1>1, DefaultsAreHeld
        <4> QED  BY <4>1, <4>2, LatestDefaults
      <3>2. CASE stored # S!Nothing
        <4>1. PICK a \in SUBSET Later, r \in {0, 1} :
                 \E sc \in [S!Ids \ a -> ChordsOf(mac)] :
                    Held(mac, a, r, sc) /\ stored = [revision |-> r, shortcuts |-> sc]
          BY <3>2 DEF SettingsInv, StoredIsHeld
        <4>2. PICK sc \in [S!Ids \ a -> ChordsOf(mac)] :
                 Held(mac, a, r, sc) /\ stored = Stored(r, sc)
          BY <4>1 DEF Stored
        <4>3. S!Load(stored) = Loaded(r, sc)
          BY ZenonT(120), <4>2, LoadIs
        <4> QED  BY <1>1, <4>2, <4>3, LoadedIsHeld
      <3> QED  BY <3>1, <3>2
    <2>5. Held(mac, added, revision, shortcuts)'
      BY <2>1, <2>4
    <2> QED  BY <1>1, <2>1, <2>2, <2>3, <2>5 DEF SettingsInv
  <1> QED  BY <1>2, <1>3, <1>4, <1>5, <1>6 DEF S!Next

(* The settings start with what the version brings. *)
LEMMA SettingsStart ==
    ASSUME S!Init
    PROVE  SettingsInv
  <1>1. /\ mac \in BOOLEAN /\ revision \in {0, 1} /\ added \in SUBSET Later
        /\ added = {} => revision = 1
        /\ shortcuts = S!VersionDefaults /\ stored = S!Nothing
    BY DEF S!Init, Later
  <1>2. shortcuts = Defaults(added, revision)
    BY <1>1 DEF S!VersionDefaults, Defaults
  <1>3. Held(mac, added, revision, shortcuts)
    BY <1>1, <1>2, DefaultsAreHeld
  <1>4. S!SurvivesRestart
    BY <1>1, <1>2, LatestDefaults DEF S!SurvivesRestart, S!Load
  <1> QED  BY <1>1, <1>3, <1>4 DEF SettingsInv, StoredIsHeld

(* A keystroke means one thing, and shortcuts survive a restart and an     *)
(* upgrade, however often they are recorded, cleared, reset, stored and    *)
(* loaded again by a later version (SettingsPage.tsx, shortcuts.ts,        *)
(* appSettings.ts).  PeriodIsFree says that nobody gave Mod+Period to a    *)
(* shortcut other than the alternate cancel before triggerCompletion came: *)
(* load does not look for it anywhere else.                                *)
THEOREM ShortcutsStay ==
    ASSUME PeriodIsFree
    PROVE  ShellSpec => []ShortcutsAreKept
  <1>1. ShellInit => SettingsInv
    BY SettingsStart DEF ShellInit
  <1>2. SettingsInv /\ [ShellNext]_<<part, vars, connVars, settingsVars>> => SettingsInv'
    <2> SUFFICES ASSUME SettingsInv, [ShellNext]_<<part, vars, connVars, settingsVars>>
                 PROVE  SettingsInv'
      OBVIOUS
    <2>1. CASE S!Next
      BY <2>1, SettingsStep
    <2>2. CASE UNCHANGED settingsVars
      BY <2>2 DEF settingsVars, SettingsInv, StoredIsHeld, S!SurvivesRestart
    <2> QED  BY <2>1, <2>2 DEF ShellNext
  <1>3. SettingsInv => ShortcutsAreKept
    BY HeldHasOneMeaning DEF SettingsInv, Held, ShortcutsAreKept, S!ShortcutsAreKept
  <1> QED  BY <1>1, <1>2, <1>3, PTL DEF ShellSpec

----------------------------------------------------------------------------
(* Profiles and connections: what the calls under way may still do. *)

Profile == [id : C!Profiles, ver : Nat, cred : BOOLEAN]

SaveCalls == [op : {"save"}, n : Nat, mine : BOOLEAN, phase : {"sent", "checked", "ok", "failed"},
              id : C!Profiles, new : BOOLEAN,
              secret : {"replace", "keep-existing", "prompt-each-time"}]
DeleteCalls == [op : {"delete"}, n : Nat, mine : BOOLEAN,
                phase : {"sent", "checked", "keyless", "ok", "failed"}, id : C!Profiles]
ReorderCalls == [op : {"reorder"}, n : Nat, mine : BOOLEAN, phase : {"sent", "ok", "failed"},
                 ids : Seq(C!Profiles), list : Seq(Profile)]
OpenCalls == [op : {"open"}, n : Nat, mine : BOOLEAN,
              phase : {"sent", "read", "connecting", "ok", "failed"},
              id : C!Profiles, given : BOOLEAN, profile : Profile,
              read : Profile \cup {None}, conn : Nat \cup {None}]
CloseCalls == [op : {"close"}, n : Nat, mine : BOOLEAN, phase : {"sent", "ok"}, conn : Nat]
Calls == SaveCalls \cup DeleteCalls \cup ReorderCalls \cup OpenCalls \cup CloseCalls

ListType ==
    /\ store \in Seq(Profile) /\ file \in Seq(Profile) /\ list \in Seq(Profile)
    /\ \/ fetch \in {C!NoFetch, C!Asked}
       \/ fetch = C!Answer(fetch.list) /\ fetch.list \in Seq(Profile)
    /\ editing # None => editing \in Profile
RailType ==
    /\ rail \in Seq([conn : Nat, profile : Profile]) /\ at \in Int
    /\ DOMAIN work \subseteq Nat /\ \A c \in DOMAIN work : work[c] \in Profile
ShellType == ListType /\ RailType /\ calls \subseteq Calls /\ made \in Nat

(* Calls have numbers of their own. *)
Numbered(cs, m) ==
    /\ \A c \in cs : c.n \in 1 .. m
    /\ \A c, d \in cs : c.n = d.n => c = d

(* A number some earlier connection was given: no call will use it again. *)
Spent(cs, m, k) ==
    k \in 1 .. m /\ \A c \in cs : c.op = "open" /\ c.n = k => c.phase = "ok"

(* What a call knows of the connection it is about. *)
Knows(cs, m, w) ==
    \A c \in cs :
        /\ c.op = "open" /\ c.phase \in {"read", "connecting"} => c.read \in Profile /\ c.read.id = c.id
        /\ c.op = "open" /\ c.phase = "ok" => Spent(cs, m, c.conn)
        /\ c.op = "close" => Spent(cs, m, c.conn)
        /\ c.op = "close" /\ c.phase = "ok" => c.conn \notin DOMAIN w

ConnectionInv ==
    /\ Numbered(calls, made) /\ Knows(calls, made, work)
    /\ \A k \in DOMAIN work : Spent(calls, made, k)
    /\ \A i \in DOMAIN rail : Spent(calls, made, rail[i].conn)
    /\ C!OneConnectionPerProfile /\ C!NoConnectionLeaked /\ C!ShownIsOnRail

(* A profile about to be created is nobody else's. *)
Creates(c) == c.op = "save" /\ c.new /\ c.phase \in {"sent", "checked"}

CredentialInv ==
    /\ \A c \in calls :
         /\ c.op = "delete" => c.id \in asked
         /\ c.op = "save" => c.secret \in {"replace", IF c.new THEN "prompt-each-time" ELSE "keep-existing"}
         /\ Creates(c) => ~C!Known(store, c.id) /\ ~C!Known(file, c.id)
    /\ \A c, d \in calls : Creates(c) /\ Creates(d) /\ c.id = d.id => c.n = d.n
    /\ C!NoCredentialLost

(* A call that has changed, or shown, something the list does not agree    *)
(* with before it is fetched again.                                        *)
Unsettled(c) == c.op = "reorder" \/ (c.op \in {"save", "delete"} /\ c.phase = "ok")

ListInv ==
    /\ at = C!Home /\ ~loose /\ (\A c \in calls : ~Unsettled(c)) =>
         /\ fetch = C!NoFetch => list = store
         /\ fetch.step = "answer" => fetch.list = store
    /\ at # C!Home /\ ~loose => fetch = C!NoFetch

(* The inductive invariant of profiles and connections. *)
ProfilesInv == ShellType /\ ConnectionInv /\ CredentialInv /\ ListInv

(* The fields of a call that its phases do not change. *)
Same(c, d) ==
    /\ d.op = c.op /\ d.n = c.n
    /\ c.op \in {"save", "delete", "open"} => d.id = c.id
    /\ c.op = "save" => d.new = c.new /\ d.secret = c.secret
    /\ c.op = "close" => d.conn = c.conn
Carries(c, d) == Same(c, d) /\ (c.op = "open" => d.conn = c.conn /\ d.read = c.read)

PhasesOf(op) ==
    CASE op = "save" -> {"sent", "checked", "ok", "failed"}
      [] op = "delete" -> {"sent", "checked", "keyless", "ok", "failed"}
      [] op = "reorder" -> {"sent", "ok", "failed"}
      [] op = "open" -> {"sent", "read", "connecting", "ok", "failed"}
      [] op = "close" -> {"sent", "ok"}

(* A call of one kind is of that kind. *)
LEMMA CallKinds ==
    ASSUME NEW c \in Calls
    PROVE  /\ c.op = "save" => c \in SaveCalls
           /\ c.op = "delete" => c \in DeleteCalls
           /\ c.op = "reorder" => c \in ReorderCalls
           /\ c.op = "open" => c \in OpenCalls
           /\ c.op = "close" => c \in CloseCalls
           /\ c.op \in {"save", "delete", "reorder", "open", "close"}
           /\ c.n \in Nat
  <1>1. CASE c \in SaveCalls  BY <1>1 DEF SaveCalls
  <1>2. CASE c \in DeleteCalls  BY <1>2 DEF DeleteCalls
  <1>3. CASE c \in ReorderCalls  BY <1>3 DEF ReorderCalls
  <1>4. CASE c \in OpenCalls  BY <1>4 DEF OpenCalls
  <1>5. CASE c \in CloseCalls  BY <1>5 DEF CloseCalls
  <1> QED  BY <1>1, <1>2, <1>3, <1>4, <1>5 DEF Calls

(* A call in its next phase. *)
LEMMA PhasedCall ==
    ASSUME NEW c \in Calls, NEW ph \in PhasesOf(c.op)
    PROVE  /\ [c EXCEPT !.phase = ph] \in Calls
           /\ Carries(c, [c EXCEPT !.phase = ph])
           /\ [c EXCEPT !.phase = ph].phase = ph
  <1>1. CASE c \in SaveCalls
    <2>1. [c EXCEPT !.phase = ph] \in SaveCalls  BY <1>1 DEF SaveCalls, PhasesOf
    <2> QED  BY <1>1, <2>1 DEF SaveCalls, Calls, Carries, Same
  <1>2. CASE c \in DeleteCalls
    <2>1. [c EXCEPT !.phase = ph] \in DeleteCalls  BY <1>2 DEF DeleteCalls, PhasesOf
    <2> QED  BY <1>2, <2>1 DEF DeleteCalls, Calls, Carries, Same
  <1>3. CASE c \in ReorderCalls
    <2>1. [c EXCEPT !.phase = ph] \in ReorderCalls  BY <1>3 DEF ReorderCalls, PhasesOf
    <2> QED  BY <1>3, <2>1 DEF ReorderCalls, Calls, Carries, Same
  <1>4. CASE c \in OpenCalls
    <2>1. [c EXCEPT !.phase = ph] \in OpenCalls  BY <1>4 DEF OpenCalls, PhasesOf
    <2> QED  BY <1>4, <2>1 DEF OpenCalls, Calls, Carries, Same
  <1>5. CASE c \in CloseCalls
    <2>1. [c EXCEPT !.phase = ph] \in CloseCalls  BY <1>5 DEF CloseCalls, PhasesOf
    <2> QED  BY <1>5, <2>1 DEF CloseCalls, Calls, Carries, Same
  <1> QED  BY <1>1, <1>2, <1>3, <1>4, <1>5 DEF Calls

(* A call whose page was left. *)
LEMMA LeftCall ==
    ASSUME NEW c \in Calls
    PROVE  /\ [c EXCEPT !.mine = FALSE] \in Calls
           /\ Carries(c, [c EXCEPT !.mine = FALSE])
           /\ [c EXCEPT !.mine = FALSE].phase = c.phase
  <1>1. CASE c \in SaveCalls
    <2>1. [c EXCEPT !.mine = FALSE] \in SaveCalls  BY <1>1 DEF SaveCalls
    <2> QED  BY <1>1, <2>1 DEF SaveCalls, Calls, Carries, Same
  <1>2. CASE c \in DeleteCalls
    <2>1. [c EXCEPT !.mine = FALSE] \in DeleteCalls  BY <1>2 DEF DeleteCalls
    <2> QED  BY <1>2, <2>1 DEF DeleteCalls, Calls, Carries, Same
  <1>3. CASE c \in ReorderCalls
    <2>1. [c EXCEPT !.mine = FALSE] \in ReorderCalls  BY <1>3 DEF ReorderCalls
    <2> QED  BY <1>3, <2>1 DEF ReorderCalls, Calls, Carries, Same
  <1>4. CASE c \in OpenCalls
    <2>1. [c EXCEPT !.mine = FALSE] \in OpenCalls  BY <1>4 DEF OpenCalls
    <2> QED  BY <1>4, <2>1 DEF OpenCalls, Calls, Carries, Same
  <1>5. CASE c \in CloseCalls
    <2>1. [c EXCEPT !.mine = FALSE] \in CloseCalls  BY <1>5 DEF CloseCalls
    <2> QED  BY <1>5, <2>1 DEF CloseCalls, Calls, Carries, Same
  <1> QED  BY <1>1, <1>2, <1>3, <1>4, <1>5 DEF Calls

(* connection_open has read its profile. *)
LEMMA ReadCall ==
    ASSUME NEW c \in Calls, c.op = "open", NEW p \in Profile
    PROVE  /\ [c EXCEPT !.phase = "read", !.read = p] \in Calls
           /\ Same(c, [c EXCEPT !.phase = "read", !.read = p])
           /\ [c EXCEPT !.phase = "read", !.read = p].phase = "read"
           /\ [c EXCEPT !.phase = "read", !.read = p].read = p
  <1>1. c \in OpenCalls
    BY CallKinds
  <1>2. [c EXCEPT !.phase = "read", !.read = p] \in OpenCalls
    BY <1>1 DEF OpenCalls
  <1> QED  BY <1>1, <1>2 DEF OpenCalls, Calls, Same

(* connection_open has its connection. *)
LEMMA AnsweredCall ==
    ASSUME NEW c \in Calls, c.op = "open", NEW k \in Nat
    PROVE  /\ [c EXCEPT !.phase = "ok", !.conn = k] \in Calls
           /\ Same(c, [c EXCEPT !.phase = "ok", !.conn = k])
           /\ [c EXCEPT !.phase = "ok", !.conn = k].phase = "ok"
           /\ [c EXCEPT !.phase = "ok", !.conn = k].conn = k
  <1>1. c \in OpenCalls
    BY CallKinds
  <1>2. [c EXCEPT !.phase = "ok", !.conn = k] \in OpenCalls
    BY <1>1 DEF OpenCalls
  <1> QED  BY <1>1, <1>2 DEF OpenCalls, Calls, Same

(* Numbers stay the calls' own when one call goes on or ends. *)
LEMMA NumberedOn ==
    ASSUME NEW cs, NEW m, Numbered(cs, m), NEW c \in cs, NEW d, d.n = c.n
    PROVE  Numbered((cs \ {c}) \cup {d}, m) /\ Numbered(cs \ {c}, m)
  BY DEF Numbered

(* Calls that are the same but for the page that made them. *)
Follow(cs, ds) ==
    /\ \A d \in ds : \E c \in cs : Carries(c, d) /\ d.phase = c.phase
    /\ \A c \in cs : \E d \in ds : Carries(c, d) /\ d.phase = c.phase

(* Moving between pages keeps the calls under way. *)
LEMMA GoKeepsCalls ==
    ASSUME NEW to, NEW rest, rest \subseteq Calls, NEW m, Numbered(rest, m), C!Go(to, rest)
    PROVE  calls' \subseteq Calls /\ Numbered(calls', m) /\ Follow(rest, calls')
  <1>1. CASE calls' = rest
    <2>1. \A c : Carries(c, c)
      BY DEF Carries, Same
    <2> QED  BY <1>1, <2>1 DEF Follow
  <1>2. CASE calls' = {[c EXCEPT !.mine = FALSE] : c \in rest}
    <2>1. \A c \in rest : c \in Calls
      OBVIOUS
    <2>2. calls' \subseteq Calls
      BY <1>2, <2>1, LeftCall
    <2>3. Follow(rest, calls')
      <3>1. \A c \in rest : /\ Carries(c, [c EXCEPT !.mine = FALSE])
                            /\ [c EXCEPT !.mine = FALSE].phase = c.phase
        BY <2>1, LeftCall
      <3> QED  BY ZenonT(120), <1>2, <3>1 DEF Follow
    <2>4. Numbered(calls', m)
      <3>1. \A c \in rest : [c EXCEPT !.mine = FALSE].n = c.n
        BY <2>1, LeftCall DEF Carries, Same
      <3>2. \A d \in calls' : d.n \in 1 .. m
        BY <1>2, <3>1 DEF Numbered
      <3>3. ASSUME NEW d \in calls', NEW e \in calls', d.n = e.n
            PROVE  d = e
        <4>1. PICK x \in rest : d = [x EXCEPT !.mine = FALSE]
          BY <1>2
        <4>2. PICK y \in rest : e = [y EXCEPT !.mine = FALSE]
          BY <1>2
        <4>3. x = y
          BY <3>1, <3>3, <4>1, <4>2 DEF Numbered
        <4> QED  BY <4>1, <4>2, <4>3
      <3> QED  BY <3>2, <3>3 DEF Numbered
    <2> QED  BY <2>2, <2>3, <2>4
  <1> QED  BY <1>1, <1>2 DEF C!Go

----------------------------------------------------------------------------
(* The types. *)

(* An element of a list. *)
LEMMA ElementOf ==
    ASSUME NEW R, NEW s \in Seq(R), NEW i \in DOMAIN s
    PROVE  s[i] \in R
  OBVIOUS

(* A list keeps profiles: looked up, removed, moved and replaced. *)
LEMMA OfIsProfile ==
    ASSUME NEW s \in Seq(Profile), NEW id, C!Known(s, id)
    PROVE  C!Of(s, id) \in Profile /\ C!Of(s, id).id = id /\ C!Of(s, id) \in C!Range(s)
  <1>1. PICK k : k = CHOOSE i \in DOMAIN s : s[i].id = id
    OBVIOUS
  <1>2. k \in DOMAIN s /\ s[k].id = id
    BY <1>1 DEF C!Known
  <1>3. s[k] \in Profile
    BY <1>2
  <1>4. s[k] \in C!Range(s)
    BY <1>2 DEF C!Range
  <1> QED  BY <1>1, <1>2, <1>3, <1>4 DEF C!Of

(* Removing one entry. *)
LEMMA RemoveAtIsList ==
    ASSUME NEW R, NEW s \in Seq(R), NEW k \in DOMAIN s
    PROVE  /\ C!RemoveAt(s, k) \in Seq(R) /\ Len(C!RemoveAt(s, k)) = Len(s) - 1
           /\ \A i \in DOMAIN C!RemoveAt(s, k) : \E j \in DOMAIN s : j # k /\ C!RemoveAt(s, k)[i] = s[j]
           /\ \A j \in DOMAIN s : j # k => \E i \in DOMAIN C!RemoveAt(s, k) : C!RemoveAt(s, k)[i] = s[j]
  <1> DEFINE a == SubSeq(s, 1, k - 1)
             b == SubSeq(s, k + 1, Len(s))
             t == a \o b
  <1>1. C!RemoveAt(s, k) = t
    BY DEF C!RemoveAt
  <1>2. k \in 1 .. Len(s) /\ Len(s) \in Nat /\ k \in Int
    OBVIOUS
  <1>3. /\ a \in Seq(R) /\ Len(a) = k - 1 /\ \A i \in 1 .. k - 1 : a[i] = s[i]
        /\ b \in Seq(R) /\ Len(b) = Len(s) - k /\ \A i \in 1 .. Len(s) - k : b[i] = s[k + i]
    BY <1>2
  <1> HIDE DEF a, b
  <1>4. /\ t \in Seq(R) /\ Len(t) = Len(s) - 1
        /\ \A i \in 1 .. Len(s) - 1 : t[i] = IF i <= k - 1 THEN a[i] ELSE b[i - (k - 1)]
    BY SMTT(60), <1>2, <1>3
  <1> HIDE DEF t
  <1>5. \A i \in 1 .. Len(s) - 1 : t[i] = IF i <= k - 1 THEN s[i] ELSE s[i + 1]
    <2> SUFFICES ASSUME NEW i \in 1 .. Len(s) - 1
                 PROVE  t[i] = IF i <= k - 1 THEN s[i] ELSE s[i + 1]
      OBVIOUS
    <2>1. CASE i <= k - 1
      BY SMTT(60), <1>2, <1>3, <1>4, <2>1
    <2>2. CASE ~(i <= k - 1)
      <3>1. i - (k - 1) \in 1 .. Len(s) - k /\ k + (i - (k - 1)) = i + 1
        BY <1>2, <2>2
      <3>2. b[i - (k - 1)] = s[k + (i - (k - 1))]
        BY <1>3, <3>1
      <3> QED  BY <1>4, <2>2, <3>1, <3>2
    <2> QED  BY <2>1, <2>2
  <1>6. \A i \in DOMAIN t : \E j \in DOMAIN s : j # k /\ t[i] = s[j]
    <2> SUFFICES ASSUME NEW i \in 1 .. Len(s) - 1
                 PROVE  \E j \in DOMAIN s : j # k /\ t[i] = s[j]
      <3>1. DOMAIN t = 1 .. Len(s) - 1
        BY <1>4
      <3> QED  BY <3>1
    <2>1. CASE i <= k - 1
      BY SMTT(60), <1>2, <1>5, <2>1
    <2>2. CASE ~(i <= k - 1)
      <3>1. i + 1 \in DOMAIN s /\ i + 1 # k /\ t[i] = s[i + 1]
        BY <1>2, <1>5, <2>2
      <3> QED  BY <3>1
    <2> QED  BY <2>1, <2>2
  <1>7. \A j \in DOMAIN s : j # k => \E i \in DOMAIN t : t[i] = s[j]
    <2> SUFFICES ASSUME NEW j \in 1 .. Len(s), j # k
                 PROVE  \E i \in DOMAIN t : t[i] = s[j]
      OBVIOUS
    <2>1. CASE j < k
      <3>1. j \in 1 .. Len(s) - 1 /\ t[j] = s[j]
        BY <1>2, <1>5, <2>1
      <3> QED  BY <1>4, <3>1
    <2>2. CASE j > k
      <3>1. j - 1 \in 1 .. Len(s) - 1 /\ t[j - 1] = s[j]
        BY <1>2, <1>5, <2>2
      <3> QED  BY <1>4, <3>1
    <2> QED  BY <1>2, <2>1, <2>2
  <1> QED  BY <1>1, <1>4, <1>6, <1>7

(* Removing a profile. *)
LEMMA WithoutIsList ==
    ASSUME NEW s \in Seq(Profile), NEW id
    PROVE  /\ C!Without(s, id) \in Seq(Profile)
           /\ \A i \in DOMAIN C!Without(s, id) : \E j \in DOMAIN s : C!Without(s, id)[i] = s[j]
  <1>1. CASE C!Known(s, id)
    <2>1. PICK k : k = CHOOSE i \in DOMAIN s : s[i].id = id
      OBVIOUS
    <2>2. k \in DOMAIN s
      BY <1>1, <2>1 DEF C!Known
    <2>3. C!Without(s, id) = C!RemoveAt(s, k)
      BY <1>1, <2>1 DEF C!Without
    <2> QED  BY <2>2, <2>3, RemoveAtIsList
  <1>2. CASE ~C!Known(s, id)
    BY <1>2 DEF C!Without
  <1> QED  BY <1>1, <1>2

(* Moving an entry. *)
LEMMA MovedIsList ==
    ASSUME NEW s \in Seq(Profile), NEW from \in DOMAIN s, NEW to \in DOMAIN s
    PROVE  C!InsertAt(C!RemoveAt(s, from), to, s[from]) \in Seq(Profile)
  <1> DEFINE r == C!RemoveAt(s, from)
  <1>1. r \in Seq(Profile) /\ Len(r) = Len(s) - 1
    BY RemoveAtIsList
  <1> HIDE DEF r
  <1>2. s[from] \in Profile /\ to \in 1 .. Len(r) + 1 /\ Len(r) \in Nat
    BY <1>1
  <1>3. <<s[from]>> \in Seq(Profile)
    BY <1>2
  <1>4. SubSeq(r, 1, to - 1) \in Seq(Profile) /\ SubSeq(r, to, Len(r)) \in Seq(Profile)
    BY <1>1, <1>2
  <1>5. SubSeq(r, 1, to - 1) \o <<s[from]>> \o SubSeq(r, to, Len(r)) \in Seq(Profile)
    BY <1>3, <1>4
  <1> QED  BY <1>5 DEF C!InsertAt, r

(* The ids of a list of profiles. *)
LEMMA IdsAreIds ==
    ASSUME NEW s \in Seq(Profile)
    PROVE  /\ C!Ids(s) \in Seq(C!Profiles) /\ DOMAIN C!Ids(s) = DOMAIN s
           /\ \A i \in DOMAIN s : C!Ids(s)[i] = s[i].id
  <1>1. \A i \in 1 .. Len(s) : s[i].id \in C!Profiles
    <2>1. \A i \in 1 .. Len(s) : s[i] \in Profile
      OBVIOUS
    <2> QED  BY <2>1 DEF Profile
  <1>2. C!Ids(s) = [i \in 1 .. Len(s) |-> s[i].id] /\ Len(s) \in Nat
    BY DEF C!Ids
  <1> QED  BY <1>1, <1>2

CallsOk == calls \subseteq Calls /\ made \in Nat /\ Numbered(calls, made)

(* A call goes on to a phase of its kind. *)
LEMMA BecomesOk ==
    ASSUME CallsOk, NEW c \in calls, NEW ph \in PhasesOf(c.op), C!Becomes(c, ph), made' = made
    PROVE  CallsOk'
  <1> DEFINE d == [c EXCEPT !.phase = ph]
  <1>1. c \in Calls
    BY DEF CallsOk
  <1>2. d \in Calls /\ d.n = c.n /\ calls' = (calls \ {c}) \cup {d}
    BY <1>1, PhasedCall DEF C!Becomes, Carries, Same
  <1> HIDE DEF d
  <1> QED  BY <1>2, NumberedOn DEF CallsOk

(* A call is made. *)
LEMMA CallOk ==
    ASSUME CallsOk, NEW c \in Calls, c.n = made + 1, C!Call(c)
    PROVE  CallsOk'
  <1>1. calls' = calls \cup {c} /\ made' = made + 1
    BY DEF C!Call
  <1>2. \A d \in calls : d.n \in 1 .. made
    BY DEF CallsOk, Numbered
  <1>3. Numbered(calls', made')
    BY <1>1, <1>2 DEF CallsOk, Numbered
  <1> QED  BY <1>1, <1>3 DEF CallsOk

(* A call has been answered. *)
LEMMA EndedOk ==
    ASSUME CallsOk, NEW c \in calls, calls' = calls \ {c}, made' = made
    PROVE  CallsOk'
  BY NumberedOn DEF CallsOk

(* Another page comes on the screen, perhaps because of an answer. *)
LEMMA GoOk ==
    ASSUME CallsOk, NEW rest, rest = calls \/ (\E c \in calls : rest = calls \ {c}),
           NEW to, C!Go(to, rest), made' = made
    PROVE  CallsOk' /\ Follow(rest, calls')
  <1>1. rest \subseteq Calls /\ Numbered(rest, made)
    BY NumberedOn DEF CallsOk
  <1> QED  BY <1>1, GoKeepsCalls DEF CallsOk

(* The calls the user makes are calls. *)
LEMMA NewCalls ==
    ASSUME ShellType, ProfilesAssumption
    PROVE  /\ \A id \in C!Profiles, new \in BOOLEAN,
                 secret \in {"replace", "keep-existing", "prompt-each-time"} :
                [op |-> "save", n |-> made + 1, mine |-> TRUE, phase |-> "sent",
                 id |-> id, new |-> new, secret |-> secret] \in Calls
           /\ \A id \in C!Profiles :
                [op |-> "delete", n |-> made + 1, mine |-> TRUE, phase |-> "sent", id |-> id] \in Calls
           /\ \A ids \in Seq(C!Profiles), l \in Seq(Profile) :
                [op |-> "reorder", n |-> made + 1, mine |-> TRUE, phase |-> "sent",
                 ids |-> ids, list |-> l] \in Calls
           /\ \A p \in Profile, given \in BOOLEAN :
                [op |-> "open", n |-> made + 1, mine |-> TRUE, phase |-> "sent", id |-> p.id,
                 given |-> given, profile |-> p, read |-> None, conn |-> None] \in Calls
           /\ \A k \in Nat :
                [op |-> "close", n |-> made + 1, mine |-> TRUE, phase |-> "sent", conn |-> k] \in Calls
  <1>1. made + 1 \in Nat
    BY DEF ShellType
  <1>2. \A p \in Profile : p.id \in C!Profiles
    BY DEF Profile
  <1>3. /\ \A id \in C!Profiles, new \in BOOLEAN,
              secret \in {"replace", "keep-existing", "prompt-each-time"} :
             [op |-> "save", n |-> made + 1, mine |-> TRUE, phase |-> "sent",
              id |-> id, new |-> new, secret |-> secret] \in SaveCalls
    BY <1>1 DEF SaveCalls
  <1>4. \A id \in C!Profiles :
          [op |-> "delete", n |-> made + 1, mine |-> TRUE, phase |-> "sent", id |-> id] \in DeleteCalls
    BY <1>1 DEF DeleteCalls
  <1>5. \A ids \in Seq(C!Profiles), l \in Seq(Profile) :
          [op |-> "reorder", n |-> made + 1, mine |-> TRUE, phase |-> "sent",
           ids |-> ids, list |-> l] \in ReorderCalls
    BY <1>1 DEF ReorderCalls
  <1>6. \A p \in Profile, given \in BOOLEAN :
          [op |-> "open", n |-> made + 1, mine |-> TRUE, phase |-> "sent", id |-> p.id,
           given |-> given, profile |-> p, read |-> None, conn |-> None] \in OpenCalls
    BY <1>1, <1>2 DEF OpenCalls
  <1>7. \A k \in Nat :
          [op |-> "close", n |-> made + 1, mine |-> TRUE, phase |-> "sent", conn |-> k] \in CloseCalls
    BY <1>1 DEF CloseCalls
  <1> QED  BY <1>3, <1>4, <1>5, <1>6, <1>7 DEF Calls

(* A workspace on the screen has a number. *)
LEMMA RailNumbers ==
    ASSUME ShellType, NEW c, C!OnRail(c)
    PROVE  c \in Nat
  <1>1. PICK i \in DOMAIN rail : rail[i].conn = c
    BY DEF C!OnRail
  <1>2. rail[i] \in [conn : Nat, profile : Profile]
    <2>1. rail \in Seq([conn : Nat, profile : Profile])
      BY DEF ShellType, RailType
    <2> QED  BY <2>1, ElementOf
  <1> QED  BY <1>1, <1>2

(* The user's steps keep the calls in order. *)
LEMMA UserCalls ==
    ASSUME ShellType, CallsOk, C!UserStep
    PROVE  CallsOk'
  <1>0. list \in Seq(Profile) /\ \A p \in C!Range(list) : p \in Profile /\ p.id \in C!Profiles
    <2>1. list \in Seq(Profile)
      BY DEF ShellType, ListType
    <2>2. \A p \in C!Range(list) : p \in Profile
      BY <2>1 DEF C!Range
    <2> QED  BY <2>1, <2>2 DEF Profile
  <1>1. CASE C!GoHome
    BY <1>1, GoOk DEF C!GoHome
  <1>2. CASE C!GoSettings
    BY <1>2, GoOk DEF C!GoSettings
  <1>3. CASE C!Back
    BY <1>3, GoOk DEF C!Back
  <1>4. CASE C!CancelEdit
    BY <1>4 DEF C!CancelEdit, CallsOk
  <1>5. CASE C!Disconnect
    <2>1. at \in Nat
      BY <1>5, RailNumbers DEF C!Disconnect
    <2> DEFINE d == [op |-> "close", n |-> made + 1, mine |-> TRUE, phase |-> "sent", conn |-> at]
    <2>2. d \in Calls
      BY <2>1, NewCalls, ProfilesAssumption
    <2>3. d.n = made + 1 /\ C!Call(d)
      BY <1>5 DEF C!Disconnect
    <2> HIDE DEF d
    <2> QED  BY <2>2, <2>3, CallOk
  <1>6. ASSUME NEW step \in {-1, 1}, C!CycleConnection(step)
        PROVE  CallsOk'
    <2>1. \E i \in DOMAIN rail : C!Go(rail[i].conn, calls)
      BY <1>6 DEF C!CycleConnection
    <2>2. made' = made
      BY <1>6 DEF C!CycleConnection
    <2> QED  BY <2>1, <2>2, GoOk
  <1>7. ASSUME NEW p \in C!Range(list), C!EditProfile(p)
        PROVE  CallsOk'
    BY <1>7 DEF C!EditProfile, CallsOk
  <1>8. ASSUME NEW p \in C!Range(list), C!RemoveProfile(p)
        PROVE  CallsOk'
    <2> DEFINE d == [op |-> "delete", n |-> made + 1, mine |-> TRUE, phase |-> "sent", id |-> p.id]
    <2>1. d \in Calls
      BY <1>0, NewCalls, ProfilesAssumption
    <2>2. d.n = made + 1 /\ C!Call(d)
      BY <1>8 DEF C!RemoveProfile
    <2> HIDE DEF d
    <2> QED  BY <2>1, <2>2, CallOk
  <1>9. ASSUME NEW p \in C!Range(list), C!Connect(p)
        PROVE  CallsOk'
    <2> DEFINE d == [op |-> "open", n |-> made + 1, mine |-> TRUE, phase |-> "sent", id |-> p.id,
                     given |-> C!AsksPassword(p), profile |-> p, read |-> None, conn |-> None]
    <2>1. C!AsksPassword(p) \in BOOLEAN
      BY DEF C!AsksPassword
    <2>2. d \in Calls
      BY <1>0, <2>1, NewCalls, ProfilesAssumption
    <2>3. d.n = made + 1 /\ C!Call(d)
      BY <1>9 DEF C!Connect
    <2> HIDE DEF d
    <2> QED  BY <2>2, <2>3, CallOk
  <1>10. ASSUME NEW password \in BOOLEAN, C!Submit(password)
         PROVE  CallsOk'
    <2>1. PICK id \in IF editing = None THEN C!Fresh ELSE {editing.id} :
             C!Call([op |-> "save", n |-> made + 1, mine |-> TRUE, phase |-> "sent",
                     id |-> id, new |-> editing = None, secret |-> C!SecretMode(password)])
      BY <1>10 DEF C!Submit
    <2>2. id \in C!Profiles
      <3>1. CASE editing = None
        BY <3>1, <2>1 DEF C!Fresh
      <3>2. CASE editing # None
        <4>1. editing \in Profile
          BY <3>2 DEF ShellType, ListType
        <4> QED  BY <3>2, <2>1, <4>1 DEF Profile
      <3> QED  BY <3>1, <3>2
    <2> DEFINE d == [op |-> "save", n |-> made + 1, mine |-> TRUE, phase |-> "sent",
                     id |-> id, new |-> editing = None, secret |-> C!SecretMode(password)]
    <2>3. C!SecretMode(password) \in {"replace", "keep-existing", "prompt-each-time"}
      BY DEF C!SecretMode
    <2>4. (editing = None) \in BOOLEAN
      OBVIOUS
    <2>5. d \in Calls
      BY <2>2, <2>3, <2>4, NewCalls, ProfilesAssumption
    <2>6. d.n = made + 1 /\ C!Call(d)
      BY <2>1
    <2> HIDE DEF d
    <2> QED  BY <2>5, <2>6, CallOk
  <1>11. ASSUME NEW from \in DOMAIN list, NEW to \in DOMAIN list, C!MoveProfile(from, to)
         PROVE  CallsOk'
    <2> DEFINE o == C!InsertAt(C!RemoveAt(list, from), to, list[from])
               d == [op |-> "reorder", n |-> made + 1, mine |-> TRUE, phase |-> "sent",
                     ids |-> C!Ids(o), list |-> list]
    <2>1. C!Ids(o) \in Seq(C!Profiles)
      BY <1>0, MovedIsList, IdsAreIds
    <2>2. d.n = made + 1 /\ C!Call(d)
      BY <1>11 DEF C!MoveProfile
    <2>3. d \in Calls
      <3> HIDE DEF o
      <3> QED  BY <1>0, <2>1, NewCalls, ProfilesAssumption
    <2> HIDE DEF d
    <2> QED  BY <2>2, <2>3, CallOk
  <1> QED  BY <1>1, <1>2, <1>3, <1>4, <1>5, <1>6, <1>7, <1>8, <1>9, <1>10, <1>11
           DEF C!UserStep, C!KeyMoves, C!DropMoves

(* A command and its answer keep the calls in order. *)
LEMMA CoreCalls ==
    ASSUME ShellType, CallsOk, NEW c \in calls, C!CoreStep(c) \/ C!Reply(c)
    PROVE  CallsOk'
  <1>0. c \in Calls
    BY DEF CallsOk
  <1>1. CASE C!SaveChecks(c)
    <2>1. {"failed", "checked"} \subseteq PhasesOf(c.op)
      BY <1>1 DEF C!SaveChecks, C!MainTakes, PhasesOf
    <2> QED  BY <1>1, <2>1, BecomesOk DEF C!SaveChecks
  <1>2. CASE C!SaveWrites(c)
    <2>1. {"failed", "ok"} \subseteq PhasesOf(c.op)
      BY <1>2 DEF C!SaveWrites, C!MainIn, PhasesOf
    <2> QED  BY <1>2, <2>1, BecomesOk DEF C!SaveWrites, C!Persist
  <1>3. CASE C!SaveFails(c)
    <2>1. "failed" \in PhasesOf(c.op)
      BY <1>3 DEF C!SaveFails, C!MainIn, PhasesOf
    <2> QED  BY <1>3, <2>1, BecomesOk DEF C!SaveFails
  <1>4. CASE C!DeleteChecks(c)
    <2>1. {"failed", "checked"} \subseteq PhasesOf(c.op)
      BY <1>4 DEF C!DeleteChecks, C!MainTakes, PhasesOf
    <2> QED  BY <1>4, <2>1, BecomesOk DEF C!DeleteChecks
  <1>5. CASE C!DeletePassword(c)
    <2>1. {"failed", "keyless"} \subseteq PhasesOf(c.op)
      BY <1>5 DEF C!DeletePassword, C!MainIn, PhasesOf
    <2> QED  BY <1>5, <2>1, BecomesOk DEF C!DeletePassword
  <1>6. CASE C!DeleteRemoves(c)
    <2>1. {"failed", "ok"} \subseteq PhasesOf(c.op)
      BY <1>6 DEF C!DeleteRemoves, C!MainIn, PhasesOf
    <2> QED  BY <1>6, <2>1, BecomesOk DEF C!DeleteRemoves, C!Persist
  <1>7. CASE C!Reorders(c)
    <2>1. "ok" \in PhasesOf(c.op)
      BY <1>7 DEF C!Reorders, C!MainTakes, PhasesOf
    <2> QED  BY <1>7, <2>1, BecomesOk DEF C!Reorders
  <1>8. CASE C!ReorderFails(c)
    <2>1. "failed" \in PhasesOf(c.op)
      BY <1>8 DEF C!ReorderFails, C!MainTakes, PhasesOf
    <2> QED  BY <1>8, <2>1, BecomesOk DEF C!ReorderFails
  <1>9. CASE C!OpenReads(c)
    <2>1. C!Of(store, c.id) \in Profile
      BY <1>9, OfIsProfile DEF C!OpenReads, ShellType, ListType
    <2>2. PICK d : d = [c EXCEPT !.phase = "read", !.read = C!Of(store, c.id)]
      OBVIOUS
    <2>3. d \in Calls /\ d.n = c.n
      BY <1>0, <1>9, <2>1, <2>2, ReadCall DEF C!OpenReads, Same
    <2>4. calls' = (calls \ {c}) \cup {d} /\ made' = made
      BY <1>9, <2>2 DEF C!OpenReads
    <2> QED  BY <2>3, <2>4, NumberedOn DEF CallsOk
  <1>10. CASE C!OpenRefused(c)
    <2>1. "failed" \in PhasesOf(c.op)
      BY <1>10 DEF C!OpenRefused, PhasesOf
    <2> QED  BY <1>10, <2>1, BecomesOk DEF C!OpenRefused
  <1>11. ASSUME NEW k \in Nat, c.op = "open", C!Answered(c, k), made' = made
         PROVE  CallsOk'
    <2>1. PICK d : d = [c EXCEPT !.phase = "ok", !.conn = k]
      OBVIOUS
    <2>2. d \in Calls /\ d.n = c.n
      BY <1>0, <1>11, <2>1, AnsweredCall DEF Same
    <2>3. calls' = (calls \ {c}) \cup {d}
      BY <1>11, <2>1 DEF C!Answered
    <2> QED  BY <1>11, <2>2, <2>3, NumberedOn DEF CallsOk
  <1>12. DOMAIN work \subseteq Nat /\ c.n \in Nat
    BY <1>0, CallKinds DEF ShellType, RailType
  <1>13. CASE C!OpenFinds(c)
    <2>1. "connecting" \in PhasesOf(c.op) /\ c.op = "open" /\ made' = made
      BY <1>13 DEF C!OpenFinds, PhasesOf
    <2> QED  BY <1>11, <1>12, <1>13, <2>1, BecomesOk DEF C!OpenFinds
  <1>14. CASE C!OpenInserts(c)
    BY <1>11, <1>12, <1>14 DEF C!OpenInserts
  <1>15. CASE C!OpenFails(c)
    <2>1. "failed" \in PhasesOf(c.op)
      BY <1>15 DEF C!OpenFails, PhasesOf
    <2> QED  BY <1>15, <2>1, BecomesOk DEF C!OpenFails
  <1>16. CASE C!CloseRemoves(c)
    <2>1. "ok" \in PhasesOf(c.op)
      BY <1>16 DEF C!CloseRemoves, PhasesOf
    <2> QED  BY <1>16, <2>1, BecomesOk DEF C!CloseRemoves
  <1>17. CASE C!SaveOrDeleteReplies(c) \/ C!ReorderReplies(c) \/ C!OpenReportsFailure(c)
    BY <1>17, EndedOk DEF C!SaveOrDeleteReplies, C!ReorderReplies, C!OpenReportsFailure, C!Ended
  <1>18. CASE C!OpenReplies(c)
    <2>1. C!Go(c.conn, calls \ {c}) /\ made' = made
      BY <1>18 DEF C!OpenReplies
    <2> QED  BY <2>1, GoOk
  <1>19. CASE C!CloseReplies(c)
    <2>1. C!Go(C!Home, calls \ {c}) /\ made' = made
      BY <1>19 DEF C!CloseReplies
    <2> QED  BY <2>1, GoOk
  <1> QED  BY <1>1, <1>2, <1>3, <1>4, <1>5, <1>6, <1>7, <1>8, <1>9, <1>10, <1>13, <1>14, <1>15,
              <1>16, <1>17, <1>18, <1>19 DEF C!CoreStep, C!Reply

(* Every step keeps the calls in order. *)
LEMMA CallsStep ==
    ASSUME ShellType, CallsOk, C!Next
    PROVE  CallsOk'
  <1>1. CASE C!UserStep
    BY <1>1, UserCalls
  <1>2. CASE C!ListReads \/ C!ListArrives
    BY <1>2 DEF C!ListReads, C!ListArrives, CallsOk
  <1>3. CASE C!Restart
    BY <1>3 DEF C!Restart, CallsOk, Numbered
  <1>4. ASSUME NEW c \in calls, C!CoreStep(c) \/ C!Reply(c)
        PROVE  CallsOk'
    BY <1>4, CoreCalls
  <1> QED  BY <1>1, <1>2, <1>3, <1>4 DEF C!Next

(* A list gets another value for some of its entries, or one more. *)
LEMMA UpsertIsList ==
    ASSUME store \in Seq(Profile), NEW p \in Profile
    PROVE  C!Upsert(p) \in Seq(Profile)
  <1>1. CASE C!Known(store, p.id)
    <2>1. [i \in 1 .. Len(store) |-> IF store[i].id = p.id THEN p ELSE store[i]] \in Seq(Profile)
      OBVIOUS
    <2> QED  BY <1>1, <2>1 DEF C!Upsert
  <1>2. CASE ~C!Known(store, p.id)
    BY <1>2 DEF C!Upsert
  <1> QED  BY <1>1, <1>2

(* The type of the lists when another page comes on the screen. *)
LEMMA GoLists ==
    ASSUME ShellType, NEW to, NEW rest, C!Go(to, rest), UNCHANGED C!core
    PROVE  ListType'
  <1>1. /\ store' = store /\ file' = file /\ list' = list
        /\ fetch' \in {fetch, C!Asked} /\ editing' \in {editing, None}
    BY DEF C!core, C!Go
  <1> QED  BY <1>1 DEF ShellType, ListType

(* The profile a save writes. *)
LEMMA SavedIsProfile ==
    ASSUME ShellType, CallsOk, CredentialInv, NEW c \in calls, C!SaveWrites(c)
    PROVE  [id |-> c.id, ver |-> c.n, cred |-> C!HasCredential(c)] \in Profile
  <1>1. c \in SaveCalls
    BY CallKinds DEF CallsOk, C!SaveWrites, C!MainIn
  <1>2. c.id \in C!Profiles /\ c.n \in Nat
    BY <1>1 DEF SaveCalls
  <1>3. C!HasCredential(c) \in BOOLEAN
    <2>1. CASE c.secret = "keep-existing" /\ C!Known(store, c.id)
      <3>1. C!Of(store, c.id) \in Profile
        BY <2>1, OfIsProfile DEF ShellType, ListType
      <3>2. C!Of(store, c.id).cred \in BOOLEAN
        BY <3>1 DEF Profile
      <3> QED  BY <2>1, <3>2 DEF C!HasCredential
    <2>2. CASE c.secret = "keep-existing" /\ ~C!Known(store, c.id)
      BY <2>2 DEF C!SaveWrites, C!MainIn, CredentialInv
    <2>3. CASE c.secret = "replace" \/ c.secret = "prompt-each-time"
      BY <2>3 DEF C!HasCredential
    <2> QED  BY <1>1, <2>1, <2>2, <2>3 DEF SaveCalls
  <1> QED  BY <1>2, <1>3 DEF Profile

(* The lists keep their type. *)
LEMMA ListTypeStep ==
    ASSUME ShellType, CallsOk, CredentialInv, C!Next
    PROVE  ListType'
  <1>0. /\ store \in Seq(Profile) /\ file \in Seq(Profile) /\ list \in Seq(Profile)
        /\ \A p \in C!Range(list) : p \in Profile
    <2>1. store \in Seq(Profile) /\ file \in Seq(Profile) /\ list \in Seq(Profile)
      BY DEF ShellType, ListType
    <2> QED  BY <2>1 DEF C!Range
  <1>1. ASSUME UNCHANGED <<store, file, list, fetch>>, editing' \in {editing, None} \cup C!Range(list)
        PROVE  ListType'
    BY <1>0, <1>1 DEF ShellType, ListType
  <1>2. ASSUME UNCHANGED <<C!core, C!page>>
        PROVE  ListType'
    BY <1>1, <1>2 DEF C!core, C!page
  <1>3. ASSUME NEW profiles \in Seq(Profile), NEW c, C!Persist(c, profiles), UNCHANGED C!page
        PROVE  ListType'
    BY <1>0, <1>3 DEF C!Persist, C!page, ShellType, ListType
  <1>4. CASE C!GoHome \/ C!GoSettings \/ C!Back
    BY <1>4, GoLists DEF C!GoHome, C!GoSettings, C!Back
  <1>5. ASSUME NEW step \in {-1, 1}, C!CycleConnection(step)
        PROVE  ListType'
    <2>1. \E i \in DOMAIN rail : C!Go(rail[i].conn, calls)
      BY <1>5 DEF C!CycleConnection
    <2>2. UNCHANGED C!core
      BY <1>5 DEF C!CycleConnection
    <2> QED  BY <2>1, <2>2, GoLists
  <1>6. CASE C!CancelEdit
    BY <1>1, <1>6 DEF C!CancelEdit, C!core
  <1>7. ASSUME NEW p \in C!Range(list), C!EditProfile(p)
        PROVE  ListType'
    BY <1>1, <1>7 DEF C!EditProfile, C!core
  <1>8. CASE C!Disconnect \/ (\E password \in BOOLEAN : C!Submit(password))
             \/ (\E p \in C!Range(list) : C!RemoveProfile(p) \/ C!Connect(p))
    BY <1>2, <1>8 DEF C!Disconnect, C!Submit, C!RemoveProfile, C!Connect
  <1>9. ASSUME NEW from \in DOMAIN list, NEW to \in DOMAIN list, C!MoveProfile(from, to)
        PROVE  ListType'
    <2>1. list' = C!InsertAt(C!RemoveAt(list, from), to, list[from])
      BY <1>9 DEF C!MoveProfile, C!SetList
    <2>2. list' \in Seq(Profile)
      BY <1>0, <2>1, MovedIsList
    <2>3. fetch' = C!NoFetch /\ store' = store /\ file' = file /\ editing' = editing
      BY <1>9 DEF C!MoveProfile, C!core
    <2> QED  BY <2>2, <2>3 DEF ShellType, ListType
  <1>10. CASE C!UserStep
    BY <1>4, <1>5, <1>6, <1>7, <1>8, <1>9, <1>10 DEF C!UserStep, C!KeyMoves, C!DropMoves
  <1>11. CASE C!ListReads
    <2>1. /\ fetch' = C!Answer(store) /\ store' = store /\ file' = file /\ editing' = editing
          /\ list' = list
      BY <1>11 DEF C!ListReads, C!core
    <2>2. fetch'.list = store
      BY <2>1 DEF C!Answer
    <2> QED  BY <1>0, <2>1, <2>2 DEF ShellType, ListType
  <1>12. CASE C!ListArrives
    <2>1. fetch.step # "none" /\ fetch.step # "asked"
      BY <1>12 DEF C!ListArrives
    <2>2. fetch.list \in Seq(Profile)
      BY <2>1 DEF ShellType, ListType, C!NoFetch, C!Asked
    <2>3. /\ list' = fetch.list /\ fetch' = C!NoFetch /\ store' = store /\ file' = file
          /\ editing' = editing
      BY <1>12 DEF C!ListArrives, C!SetList, C!core
    <2> QED  BY <1>0, <2>2, <2>3 DEF ShellType, ListType
  <1>13. CASE C!Restart
    <2>1. <<>> \in Seq(Profile)
      OBVIOUS
    <2> QED  BY <1>0, <1>13, <2>1 DEF C!Restart, ListType
  <1>14. ASSUME NEW c \in calls, C!CoreStep(c) \/ C!Reply(c)
         PROVE  ListType'
    <2>0. c \in Calls
      BY DEF CallsOk
    <2>1. CASE \/ C!SaveChecks(c) \/ C!SaveFails(c) \/ C!DeleteChecks(c) \/ C!ReorderFails(c)
               \/ C!OpenReads(c) \/ C!OpenRefused(c) \/ C!OpenFinds(c) \/ C!OpenFails(c)
               \/ C!OpenReportsFailure(c)
      BY <1>2, <2>1 DEF C!SaveChecks, C!SaveFails, C!DeleteChecks, C!ReorderFails, C!OpenReads,
                        C!OpenRefused, C!OpenFinds, C!OpenFails, C!OpenReportsFailure
    <2>2. CASE C!DeletePassword(c) \/ C!OpenInserts(c) \/ C!CloseRemoves(c)
      BY <1>1, <2>2 DEF C!DeletePassword, C!OpenInserts, C!CloseRemoves, C!page
    <2>3. CASE C!SaveWrites(c)
      <3>1. C!Upsert([id |-> c.id, ver |-> c.n, cred |-> C!HasCredential(c)]) \in Seq(Profile)
        BY <1>0, <2>3, SavedIsProfile, UpsertIsList
      <3> QED  BY <1>3, <2>3, <3>1 DEF C!SaveWrites
    <2>4. CASE C!DeleteRemoves(c)
      <3>1. C!Without(store, c.id) \in Seq(Profile)
        BY <1>0, WithoutIsList
      <3> QED  BY <1>3, <2>4, <3>1 DEF C!DeleteRemoves
    <2>5. CASE C!Reorders(c)
      <3>1. c \in ReorderCalls
        BY <2>0, <2>5, CallKinds DEF C!Reorders, C!MainTakes
      <3>2. c.ids \in Seq(C!Profiles)
        BY <3>1 DEF ReorderCalls
      <3>3. PICK ids : ids = c.ids
        OBVIOUS
      <3>4. ASSUME NEW i \in 1 .. Len(ids)
            PROVE  C!Of(store, ids[i]) \in Profile
        <4>1. ids[i] \in C!Range(C!Ids(store))
          <5>1. ids[i] \in C!Range(ids)
            BY <3>2, <3>3 DEF C!Range
          <5>2. C!Range(ids) = C!Range(C!Ids(store))
            BY <2>5, <3>3 DEF C!Reorders
          <5> QED  BY <5>1, <5>2
        <4>2. C!Known(store, ids[i])
          BY <1>0, <4>1, IdsAreIds DEF C!Known, C!Range
        <4> QED  BY <1>0, <4>2, OfIsProfile
      <3>5. store' = [i \in 1 .. Len(ids) |-> C!Of(store, ids[i])] /\ file' = store'
        BY <2>5, <3>2, <3>3 DEF C!Reorders
      <3>6. store' \in Seq(Profile)
        BY <3>2, <3>3, <3>4, <3>5
      <3> QED  BY <2>5, <3>5, <3>6 DEF C!Reorders, C!page, ShellType, ListType
    <2>6. CASE C!SaveOrDeleteReplies(c)
      BY <2>6 DEF C!SaveOrDeleteReplies, C!Invalidate, C!core, ShellType, ListType
    <2>7. CASE C!ReorderReplies(c)
      <3>1. c.list \in Seq(Profile)
        BY <2>0, <2>7, CallKinds DEF C!ReorderReplies, ReorderCalls
      <3>2. list' \in {list, c.list} /\ fetch' \in {fetch, C!Asked} /\ store' = store /\ file' = file
              /\ editing' = editing
        BY <2>7 DEF C!ReorderReplies, C!SetList, C!Invalidate, C!core
      <3> QED  BY <3>1, <3>2 DEF ShellType, ListType
    <2>8. CASE C!OpenReplies(c)
      BY <2>8, GoLists DEF C!OpenReplies
    <2>9. CASE C!CloseReplies(c)
      BY <2>9, GoLists DEF C!CloseReplies
    <2> QED  BY <1>14, <2>1, <2>2, <2>3, <2>4, <2>5, <2>6, <2>7, <2>8, <2>9 DEF C!CoreStep, C!Reply
  <1> QED  BY <1>10, <1>11, <1>12, <1>13, <1>14 DEF C!Next

(* The rail, the route and the connections keep their type. *)
LEMMA RailTypeStep ==
    ASSUME ShellType, CallsOk, ConnectionInv, C!Next
    PROVE  RailType'
  <1> DEFINE Entry == [conn : Nat, profile : Profile]
  <1>0. rail \in Seq(Entry) /\ at \in Int
    BY DEF ShellType, RailType
  <1>1. ASSUME UNCHANGED <<work, rail>>, at' \in Int
        PROVE  RailType'
    BY <1>0, <1>1 DEF ShellType, RailType
  <1>2. ASSUME UNCHANGED <<work, rail, at>>
        PROVE  RailType'
    BY <1>0, <1>1, <1>2
  <1>3. C!Home \in Int /\ C!Settings \in Int
    BY DEF C!Home, C!Settings
  <1>4. CASE C!GoHome \/ C!GoSettings
    BY <1>1, <1>3, <1>4 DEF C!GoHome, C!GoSettings, C!Go, C!core
  <1>5. CASE C!Back
    <2>1. at' = previous /\ UNCHANGED <<work, rail>> /\ C!OnRail(previous)
      BY <1>5 DEF C!Back, C!Go, C!core
    <2>2. previous \in Int
      BY <2>1, RailNumbers
    <2> QED  BY <1>1, <2>1, <2>2
  <1>6. ASSUME NEW step \in {-1, 1}, C!CycleConnection(step)
        PROVE  RailType'
    <2>1. PICK i \in DOMAIN rail : C!Go(rail[i].conn, calls)
      BY <1>6 DEF C!CycleConnection
    <2>2. UNCHANGED <<work, rail>>
      BY <1>6 DEF C!CycleConnection, C!core
    <2>3. at' = rail[i].conn
      BY <2>1 DEF C!Go
    <2>4. rail[i].conn \in Int
      BY <2>1, RailNumbers DEF C!OnRail
    <2> QED  BY <1>1, <2>2, <2>3, <2>4
  <1>7. CASE \/ C!CancelEdit \/ C!Disconnect \/ (\E password \in BOOLEAN : C!Submit(password))
             \/ (\E p \in C!Range(list) : C!EditProfile(p) \/ C!RemoveProfile(p) \/ C!Connect(p))
             \/ (\E from \in DOMAIN list, to \in DOMAIN list : C!MoveProfile(from, to))
    BY <1>2, <1>7 DEF C!CancelEdit, C!Disconnect, C!Submit, C!EditProfile, C!RemoveProfile,
                      C!Connect, C!MoveProfile, C!core, C!page
  <1>8. CASE C!UserStep
    BY <1>4, <1>5, <1>6, <1>7, <1>8 DEF C!UserStep, C!KeyMoves, C!DropMoves
  <1>9. CASE C!ListReads \/ C!ListArrives
    BY <1>2, <1>9 DEF C!ListReads, C!ListArrives, C!core
  <1>10. CASE C!Restart
    <2>1. <<>> \in Seq(Entry) /\ DOMAIN <<>> = {}
      OBVIOUS
    <2> HIDE DEF Entry
    <2>2. rail' \in Seq(Entry) /\ at' \in Int /\ DOMAIN work' = {}
      BY <1>3, <1>10, <2>1 DEF C!Restart
    <2> QED  BY <2>2 DEF RailType, Entry
  <1>11. ASSUME NEW c \in calls, C!CoreStep(c) \/ C!Reply(c)
         PROVE  RailType'
    <2>0. c \in Calls
      BY DEF CallsOk
    <2>1. CASE \/ C!SaveChecks(c) \/ C!SaveFails(c) \/ C!DeleteChecks(c) \/ C!ReorderFails(c)
               \/ C!OpenReads(c) \/ C!OpenRefused(c) \/ C!OpenFinds(c) \/ C!OpenFails(c)
               \/ C!OpenReportsFailure(c)
      BY <1>2, <2>1 DEF C!SaveChecks, C!SaveFails, C!DeleteChecks, C!ReorderFails, C!OpenReads,
                        C!OpenRefused, C!OpenFinds, C!OpenFails, C!OpenReportsFailure, C!core, C!page
    <2>2. CASE \/ C!DeletePassword(c) \/ C!SaveWrites(c) \/ C!DeleteRemoves(c) \/ C!Reorders(c)
               \/ C!SaveOrDeleteReplies(c) \/ C!ReorderReplies(c)
      BY <1>2, <2>2 DEF C!DeletePassword, C!SaveWrites, C!DeleteRemoves, C!Reorders,
                        C!SaveOrDeleteReplies, C!ReorderReplies, C!core, C!page
    <2>3. CASE C!OpenInserts(c)
      <3>1. rail' = rail /\ at' = at
        BY <2>3 DEF C!OpenInserts, C!page
      <3>2. CASE C!Open(c.id)
        BY <1>2, <2>3, <3>1, <3>2 DEF C!OpenInserts
      <3>3. CASE ~C!Open(c.id)
        <4>1. work' = [d \in DOMAIN work \cup {c.n} |-> IF d = c.n THEN c.read ELSE work[d]]
          BY <2>3, <3>3 DEF C!OpenInserts, C!Added
        <4>2. c.n \in Nat /\ c.read \in Profile
          BY <2>0, <2>3, CallKinds DEF C!OpenInserts, ConnectionInv, Knows
        <4>3. DOMAIN work' \subseteq Nat /\ \A k \in DOMAIN work' : work'[k] \in Profile
          BY <4>1, <4>2 DEF ShellType, RailType
        <4> QED  BY <1>0, <3>1, <4>3 DEF RailType
      <3> QED  BY <3>2, <3>3
    <2>4. CASE C!CloseRemoves(c)
      <3>1. rail' = rail /\ at' = at /\ work' = [d \in DOMAIN work \ {c.conn} |-> work[d]]
        BY <2>4 DEF C!CloseRemoves, C!page
      <3>2. DOMAIN work' \subseteq Nat /\ \A k \in DOMAIN work' : work'[k] \in Profile
        BY <3>1 DEF ShellType, RailType
      <3> QED  BY <1>0, <3>1, <3>2 DEF RailType
    <2>5. CASE C!OpenReplies(c)
      <3>1. c \in OpenCalls
        BY <2>0, <2>5, CallKinds DEF C!OpenReplies
      <3>2. c.profile \in Profile /\ c.conn \in Nat
        <4>1. c.profile \in Profile
          BY <3>1 DEF OpenCalls
        <4>2. c.conn \in 1 .. made
          BY <2>5 DEF C!OpenReplies, ConnectionInv, Knows, Spent
        <4> QED  BY <4>1, <4>2 DEF CallsOk
      <3>3. PICK e : e = [conn |-> c.conn, profile |-> c.profile]
        OBVIOUS
      <3>4. e \in Entry
        BY <3>2, <3>3
      <3>5. rail' = IF C!OnRail(c.conn)
                    THEN [i \in DOMAIN rail |-> IF rail[i].conn = c.conn THEN e ELSE rail[i]]
                    ELSE Append(rail, e)
        BY <2>5, <3>3 DEF C!OpenReplies, C!RailSet
      <3> HIDE DEF Entry
      <3>6. rail' \in Seq(Entry)
        <4>1. [i \in 1 .. Len(rail) |-> IF rail[i].conn = c.conn THEN e ELSE rail[i]] \in Seq(Entry)
          BY <1>0, <3>4
        <4>2. DOMAIN rail = 1 .. Len(rail) /\ Append(rail, e) \in Seq(Entry)
          BY <1>0, <3>4
        <4> QED  BY <3>5, <4>1, <4>2
      <3>7. at' = c.conn /\ work' = work
        BY <2>5 DEF C!OpenReplies, C!Go, C!core
      <3> QED  BY <3>2, <3>6, <3>7 DEF ShellType, RailType, Entry
    <2>6. CASE C!CloseReplies(c)
      <3>1. at' = C!Home /\ work' = work
        BY <2>6 DEF C!CloseReplies, C!Go, C!core
      <3>2. rail' \in Seq(Entry)
        <4>1. CASE C!OnRail(c.conn)
          <5>1. PICK k : k = CHOOSE i \in DOMAIN rail : rail[i].conn = c.conn
            OBVIOUS
          <5>2. k \in DOMAIN rail
            BY <4>1, <5>1 DEF C!OnRail
          <5>3. rail' = C!RemoveAt(rail, k)
            BY <2>6, <4>1, <5>1 DEF C!CloseReplies
          <5> HIDE DEF Entry
          <5> QED  BY <1>0, <5>2, <5>3, RemoveAtIsList
        <4>2. CASE ~C!OnRail(c.conn)
          BY <1>0, <2>6, <4>2 DEF C!CloseReplies
        <4> QED  BY <4>1, <4>2
      <3> QED  BY <1>3, <3>1, <3>2 DEF ShellType, RailType
    <2> QED  BY <1>11, <2>1, <2>2, <2>3, <2>4, <2>5, <2>6 DEF C!CoreStep, C!Reply
  <1> QED  BY <1>8, <1>9, <1>10, <1>11 DEF C!Next

----------------------------------------------------------------------------
(* Connections. *)

(* Calls go on: one that has connected stays connected. *)
Evolves(cs, ds, m) ==
    \A d \in ds : d.op = "open" =>
        \/ d.n > m
        \/ \E c \in cs : c.op = "open" /\ c.n = d.n /\ (c.phase = "ok" => d.phase = "ok")

(* Nothing is learnt of a connection. *)
Quiet(cs, ds) ==
    \A d \in ds : d.op \in {"open", "close"} =>
        \E c \in cs :
            /\ Carries(c, d)
            /\ \/ d.phase = c.phase
               \/ /\ c.op = "open" /\ c.phase # "ok"
                  /\ d.phase = "failed" \/ (c.phase = "read" /\ d.phase = "connecting")

AnswersStay(cs, ds) ==
    \A c \in cs : c.op = "open" /\ c.phase = "ok" =>
        \E d \in ds : d.op = "open" /\ d.phase = "ok" /\ d.conn = c.conn

(* A spent number stays spent. *)
LEMMA SpentStays ==
    ASSUME NEW cs, NEW ds, NEW m \in Nat, NEW m2 \in Nat, m <= m2, Evolves(cs, ds, m),
           NEW k, Spent(cs, m, k)
    PROVE  Spent(ds, m2, k)
  BY DEF Spent, Evolves

(* A quiet step is one. *)
LEMMA QuietEvolves ==
    ASSUME NEW cs, NEW ds, NEW m, Quiet(cs, ds)
    PROVE  Evolves(cs, ds, m)
  BY DEF Quiet, Evolves, Carries, Same

(* Calls know what they knew. *)
LEMMA QuietKnows ==
    ASSUME NEW cs, NEW ds, NEW m \in Nat, NEW m2 \in Nat, m <= m2, NEW w,
           Quiet(cs, ds), Knows(cs, m, w)
    PROVE  Knows(ds, m2, w)
  <1>1. Evolves(cs, ds, m)
    BY QuietEvolves
  <1>2. \A k : Spent(cs, m, k) => Spent(ds, m2, k)
    BY <1>1, SpentStays
  <1> SUFFICES ASSUME NEW d \in ds
               PROVE  /\ d.op = "open" /\ d.phase \in {"read", "connecting"}
                           => d.read \in Profile /\ d.read.id = d.id
                      /\ d.op = "open" /\ d.phase = "ok" => Spent(ds, m2, d.conn)
                      /\ d.op = "close" => Spent(ds, m2, d.conn)
                      /\ d.op = "close" /\ d.phase = "ok" => d.conn \notin DOMAIN w
    BY DEF Knows
  <1>3. CASE d.op \notin {"open", "close"}
    BY <1>3
  <1>4. CASE d.op \in {"open", "close"}
    <2>1. PICK c \in cs :
            /\ Carries(c, d)
            /\ \/ d.phase = c.phase
               \/ /\ c.op = "open" /\ c.phase # "ok"
                  /\ d.phase = "failed" \/ (c.phase = "read" /\ d.phase = "connecting")
      BY <1>4 DEF Quiet
    <2>2. /\ c.op = "open" /\ c.phase \in {"read", "connecting"} => c.read \in Profile /\ c.read.id = c.id
          /\ c.op = "open" /\ c.phase = "ok" => Spent(cs, m, c.conn)
          /\ c.op = "close" => Spent(cs, m, c.conn)
          /\ c.op = "close" /\ c.phase = "ok" => c.conn \notin DOMAIN w
      BY DEF Knows
    <2>3. /\ d.op = c.op /\ (c.op = "close" => d.conn = c.conn)
          /\ c.op = "open" => d.id = c.id /\ d.conn = c.conn /\ d.read = c.read
      BY <2>1 DEF Carries, Same
    <2>4. CASE d.phase = c.phase
      BY <1>2, <2>2, <2>3, <2>4
    <2>5. CASE d.phase # c.phase
      BY <2>1, <2>2, <2>3, <2>5
    <2> QED  BY <2>4, <2>5
  <1> QED  BY <1>3, <1>4

(* A step that is quiet and leaves connections and rail alone. *)
LEMMA ConnectionFrame ==
    ASSUME ConnectionInv, CallsOk, CallsOk', made' \in {made, made + 1},
           Quiet(calls, calls'), AnswersStay(calls, calls'),
           work' = work, rail' = rail, C!ShownIsOnRail'
    PROVE  ConnectionInv'
  <1>1. made \in Nat /\ made' \in Nat /\ made <= made'
    BY DEF CallsOk
  <1>2. Knows(calls', made', work')
    BY <1>1, QuietKnows DEF ConnectionInv
  <1>3. \A k : Spent(calls, made, k) => Spent(calls', made', k)
    BY <1>1, QuietEvolves, SpentStays
  <1>4. C!NoConnectionLeaked'
    BY DEF ConnectionInv, C!NoConnectionLeaked, C!OnRail, AnswersStay
  <1>5. C!OneConnectionPerProfile'
    BY DEF ConnectionInv, C!OneConnectionPerProfile
  <1> QED  BY <1>2, <1>3, <1>4, <1>5 DEF ConnectionInv, CallsOk

(* A call about something else goes on, or an opening one fails. *)
LEMMA QuietBecomes ==
    ASSUME CallsOk, NEW c \in calls, NEW ph \in PhasesOf(c.op), C!Becomes(c, ph),
           \/ c.op \notin {"open", "close"}
           \/ /\ c.op = "open" /\ c.phase # "ok"
              /\ ph = "failed" \/ (c.phase = "read" /\ ph = "connecting")
    PROVE  Quiet(calls, calls') /\ AnswersStay(calls, calls')
  <1>1. PICK d : d = [c EXCEPT !.phase = ph]
    OBVIOUS
  <1>2. Carries(c, d) /\ d.phase = ph /\ calls' = (calls \ {c}) \cup {d}
    BY <1>1, PhasedCall DEF CallsOk, C!Becomes
  <1>3. \A e : Carries(e, e)
    BY DEF Carries, Same
  <1>4. d.op = c.op
    BY <1>2 DEF Carries, Same
  <1> QED  BY <1>2, <1>3, <1>4 DEF Quiet, AnswersStay

(* The set of calls loses one that did not connect, or gains one about something else. *)
LEMMA QuietEnds ==
    ASSUME NEW c \in calls, c.op # "open" \/ c.phase # "ok", calls' = calls \ {c}
    PROVE  Quiet(calls, calls') /\ AnswersStay(calls, calls')
  BY DEF Quiet, AnswersStay, Carries, Same

(* As said of QuietEnds. *)
LEMMA QuietCall ==
    ASSUME NEW c, c.op \notin {"open", "close"}, C!Call(c)
    PROVE  Quiet(calls, calls') /\ AnswersStay(calls, calls')
  BY DEF C!Call, Quiet, AnswersStay, Carries, Same

(* Leaving or entering a page tells nothing of a connection. *)
LEMMA QuietFollow ==
    ASSUME NEW rest, rest \subseteq calls, Follow(rest, calls')
    PROVE  /\ Quiet(calls, calls')
           /\ AnswersStay(rest, calls')
  BY DEF Follow, Quiet, AnswersStay, Carries, Same

(* A call to connect or disconnect is made. *)
LEMMA ConnectionCall ==
    ASSUME ConnectionInv, CallsOk, CallsOk', NEW d, C!Call(d), d.n = made + 1, d.phase = "sent",
           d.op \in {"open", "close"}, d.op = "close" => C!OnRail(d.conn),
           UNCHANGED <<work, rail, at>>
    PROVE  ConnectionInv'
  <1>1. calls' = calls \cup {d} /\ made' = made + 1 /\ made \in Nat /\ made' \in Nat /\ made <= made'
    BY DEF C!Call, CallsOk
  <1>2. Evolves(calls, calls', made)
    BY <1>1 DEF Evolves
  <1>3. \A k : Spent(calls, made, k) => Spent(calls', made', k)
    BY <1>1, <1>2, SpentStays
  <1>4. Knows(calls', made', work')
    <2>1. d.op = "close" => Spent(calls, made, d.conn)
      BY DEF ConnectionInv, C!OnRail
    <2> QED  BY <1>1, <1>3, <2>1 DEF ConnectionInv, Knows
  <1>5. C!NoConnectionLeaked' /\ C!OneConnectionPerProfile' /\ C!ShownIsOnRail'
    BY <1>1 DEF ConnectionInv, C!NoConnectionLeaked, C!OneConnectionPerProfile, C!ShownIsOnRail,
                C!OnRail
  <1> QED  BY <1>3, <1>4, <1>5 DEF ConnectionInv, CallsOk

(* The user's steps leave the connections whole. *)
LEMMA ConnectionUser ==
    ASSUME ShellType, ConnectionInv, CallsOk, CallsOk', C!UserStep
    PROVE  ConnectionInv'
  <1>1. ASSUME NEW to, C!Go(to, calls), UNCHANGED <<C!core, made, rail>>,
               to \in {C!Home, C!Settings} \/ C!OnRail(to)
        PROVE  ConnectionInv'
    <2>1. Follow(calls, calls')
      BY <1>1, GoOk
    <2>2. Quiet(calls, calls') /\ AnswersStay(calls, calls')
      BY <2>1, QuietFollow
    <2>3. C!ShownIsOnRail'
      BY <1>1 DEF C!ShownIsOnRail, C!OnRail, C!Go
    <2> QED  BY <1>1, <2>2, <2>3, ConnectionFrame DEF C!core
  <1>2. ASSUME UNCHANGED <<calls, made, work, rail, at>>
        PROVE  ConnectionInv'
    <2>1. Quiet(calls, calls') /\ AnswersStay(calls, calls')
      BY <1>2 DEF Quiet, AnswersStay, Carries, Same
    <2>2. C!ShownIsOnRail'
      BY <1>2 DEF ConnectionInv, C!ShownIsOnRail, C!OnRail
    <2> QED  BY <1>2, <2>1, <2>2, ConnectionFrame
  <1>3. ASSUME NEW d, C!Call(d), d.op \notin {"open", "close"}, UNCHANGED <<work, rail, at>>
        PROVE  ConnectionInv'
    <2>1. C!ShownIsOnRail'
      BY <1>3 DEF ConnectionInv, C!ShownIsOnRail, C!OnRail
    <2>2. made' = made + 1
      BY <1>3 DEF C!Call
    <2> QED  BY <1>3, <2>1, <2>2, QuietCall, ConnectionFrame
  <1>4. CASE C!GoHome \/ C!GoSettings \/ C!Back
    BY <1>1, <1>4 DEF C!GoHome, C!GoSettings, C!Back
  <1>5. ASSUME NEW step \in {-1, 1}, C!CycleConnection(step)
        PROVE  ConnectionInv'
    <2>1. PICK i \in DOMAIN rail : C!Go(rail[i].conn, calls)
      BY <1>5 DEF C!CycleConnection
    <2>2. UNCHANGED <<C!core, made, rail>>
      BY <1>5 DEF C!CycleConnection
    <2> QED  BY <1>1, <2>1, <2>2 DEF C!OnRail
  <1>6. CASE C!CancelEdit \/ (\E p \in C!Range(list) : C!EditProfile(p))
    BY <1>2, <1>6 DEF C!CancelEdit, C!EditProfile, C!core
  <1>7. CASE C!Disconnect
    <2>1. PICK d : d = [op |-> "close", n |-> made + 1, mine |-> TRUE, phase |-> "sent", conn |-> at]
      OBVIOUS
    <2>2. d.op = "close" /\ d.n = made + 1 /\ d.phase = "sent" /\ d.conn = at
      BY <2>1
    <2>3. C!Call(d) /\ C!OnRail(at) /\ UNCHANGED <<work, rail, at>>
      BY <1>7, <2>1 DEF C!Disconnect, C!core, C!page
    <2> QED  BY <2>2, <2>3, ConnectionCall
  <1>8. ASSUME NEW p \in C!Range(list), C!Connect(p)
        PROVE  ConnectionInv'
    <2>1. PICK d : d = [op |-> "open", n |-> made + 1, mine |-> TRUE, phase |-> "sent", id |-> p.id,
                        given |-> C!AsksPassword(p), profile |-> p, read |-> None, conn |-> None]
      OBVIOUS
    <2>2. d.op = "open" /\ d.n = made + 1 /\ d.phase = "sent"
      BY <2>1
    <2>3. C!Call(d) /\ UNCHANGED <<work, rail, at>>
      BY <1>8, <2>1 DEF C!Connect, C!core, C!page
    <2> QED  BY <2>2, <2>3, ConnectionCall
  <1>9. ASSUME NEW p \in C!Range(list), C!RemoveProfile(p)
        PROVE  ConnectionInv'
    <2>1. PICK d : d = [op |-> "delete", n |-> made + 1, mine |-> TRUE, phase |-> "sent", id |-> p.id]
      OBVIOUS
    <2>2. C!Call(d) /\ d.op = "delete" /\ UNCHANGED <<work, rail, at>>
      BY <1>9, <2>1 DEF C!RemoveProfile, C!core, C!page
    <2> QED  BY <1>3, <2>2
  <1>10. ASSUME NEW password \in BOOLEAN, C!Submit(password)
         PROVE  ConnectionInv'
    <2>1. PICK id \in IF editing = None THEN C!Fresh ELSE {editing.id} :
             C!Call([op |-> "save", n |-> made + 1, mine |-> TRUE, phase |-> "sent",
                     id |-> id, new |-> editing = None, secret |-> C!SecretMode(password)])
      BY <1>10 DEF C!Submit
    <2>2. UNCHANGED <<work, rail, at>>
      BY <1>10 DEF C!Submit, C!core, C!page
    <2> QED  BY <1>3, <2>1, <2>2
  <1>11. ASSUME NEW from \in DOMAIN list, NEW to \in DOMAIN list, C!MoveProfile(from, to)
         PROVE  ConnectionInv'
    <2>1. PICK o : o = C!InsertAt(C!RemoveAt(list, from), to, list[from])
      OBVIOUS
    <2>2. C!Call([op |-> "reorder", n |-> made + 1, mine |-> TRUE, phase |-> "sent",
                  ids |-> C!Ids(o), list |-> list])
      BY <1>11, <2>1 DEF C!MoveProfile
    <2>3. UNCHANGED <<work, rail, at>>
      BY <1>11 DEF C!MoveProfile, C!core
    <2> QED  BY <1>3, <2>2, <2>3
  <1> QED  BY <1>4, <1>5, <1>6, <1>7, <1>8, <1>9, <1>10, <1>11
           DEF C!UserStep, C!KeyMoves, C!DropMoves

(* connection_open: an open connection is the answer, or a new one is added. *)
LEMMA ConnectionOpens ==
    ASSUME ShellType, ConnectionInv, CallsOk, CallsOk', NEW c \in calls, c.op = "open",
           c.phase \in {"sent", "read", "connecting"}, NEW d, Same(c, d),
           calls' = (calls \ {c}) \cup {d}, UNCHANGED <<made, rail, at>>,
           d.phase \in {"read", "ok"},
           d.phase = "read" => d.read \in Profile /\ d.read.id = d.id /\ work' = work,
           d.phase = "ok" => \/ d.conn \in DOMAIN work /\ work' = work
                             \/ /\ c.phase = "connecting" /\ d.conn = c.n /\ ~C!Open(c.id)
                                /\ work' = C!Added(c.n, c.read)
    PROVE  ConnectionInv'
  <1>1. d.op = "open" /\ d.n = c.n /\ d.id = c.id /\ made \in Nat
    BY DEF Same, CallsOk
  <1>2. Evolves(calls, calls', made)
    BY <1>1 DEF Evolves
  <1>3. \A k : Spent(calls, made, k) => Spent(calls', made, k)
    BY <1>1, <1>2, SpentStays
  <1>4. \A k \in DOMAIN work : Spent(calls, made, k)
    BY DEF ConnectionInv
  <1>5. d.phase = "ok" => Spent(calls', made, c.n)
    <2>1. c.n \in 1 .. made /\ \A e \in calls : e.n = c.n => e = c
      BY DEF CallsOk, Numbered
    <2> QED  BY <2>1 DEF Spent
  <1>6. \A e \in calls : e.op = "open" /\ e.phase = "ok" => e \in calls'
    OBVIOUS
  <1>7. C!ShownIsOnRail' /\ \A i \in DOMAIN rail' : Spent(calls', made', rail'[i].conn)
    BY <1>3 DEF ConnectionInv, C!ShownIsOnRail, C!OnRail
  <1>8. CASE work' = work
    <2>1. d.phase = "ok" => Spent(calls', made, d.conn)
      BY <1>3, <1>4, <1>5
    <2>2. Knows(calls', made', work')
      BY <1>1, <1>3, <1>8, <2>1 DEF ConnectionInv, Knows
    <2>3. C!NoConnectionLeaked' /\ C!OneConnectionPerProfile'
      BY <1>6, <1>8 DEF ConnectionInv, C!NoConnectionLeaked, C!OneConnectionPerProfile, C!OnRail
    <2> QED  BY <1>3, <1>4, <1>7, <1>8, <2>2, <2>3 DEF ConnectionInv, CallsOk
  <1>9. CASE /\ d.phase = "ok" /\ c.phase = "connecting" /\ d.conn = c.n /\ ~C!Open(c.id)
             /\ work' = C!Added(c.n, c.read)
    <2>1. /\ DOMAIN work' = DOMAIN work \cup {c.n} /\ work'[c.n] = c.read
          /\ \A k \in DOMAIN work : k # c.n => work'[k] = work[k]
      BY <1>9 DEF C!Added
    <2>2. c.read.id = c.id
      BY <1>9 DEF ConnectionInv, Knows
    <2>3. \A k \in DOMAIN work' : Spent(calls', made', k)
      BY <1>3, <1>4, <1>5, <1>9, <2>1
    <2>4. Knows(calls', made', work')
      <3>1. \A e \in calls : e.op = "close" => e.conn # c.n
        BY <1>9 DEF ConnectionInv, Knows, Spent
      <3> QED  BY <1>1, <1>3, <1>5, <1>9, <2>1, <3>1 DEF ConnectionInv, Knows
    <2>5. C!OneConnectionPerProfile'
      BY <1>9, <2>1, <2>2 DEF ConnectionInv, C!OneConnectionPerProfile, C!Open
    <2>6. C!NoConnectionLeaked'
      BY <1>1, <1>6, <1>9, <2>1 DEF ConnectionInv, C!NoConnectionLeaked, C!OnRail
    <2> QED  BY <1>7, <2>3, <2>4, <2>5, <2>6 DEF ConnectionInv, CallsOk
  <1> QED  BY <1>8, <1>9

(* connection_close removes the workspace. *)
LEMMA ConnectionCloses ==
    ASSUME ConnectionInv, CallsOk, CallsOk', NEW c \in calls, C!CloseRemoves(c)
    PROVE  ConnectionInv'
  <1>1. PICK d : d = [c EXCEPT !.phase = "ok"]
    OBVIOUS
  <1>2. c.op = "close" /\ "ok" \in PhasesOf(c.op)
    BY DEF C!CloseRemoves, PhasesOf
  <1>3. Carries(c, d) /\ d.phase = "ok" /\ calls' = (calls \ {c}) \cup {d}
    BY <1>1, <1>2, PhasedCall DEF CallsOk, C!CloseRemoves, C!Becomes
  <1>4. d.op = "close" /\ d.conn = c.conn /\ made \in Nat
    BY <1>2, <1>3 DEF Carries, Same, CallsOk
  <1>5. /\ DOMAIN work' = DOMAIN work \ {c.conn} /\ \A k \in DOMAIN work' : work'[k] = work[k]
        /\ made' = made /\ rail' = rail /\ at' = at
    BY DEF C!CloseRemoves, C!page
  <1>6. Evolves(calls, calls', made)
    BY <1>3, <1>4 DEF Evolves
  <1>7. \A k : Spent(calls, made, k) => Spent(calls', made, k)
    BY <1>4, <1>6, SpentStays
  <1>8. Knows(calls', made', work')
    BY <1>2, <1>3, <1>4, <1>5, <1>7 DEF ConnectionInv, Knows
  <1>9. C!NoConnectionLeaked'
    <2>1. \A e \in calls : e.op = "open" => e \in calls'
      BY <1>2, <1>3
    <2> QED  BY <1>5, <2>1 DEF ConnectionInv, C!NoConnectionLeaked, C!OnRail
  <1>10. C!OneConnectionPerProfile' /\ C!ShownIsOnRail'
    BY <1>5 DEF ConnectionInv, C!OneConnectionPerProfile, C!ShownIsOnRail, C!OnRail
  <1> QED  BY <1>5, <1>7, <1>8, <1>9, <1>10 DEF ConnectionInv, CallsOk

(* The answer of connection_open goes on the rail. *)
LEMMA ConnectionOpened ==
    ASSUME ShellType, ConnectionInv, CallsOk, CallsOk', NEW c \in calls, C!OpenReplies(c)
    PROVE  ConnectionInv'
  <1> DEFINE rest == calls \ {c}
  <1>1. /\ c.op = "open" /\ c.phase = "ok" /\ rail' = C!RailSet(c.conn, c.profile)
        /\ C!Go(c.conn, rest) /\ made' = made /\ work' = work /\ at' = c.conn
    BY DEF C!OpenReplies, C!core, C!Go
  <1>2. Follow(rest, calls')
    BY <1>1, GoOk
  <1>3. Quiet(calls, calls') /\ AnswersStay(rest, calls') /\ made \in Nat
    <2>1. rest \subseteq calls
      OBVIOUS
    <2> HIDE DEF rest
    <2> QED  BY <1>2, <2>1, QuietFollow DEF CallsOk
  <1>4. Knows(calls', made', work')
    BY <1>1, <1>3, QuietKnows DEF ConnectionInv
  <1>5. \A k : Spent(calls, made, k) => Spent(calls', made', k)
    BY <1>1, <1>3, QuietEvolves, SpentStays
  <1>6. Spent(calls, made, c.conn)
    BY <1>1 DEF ConnectionInv, Knows
  <1>7. /\ \A i \in DOMAIN rail' : rail'[i].conn = c.conn \/ \E j \in DOMAIN rail : rail'[i] = rail[j]
        /\ \A j \in DOMAIN rail : \E i \in DOMAIN rail' : rail'[i].conn = rail[j].conn
        /\ \E i \in DOMAIN rail' : rail'[i].conn = c.conn
    <2>0. rail \in Seq([conn : Nat, profile : Profile])
      BY DEF ShellType, RailType
    <2>1. PICK e : e = [conn |-> c.conn, profile |-> c.profile]
      OBVIOUS
    <2>2. e.conn = c.conn
      BY <2>1
    <2>3. CASE C!OnRail(c.conn)
      <3>1. rail' = [i \in DOMAIN rail |-> IF rail[i].conn = c.conn THEN e ELSE rail[i]]
        BY <1>1, <2>1, <2>3 DEF C!RailSet
      <3> QED  BY <2>2, <2>3, <3>1 DEF C!OnRail
    <2>4. CASE ~C!OnRail(c.conn)
      <3>1. rail' = Append(rail, e)
        BY <1>1, <2>1, <2>4 DEF C!RailSet
      <3>2. /\ DOMAIN rail' = 1 .. Len(rail) + 1 /\ DOMAIN rail = 1 .. Len(rail) /\ Len(rail) \in Nat
            /\ rail'[Len(rail) + 1] = e /\ \A i \in 1 .. Len(rail) : rail'[i] = rail[i]
        BY <2>0, <3>1
      <3> QED  BY <2>2, <3>2
    <2> QED  BY <2>3, <2>4
  <1>8. \A i \in DOMAIN rail' : Spent(calls', made', rail'[i].conn)
    BY <1>5, <1>6, <1>7 DEF ConnectionInv
  <1>9. C!ShownIsOnRail'
    BY <1>1, <1>7 DEF C!ShownIsOnRail, C!OnRail
  <1>10. C!OneConnectionPerProfile'
    BY <1>1 DEF ConnectionInv, C!OneConnectionPerProfile
  <1>11. C!NoConnectionLeaked'
    <2> SUFFICES ASSUME NEW k \in DOMAIN work
                 PROVE  \/ \E i \in DOMAIN rail' : rail'[i].conn = k
                        \/ \E d \in calls' : d.op = "open" /\ d.phase = "ok" /\ d.conn = k
      BY <1>1 DEF C!NoConnectionLeaked, C!OnRail
    <2>1. CASE C!OnRail(k)
      BY <1>7, <2>1 DEF C!OnRail
    <2>2. CASE ~C!OnRail(k)
      <3>1. PICK e \in calls : e.op = "open" /\ e.phase = "ok" /\ e.conn = k
        BY <2>2 DEF ConnectionInv, C!NoConnectionLeaked
      <3>2. CASE e = c
        BY <1>7, <3>1, <3>2
      <3>3. CASE e # c
        BY <1>3, <3>1, <3>3 DEF AnswersStay
      <3> QED  BY <3>2, <3>3
    <2> QED  BY <2>1, <2>2
  <1> QED  BY <1>1, <1>4, <1>5, <1>8, <1>9, <1>10, <1>11 DEF ConnectionInv, CallsOk

(* The answer of connection_close takes its entry off the rail. *)
LEMMA ConnectionClosed ==
    ASSUME ShellType, ConnectionInv, CallsOk, CallsOk', NEW c \in calls, C!CloseReplies(c)
    PROVE  ConnectionInv'
  <1> DEFINE rest == calls \ {c}
  <1>1. /\ c.op = "close" /\ c.phase = "ok"
        /\ C!Go(C!Home, rest) /\ made' = made /\ work' = work /\ at' = C!Home
    BY DEF C!CloseReplies, C!core, C!Go
  <1>2. Follow(rest, calls')
    BY <1>1, GoOk
  <1>3. Quiet(calls, calls') /\ AnswersStay(rest, calls') /\ made \in Nat
    <2>1. rest \subseteq calls
      OBVIOUS
    <2> HIDE DEF rest
    <2> QED  BY <1>2, <2>1, QuietFollow DEF CallsOk
  <1>4. Knows(calls', made', work')
    BY <1>1, <1>3, QuietKnows DEF ConnectionInv
  <1>5. \A k : Spent(calls, made, k) => Spent(calls', made', k)
    BY <1>1, <1>3, QuietEvolves, SpentStays
  <1>6. c.conn \notin DOMAIN work
    BY <1>1 DEF ConnectionInv, Knows
  <1>7. /\ \A i \in DOMAIN rail' : \E j \in DOMAIN rail : rail'[i] = rail[j]
        /\ \A j \in DOMAIN rail : rail[j].conn # c.conn => \E i \in DOMAIN rail' : rail'[i] = rail[j]
    <2>1. CASE C!OnRail(c.conn)
      <3>1. PICK k : k = CHOOSE i \in DOMAIN rail : rail[i].conn = c.conn
        OBVIOUS
      <3>2. k \in DOMAIN rail /\ rail[k].conn = c.conn
        BY <2>1, <3>1 DEF C!OnRail
      <3>3. rail' = C!RemoveAt(rail, k)
        BY <2>1, <3>1 DEF C!CloseReplies
      <3>4. PICK R : rail \in Seq(R)
        BY DEF ShellType, RailType
      <3> QED  BY ZenonT(120), <3>2, <3>3, <3>4, RemoveAtIsList
    <2>2. CASE ~C!OnRail(c.conn)
      BY <2>2 DEF C!CloseReplies
    <2> QED  BY <2>1, <2>2
  <1>8. \A i \in DOMAIN rail' : Spent(calls', made', rail'[i].conn)
    BY <1>5, <1>7 DEF ConnectionInv
  <1>9. C!ShownIsOnRail' /\ C!OneConnectionPerProfile'
    BY <1>1 DEF ConnectionInv, C!ShownIsOnRail, C!OneConnectionPerProfile
  <1>10. C!NoConnectionLeaked'
    <2> SUFFICES ASSUME NEW k \in DOMAIN work
                 PROVE  \/ \E i \in DOMAIN rail' : rail'[i].conn = k
                        \/ \E d \in calls' : d.op = "open" /\ d.phase = "ok" /\ d.conn = k
      BY <1>1 DEF C!NoConnectionLeaked, C!OnRail
    <2>1. CASE C!OnRail(k)
      BY <1>6, <1>7, <2>1 DEF C!OnRail
    <2>2. CASE ~C!OnRail(k)
      <3>1. PICK e \in calls : e.op = "open" /\ e.phase = "ok" /\ e.conn = k
        BY <2>2 DEF ConnectionInv, C!NoConnectionLeaked
      <3> QED  BY <1>1, <1>3, <3>1 DEF AnswersStay
    <2> QED  BY <2>1, <2>2
  <1> QED  BY <1>1, <1>4, <1>5, <1>8, <1>9, <1>10 DEF ConnectionInv, CallsOk

(* Every step leaves the connections whole. *)
LEMMA ConnectionStep ==
    ASSUME ShellType, ConnectionInv, CallsOk, CallsOk', C!Next
    PROVE  ConnectionInv'
  <1>1. CASE C!UserStep
    BY <1>1, ConnectionUser
  <1>2. ASSUME Quiet(calls, calls'), AnswersStay(calls, calls'), UNCHANGED <<made, work, rail, at>>
        PROVE  ConnectionInv'
    <2>1. C!ShownIsOnRail'
      BY <1>2 DEF ConnectionInv, C!ShownIsOnRail, C!OnRail
    <2> QED  BY <1>2, <2>1, ConnectionFrame
  <1>3. CASE C!ListReads \/ C!ListArrives
    <2>1. UNCHANGED <<calls, made, work, rail, at>>
      BY <1>3 DEF C!ListReads, C!ListArrives, C!core
    <2>2. Quiet(calls, calls') /\ AnswersStay(calls, calls')
      BY <2>1 DEF Quiet, AnswersStay, Carries, Same
    <2> QED  BY <1>2, <2>1, <2>2
  <1>4. CASE C!Restart
    <2>1. calls' = {} /\ DOMAIN work' = {} /\ DOMAIN rail' = {} /\ at' = C!Home
      BY <1>4 DEF C!Restart
    <2> QED  BY <2>1 DEF ConnectionInv, CallsOk, Knows, C!OneConnectionPerProfile,
                         C!NoConnectionLeaked, C!ShownIsOnRail
  <1>5. ASSUME NEW c \in calls, NEW ph \in PhasesOf(c.op), C!Becomes(c, ph),
               \/ c.op \notin {"open", "close"}
               \/ /\ c.op = "open" /\ c.phase # "ok"
                  /\ ph = "failed" \/ (c.phase = "read" /\ ph = "connecting"),
               UNCHANGED <<made, work, rail, at>>
        PROVE  ConnectionInv'
    BY <1>2, <1>5, QuietBecomes
  <1>6. ASSUME NEW c \in calls, C!CoreStep(c) \/ C!Reply(c)
        PROVE  ConnectionInv'
    <2>0. c \in Calls
      BY DEF CallsOk
    <2>1. CASE C!SaveChecks(c) \/ C!SaveFails(c) \/ C!SaveWrites(c)
      <3>1. c.op = "save" /\ {"checked", "ok", "failed"} \subseteq PhasesOf(c.op)
        BY <2>1 DEF C!SaveChecks, C!SaveFails, C!SaveWrites, C!MainTakes, C!MainIn, PhasesOf
      <3>2. UNCHANGED <<made, work, rail, at>> /\ \E ph \in {"checked", "ok", "failed"} : C!Becomes(c, ph)
        BY <2>1 DEF C!SaveChecks, C!SaveFails, C!SaveWrites, C!Persist, C!core, C!page
      <3> QED  BY <1>5, <3>1, <3>2
    <2>2. CASE C!DeleteChecks(c) \/ C!DeletePassword(c) \/ C!DeleteRemoves(c)
      <3>1. c.op = "delete" /\ {"checked", "keyless", "ok", "failed"} \subseteq PhasesOf(c.op)
        BY <2>2 DEF C!DeleteChecks, C!DeletePassword, C!DeleteRemoves, C!MainTakes, C!MainIn, PhasesOf
      <3>2. /\ UNCHANGED <<made, work, rail, at>>
            /\ \E ph \in {"checked", "keyless", "ok", "failed"} : C!Becomes(c, ph)
        BY <2>2 DEF C!DeleteChecks, C!DeletePassword, C!DeleteRemoves, C!Persist, C!core, C!page
      <3> QED  BY <1>5, <3>1, <3>2
    <2>3. CASE C!Reorders(c) \/ C!ReorderFails(c)
      <3>1. c.op = "reorder" /\ {"ok", "failed"} \subseteq PhasesOf(c.op)
        BY <2>3 DEF C!Reorders, C!ReorderFails, C!MainTakes, PhasesOf
      <3>2. UNCHANGED <<made, work, rail, at>> /\ \E ph \in {"ok", "failed"} : C!Becomes(c, ph)
        BY <2>3 DEF C!Reorders, C!ReorderFails, C!core, C!page
      <3> QED  BY <1>5, <3>1, <3>2
    <2>4. CASE C!OpenRefused(c) \/ C!OpenFails(c)
      <3>1. c.op = "open" /\ c.phase # "ok" /\ "failed" \in PhasesOf(c.op)
        BY <2>4 DEF C!OpenRefused, C!OpenFails, PhasesOf
      <3>2. UNCHANGED <<made, work, rail, at>> /\ C!Becomes(c, "failed")
        BY <2>4 DEF C!OpenRefused, C!OpenFails, C!core, C!page
      <3> QED  BY <1>5, <3>1, <3>2
    <2>5. CASE C!OpenReads(c)
      <3>1. C!Of(store, c.id) \in Profile /\ C!Of(store, c.id).id = c.id
        BY <2>5, OfIsProfile DEF C!OpenReads, ShellType, ListType
      <3>2. PICK d : d = [c EXCEPT !.phase = "read", !.read = C!Of(store, c.id)]
        OBVIOUS
      <3>3. c.op = "open" /\ c.phase = "sent" /\ calls' = (calls \ {c}) \cup {d}
              /\ UNCHANGED <<made, work, rail, at>>
        BY <2>5, <3>2 DEF C!OpenReads, C!core, C!page
      <3>4. Same(c, d) /\ d.phase = "read" /\ d.read = C!Of(store, c.id)
        BY <2>0, <3>1, <3>2, <3>3, ReadCall
      <3>5. d.id = c.id
        BY <3>3, <3>4 DEF Same
      <3> QED  BY <3>1, <3>3, <3>4, <3>5, ConnectionOpens
    <2>6. ASSUME c.op = "open", c.phase \in {"read", "connecting"}, NEW k, C!Answered(c, k),
                 UNCHANGED <<made, rail, at>>,
                 \/ k \in DOMAIN work /\ work' = work
                 \/ /\ c.phase = "connecting" /\ k = c.n /\ ~C!Open(c.id)
                    /\ work' = C!Added(c.n, c.read)
          PROVE  ConnectionInv'
      <3>1. k \in Nat
        BY <2>0, <2>6, CallKinds DEF ShellType, RailType
      <3>2. PICK d : d = [c EXCEPT !.phase = "ok", !.conn = k]
        OBVIOUS
      <3>3. calls' = (calls \ {c}) \cup {d}
        BY <2>6, <3>2 DEF C!Answered
      <3>4. Same(c, d) /\ d.phase = "ok" /\ d.conn = k
        BY <2>0, <2>6, <3>1, <3>2, AnsweredCall
      <3> QED  BY <2>6, <3>3, <3>4, ConnectionOpens
    <2>7. CASE C!OpenFinds(c)
      <3>1. c.op = "open" /\ c.phase = "read" /\ UNCHANGED <<made, work, rail, at>>
        BY <2>7 DEF C!OpenFinds, C!core, C!page
      <3>2. CASE C!Open(c.id)
        BY <2>6, <2>7, <3>1, <3>2 DEF C!OpenFinds
      <3>3. CASE ~C!Open(c.id)
        <4>1. C!Becomes(c, "connecting") /\ "connecting" \in PhasesOf(c.op)
          BY <2>7, <3>1, <3>3 DEF C!OpenFinds, PhasesOf
        <4> QED  BY <1>5, <3>1, <4>1
      <3> QED  BY <3>2, <3>3
    <2>8. CASE C!OpenInserts(c)
      <3>1. c.op = "open" /\ c.phase = "connecting" /\ UNCHANGED <<made, rail, at>>
        BY <2>8 DEF C!OpenInserts, C!page
      <3>2. CASE C!Open(c.id)
        BY <2>6, <2>8, <3>1, <3>2 DEF C!OpenInserts
      <3>3. CASE ~C!Open(c.id)
        BY <2>6, <2>8, <3>1, <3>3 DEF C!OpenInserts
      <3> QED  BY <3>2, <3>3
    <2>9. CASE C!CloseRemoves(c)
      BY <2>9, ConnectionCloses
    <2>10. CASE C!SaveOrDeleteReplies(c) \/ C!ReorderReplies(c) \/ C!OpenReportsFailure(c)
      <3>1. (c.op # "open" \/ c.phase # "ok") /\ calls' = calls \ {c} /\ UNCHANGED <<made, work, rail, at>>
        BY <2>10 DEF C!SaveOrDeleteReplies, C!ReorderReplies, C!OpenReportsFailure, C!Ended,
                     C!core, C!page
      <3> QED  BY <1>2, <3>1, QuietEnds
    <2>11. CASE C!OpenReplies(c)
      BY <2>11, ConnectionOpened
    <2>12. CASE C!CloseReplies(c)
      BY <2>12, ConnectionClosed
    <2> QED  BY <1>6, <2>1, <2>2, <2>3, <2>4, <2>5, <2>7, <2>8, <2>9, <2>10, <2>11, <2>12
             DEF C!CoreStep, C!Reply
  <1> QED  BY <1>1, <1>3, <1>4, <1>6 DEF C!Next

----------------------------------------------------------------------------
(* Credentials. *)

(* Saves and deletes under way are ones that were under way before. *)
SavesGoOn(cs, ds) ==
    \A d \in ds : d.op \in {"save", "delete"} =>
        \E c \in cs : Same(c, d) /\ (Creates(d) => Creates(c))

(* A profile is known if it is in the list. *)
LEMMA KnownInRange ==
    ASSUME NEW s, NEW id
    PROVE  C!Known(s, id) <=> \E p \in C!Range(s) : p.id = id
  BY DEF C!Known, C!Range

(* A step that writes no profile and loses no password. *)
LEMMA CredentialFrame ==
    ASSUME CredentialInv, SavesGoOn(calls, calls'), asked \subseteq asked',
           keys \cup asked \subseteq keys' \cup asked',
           C!Range(store') \cup C!Range(file') \subseteq C!Range(store) \cup C!Range(file)
    PROVE  CredentialInv'
  <1>1. \A id : C!Known(store', id) \/ C!Known(file', id) => C!Known(store, id) \/ C!Known(file, id)
    BY KnownInRange
  <1>2. C!NoCredentialLost'
    BY DEF CredentialInv, C!NoCredentialLost
  <1>3. ASSUME NEW d \in calls'
        PROVE  /\ d.op = "delete" => d.id \in asked'
               /\ d.op = "save" =>
                    d.secret \in {"replace", IF d.new THEN "prompt-each-time" ELSE "keep-existing"}
               /\ Creates(d) => ~C!Known(store', d.id) /\ ~C!Known(file', d.id)
    <2>1. CASE d.op \notin {"save", "delete"}
      BY <2>1 DEF Creates
    <2>2. CASE d.op \in {"save", "delete"}
      <3>1. PICK c \in calls : Same(c, d) /\ (Creates(d) => Creates(c))
        BY <2>2 DEF SavesGoOn
      <3>2. /\ c.op = "delete" => c.id \in asked
            /\ c.op = "save" =>
                 c.secret \in {"replace", IF c.new THEN "prompt-each-time" ELSE "keep-existing"}
            /\ Creates(c) => ~C!Known(store, c.id) /\ ~C!Known(file, c.id)
        BY DEF CredentialInv
      <3>3. /\ d.op = c.op /\ d.id = c.id
            /\ c.op = "save" => d.new = c.new /\ d.secret = c.secret
        BY <2>2, <3>1 DEF Same
      <3>4. d.op = "delete" => d.id \in asked'
        BY <3>2, <3>3
      <3>5. d.op = "save" =>
               d.secret \in {"replace", IF d.new THEN "prompt-each-time" ELSE "keep-existing"}
        BY <3>2, <3>3
      <3>6. Creates(d) => ~C!Known(store', d.id) /\ ~C!Known(file', d.id)
        BY <1>1, <3>1, <3>2, <3>3
      <3> QED  BY <3>4, <3>5, <3>6
    <2> QED  BY <2>1, <2>2
  <1>4. ASSUME NEW d \in calls', NEW e \in calls', Creates(d), Creates(e), d.id = e.id
        PROVE  d.n = e.n
    <2>1. d.op = "save" /\ e.op = "save"
      BY <1>4 DEF Creates
    <2>2. PICK c \in calls : Same(c, d) /\ Creates(c)
      BY <1>4, <2>1 DEF SavesGoOn
    <2>3. PICK b \in calls : Same(b, e) /\ Creates(b)
      BY <1>4, <2>1 DEF SavesGoOn
    <2>4. c.id = d.id /\ b.id = e.id /\ c.n = d.n /\ b.n = e.n
      BY <2>1, <2>2, <2>3 DEF Same
    <2> QED  BY <1>4, <2>2, <2>3, <2>4 DEF CredentialInv
  <1> QED  BY <1>2, <1>3, <1>4 DEF CredentialInv

(* Calls that go on, end, or follow their page. *)
LEMMA SavesBecome ==
    ASSUME CallsOk, NEW c \in calls, NEW ph \in PhasesOf(c.op), C!Becomes(c, ph),
           Creates(c) \/ ph \notin {"sent", "checked"} \/ c.op # "save"
             \/ (c.phase \in {"sent", "checked"})
    PROVE  SavesGoOn(calls, calls')
  <1>1. PICK d : d = [c EXCEPT !.phase = ph]
    OBVIOUS
  <1>2. Same(c, d) /\ d.phase = ph /\ calls' = (calls \ {c}) \cup {d}
    BY <1>1, PhasedCall DEF CallsOk, C!Becomes, Carries
  <1>3. \A e : Same(e, e)
    BY DEF Same
  <1>4. Creates(d) => Creates(c)
    BY <1>2 DEF Creates, Same
  <1> QED  BY <1>2, <1>3, <1>4 DEF SavesGoOn

(* As said of SavesBecome. *)
LEMMA SavesFewer ==
    ASSUME NEW ds, \A d \in ds : d.op \in {"save", "delete"} => d \in calls
    PROVE  SavesGoOn(calls, ds)
  BY DEF SavesGoOn, Same

(* As said of SavesBecome. *)
LEMMA SavesFollow ==
    ASSUME NEW rest, rest \subseteq calls, Follow(rest, calls')
    PROVE  SavesGoOn(calls, calls')
  BY DEF Follow, SavesGoOn, Carries, Same, Creates

(* A new save or delete: a new profile has an id nobody has. *)
LEMMA CredentialCall ==
    ASSUME CredentialInv, NEW d, C!Call(d), UNCHANGED <<store, file, keys>>, asked \subseteq asked',
           d.op = "delete" => d.id \in asked',
           d.op = "save" => d.secret \in {"replace", IF d.new THEN "prompt-each-time" ELSE "keep-existing"},
           Creates(d) => /\ ~C!Known(store, d.id) /\ ~C!Known(file, d.id)
                         /\ \A c \in calls : c.op = "save" => c.id # d.id
    PROVE  CredentialInv'
  <1>1. calls' = calls \cup {d}
    BY DEF C!Call
  <1>2. C!NoCredentialLost'
    BY DEF CredentialInv, C!NoCredentialLost
  <1>3. \A c, e \in calls' : Creates(c) /\ Creates(e) /\ c.id = e.id => c.n = e.n
    BY <1>1 DEF CredentialInv, Creates
  <1>4. \A c \in calls' :
         /\ c.op = "delete" => c.id \in asked'
         /\ c.op = "save" => c.secret \in {"replace", IF c.new THEN "prompt-each-time" ELSE "keep-existing"}
         /\ Creates(c) => ~C!Known(store', c.id) /\ ~C!Known(file', c.id)
    BY <1>1 DEF CredentialInv
  <1> QED  BY <1>2, <1>3, <1>4 DEF CredentialInv

(* profile_save: the password first, then the profile. *)
LEMMA CredentialSaved ==
    ASSUME ShellType, CallsOk, CredentialInv, NEW c \in calls, C!SaveWrites(c)
    PROVE  CredentialInv'
  <1> DEFINE p == [id |-> c.id, ver |-> c.n, cred |-> C!HasCredential(c)]
  <1>0. c \in SaveCalls /\ c.op = "save" /\ c.phase = "checked"
    BY CallKinds DEF CallsOk, C!SaveWrites, C!MainIn
  <1>1. /\ c.new \/ C!Known(store, c.id)
        /\ c.secret \in {"replace", IF c.new THEN "prompt-each-time" ELSE "keep-existing"}
        /\ asked' = asked
    BY <1>0 DEF C!SaveWrites, CredentialInv
  <1>2. store \in Seq(Profile) /\ file \in Seq(Profile)
    BY DEF ShellType, ListType
  <1>3. p \in Profile
    BY SavedIsProfile
  <1>4. p.id = c.id /\ p.cred = C!HasCredential(c)
    OBVIOUS
  <1>5. store' = C!Upsert(p) /\ file' \in {file, C!Upsert(p)}
    BY DEF C!SaveWrites, C!Persist
  <1> HIDE DEF p
  <1>6. \A q \in C!Range(C!Upsert(p)) : q = p \/ (q \in C!Range(store) /\ q.id # p.id)
    <2>1. CASE C!Known(store, p.id)
      <3>1. C!Upsert(p) = [i \in DOMAIN store |-> IF store[i].id = p.id THEN p ELSE store[i]]
        BY <2>1 DEF C!Upsert
      <3> QED  BY <3>1 DEF C!Range
    <2>2. CASE ~C!Known(store, p.id)
      <3>1. C!Upsert(p) = Append(store, p)
        BY <2>2 DEF C!Upsert
      <3>2. /\ DOMAIN C!Upsert(p) = 1 .. Len(store) + 1 /\ C!Upsert(p)[Len(store) + 1] = p
            /\ \A i \in 1 .. Len(store) : C!Upsert(p)[i] = store[i]
            /\ DOMAIN store = 1 .. Len(store) /\ Len(store) \in Nat
        BY <1>2, <3>1
      <3>3. \A i \in DOMAIN store : store[i].id # p.id
        BY <2>2 DEF C!Known
      <3> QED  BY <3>2, <3>3 DEF C!Range
    <2> QED  BY <2>1, <2>2
  <1>7. \A id : C!Known(C!Upsert(p), id) => C!Known(store, id) \/ id = c.id
    BY <1>4, <1>6, KnownInRange
  <1>8. C!NoCredentialLost'
    <2>1. p.cred => p.id \in keys' \cup asked
      <3>1. CASE c.secret = "replace"
        BY <1>4, <3>1 DEF C!SaveWrites
      <3>2. CASE c.secret = "keep-existing"
        <4>1. C!Known(store, c.id)
          BY <1>1, <3>2
        <4>2. C!Of(store, c.id) \in C!Range(store) /\ C!Of(store, c.id).id = c.id
          BY <1>2, <4>1, OfIsProfile
        <4>3. keys' = keys
          BY <3>2 DEF C!SaveWrites
        <4>4. p.cred = C!Of(store, c.id).cred
          BY <1>4, <3>2 DEF C!HasCredential
        <4> QED  BY <1>4, <4>2, <4>3, <4>4 DEF CredentialInv, C!NoCredentialLost
      <3>3. CASE c.secret = "prompt-each-time"
        BY <1>4, <3>3 DEF C!HasCredential
      <3> QED  BY <1>0, <3>1, <3>2, <3>3 DEF SaveCalls
    <2>2. ASSUME NEW q \in C!Range(store) \cup C!Range(file), q.cred, q.id # c.id \/ q \in C!Range(file)
          PROVE  q.id \in keys' \cup asked
      <3>1. q.id \in keys \cup asked
        BY <2>2 DEF CredentialInv, C!NoCredentialLost
      <3>2. CASE c.secret = "prompt-each-time"
        <4>1. Creates(c)
          BY <1>0, <1>1, <3>2 DEF Creates
        <4>2. ~C!Known(file, c.id)
          BY <4>1 DEF CredentialInv
        <4>3. q.id # c.id
          BY <2>2, <4>2, KnownInRange
        <4>4. keys' = keys \ {c.id}
          BY <3>2 DEF C!SaveWrites
        <4> QED  BY <3>1, <4>3, <4>4
      <3>3. CASE c.secret # "prompt-each-time"
        <4>1. keys \subseteq keys'
          BY <1>0, <3>3 DEF C!SaveWrites, SaveCalls
        <4> QED  BY <3>1, <4>1
      <3> QED  BY <3>2, <3>3
    <2>3. ASSUME NEW q \in C!Range(store') \cup C!Range(file'), q.cred
          PROVE  q.id \in keys' \cup asked
      <3>1. q = p \/ (q \in C!Range(store) /\ q.id # c.id) \/ q \in C!Range(file)
        BY <1>4, <1>5, <1>6, <2>3
      <3> QED  BY <2>1, <2>2, <2>3, <3>1
    <2> QED  BY <1>1, <2>3 DEF C!NoCredentialLost
  <1>9. PICK ph \in {"ok", "failed"} : C!Becomes(c, ph)
    BY DEF C!SaveWrites, C!Persist
  <1>10. PICK d : d = [c EXCEPT !.phase = ph]
    OBVIOUS
  <1>11. Same(c, d) /\ d.phase = ph /\ calls' = (calls \ {c}) \cup {d}
    <2>1. ph \in PhasesOf(c.op)
      BY <1>0, <1>9 DEF PhasesOf
    <2> QED  BY <2>1, <1>9, <1>10, PhasedCall DEF CallsOk, C!Becomes, Carries
  <1>12. ~Creates(d)
    BY <1>9, <1>11 DEF Creates
  <1>13. d.op = "save" /\ d.new = c.new /\ d.secret = c.secret
    BY <1>0, <1>11 DEF Same
  <1>14. \A e \in calls' : Creates(e) => e \in calls /\ e # c
    BY <1>11, <1>12
  <1>15. \A e \in calls' : Creates(e) => e.id # c.id
    <2> SUFFICES ASSUME NEW e \in calls', Creates(e), e.id = c.id
                 PROVE  FALSE
      OBVIOUS
    <2>1. e \in calls /\ e # c
      BY <1>14
    <2>2. e.n # c.n
      BY <2>1 DEF CallsOk, Numbered
    <2>3. CASE c.new
      <3>1. Creates(c)
        BY <1>0, <2>3 DEF Creates
      <3> QED  BY <2>1, <2>2, <3>1 DEF CredentialInv
    <2>4. CASE ~c.new
      BY <1>1, <2>1, <2>4 DEF CredentialInv
    <2> QED  BY <2>3, <2>4
  <1>16. \A e \in calls' : Creates(e) => ~C!Known(store', e.id) /\ ~C!Known(file', e.id)
    <2>1. \A e \in calls' : Creates(e) => ~C!Known(store, e.id) /\ ~C!Known(file, e.id)
      BY <1>14 DEF CredentialInv
    <2> QED  BY <1>5, <1>7, <1>15, <2>1
  <1>17. \A e \in calls' :
           /\ e.op = "delete" => e.id \in asked'
           /\ e.op = "save" =>
                e.secret \in {"replace", IF e.new THEN "prompt-each-time" ELSE "keep-existing"}
    <2>1. d.secret \in {"replace", IF d.new THEN "prompt-each-time" ELSE "keep-existing"}
      BY <1>1, <1>13
    <2> QED  BY <1>1, <1>11, <1>13, <2>1 DEF CredentialInv
  <1>18. \A e, f \in calls' : Creates(e) /\ Creates(f) /\ e.id = f.id => e.n = f.n
    BY <1>14 DEF CredentialInv
  <1> QED  BY <1>8, <1>16, <1>17, <1>18 DEF CredentialInv

(* What the user does loses no password. *)
LEMMA CredentialUser ==
    ASSUME ShellType, CallsOk, CredentialInv, C!UserStep
    PROVE  CredentialInv'
  <1>1. ASSUME SavesGoOn(calls, calls'), UNCHANGED <<store, file, keys, asked>>
        PROVE  CredentialInv'
    BY <1>1, CredentialFrame
  <1>2. ASSUME NEW to, C!Go(to, calls), UNCHANGED <<C!core, made, asked>>
        PROVE  CredentialInv'
    <2>1. Follow(calls, calls')
      BY <1>2, GoOk
    <2> QED  BY <1>1, <1>2, <2>1, SavesFollow DEF C!core
  <1>3. ASSUME UNCHANGED <<calls, C!core, asked>>
        PROVE  CredentialInv'
    BY <1>1, <1>3, SavesFewer DEF C!core
  <1>4. ASSUME NEW d, C!Call(d), d.op \notin {"save", "delete"}, UNCHANGED <<C!core, asked>>
        PROVE  CredentialInv'
    <2>1. ~Creates(d)
      BY <1>4 DEF Creates
    <2> QED  BY <1>4, <2>1, CredentialCall DEF C!core
  <1>5. CASE C!GoHome \/ C!GoSettings \/ C!Back
    BY <1>2, <1>5 DEF C!GoHome, C!GoSettings, C!Back
  <1>6. ASSUME NEW step \in {-1, 1}, C!CycleConnection(step)
        PROVE  CredentialInv'
    <2>1. PICK i \in DOMAIN rail : C!Go(rail[i].conn, calls)
      BY <1>6 DEF C!CycleConnection
    <2>2. UNCHANGED <<C!core, made, asked>>
      BY <1>6 DEF C!CycleConnection
    <2> QED  BY <1>2, <2>1, <2>2
  <1>7. CASE C!CancelEdit \/ (\E p \in C!Range(list) : C!EditProfile(p))
    BY <1>3, <1>7 DEF C!CancelEdit, C!EditProfile
  <1>8. CASE C!Disconnect
    <2>1. PICK d : d = [op |-> "close", n |-> made + 1, mine |-> TRUE, phase |-> "sent", conn |-> at]
      OBVIOUS
    <2>2. C!Call(d) /\ d.op = "close" /\ UNCHANGED <<C!core, asked>>
      BY <1>8, <2>1 DEF C!Disconnect
    <2> QED  BY <1>4, <2>2
  <1>9. ASSUME NEW p \in C!Range(list), C!Connect(p)
        PROVE  CredentialInv'
    <2>1. PICK d : d = [op |-> "open", n |-> made + 1, mine |-> TRUE, phase |-> "sent", id |-> p.id,
                        given |-> C!AsksPassword(p), profile |-> p, read |-> None, conn |-> None]
      OBVIOUS
    <2>2. C!Call(d) /\ d.op = "open" /\ UNCHANGED <<C!core, asked>>
      BY <1>9, <2>1 DEF C!Connect
    <2> QED  BY <1>4, <2>2
  <1>10. ASSUME NEW p \in C!Range(list), C!RemoveProfile(p)
         PROVE  CredentialInv'
    <2>1. PICK d : d = [op |-> "delete", n |-> made + 1, mine |-> TRUE, phase |-> "sent", id |-> p.id]
      OBVIOUS
    <2>2. C!Call(d) /\ d.op = "delete" /\ d.id = p.id /\ UNCHANGED <<store, file, keys>>
      BY <1>10, <2>1 DEF C!RemoveProfile, C!core
    <2>3. asked' = asked \cup {p.id} /\ ~Creates(d)
      BY <1>10, <2>2 DEF C!RemoveProfile, Creates
    <2> QED  BY <2>2, <2>3, CredentialCall
  <1>11. ASSUME NEW password \in BOOLEAN, C!Submit(password)
         PROVE  CredentialInv'
    <2>1. PICK id \in IF editing = None THEN C!Fresh ELSE {editing.id} :
             C!Call([op |-> "save", n |-> made + 1, mine |-> TRUE, phase |-> "sent",
                     id |-> id, new |-> editing = None, secret |-> C!SecretMode(password)])
      BY <1>11 DEF C!Submit
    <2>2. PICK d : d = [op |-> "save", n |-> made + 1, mine |-> TRUE, phase |-> "sent",
                        id |-> id, new |-> editing = None, secret |-> C!SecretMode(password)]
      OBVIOUS
    <2>3. /\ C!Call(d) /\ d.op = "save" /\ d.id = id /\ d.new = (editing = None)
          /\ d.secret = C!SecretMode(password)
      BY <2>1, <2>2
    <2>4. UNCHANGED <<store, file, keys, asked>>
      BY <1>11 DEF C!Submit, C!core
    <2>5. d.secret \in {"replace", IF d.new THEN "prompt-each-time" ELSE "keep-existing"}
      BY <2>3 DEF C!SecretMode
    <2>6. ASSUME Creates(d)
          PROVE  /\ ~C!Known(store, id) /\ ~C!Known(file, id)
                 /\ \A c \in calls : c.op = "save" => c.id # id
      <3>1. id \in C!Fresh
        BY <2>1, <2>3, <2>6 DEF Creates
      <3>2. /\ id \notin C!Range(C!Ids(store)) /\ id \notin C!Range(C!Ids(file))
            /\ \A c \in calls : c.op = "save" => c.id # id
        BY <3>1 DEF C!Fresh
      <3>3. store \in Seq(Profile) /\ file \in Seq(Profile)
        BY DEF ShellType, ListType
      <3> QED  BY <3>2, <3>3, IdsAreIds DEF C!Known, C!Range
    <2> QED  BY <2>3, <2>4, <2>5, <2>6, CredentialCall
  <1>12. ASSUME NEW from \in DOMAIN list, NEW to \in DOMAIN list, C!MoveProfile(from, to)
         PROVE  CredentialInv'
    <2>1. PICK o : o = C!InsertAt(C!RemoveAt(list, from), to, list[from])
      OBVIOUS
    <2>2. PICK d : d = [op |-> "reorder", n |-> made + 1, mine |-> TRUE, phase |-> "sent",
                        ids |-> C!Ids(o), list |-> list]
      OBVIOUS
    <2>3. C!Call(d) /\ d.op = "reorder"
      BY <1>12, <2>1, <2>2 DEF C!MoveProfile
    <2>4. UNCHANGED <<C!core, asked>>
      BY <1>12 DEF C!MoveProfile
    <2> QED  BY <1>4, <2>3, <2>4
  <1> QED  BY <1>5, <1>6, <1>7, <1>8, <1>9, <1>10, <1>11, <1>12
           DEF C!UserStep, C!KeyMoves, C!DropMoves

(* Every step keeps the passwords that profiles count on. *)
LEMMA CredentialStep ==
    ASSUME ShellType, CallsOk, CredentialInv, C!Next
    PROVE  CredentialInv'
  <1>0. store \in Seq(Profile) /\ file \in Seq(Profile)
    BY DEF ShellType, ListType
  <1>1. CASE C!UserStep
    BY <1>1, CredentialUser
  <1>2. ASSUME SavesGoOn(calls, calls'), UNCHANGED <<store, file, keys, asked>>
        PROVE  CredentialInv'
    BY <1>2, CredentialFrame
  <1>3. CASE C!ListReads \/ C!ListArrives
    <2>1. UNCHANGED <<calls, store, file, keys, asked>>
      BY <1>3 DEF C!ListReads, C!ListArrives, C!core
    <2> QED  BY <1>2, <2>1, SavesFewer
  <1>4. CASE C!Restart
    <2>1. calls' = {} /\ store' = file /\ UNCHANGED <<file, keys, asked>>
      BY <1>4 DEF C!Restart
    <2>2. SavesGoOn(calls, calls')
      BY <2>1 DEF SavesGoOn
    <2> QED  BY <2>1, <2>2, CredentialFrame
  <1>5. ASSUME NEW c \in calls, C!CoreStep(c) \/ C!Reply(c)
        PROVE  CredentialInv'
    <2>0. c \in Calls
      BY DEF CallsOk
    <2>1. ASSUME NEW ph \in PhasesOf(c.op), C!Becomes(c, ph),
                 ph \notin {"sent", "checked"} \/ c.phase \in {"sent", "checked"}
          PROVE  SavesGoOn(calls, calls')
      BY <2>1, SavesBecome
    <2>2. CASE C!SaveChecks(c) \/ C!SaveFails(c) \/ C!DeleteChecks(c)
      <3>1. {"checked", "failed"} \subseteq PhasesOf(c.op) /\ c.phase \in {"sent", "checked"}
        BY <2>2 DEF C!SaveChecks, C!SaveFails, C!DeleteChecks, C!MainTakes, C!MainIn, PhasesOf
      <3>2. \E ph \in {"checked", "failed"} : C!Becomes(c, ph)
        BY <2>2 DEF C!SaveChecks, C!SaveFails, C!DeleteChecks
      <3>3. UNCHANGED <<store, file, keys, asked>>
        BY <2>2 DEF C!SaveChecks, C!SaveFails, C!DeleteChecks, C!core
      <3> QED  BY <1>2, <2>1, <3>1, <3>2, <3>3
    <2>3. CASE C!SaveWrites(c)
      BY <2>3, CredentialSaved
    <2>4. CASE C!DeletePassword(c)
      <3>1. /\ c.op = "delete" /\ {"keyless", "failed"} \subseteq PhasesOf(c.op)
            /\ UNCHANGED <<store, file, asked>>
        BY <2>4 DEF C!DeletePassword, C!MainIn, PhasesOf
      <3>2. \E ph \in {"keyless", "failed"} : C!Becomes(c, ph)
        BY <2>4 DEF C!DeletePassword
      <3>3. c.id \in asked /\ keys \ {c.id} \subseteq keys'
        BY <2>4, <3>1 DEF C!DeletePassword, CredentialInv
      <3> QED  BY <2>1, <3>1, <3>2, <3>3, CredentialFrame
    <2>5. CASE C!DeleteRemoves(c)
      <3>1. {"ok", "failed"} \subseteq PhasesOf(c.op) /\ UNCHANGED <<keys, asked>>
        BY <2>5 DEF C!DeleteRemoves, C!MainIn, PhasesOf
      <3>2. \E ph \in {"ok", "failed"} : C!Becomes(c, ph)
        BY <2>5 DEF C!DeleteRemoves, C!Persist
      <3>3. store' = C!Without(store, c.id) /\ file' \in {file, C!Without(store, c.id)}
        BY <2>5 DEF C!DeleteRemoves, C!Persist
      <3>4. C!Range(C!Without(store, c.id)) \subseteq C!Range(store)
        BY <1>0, WithoutIsList DEF C!Range
      <3> QED  BY <2>1, <3>1, <3>2, <3>3, <3>4, CredentialFrame
    <2>6. CASE C!Reorders(c)
      <3>1. /\ "ok" \in PhasesOf(c.op) /\ UNCHANGED <<keys, asked>> /\ C!Becomes(c, "ok")
            /\ file' = store' /\ store' = [i \in DOMAIN c.ids |-> C!Of(store, c.ids[i])]
            /\ C!Range(c.ids) = C!Range(C!Ids(store))
        BY <2>6 DEF C!Reorders, C!MainTakes, PhasesOf
      <3>2. PICK ids : ids = c.ids
        OBVIOUS
      <3>3. \A i \in DOMAIN ids : C!Of(store, ids[i]) \in C!Range(store)
        <4>1. SUFFICES ASSUME NEW i \in DOMAIN ids
                       PROVE  C!Of(store, ids[i]) \in C!Range(store)
          OBVIOUS
        <4>2. ids[i] \in C!Range(C!Ids(store))
          <5>1. ids[i] \in C!Range(ids)
            BY DEF C!Range
          <5> QED  BY <3>1, <3>2, <5>1
        <4>3. C!Known(store, ids[i])
          BY <1>0, <4>2, IdsAreIds DEF C!Known, C!Range
        <4> QED  BY <1>0, <4>3, OfIsProfile
      <3>4. C!Range(store') \subseteq C!Range(store)
        <4>1. store' = [i \in DOMAIN ids |-> C!Of(store, ids[i])]
          BY <3>1, <3>2
        <4>2. \A q \in C!Range(store') : \E i \in DOMAIN ids : q = C!Of(store, ids[i])
          BY <4>1 DEF C!Range
        <4> QED  BY <3>3, <4>2
      <3>5. SavesGoOn(calls, calls')
        BY <2>1, <3>1
      <3> QED  BY <3>1, <3>4, <3>5, CredentialFrame
    <2>7. CASE C!ReorderFails(c) \/ C!OpenRefused(c) \/ C!OpenFails(c)
      <3>1. "failed" \in PhasesOf(c.op) /\ C!Becomes(c, "failed")
        BY <2>7 DEF C!ReorderFails, C!OpenRefused, C!OpenFails, C!MainTakes, PhasesOf
      <3>2. UNCHANGED <<store, file, keys, asked>>
        BY <2>7 DEF C!ReorderFails, C!OpenRefused, C!OpenFails, C!core
      <3> QED  BY <1>2, <2>1, <3>1, <3>2
    <2>8. ASSUME NEW d, calls' = (calls \ {c}) \cup {d}, d.op = "open",
                 UNCHANGED <<store, file, keys, asked>>
          PROVE  CredentialInv'
      <3>1. SavesGoOn(calls, calls')
        BY <2>8, SavesFewer
      <3> QED  BY <1>2, <2>8, <3>1
    <2>9. CASE C!OpenReads(c)
      <3>1. C!Of(store, c.id) \in Profile
        BY <1>0, <2>9, OfIsProfile DEF C!OpenReads
      <3>2. PICK d : d = [c EXCEPT !.phase = "read", !.read = C!Of(store, c.id)]
        OBVIOUS
      <3>3. d.op = "open"
        BY <2>0, <2>9, <3>1, <3>2, ReadCall DEF C!OpenReads, Same
      <3>4. calls' = (calls \ {c}) \cup {d} /\ UNCHANGED <<store, file, keys, asked>>
        BY <2>9, <3>2 DEF C!OpenReads, C!core
      <3> QED  BY <2>8, <3>3, <3>4
    <2>10. ASSUME NEW k \in Nat, c.op = "open", C!Answered(c, k),
                  UNCHANGED <<store, file, keys, asked>>
           PROVE  CredentialInv'
      <3>1. PICK d : d = [c EXCEPT !.phase = "ok", !.conn = k]
        OBVIOUS
      <3>2. d.op = "open"
        BY <2>0, <2>10, <3>1, AnsweredCall DEF Same
      <3>3. calls' = (calls \ {c}) \cup {d}
        BY <2>10, <3>1 DEF C!Answered
      <3> QED  BY <2>8, <2>10, <3>2, <3>3
    <2>11. DOMAIN work \subseteq Nat /\ c.n \in Nat
      BY <2>0, CallKinds DEF ShellType, RailType
    <2>12. CASE C!OpenFinds(c)
      <3>1. "connecting" \in PhasesOf(c.op) /\ c.op = "open" /\ UNCHANGED <<store, file, keys, asked>>
        BY <2>12 DEF C!OpenFinds, PhasesOf, C!core
      <3>2. C!Becomes(c, "connecting") \/ \E d \in DOMAIN work : C!Answered(c, d)
        BY <2>12 DEF C!OpenFinds
      <3> QED  BY <1>2, <2>1, <2>10, <2>11, <3>1, <3>2
    <2>13. CASE C!OpenInserts(c)
      <3>1. c.op = "open" /\ UNCHANGED <<store, file, keys, asked>>
        BY <2>13 DEF C!OpenInserts
      <3>2. C!Answered(c, c.n) \/ \E d \in DOMAIN work : C!Answered(c, d)
        BY <2>13 DEF C!OpenInserts
      <3> QED  BY <2>10, <2>11, <3>1, <3>2
    <2>14. CASE C!CloseRemoves(c)
      <3>1. "ok" \in PhasesOf(c.op) /\ C!Becomes(c, "ok") /\ UNCHANGED <<store, file, keys, asked>>
        BY <2>14 DEF C!CloseRemoves, PhasesOf
      <3> QED  BY <1>2, <2>1, <3>1
    <2>15. CASE C!SaveOrDeleteReplies(c) \/ C!ReorderReplies(c) \/ C!OpenReportsFailure(c)
      <3>1. calls' = calls \ {c} /\ UNCHANGED <<store, file, keys, asked>>
        BY <2>15 DEF C!SaveOrDeleteReplies, C!ReorderReplies, C!OpenReportsFailure, C!Ended, C!core
      <3> QED  BY <1>2, <3>1, SavesFewer
    <2>16. CASE C!OpenReplies(c) \/ C!CloseReplies(c)
      <3>1. PICK to : C!Go(to, calls \ {c})
        BY <2>16 DEF C!OpenReplies, C!CloseReplies
      <3>2. made' = made /\ UNCHANGED <<store, file, keys, asked>>
        BY <2>16 DEF C!OpenReplies, C!CloseReplies, C!core
      <3>3. Follow(calls \ {c}, calls')
        BY <3>1, <3>2, GoOk
      <3> QED  BY <1>2, <3>2, <3>3, SavesFollow
    <2> QED  BY <1>5, <2>2, <2>3, <2>4, <2>5, <2>6, <2>7, <2>9, <2>12, <2>13, <2>14, <2>15, <2>16
             DEF C!CoreStep, C!Reply
  <1> QED  BY <1>1, <1>3, <1>4, <1>5 DEF C!Next

----------------------------------------------------------------------------
(* The list of the home page. *)

(* A call that will settle the list is still under way. *)
Awaits(cs, ds) == (\E c \in cs : Unsettled(c)) => \E d \in ds : Unsettled(d)

(* A step that leaves the store and the list alone. *)
LEMMA ListFrame ==
    ASSUME ListInv, UNCHANGED <<store, list, fetch, at, loose>>, Awaits(calls, calls')
    PROVE  ListInv'
  <1>1. (\A c \in calls' : ~Unsettled(c)) => \A c \in calls : ~Unsettled(c)
    BY DEF Awaits
  <1> QED  BY <1>1 DEF ListInv

(* Between a request and its answer. *)
LEMMA FetchSteps ==
    /\ C!NoFetch.step = "none" /\ C!Asked.step = "asked"
    /\ \A l : C!Answer(l).step = "answer" /\ C!Answer(l).list = l
  BY DEF C!NoFetch, C!Asked, C!Answer

(* A call that goes on. *)
LEMMA AwaitsBecomes ==
    ASSUME CallsOk, NEW c \in calls, NEW ph \in PhasesOf(c.op), C!Becomes(c, ph),
           c.op = "reorder" \/ ~Unsettled(c)
    PROVE  /\ Awaits(calls, calls')
           /\ c.op = "reorder" \/ (c.op \in {"save", "delete"} /\ ph = "ok") =>
                \E d \in calls' : Unsettled(d)
  <1>1. PICK d : d = [c EXCEPT !.phase = ph]
    OBVIOUS
  <1>2. Same(c, d) /\ d.phase = ph /\ calls' = (calls \ {c}) \cup {d}
    BY <1>1, PhasedCall DEF CallsOk, C!Becomes, Carries
  <1>3. d.op = c.op
    BY <1>2 DEF Same
  <1> QED  BY <1>2, <1>3 DEF Awaits, Unsettled

(* As said of AwaitsBecomes: one call ends or goes on that settles nothing. *)
LEMMA AwaitsEnds ==
    ASSUME NEW c \in calls, ~Unsettled(c), calls \ {c} \subseteq calls'
    PROVE  Awaits(calls, calls')
  BY DEF Awaits

(* Another page comes on the screen. *)
LEMMA ListGo ==
    ASSUME ListInv, NEW rest, rest \subseteq calls, Awaits(calls, rest), NEW to, C!Go(to, rest),
           store' = store
    PROVE  ListInv'
  <1>1. at' = to
    BY DEF C!Go
  <1>2. CASE /\ at = C!Home /\ to # C!Home
             /\ loose' = (loose \/ rest # {} \/ fetch # C!NoFetch) /\ fetch' = fetch
    BY <1>1, <1>2 DEF ListInv
  <1>3. CASE /\ at # C!Home /\ to = C!Home
             /\ fetch' = (IF fetch = C!NoFetch THEN C!Asked ELSE fetch)
             /\ loose' = (loose /\ fetch # C!NoFetch)
    <2>1. CASE fetch = C!NoFetch
      <3>1. fetch' = C!Asked
        BY <1>3, <2>1
      <3>2. fetch' # C!NoFetch /\ fetch'.step # "answer"
        BY <3>1, FetchSteps
      <3> QED  BY <1>1, <1>3, <3>2 DEF ListInv
    <2>2. CASE fetch # C!NoFetch
      <3>1. loose
        BY <1>3, <2>2 DEF ListInv
      <3> QED  BY <1>1, <1>3, <2>2, <3>1 DEF ListInv
    <2> QED  BY <2>1, <2>2
  <1>4. CASE /\ (at = C!Home) = (to = C!Home) /\ calls' = rest
             /\ list' = list /\ fetch' = fetch /\ loose' = loose
    <2>1. Awaits(calls, calls')
      BY <1>4
    <2>2. (\A c \in calls' : ~Unsettled(c)) => \A c \in calls : ~Unsettled(c)
      BY <2>1 DEF Awaits
    <2>3. (at' = C!Home) = (at = C!Home)
      BY <1>1, <1>4
    <2> QED  BY <1>4, <2>2, <2>3 DEF ListInv
  <1> QED  BY <1>2, <1>3, <1>4 DEF C!Go

(* What the user does keeps the list true. *)
LEMMA ListUser ==
    ASSUME ListInv, C!UserStep
    PROVE  ListInv'
  <1>1. ASSUME calls \subseteq calls', UNCHANGED <<store, list, fetch, at, loose>>
        PROVE  ListInv'
    <2>1. Awaits(calls, calls')
      BY <1>1 DEF Awaits
    <2> QED  BY <1>1, <2>1, ListFrame
  <1>2. ASSUME NEW to, C!Go(to, calls), UNCHANGED C!core
        PROVE  ListInv'
    <2>1. Awaits(calls, calls)
      BY DEF Awaits
    <2> QED  BY <1>2, <2>1, ListGo DEF C!core
  <1>3. ASSUME NEW d, C!Call(d), UNCHANGED <<C!core, C!page, loose>>
        PROVE  ListInv'
    BY <1>1, <1>3 DEF C!Call, C!core, C!page
  <1>4. CASE C!GoHome \/ C!GoSettings \/ C!Back
    BY <1>2, <1>4 DEF C!GoHome, C!GoSettings, C!Back
  <1>5. ASSUME NEW step \in {-1, 1}, C!CycleConnection(step)
        PROVE  ListInv'
    <2>1. PICK i \in DOMAIN rail : C!Go(rail[i].conn, calls)
      BY <1>5 DEF C!CycleConnection
    <2>2. UNCHANGED C!core
      BY <1>5 DEF C!CycleConnection
    <2> QED  BY <1>2, <2>1, <2>2
  <1>6. CASE C!CancelEdit \/ (\E p \in C!Range(list) : C!EditProfile(p))
    BY <1>1, <1>6 DEF C!CancelEdit, C!EditProfile, C!core
  <1>7. CASE C!Disconnect \/ (\E p \in C!Range(list) : C!Connect(p) \/ C!RemoveProfile(p))
    BY <1>3, <1>7 DEF C!Disconnect, C!Connect, C!RemoveProfile
  <1>8. ASSUME NEW password \in BOOLEAN, C!Submit(password)
        PROVE  ListInv'
    BY <1>3, <1>8 DEF C!Submit
  <1>9. ASSUME NEW from \in DOMAIN list, NEW to \in DOMAIN list, C!MoveProfile(from, to)
        PROVE  ListInv'
    <2>1. PICK o : o = C!InsertAt(C!RemoveAt(list, from), to, list[from])
      OBVIOUS
    <2>2. PICK d : d = [op |-> "reorder", n |-> made + 1, mine |-> TRUE, phase |-> "sent",
                        ids |-> C!Ids(o), list |-> list]
      OBVIOUS
    <2>3. C!Call(d) /\ d.op = "reorder" /\ at = C!Home /\ at' = at
      BY <1>9, <2>1, <2>2 DEF C!MoveProfile
    <2>4. \E c \in calls' : Unsettled(c)
      BY <2>3 DEF C!Call, Unsettled
    <2> QED  BY <2>3, <2>4 DEF ListInv
  <1> QED  BY <1>4, <1>5, <1>6, <1>7, <1>8, <1>9
           DEF C!UserStep, C!KeyMoves, C!DropMoves

(* Every step keeps the list true. *)
LEMMA ListStep ==
    ASSUME CallsOk, ListInv, C!Next
    PROVE  ListInv'
  <1>1. CASE C!UserStep
    BY <1>1, ListUser
  <1>2. CASE C!ListReads
    <2>1. fetch = C!Asked /\ fetch' = C!Answer(store) /\ UNCHANGED <<store, list, at, loose>>
      BY <1>2 DEF C!ListReads, C!core
    <2>2. fetch # C!NoFetch /\ fetch' # C!NoFetch /\ fetch'.list = store
      BY <2>1, FetchSteps
    <2> QED  BY <2>1, <2>2 DEF ListInv
  <1>3. CASE C!ListArrives
    <2>1. /\ fetch.step = "answer" /\ fetch' = C!NoFetch /\ list' = fetch.list
          /\ UNCHANGED <<calls, store, at, loose>>
      BY <1>3 DEF C!ListArrives, C!SetList, C!core
    <2>2. fetch'.step = "none"
      BY <2>1, FetchSteps
    <2> QED  BY <2>1, <2>2 DEF ListInv
  <1>4. ASSUME fetch' = C!Asked, at' = C!Home
        PROVE  ListInv'
    <2>1. fetch' # C!NoFetch /\ fetch'.step # "answer"
      BY <1>4, FetchSteps
    <2> QED  BY <1>4, <2>1 DEF ListInv
  <1>5. CASE C!Restart
    BY <1>4, <1>5 DEF C!Restart
  <1>6. ASSUME C!Invalidate, at' = at
        PROVE  ListInv'
    <2>1. CASE at = C!Home
      BY <1>4, <1>6, <2>1 DEF C!Invalidate
    <2>2. CASE at # C!Home
      BY <1>6, <2>2 DEF C!Invalidate, ListInv
    <2> QED  BY <2>1, <2>2
  <1>7. ASSUME NEW c \in calls, C!CoreStep(c) \/ C!Reply(c)
        PROVE  ListInv'
    <2>0. c \in Calls
      BY DEF CallsOk
    <2>1. ASSUME NEW ph \in PhasesOf(c.op), C!Becomes(c, ph), c.op = "reorder" \/ ~Unsettled(c),
                 UNCHANGED <<store, list, fetch, at, loose>>
          PROVE  ListInv'
      BY <2>1, AwaitsBecomes, ListFrame
    <2>2. ASSUME \E d \in calls' : Unsettled(d), UNCHANGED <<fetch, at, loose>>
          PROVE  ListInv'
      BY <2>2 DEF ListInv
    <2>3. ASSUME loose', at' = at
          PROVE  ListInv'
      BY <2>3 DEF ListInv
    <2>4. ASSUME c.op \in {"save", "delete"}, c.phase # "ok", NEW profiles, C!Persist(c, profiles),
                 UNCHANGED C!page
          PROVE  ListInv'
      <3>1. {"ok", "failed"} \subseteq PhasesOf(c.op) /\ ~Unsettled(c) /\ UNCHANGED <<fetch, at>>
        BY <2>4 DEF PhasesOf, Unsettled, C!page
      <3>2. CASE C!Becomes(c, "ok") /\ loose' = loose
        <4>1. \E d \in calls' : Unsettled(d)
          BY <2>4, <3>1, <3>2, AwaitsBecomes
        <4> QED  BY <2>2, <3>1, <3>2, <4>1
      <3>3. CASE loose' = TRUE
        BY <2>3, <3>1, <3>3
      <3> QED  BY <2>4, <3>2, <3>3 DEF C!Persist
    <2>5. CASE C!SaveWrites(c) \/ C!DeleteRemoves(c)
      <3>1. c.op \in {"save", "delete"} /\ c.phase # "ok" /\ UNCHANGED C!page
        BY <2>5 DEF C!SaveWrites, C!DeleteRemoves, C!MainIn
      <3>2. \E profiles : C!Persist(c, profiles)
        BY <2>5 DEF C!SaveWrites, C!DeleteRemoves
      <3> QED  BY <2>4, <3>1, <3>2
    <2>6. CASE C!SaveChecks(c) \/ C!SaveFails(c) \/ C!DeleteChecks(c)
      <3>1. {"checked", "failed"} \subseteq PhasesOf(c.op) /\ ~Unsettled(c)
        BY <2>6 DEF C!SaveChecks, C!SaveFails, C!DeleteChecks, C!MainTakes, C!MainIn, PhasesOf, Unsettled
      <3>2. \E ph \in {"checked", "failed"} : C!Becomes(c, ph)
        BY <2>6 DEF C!SaveChecks, C!SaveFails, C!DeleteChecks
      <3>3. UNCHANGED <<store, list, fetch, at, loose>>
        BY <2>6 DEF C!SaveChecks, C!SaveFails, C!DeleteChecks, C!core, C!page
      <3> QED  BY <2>1, <3>1, <3>2, <3>3
    <2>7. CASE C!DeletePassword(c)
      <3>1. {"keyless", "failed"} \subseteq PhasesOf(c.op) /\ ~Unsettled(c)
        BY <2>7 DEF C!DeletePassword, C!MainIn, PhasesOf, Unsettled
      <3>2. /\ \E ph \in {"keyless", "failed"} : C!Becomes(c, ph)
            /\ UNCHANGED <<store, list, fetch, at, loose>>
        BY <2>7 DEF C!DeletePassword, C!page
      <3> QED  BY <2>1, <3>1, <3>2
    <2>8. CASE C!Reorders(c) \/ C!ReorderFails(c)
      <3>1. {"ok", "failed"} \subseteq PhasesOf(c.op) /\ c.op = "reorder"
        BY <2>8 DEF C!Reorders, C!ReorderFails, C!MainTakes, PhasesOf
      <3>2. /\ \E ph \in {"ok", "failed"} : C!Becomes(c, ph)
            /\ UNCHANGED <<fetch, at, loose>>
        BY <2>8 DEF C!Reorders, C!ReorderFails, C!page
      <3>3. \E d \in calls' : Unsettled(d)
        BY <3>1, <3>2, AwaitsBecomes
      <3> QED  BY <2>2, <3>2, <3>3
    <2>9. ASSUME c.op \in {"open", "close"}, calls \ {c} \subseteq calls',
                 UNCHANGED <<store, list, fetch, at, loose>>
          PROVE  ListInv'
      <3>1. ~Unsettled(c)
        BY <2>9 DEF Unsettled
      <3> QED  BY <2>9, <3>1, AwaitsEnds, ListFrame
    <2>10. CASE \/ C!OpenReads(c) \/ C!OpenRefused(c) \/ C!OpenFinds(c) \/ C!OpenInserts(c)
                \/ C!OpenFails(c) \/ C!CloseRemoves(c) \/ C!OpenReportsFailure(c)
      <3>1. c.op \in {"open", "close"} /\ UNCHANGED <<store, list, fetch, at, loose>>
        BY <2>10 DEF C!OpenReads, C!OpenRefused, C!OpenFinds, C!OpenInserts, C!OpenFails,
                     C!CloseRemoves, C!OpenReportsFailure, C!core, C!page
      <3>2. calls \ {c} \subseteq calls'
        BY <2>10 DEF C!OpenReads, C!OpenRefused, C!OpenFinds, C!OpenInserts, C!OpenFails,
                     C!CloseRemoves, C!OpenReportsFailure, C!Becomes, C!Answered, C!Ended
      <3> QED  BY <2>9, <3>1, <3>2
    <2>11. CASE C!SaveOrDeleteReplies(c)
      <3>1. at' = at /\ store' = store /\ list' = list /\ calls' = calls \ {c}
        BY <2>11 DEF C!SaveOrDeleteReplies, C!core, C!Ended
      <3>2. CASE c.phase = "ok"
        BY <1>6, <2>11, <3>1, <3>2 DEF C!SaveOrDeleteReplies
      <3>3. CASE c.phase # "ok"
        <4>1. ~Unsettled(c) /\ UNCHANGED <<fetch, loose>>
          BY <2>11, <3>3 DEF C!SaveOrDeleteReplies, Unsettled
        <4> QED  BY <3>1, <4>1, AwaitsEnds, ListFrame
      <3> QED  BY <3>2, <3>3
    <2>12. CASE C!ReorderReplies(c)
      BY <1>6, <2>12 DEF C!ReorderReplies
    <2>13. CASE C!OpenReplies(c) \/ C!CloseReplies(c)
      <3>1. /\ c.op \in {"open", "close"} /\ store' = store
            /\ \E to : C!Go(to, calls \ {c})
        BY <2>13 DEF C!OpenReplies, C!CloseReplies, C!core
      <3>2. Awaits(calls, calls \ {c})
        BY <3>1 DEF Awaits, Unsettled
      <3> QED  BY <3>1, <3>2, ListGo
    <2> QED  BY <1>7, <2>5, <2>6, <2>7, <2>8, <2>10, <2>11, <2>12, <2>13
             DEF C!CoreStep, C!Reply
  <1> QED  BY <1>1, <1>2, <1>3, <1>5, <1>7 DEF C!Next

----------------------------------------------------------------------------
(* The start: profiles with or without passwords, and the list asked for. *)
LEMMA ProfilesStart ==
    ASSUME C!Init
    PROVE  ProfilesInv
  <1>0. MaxProfiles \in Nat
    BY ProfilesAssumption DEF ProfilesAssumption
  <1>1. PICK n \in C!Profiles, cred \in BOOLEAN :
           store = [i \in 1 .. n |-> [id |-> i, ver |-> 0, cred |-> cred]]
    BY DEF C!Init
  <1>2. n \in Nat /\ \A i \in 1 .. n : i \in C!Profiles
    BY <1>0, <1>1 DEF C!Profiles
  <1>3. \A i \in 1 .. n : [id |-> i, ver |-> 0, cred |-> cred] \in Profile
    BY <1>1, <1>2 DEF Profile
  <1>4. store \in Seq(Profile)
    BY <1>1, <1>2, <1>3
  <1>5. <<>> \in Seq(Profile) /\ <<>> \in Seq([conn : Nat, profile : Profile])
    OBVIOUS
  <1>6. /\ file = store /\ calls = {} /\ made = 0 /\ list = <<>> /\ fetch = C!Asked
        /\ editing = None /\ rail = <<>> /\ work = <<>> /\ at = C!Home /\ asked = {}
        /\ keys = {store[i].id : i \in {j \in DOMAIN store : store[j].cred}}
    BY DEF C!Init
  <1>7. DOMAIN work = {} /\ DOMAIN rail = {}
    BY <1>6
  <1>8. ShellType
    BY <1>4, <1>5, <1>6, <1>7 DEF ShellType, ListType, RailType, C!Home
  <1>9. ConnectionInv
    BY <1>6, <1>7 DEF ConnectionInv, Numbered, Knows, C!OneConnectionPerProfile,
                      C!NoConnectionLeaked, C!ShownIsOnRail
  <1>10. C!NoCredentialLost
    <2>1. SUFFICES ASSUME NEW p \in C!Range(store), p.cred
                   PROVE  p.id \in keys
      BY <1>6 DEF C!NoCredentialLost
    <2>2. PICK i \in DOMAIN store : p = store[i]
      BY DEF C!Range
    <2> QED  BY <1>6, <2>1, <2>2
  <1>11. CredentialInv
    BY <1>6, <1>10 DEF CredentialInv
  <1>12. ListInv
    <2>1. fetch # C!NoFetch /\ fetch.step # "answer"
      BY <1>6, FetchSteps
    <2> QED  BY <1>6, <2>1 DEF ListInv
  <1> QED  BY <1>8, <1>9, <1>11, <1>12 DEF ProfilesInv

(* Every step of the profiles and connections keeps all of it. *)
LEMMA ProfilesStep ==
    ASSUME ProfilesInv, C!Next
    PROVE  ProfilesInv'
  <1>1. ShellType /\ ConnectionInv /\ CredentialInv /\ ListInv
    BY DEF ProfilesInv
  <1>2. CallsOk
    BY <1>1 DEF ShellType, ConnectionInv, CallsOk
  <1>3. CallsOk'
    BY <1>1, <1>2, CallsStep
  <1>4. ListType' /\ RailType'
    BY <1>1, <1>2, ListTypeStep, RailTypeStep
  <1>5. ShellType'
    BY <1>3, <1>4 DEF ShellType, CallsOk
  <1>6. ConnectionInv' /\ CredentialInv' /\ ListInv'
    BY <1>1, <1>2, <1>3, ConnectionStep, CredentialStep, ListStep
  <1> QED  BY <1>5, <1>6 DEF ProfilesInv

(* It says what the page and the rail promise. *)
LEMMA ProfilesImply ==
    ASSUME ProfilesInv
    PROVE  C!ConnectionsAreWhole
  <1>1. C!OneConnectionPerProfile /\ C!NoConnectionLeaked /\ C!ShownIsOnRail /\ C!NoCredentialLost
    BY DEF ProfilesInv, ConnectionInv, CredentialInv
  <1>2. C!ListIsTrue
    <2>1. SUFFICES ASSUME at = C!Home, fetch = C!NoFetch, ~loose,
                          \A c \in calls : c.op \in {"open", "close"}
                   PROVE  list = store
      BY DEF C!ListIsTrue
    <2>2. \A c \in calls : ~Unsettled(c)
      BY <2>1 DEF Unsettled
    <2> QED  BY <2>1, <2>2 DEF ProfilesInv, ListInv
  <1> QED  BY <1>1, <1>2 DEF C!ConnectionsAreWhole

(* Whatever the user does while calls are under way, and wherever a        *)
(* profile's writes fail or the process ends: a profile has one            *)
(* connection, which is on the rail or about to be put there; the          *)
(* workspace on the screen is one of the rail; a profile that counts on a  *)
(* stored password has it; and the list is that of the store once nothing  *)
(* of its own is under way (connection_service.rs, profiles.rs,            *)
(* ConnectionsPage.tsx, openConnections.ts).  For any number of profiles,  *)
(* calls and restarts.                                                     *)
THEOREM ConnectionsStayWhole == ShellSpec => []ConnectionsAreWhole
  <1>1. ShellInit => ProfilesInv
    BY ProfilesStart DEF ShellInit
  <1>2. ASSUME ProfilesInv, UNCHANGED connVars
        PROVE  ProfilesInv'
    <2>1. ShellType'
      BY <1>2 DEF ProfilesInv, ShellType, ListType, RailType, connVars
    <2>2. ConnectionInv'
      BY <1>2 DEF ProfilesInv, ConnectionInv, Knows, connVars, C!OneConnectionPerProfile,
                  C!NoConnectionLeaked, C!ShownIsOnRail, C!OnRail
    <2>3. CredentialInv'
      BY <1>2 DEF ProfilesInv, CredentialInv, connVars, C!NoCredentialLost
    <2>4. ListInv'
      BY <1>2 DEF ProfilesInv, ListInv, connVars
    <2> QED  BY <2>1, <2>2, <2>3, <2>4 DEF ProfilesInv
  <1>3. ProfilesInv /\ [ShellNext]_<<part, vars, connVars, settingsVars>> => ProfilesInv'
    BY <1>2, ProfilesStep DEF ShellNext
  <1>4. ProfilesInv => ConnectionsAreWhole
    BY ProfilesImply DEF ConnectionsAreWhole
  <1> QED  BY <1>1, <1>3, <1>4, PTL DEF ShellSpec

----------------------------------------------------------------------------
(* The layout of the tabs. *)

(* Every set of numbers that is not empty has a least one. *)
LEMMA LeastNumber ==
    ASSUME NEW T \in SUBSET Nat, T # {}
    PROVE  \E n \in T : \A m \in T : n <= m
  <1> DEFINE R == {ss \in Nat \X Nat : ss[1] < ss[2]}
  <1>1. IsWellFoundedOn(R, Nat)
    BY NatLessThanWellFounded, SMT DEF OpToRel
  <1>2. PICK n \in T : \A m \in T : ~(<<m, n>> \in R)
    <2> HIDE DEF R
    <2>1. T \subseteq Nat
      OBVIOUS
    <2> QED  BY <1>1, <2>1, WFMin, Zenon
  <1>3. \A m \in T : ~(m < n)
    BY <1>2
  <1> QED  BY <1>3

(* Induction up to a bound, on a set. *)
LEMMA UpTo ==
    ASSUME NEW L \in Nat, NEW K, 0 \in K, \A m \in 1 .. L : m - 1 \in K => m \in K
    PROVE  \A m \in 0 .. L : m \in K
  <1> DEFINE T == {m \in 0 .. L : m \notin K}
  <1> SUFFICES ASSUME T # {} PROVE FALSE
    OBVIOUS
  <1>1. PICK m \in T : \A k \in T : m <= k
    <2>1. T \in SUBSET Nat
      OBVIOUS
    <2> HIDE DEF T
    <2> QED  BY <2>1, LeastNumber
  <1>2. m \in 0 .. L /\ m \notin K /\ m # 0
    BY <1>1
  <1>3. m \in 1 .. L /\ m - 1 \in 0 .. L /\ m - 1 \notin T
    BY <1>1, <1>2
  <1> QED  BY <1>2, <1>3

(* What a filter keeps of the first n elements, for every n. *)
Keeps(f, R, s, K) ==
    /\ f \in [0 .. Len(s) -> Seq(R)] /\ f[0] = <<>>
    /\ \A n \in 1 .. Len(s) : f[n] = IF s[n] \in K THEN Append(f[n - 1], s[n]) ELSE f[n - 1]

(* Every list can be filtered ... *)
LEMMA KeepsExists ==
    ASSUME NEW R, NEW s \in Seq(R), NEW K
    PROVE  \E f : Keeps(f, R, s, K)
  <1> DEFINE L == Len(s)
             Next1(q, n) == IF s[n] \in K THEN Append(q, s[n]) ELSE q
             Upto(m, f) == /\ f \in [0 .. m -> Seq(R)] /\ f[0] = <<>>
                           /\ \A n \in 1 .. m : f[n] = Next1(f[n - 1], n)
             T == {m \in 0 .. L : \E f : Upto(m, f)}
  <1>0. L \in Nat /\ \A q \in Seq(R), n \in 1 .. L : Next1(q, n) \in Seq(R)
    OBVIOUS
  <1>e. <<>> \in Seq(R)
    OBVIOUS
  <1> HIDE DEF L, Next1
  <1>1. 0 \in T
    <2> DEFINE f == [n \in {0} |-> <<>>]
    <2>1. f \in [0 .. 0 -> Seq(R)] /\ f[0] = <<>> /\ 1 .. 0 = {}
      BY <1>e
    <2>2. Upto(0, f)
      BY <2>1
    <2> HIDE DEF Upto
    <2> QED  BY <1>0, <2>2
  <1>2. ASSUME NEW m \in 1 .. L, m - 1 \in T PROVE m \in T
    <2>0. m \in Nat /\ m - 1 \in Nat /\ m \in 0 .. L
      BY <1>0
    <2>1. PICK f : Upto(m - 1, f)
      BY <1>2
    <2> DEFINE g == [n \in 0 .. m |-> IF n = m THEN Next1(f[m - 1], m) ELSE f[n]]
    <2>2. f \in [0 .. m - 1 -> Seq(R)] /\ f[0] = <<>> /\ (\A n \in 1 .. m - 1 : f[n] = Next1(f[n - 1], n))
      BY <2>1
    <2>3. Next1(f[m - 1], m) \in Seq(R)
      <3>1. f[m - 1] \in Seq(R)
        BY <2>0, <2>2
      <3> QED  BY <1>0, <3>1
    <2>4. ASSUME NEW n \in 0 .. m PROVE g[n] \in Seq(R)
      <3>1. CASE n = m
        BY <3>1, <2>3
      <3>2. CASE n # m
        <4>1. n \in 0 .. m - 1
          BY <2>0, <3>2
        <4> QED  BY <4>1, <2>2, <3>2
      <3> QED  BY <3>1, <3>2
    <2>5. g \in [0 .. m -> Seq(R)]
      BY <2>4
    <2>6. g[0] = <<>>
      BY <2>0, <2>2
    <2>7. ASSUME NEW n \in 1 .. m PROVE g[n] = Next1(g[n - 1], n)
      <3>1. n - 1 \in 0 .. m /\ n - 1 # m /\ g[n - 1] = f[n - 1]
        BY <2>0
      <3>2. CASE n = m
        BY <3>1, <3>2
      <3>3. CASE n # m
        <4>1. n \in 1 .. m - 1 /\ g[n] = f[n]
          BY <2>0, <3>3
        <4> QED  BY <4>1, <2>2, <3>1
      <3> QED  BY <3>2, <3>3
    <2>8. Upto(m, g)
      BY <2>5, <2>6, <2>7
    <2> HIDE DEF Upto, g
    <2> QED  BY <2>0, <2>8
  <1>3. L \in T
    <2> HIDE DEF T
    <2>1. \A m \in 0 .. L : m \in T
      BY <1>0, <1>1, <1>2, UpTo
    <2> QED  BY <1>0, <2>1
  <1> QED  BY <1>3 DEF Keeps, Next1, L

(* ... and Only is the last of what it keeps. *)
LEMMA OnlyKeeps ==
    ASSUME NEW R, NEW s \in Seq(R), NEW K
    PROVE  \E f : Keeps(f, R, s, K) /\ Only(s, K) = f[Len(s)]
  <1> DEFINE body(f) == [n \in 0 .. Len(s) |->
                            IF n = 0 THEN <<>>
                            ELSE IF s[n] \in K THEN Append(f[n - 1], s[n]) ELSE f[n - 1]]
             kept == CHOOSE f : f = body(f)
  <1>1. Only(s, K) = kept[Len(s)]
    BY DEF Only
  <1>2. PICK f : Keeps(f, R, s, K)
    BY KeepsExists
  <1>3. f = body(f)
    <2> DEFINE b(n) == IF n = 0 THEN <<>>
                       ELSE IF s[n] \in K THEN Append(f[n - 1], s[n]) ELSE f[n - 1]
    <2>1. f = [n \in 0 .. Len(s) |-> f[n]]
      BY <1>2 DEF Keeps
    <2>2. ASSUME NEW n \in 0 .. Len(s) PROVE f[n] = b(n)
      <3>1. CASE n = 0
        BY <1>2, <3>1 DEF Keeps
      <3>2. CASE n # 0
        <4>1. n \in 1 .. Len(s)
          BY <3>2
        <4> QED  BY <1>2, <3>2, <4>1 DEF Keeps
      <3> QED  BY <3>1, <3>2
    <2>3. [n \in 0 .. Len(s) |-> f[n]] = [n \in 0 .. Len(s) |-> b(n)]
      <3> HIDE DEF b
      <3> QED  BY <2>2
    <2> QED  BY <2>1, <2>3
  <1>4. kept = body(kept)
    <2> HIDE DEF body
    <2> QED  BY <1>3
  <1>5. PICK g : g = kept
    OBVIOUS
  <1>6. PICK L \in Nat : L = Len(s)
    OBVIOUS
  <1>7. /\ g[0] = <<>>
        /\ \A n \in 1 .. L : g[n] = IF s[n] \in K THEN Append(g[n - 1], s[n]) ELSE g[n - 1]
    <2> DEFINE b(n) == IF n = 0 THEN <<>>
                       ELSE IF s[n] \in K THEN Append(g[n - 1], s[n]) ELSE g[n - 1]
    <2>1. g = body(g)
      BY <1>4, <1>5
    <2>2. g = [n \in 0 .. L |-> b(n)]
      BY <2>1, <1>6
    <2>3. \A n \in 0 .. L : g[n] = b(n)
      <3> HIDE DEF b
      <3> QED  BY <2>2
    <2>4. b(0) = <<>> /\ \A n \in 1 .. L :
            n \in 0 .. L /\ b(n) = IF s[n] \in K THEN Append(g[n - 1], s[n]) ELSE g[n - 1]
      OBVIOUS
    <2> HIDE DEF b
    <2>5. g[0] = <<>>
      <3>1. 0 \in 0 .. L
        OBVIOUS
      <3> QED  BY <2>3, <2>4, <3>1
    <2>6. ASSUME NEW n \in 1 .. L
          PROVE  g[n] = IF s[n] \in K THEN Append(g[n - 1], s[n]) ELSE g[n - 1]
      <3>1. g[n] = b(n) /\ b(n) = IF s[n] \in K THEN Append(g[n - 1], s[n]) ELSE g[n - 1]
        BY <2>3, <2>4
      <3> QED  BY <3>1
    <2> QED  BY SMTT(60), <2>5, <2>6
  <1>8. \A m \in 0 .. L : g[m] = f[m]
    <2> DEFINE T == {m \in 0 .. L : g[m] = f[m]}
    <2>0. /\ f[0] = <<>>
          /\ \A n \in 1 .. L : f[n] = IF s[n] \in K THEN Append(f[n - 1], s[n]) ELSE f[n - 1]
      BY <1>2, <1>6 DEF Keeps
    <2>1. 0 \in T
      BY <2>0, <1>7
    <2>2. \A m \in 1 .. L : m - 1 \in T => m \in T
      BY <2>0, <1>7
    <2> HIDE DEF T
    <2>3. \A m \in 0 .. L : m \in T
      BY <2>1, <2>2, UpTo
    <2> QED  BY <2>3 DEF T
  <1>9. kept[Len(s)] = f[Len(s)]
    BY <1>5, <1>6, <1>8
  <1> QED  BY <1>1, <1>2, <1>9

(* A filtered list: what it keeps of the list, and each element once. *)
LEMMA OnlyIs ==
    ASSUME NEW R, NEW s \in Seq(R), NEW K
    PROVE  /\ Only(s, K) \in Seq(R)
           /\ Range(Only(s, K)) = Range(s) \cap K
           /\ IsInjective(s) => IsInjective(Only(s, K))
  <1>1. PICK f : Keeps(f, R, s, K) /\ Only(s, K) = f[Len(s)]
    BY OnlyKeeps
  <1>2. PICK L \in Nat : L = Len(s)
    OBVIOUS
  <1>3. /\ f \in [0 .. L -> Seq(R)] /\ f[0] = <<>>
        /\ \A n \in 1 .. L : f[n] = IF s[n] \in K THEN Append(f[n - 1], s[n]) ELSE f[n - 1]
    BY <1>1, <1>2 DEF Keeps
  <1> DEFINE First(m) == {s[i] : i \in 1 .. m} \cap K
             Ok(m) == /\ {f[m][i] : i \in DOMAIN f[m]} = First(m)
                      /\ IsInjective(s) => IsInjective(f[m])
             T == {m \in 0 .. L : Ok(m)}
  <1>4. 0 \in T
    <2>1. DOMAIN f[0] = {} /\ First(0) = {}
      BY <1>3
    <2> QED  BY <2>1 DEF IsInjective
  <1>5. ASSUME NEW m \in 1 .. L, m - 1 \in T PROVE m \in T
    <2>1. m - 1 \in 0 .. L /\ m \in 0 .. L /\ m \in 1 .. Len(s) /\ m \in Nat
      BY <1>2
    <2>2. PICK q \in Seq(R) : q = f[m - 1]
      BY <1>3, <2>1
    <2>3. Ok(m - 1)
      BY <1>5
    <2>4. {q[i] : i \in DOMAIN q} = First(m - 1) /\ (IsInjective(s) => IsInjective(q))
      BY <2>2, <2>3
    <2>5. s[m] \in R /\ {s[i] : i \in 1 .. m} = {s[i] : i \in 1 .. m - 1} \cup {s[m]}
      BY <1>2, <2>1
    <2>6. CASE s[m] \notin K
      <3>1. f[m] = q /\ First(m) = First(m - 1)
        BY <1>3, <2>2, <2>5, <2>6
      <3> QED  BY <2>1, <2>4, <3>1
    <2>7. CASE s[m] \in K
      <3>1. f[m] = Append(q, s[m]) /\ First(m) = First(m - 1) \cup {s[m]}
        BY <1>3, <2>2, <2>5, <2>7
      <3> HIDE DEF First
      <3>2. PICK r : r = Append(q, s[m])
        OBVIOUS
      <3>3. /\ Len(q) \in Nat /\ Len(r) = Len(q) + 1 /\ DOMAIN r = 1 .. Len(q) + 1 /\ DOMAIN q = 1 .. Len(q)
            /\ r[Len(q) + 1] = s[m] /\ \A i \in 1 .. Len(q) : r[i] = q[i]
        BY <2>5, <3>2
      <3>4. {r[i] : i \in DOMAIN r} = {q[i] : i \in DOMAIN q} \cup {s[m]}
        BY <3>3
      <3>5. IsInjective(s) => IsInjective(r)
        <4> SUFFICES ASSUME IsInjective(s) PROVE IsInjective(r)
          OBVIOUS
        <4>1. ASSUME NEW i \in DOMAIN q PROVE q[i] # s[m]
          <5> SUFFICES ASSUME q[i] = s[m] PROVE FALSE
            OBVIOUS
          <5>2. s[m] \in First(m - 1)
            BY <2>4
          <5>3. PICK k \in 1 .. m - 1 : s[k] = s[m]
            BY <5>2 DEF First
          <5> QED  BY <1>2, <2>1, <5>3 DEF IsInjective
        <4>2. \A i, j \in 1 .. Len(q) : q[i] = q[j] => i = j
          BY <2>4, <3>3 DEF IsInjective
        <4>3. \A i \in 1 .. Len(q) : q[i] # s[m]
          BY <3>3, <4>1
        <4>4. \A i, j \in 1 .. Len(q) + 1 : r[i] = r[j] => i = j
          BY <3>3, <4>2, <4>3
        <4> QED  BY <3>3, <4>4 DEF IsInjective
      <3> QED  BY <2>1, <2>4, <3>1, <3>2, <3>4, <3>5
    <2> QED  BY <2>6, <2>7
  <1> HIDE DEF Ok
  <1>6. L \in T
    <2> HIDE DEF T
    <2>1. \A m \in 0 .. L : m \in T
      BY <1>4, <1>5, UpTo
    <2> QED  BY <2>1
  <1>7. Ok(L)
    BY <1>6
  <1>8. Only(s, K) = f[L] /\ f[L] \in Seq(R)
    BY <1>1, <1>2, <1>3
  <1>9. Range(s) = {s[i] : i \in 1 .. L}
    <2>1. DOMAIN s = 1 .. L
      BY <1>2
    <2> QED  BY <2>1 DEF Range
  <1> QED  BY <1>7, <1>8, <1>9 DEF Ok, Range

(* Inserting into a list, position by position. *)
LEMMA InsertAtIs ==
    ASSUME NEW R, NEW s \in Seq(R), NEW k \in 1 .. Len(s) + 1, NEW e \in R
    PROVE  /\ InsertAt(s, k, e) \in Seq(R) /\ Len(InsertAt(s, k, e)) = Len(s) + 1
           /\ InsertAt(s, k, e)[k] = e
           /\ \A i \in 1 .. k - 1 : InsertAt(s, k, e)[i] = s[i]
           /\ \A i \in k + 1 .. Len(s) + 1 : InsertAt(s, k, e)[i] = s[i - 1]
  <1> DEFINE a == SubSeq(s, 1, k - 1)
             b == SubSeq(s, k, Len(s))
             c == a \o <<e>>
             t == c \o b
  <1>1. InsertAt(s, k, e) = t
    BY DEF InsertAt
  <1>2. k \in 1 .. Len(s) + 1 /\ Len(s) \in Nat /\ k \in Int
    OBVIOUS
  <1>3. /\ a \in Seq(R) /\ Len(a) = k - 1 /\ \A i \in 1 .. k - 1 : a[i] = s[i]
        /\ b \in Seq(R) /\ Len(b) = Len(s) - k + 1 /\ \A i \in 1 .. Len(s) - k + 1 : b[i] = s[k + i - 1]
    BY SMTT(60), <1>2
  <1> HIDE DEF a, b
  <1>4. c \in Seq(R) /\ Len(c) = k /\ c[k] = e /\ \A i \in 1 .. k - 1 : c[i] = s[i]
    BY SMTT(60), <1>2, <1>3
  <1> HIDE DEF c
  <1>5. /\ t \in Seq(R) /\ Len(t) = Len(s) + 1
        /\ \A i \in 1 .. Len(s) + 1 : t[i] = IF i <= k THEN c[i] ELSE b[i - k]
    <2>1. Len(c) + Len(b) = Len(s) + 1 /\ b \in Seq(R) /\ c \in Seq(R) /\ Len(c) = k
      BY <1>2, <1>3, <1>4
    <2>2. t \in Seq(R) /\ Len(t) = Len(c) + Len(b)
      BY <2>1
    <2>3. \A i \in 1 .. Len(c) + Len(b) : t[i] = IF i <= Len(c) THEN c[i] ELSE b[i - Len(c)]
      BY SMTT(60), <2>1
    <2> QED  BY <2>1, <2>2, <2>3
  <1> HIDE DEF t
  <1>6. ASSUME NEW i \in 1 .. Len(s) + 1
        PROVE  t[i] = IF i < k THEN s[i] ELSE IF i = k THEN e ELSE s[i - 1]
    <2>1. CASE i <= k
      BY <1>2, <1>4, <1>5, <2>1
    <2>2. CASE ~(i <= k)
      <3>1. i - k \in 1 .. Len(s) - k + 1 /\ k + (i - k) - 1 = i - 1
        BY <1>2, <2>2
      <3>2. b[i - k] = s[k + (i - k) - 1]
        BY <1>3, <3>1
      <3> QED  BY <1>2, <1>5, <2>2, <3>1, <3>2
    <2> QED  BY <2>1, <2>2
  <1>7. /\ t[k] = e
        /\ \A i \in 1 .. k - 1 : t[i] = s[i]
        /\ \A i \in k + 1 .. Len(s) + 1 : t[i] = s[i - 1]
    BY <1>2, <1>6
  <1> QED  BY <1>1, <1>5, <1>7

(* Removing from a list, position by position. *)
LEMMA RemoveAtIs ==
    ASSUME NEW R, NEW s \in Seq(R), NEW k \in DOMAIN s
    PROVE  /\ RemoveAt(s, k) \in Seq(R) /\ Len(RemoveAt(s, k)) = Len(s) - 1
           /\ \A i \in 1 .. Len(s) - 1 : RemoveAt(s, k)[i] = IF i < k THEN s[i] ELSE s[i + 1]
  <1> DEFINE a == SubSeq(s, 1, k - 1)
             b == SubSeq(s, k + 1, Len(s))
             t == a \o b
  <1>1. RemoveAt(s, k) = t
    BY DEF RemoveAt
  <1>2. k \in 1 .. Len(s) /\ Len(s) \in Nat /\ k \in Int
    OBVIOUS
  <1>3. /\ a \in Seq(R) /\ Len(a) = k - 1 /\ \A i \in 1 .. k - 1 : a[i] = s[i]
        /\ b \in Seq(R) /\ Len(b) = Len(s) - k /\ \A i \in 1 .. Len(s) - k : b[i] = s[k + i]
    BY SMTT(60), <1>2
  <1> HIDE DEF a, b
  <1>4. /\ t \in Seq(R) /\ Len(t) = Len(s) - 1
        /\ \A i \in 1 .. Len(s) - 1 : t[i] = IF i <= k - 1 THEN a[i] ELSE b[i - (k - 1)]
    BY SMTT(60), <1>2, <1>3
  <1> HIDE DEF t
  <1>5. ASSUME NEW i \in 1 .. Len(s) - 1
        PROVE  t[i] = IF i < k THEN s[i] ELSE s[i + 1]
    <2>1. CASE i < k
      BY <1>2, <1>3, <1>4, <2>1
    <2>2. CASE ~(i < k)
      <3>1. i - (k - 1) \in 1 .. Len(s) - k /\ k + (i - (k - 1)) = i + 1
        BY <1>2, <2>2
      <3>2. b[i - (k - 1)] = s[k + (i - (k - 1))]
        BY <1>3, <3>1
      <3> QED  BY <1>2, <1>4, <2>2, <3>1, <3>2
    <2> QED  BY <2>1, <2>2
  <1> QED  BY <1>1, <1>4, <1>5

(* A panel of a workspace with the tabs ts, where the next tab is nx. *)
Panels == [id : TabIds \cup {Main}, tabIds : Seq(TabIds), activeTabId : TabIds \cup {NoTab}]

PanelOk(ts, nx, g) ==
    /\ g.id < nx
    /\ IsInjective(g.tabIds) /\ Range(g.tabIds) \subseteq Range(ts)
    /\ ts # <<>> => g.activeTabId \in Range(g.tabIds)

PanelsApart(gs) ==
    \A i, j \in DOMAIN gs : i # j => /\ gs[i].id # gs[j].id
                                     /\ Range(gs[i].tabIds) \cap Range(gs[j].tabIds) = {}

Covered(ts, gs) == \A t \in Range(ts) : \E i \in DOMAIN gs : t \in Range(gs[i].tabIds)

Whole(ts, gs, nx) ==
    /\ ts \in Seq(TabIds) /\ IsInjective(ts) /\ \A t \in Range(ts) : t < nx
    /\ gs \in Seq(Panels) /\ \A i \in DOMAIN gs : PanelOk(ts, nx, gs[i])
    /\ PanelsApart(gs) /\ Covered(ts, gs)

(* The inductive invariant of the layout: ids are never used twice, so a   *)
(* new panel has an id of its own, and the last tab takes its panel along. *)
LayoutInv ==
    /\ TypeOK
    /\ Whole(tabs, TabGroups, nextId)
    /\ tabs # <<>> => active \in Range(tabs)
    /\ tabs = <<>> => groups = <<>>

(* The invariant says what is to be shown. *)
LEMMA LayoutImplies ==
    ASSUME LayoutInv PROVE LayoutIsWhole
  <1> DEFINE gs == TabGroups
  <1>1. Whole(tabs, gs, nextId)
    BY DEF LayoutInv
  <1> HIDE DEF gs
  <1>2. ASSUME NEW i \in DOMAIN gs
        PROVE  /\ IsInjective(gs[i].tabIds) /\ Range(gs[i].tabIds) \subseteq Range(tabs)
               /\ tabs # <<>> => gs[i].activeTabId \in Range(gs[i].tabIds)
    BY <1>1 DEF Whole, PanelOk
  <1>3. ASSUME NEW i \in DOMAIN gs, tabs # <<>>
        PROVE  gs[i].tabIds # <<>>
    <2>1. gs[i].activeTabId \in Range(gs[i].tabIds)
      BY <1>2, <1>3
    <2>2. DOMAIN gs[i].tabIds # {}
      BY <2>1 DEF Range
    <2> QED  BY <2>2
  <1>4. Range(tabs) = UNION {Range(gs[i].tabIds) : i \in DOMAIN gs}
    <2>1. \A t \in Range(tabs) : \E i \in DOMAIN gs : t \in Range(gs[i].tabIds)
      BY <1>1 DEF Whole, Covered
    <2>2. \A i \in DOMAIN gs : Range(gs[i].tabIds) \subseteq Range(tabs)
      BY <1>2
    <2> QED  BY <2>1, <2>2
  <1>5. \A i, j \in DOMAIN gs : i # j =>
          gs[i].id # gs[j].id /\ Range(gs[i].tabIds) \cap Range(gs[j].tabIds) = {}
    BY <1>1 DEF Whole, PanelsApart
  <1>6. GroupsPartitionTabs
    <2>1. IsInjective(tabs)
      BY <1>1 DEF Whole
    <2> QED  BY <1>2, <1>3, <1>4, <1>5, <2>1 DEF GroupsPartitionTabs, gs
  <1>7. PanelsShowTheirTabs
    BY <1>2 DEF PanelsShowTheirTabs, LayoutInv, gs
  <1> QED  BY <1>6, <1>7 DEF LayoutIsWhole, LayoutInv

(* A step that leaves panels has a whole layout when they are whole. *)
LEMMA LayoutBecomes ==
    ASSUME Whole(tabs', groups', nextId'), groups' # <<>>, active' \in Range(tabs'),
           kind' \in [TabIds -> Kinds], nextId' \in 1 .. MaxTabs + 1, lookup' \in BOOLEAN
    PROVE  LayoutInv'
  <1>1. (TabGroups)' = groups'
    BY DEF TabGroups
  <1>2. tabs' \in Seq(TabIds) /\ groups' \in Seq(Panels)
    BY DEF Whole
  <1>3. active' \in TabIds
    BY <1>2 DEF Range
  <1>4. TypeOK'
    BY <1>2, <1>3 DEF TypeOK, Panels
  <1>5. tabs' # <<>>
    BY DEF Range
  <1> QED  BY <1>1, <1>4, <1>5 DEF LayoutInv

(* The workspace as it begins. *)
LEMMA LayoutStarts ==
    ASSUME Init PROVE LayoutInv
  <1>0. MaxTabs \in Nat /\ MaxTabs # 0
    BY MaxTabsAssumption
  <1>1. PICK n \in 1 .. AtMost(2, MaxTabs) :
          /\ tabs = [i \in 1 .. n |-> i] /\ nextId = n + 1 /\ active \in 1 .. n /\ groups = <<>>
    BY DEF Init
  <1>2. n \in Nat /\ n >= 1 /\ n <= MaxTabs
    BY <1>0, <1>1 DEF AtMost
  <1>3. tabs \in Seq(TabIds) /\ Len(tabs) = n /\ DOMAIN tabs = 1 .. n /\ \A i \in 1 .. n : tabs[i] = i
    BY <1>0, <1>1, <1>2 DEF TabIds
  <1>4. Range(tabs) = 1 .. n /\ IsInjective(tabs) /\ tabs # <<>>
    BY <1>2, <1>3 DEF Range, IsInjective
  <1>5. TabGroups = <<Group(Main, tabs, active)>>
    BY <1>1 DEF TabGroups
  <1>6. active \in TabIds /\ nextId \in 1 .. MaxTabs + 1
    BY <1>0, <1>1, <1>2 DEF TabIds
  <1>7. TypeOK
    <2>1. groups \in Seq(Panels)
      BY <1>1
    <2>2. kind \in [TabIds -> Kinds] /\ lookup \in BOOLEAN
      BY DEF Init, Kinds
    <2> QED  BY <1>3, <1>6, <2>1, <2>2 DEF TypeOK, Panels
  <1>8. Whole(tabs, TabGroups, nextId)
    <2>1. PICK g : g = Group(Main, tabs, active)
      OBVIOUS
    <2>2. g \in Panels /\ g.id = 0 /\ g.tabIds = tabs /\ g.activeTabId = active
      BY <1>3, <1>6, <2>1 DEF Group, Panels, Main
    <2>3. PanelOk(tabs, nextId, g)
      BY <1>1, <1>2, <1>4, <2>2 DEF PanelOk
    <2>4. TabGroups \in Seq(Panels) /\ DOMAIN TabGroups = {1} /\ TabGroups[1] = g
      BY <1>5, <2>1, <2>2
    <2>5. Covered(tabs, TabGroups) /\ PanelsApart(TabGroups)
      BY <2>2, <2>4 DEF Covered, PanelsApart
    <2>6. \A t \in Range(tabs) : t < nextId
      BY <1>1, <1>2, <1>4
    <2> QED  BY <1>3, <1>4, <2>3, <2>4, <2>5, <2>6 DEF Whole
  <1> QED  BY <1>1, <1>4, <1>7, <1>8 DEF LayoutInv

(* The first place in a list, if there is one. *)
LEMMA LeastOf ==
    ASSUME NEW n \in Nat, NEW T \in SUBSET (1 .. n)
    PROVE  /\ (IF T # {} THEN Min(T) ELSE 0) \in 0 .. n
           /\ T # {} => Min(T) \in T
  <1>1. CASE T # {}
    <2>1. T \in SUBSET Nat
      OBVIOUS
    <2>2. \E x \in T : \A y \in T : x <= y
      BY <1>1, <2>1, LeastNumber
    <2>3. PICK m : m = Min(T)
      OBVIOUS
    <2>4. m \in T
      BY <2>2, <2>3 DEF Min
    <2>5. m \in 0 .. n
      BY <2>4
    <2> QED  BY <1>1, <2>3, <2>4, <2>5
  <1>2. CASE T = {}
    BY <1>2
  <1> QED  BY <1>1, <1>2

(* findIndex of the group of a tab. *)
LEMMA GroupOfIs ==
    ASSUME TabGroups \in Seq(Panels), NEW t
    PROVE  /\ GroupOf(t) \in 0 .. Len(TabGroups)
           /\ GroupOf(t) # 0 => t \in Range(TabGroups[GroupOf(t)].tabIds)
           /\ GroupOf(t) = 0 => \A i \in DOMAIN TabGroups : t \notin Range(TabGroups[i].tabIds)
  <1>1. PICK gs \in Seq(Panels) : gs = TabGroups
    OBVIOUS
  <1> DEFINE T == {i \in 1 .. Len(gs) : t \in Range(gs[i].tabIds)}
  <1>2. GroupOf(t) = IF T # {} THEN Min(T) ELSE 0
    BY <1>1 DEF GroupOf, SelectInSeq
  <1>3. T \in SUBSET (1 .. Len(gs)) /\ Len(gs) \in Nat /\ DOMAIN gs = 1 .. Len(gs)
    OBVIOUS
  <1>4. \A i \in T : t \in Range(gs[i].tabIds) /\ i # 0
    OBVIOUS
  <1>5. \A i \in DOMAIN gs : t \in Range(gs[i].tabIds) => i \in T
    OBVIOUS
  <1> HIDE DEF T
  <1>6. (IF T # {} THEN Min(T) ELSE 0) \in 0 .. Len(gs) /\ (T # {} => Min(T) \in T)
    BY <1>3, LeastOf
  <1>7. CASE T = {}
    BY <1>1, <1>2, <1>3, <1>5, <1>6, <1>7
  <1>8. CASE T # {}
    BY <1>1, <1>2, <1>3, <1>4, <1>6, <1>8
  <1> QED  BY <1>7, <1>8

(* findIndex of a group by its id. *)
LEMMA GroupNamedIs ==
    ASSUME TabGroups \in Seq(Panels), NEW id
    PROVE  GroupNamed(id) \in 0 .. Len(TabGroups)
  <1>1. PICK gs \in Seq(Panels) : gs = TabGroups
    OBVIOUS
  <1> DEFINE T == {i \in 1 .. Len(gs) : gs[i].id = id}
  <1>2. GroupNamed(id) = IF T # {} THEN Min(T) ELSE 0
    BY <1>1 DEF GroupNamed, SelectInSeq
  <1>3. T \in SUBSET (1 .. Len(gs)) /\ Len(gs) \in Nat
    OBVIOUS
  <1> HIDE DEF T
  <1> QED  BY <1>1, <1>2, <1>3, LeastOf

(* indexOf. *)
LEMMA IndexOfIs ==
    ASSUME NEW R, NEW s \in Seq(R), NEW x
    PROVE  IndexOf(s, x) \in 0 .. Len(s) /\ (x \in Range(s) => IndexOf(s, x) # 0)
  <1> DEFINE T == {i \in 1 .. Len(s) : s[i] = x}
  <1>2. IndexOf(s, x) = IF T # {} THEN Min(T) ELSE 0
    BY DEF IndexOf, SelectInSeq
  <1>3. T \in SUBSET (1 .. Len(s)) /\ Len(s) \in Nat /\ (x \in Range(s) => T # {}) /\ 0 \notin T
    BY DEF Range
  <1> HIDE DEF T
  <1> QED  BY <1>2, <1>3, LeastOf

(* What the invariant says of the panels while there are tabs. *)
LEMMA PanelFacts ==
    ASSUME LayoutInv
    PROVE  /\ TabGroups \in Seq(Panels) /\ TabGroups # <<>> /\ Len(TabGroups) \in Nat \ {0}
           /\ tabs \in Seq(TabIds) /\ nextId \in 1 .. MaxTabs + 1 /\ MaxTabs \in Nat
           /\ kind \in [TabIds -> Kinds] /\ lookup \in BOOLEAN
           /\ \A i \in DOMAIN TabGroups : TabGroups[i] \in Panels /\ PanelOk(tabs, nextId, TabGroups[i])
  <1>0. MaxTabs \in Nat
    BY MaxTabsAssumption
  <1>1. PICK gs : gs = TabGroups
    OBVIOUS
  <1>2. gs \in Seq(Panels) /\ \A i \in DOMAIN gs : PanelOk(tabs, nextId, gs[i])
    BY <1>1 DEF LayoutInv, Whole
  <1>3. gs # <<>>
    BY <1>1 DEF TabGroups
  <1>4. Len(gs) \in Nat \ {0} /\ \A i \in DOMAIN gs : gs[i] \in Panels
    BY <1>2, <1>3
  <1> QED  BY <1>0, <1>1, <1>2, <1>3, <1>4 DEF LayoutInv, TypeOK

(* Another tab is activated. *)
LEMMA ActivateKeeps ==
    ASSUME LayoutInv, NEW t, ActivateTab(t), UNCHANGED <<tabs, kind, nextId, lookup>>
    PROVE  LayoutInv'
  <1>0. PICK gs : gs = TabGroups
    OBVIOUS
  <1>1. CASE active = t \/ t \notin Range(tabs)
    <2>1. UNCHANGED <<active, groups>>
      BY <1>1 DEF ActivateTab
    <2> QED  BY <2>1 DEF LayoutInv, TypeOK, TabGroups
  <1>2. CASE ~(active = t \/ t \notin Range(tabs))
    <2>1. active' = t /\ t \in Range(tabs)
          /\ groups' = [i \in DOMAIN gs |-> IF t \in Range(gs[i].tabIds)
                                            THEN [gs[i] EXCEPT !.activeTabId = t] ELSE gs[i]]
      BY <1>0, <1>2 DEF ActivateTab
    <2>2. PICK hs : hs = groups'
      OBVIOUS
    <2>3. /\ gs \in Seq(Panels) /\ Len(gs) \in Nat \ {0} /\ DOMAIN gs = 1 .. Len(gs)
          /\ \A i \in DOMAIN gs : gs[i] \in Panels /\ PanelOk(tabs, nextId, gs[i])
      BY <1>0, PanelFacts
    <2>4. t \in TabIds
      BY <2>1, PanelFacts DEF Range
    <2>5. ASSUME NEW i \in 1 .. Len(gs)
          PROVE  /\ hs[i] \in Panels /\ hs[i].id = gs[i].id /\ hs[i].tabIds = gs[i].tabIds
                 /\ hs[i].activeTabId = IF t \in Range(gs[i].tabIds) THEN t ELSE gs[i].activeTabId
      <3>1. hs[i] = IF t \in Range(gs[i].tabIds) THEN [gs[i] EXCEPT !.activeTabId = t] ELSE gs[i]
        BY <2>1, <2>2, <2>3
      <3>2. gs[i] \in Panels
        BY <2>3
      <3> QED  BY <2>4, <3>1, <3>2 DEF Panels
    <2>6. hs \in Seq(Panels) /\ Len(hs) = Len(gs) /\ DOMAIN hs = DOMAIN gs
      <3>1. hs = [i \in 1 .. Len(gs) |-> hs[i]]
        BY <2>1, <2>2, <2>3
      <3> QED  BY <2>3, <2>5, <3>1
    <2>7. ASSUME NEW i \in DOMAIN hs PROVE PanelOk(tabs, nextId, hs[i])
      <3>1. PanelOk(tabs, nextId, gs[i]) /\ i \in 1 .. Len(gs)
        BY <2>3, <2>6
      <3> QED  BY <2>5, <3>1 DEF PanelOk
    <2>8. PanelsApart(hs) /\ Covered(tabs, hs)
      <3>1. PanelsApart(gs) /\ Covered(tabs, gs)
        BY <1>0 DEF LayoutInv, Whole
      <3>2. \A i \in DOMAIN gs : hs[i].id = gs[i].id /\ hs[i].tabIds = gs[i].tabIds
        BY <2>3, <2>5
      <3> QED  BY <2>6, <3>1, <3>2 DEF PanelsApart, Covered
    <2>9. Whole(tabs, hs, nextId)
      BY <2>6, <2>7, <2>8 DEF Whole, LayoutInv
    <2>10. Whole(tabs', groups', nextId') /\ groups' # <<>> /\ active' \in Range(tabs')
      BY <2>1, <2>2, <2>3, <2>6, <2>9
    <2> QED  BY <2>10, LayoutBecomes, PanelFacts
  <1> QED  BY <1>1, <1>2

(* A list with one more element. *)
LEMMA AppendIs ==
    ASSUME NEW R, NEW s \in Seq(R), NEW e \in R
    PROVE  /\ Append(s, e) \in Seq(R) /\ Append(s, e) # <<>>
           /\ Range(Append(s, e)) = Range(s) \cup {e}
           /\ IsInjective(s) /\ e \notin Range(s) => IsInjective(Append(s, e))
  <1>1. PICK r : r = Append(s, e)
    OBVIOUS
  <1>2. /\ r \in Seq(R) /\ Len(s) \in Nat /\ DOMAIN s = 1 .. Len(s) /\ DOMAIN r = 1 .. Len(s) + 1
        /\ r[Len(s) + 1] = e /\ \A i \in 1 .. Len(s) : r[i] = s[i]
    BY <1>1
  <1>3. Range(r) = Range(s) \cup {e}
    BY <1>2 DEF Range
  <1>4. r # <<>>
    BY <1>2
  <1>5. ASSUME IsInjective(s), e \notin Range(s) PROVE IsInjective(r)
    <2>1. \A i, j \in 1 .. Len(s) : s[i] = s[j] => i = j
      BY <1>2, <1>5 DEF IsInjective
    <2>2. \A i \in 1 .. Len(s) : s[i] # e
      BY <1>2, <1>5 DEF Range
    <2>3. \A i, j \in 1 .. Len(s) + 1 : r[i] = r[j] => i = j
      BY <1>2, <2>1, <2>2
    <2> QED  BY <1>2, <2>3 DEF IsInjective
  <1> QED  BY <1>1, <1>2, <1>3, <1>4, <1>5

(* A tab is added, to a panel or with one of its own. *)
LEMMA AddKeeps ==
    ASSUME LayoutInv, NEW k \in Kinds, NEW split, NEW groupId, TabAdded(k, split, groupId),
           lookup' \in BOOLEAN
    PROVE  LayoutInv'
  <1> DEFINE into == AtLeast1(IF groupId # NoGroup THEN GroupNamed(groupId) ELSE GroupOf(active))
  <1>0. PICK gs : gs = TabGroups
    OBVIOUS
  <1>1. PICK gi : gi = into
    OBVIOUS
  <1>2. PICK n : n = nextId
    OBVIOUS
  <1>3. PICK ts : ts = tabs
    OBVIOUS
  <1>f. /\ gs \in Seq(Panels) /\ Len(gs) \in Nat \ {0} /\ DOMAIN gs = 1 .. Len(gs)
        /\ \A i \in DOMAIN gs : gs[i] \in Panels /\ PanelOk(ts, n, gs[i])
        /\ ts \in Seq(TabIds) /\ n \in 1 .. MaxTabs + 1 /\ MaxTabs \in Nat /\ kind \in [TabIds -> Kinds]
    BY <1>0, <1>2, <1>3, PanelFacts
  <1>4. gi \in DOMAIN gs
    <2>1. GroupNamed(groupId) \in 0 .. Len(gs) /\ GroupOf(active) \in 0 .. Len(gs)
      BY <1>0, <1>f, GroupNamedIs, GroupOfIs
    <2> QED  BY <1>1, <1>f, <2>1 DEF AtLeast1
  <1>5. /\ n <= MaxTabs /\ tabs' = Append(ts, n) /\ kind' = [kind EXCEPT ![n] = k]
        /\ active' = n /\ nextId' = n + 1
        /\ groups' = IF split /\ ts # <<>> THEN InsertAt(gs, gi + 1, Group(n, <<n>>, n))
                     ELSE ReplaceAt(gs, gi, Group(gs[gi].id, Append(gs[gi].tabIds, n), n))
    BY <1>0, <1>1, <1>2, <1>3 DEF TabAdded
  <1>6. PICK us : us = Append(ts, n)
    OBVIOUS
  <1>7. /\ n \in TabIds /\ n \in Nat /\ n + 1 \in 1 .. MaxTabs + 1 /\ n # 0
        /\ kind' \in [TabIds -> Kinds]
    BY <1>f, <1>5 DEF TabIds
  <1>8. /\ \A t \in Range(ts) : t < n /\ t \in Nat
        /\ IsInjective(ts) /\ PanelsApart(gs) /\ Covered(ts, gs)
    <2>1. \A t \in Range(ts) : t < n
      BY <1>2, <1>3 DEF LayoutInv, Whole
    <2>2. \A t \in Range(ts) : t \in Nat
      BY <1>f DEF Range, TabIds
    <2> QED  BY <1>0, <1>3, <2>1, <2>2 DEF LayoutInv, Whole
  <1>9. n \notin Range(ts)
    BY <1>7, <1>8
  <1>10. us \in Seq(TabIds) /\ us # <<>> /\ Range(us) = Range(ts) \cup {n} /\ IsInjective(us)
    BY <1>f, <1>6, <1>7, <1>8, <1>9, AppendIs
  <1>11. \A t \in Range(us) : t < n + 1
    BY <1>7, <1>8, <1>10
  <1>12. ASSUME NEW i \in DOMAIN gs, ts # <<>> PROVE PanelOk(us, n + 1, gs[i])
    <2>1. PanelOk(ts, n, gs[i]) /\ gs[i].id \in Int
      BY <1>f DEF Panels, TabIds, Main
    <2> QED  BY <1>7, <1>10, <1>12, <2>1 DEF PanelOk
  <1>13. \A i \in DOMAIN gs : n \notin Range(gs[i].tabIds) /\ gs[i].id # n
    <2> SUFFICES ASSUME NEW i \in DOMAIN gs PROVE n \notin Range(gs[i].tabIds) /\ gs[i].id # n
      OBVIOUS
    <2>1. PanelOk(ts, n, gs[i]) /\ gs[i].id \in Int
      BY <1>f DEF Panels, TabIds, Main
    <2> QED  BY <1>7, <1>9, <2>1 DEF PanelOk
  <1>14. PICK hs : hs = groups'
    OBVIOUS
  <1>15. hs \in Seq(Panels) /\ hs # <<>> /\ (\A i \in DOMAIN hs : PanelOk(us, n + 1, hs[i]))
         /\ PanelsApart(hs) /\ Covered(us, hs)
    <2>1. CASE split /\ ts # <<>>
      <3>1. PICK new : new = Group(n, <<n>>, n)
        OBVIOUS
      <3>2. <<n>> \in Seq(TabIds) /\ Range(<<n>>) = {n} /\ IsInjective(<<n>>)
        <4>1. <<n>> \in Seq(TabIds) /\ DOMAIN <<n>> = {1} /\ <<n>>[1] = n
          BY <1>7
        <4> QED  BY <4>1 DEF Range, IsInjective
      <3>3. new \in Panels /\ new.id = n /\ new.tabIds = <<n>> /\ new.activeTabId = n
        BY <1>7, <3>1, <3>2 DEF Group, Panels
      <3>4. PanelOk(us, n + 1, new)
        BY <1>7, <1>10, <3>2, <3>3 DEF PanelOk
      <3>5. hs = InsertAt(gs, gi + 1, new) /\ gi + 1 \in 1 .. Len(gs) + 1 /\ gi \in Nat
        BY <1>f, <1>4, <1>5, <1>14, <2>1, <3>1
      <3>6. /\ hs \in Seq(Panels) /\ Len(hs) = Len(gs) + 1
            /\ hs[gi + 1] = new
            /\ \A i \in 1 .. gi : hs[i] = gs[i]
            /\ \A i \in gi + 2 .. Len(gs) + 1 : hs[i] = gs[i - 1]
        <4>1. PICK k1 \in 1 .. Len(gs) + 1 : k1 = gi + 1
          BY <3>5
        <4>g. gs \in Seq(Panels) /\ new \in Panels
          BY <1>f, <3>3
        <4>2. /\ InsertAt(gs, k1, new) \in Seq(Panels) /\ Len(InsertAt(gs, k1, new)) = Len(gs) + 1
              /\ InsertAt(gs, k1, new)[k1] = new
              /\ \A i \in 1 .. k1 - 1 : InsertAt(gs, k1, new)[i] = gs[i]
              /\ \A i \in k1 + 1 .. Len(gs) + 1 : InsertAt(gs, k1, new)[i] = gs[i - 1]
          BY <4>g, InsertAtIs
        <4>3. hs = InsertAt(gs, k1, new) /\ k1 - 1 = gi /\ k1 + 1 = gi + 2
          BY <3>5, <4>1
        <4> QED  BY <4>1, <4>2, <4>3
      <3>7. DOMAIN hs = 1 .. Len(gs) + 1 /\ hs # <<>>
        <4>1. DOMAIN hs = 1 .. Len(gs) + 1
          BY <3>6
        <4>2. Len(hs) # 0
          BY SMTT(60), <1>f, <3>6
        <4> QED  BY <4>1, <4>2
      <3>l. PICK l \in Nat : l = Len(gs)
        BY <1>f
      <3>g. gi \in 1 .. l /\ DOMAIN hs = 1 .. l + 1 /\ DOMAIN gs = 1 .. l
        BY <1>f, <1>4, <3>7, <3>l
      <3>h. \A i \in 1 .. l + 1 :
              hs[i] = IF i < gi + 1 THEN gs[i] ELSE IF i = gi + 1 THEN new ELSE gs[i - 1]
        BY <3>5, <3>6, <3>l
      <3> DEFINE old(i) == IF i < gi + 1 THEN i ELSE i - 1
      <3>8. \A i \in DOMAIN hs : i # gi + 1 => old(i) \in DOMAIN gs /\ hs[i] = gs[old(i)]
        <4> SUFFICES ASSUME NEW i \in 1 .. l + 1, i # gi + 1
                     PROVE  old(i) \in 1 .. l /\ hs[i] = gs[old(i)]
          BY <3>g
        <4>1. old(i) \in 1 .. l
          BY <3>l, <3>g
        <4>2. hs[i] = IF i < gi + 1 THEN gs[i] ELSE IF i = gi + 1 THEN new ELSE gs[i - 1]
          BY <3>h
        <4> QED  BY <4>1, <4>2
      <3>9. hs[gi + 1] = new /\ gi + 1 \in DOMAIN hs
        BY <3>5, <3>6, <3>7
      <3>10. \A i, j \in DOMAIN hs : i # gi + 1 /\ j # gi + 1 /\ i # j => old(i) # old(j)
        BY <1>f, <3>5, <3>7
      <3>11. \A j \in DOMAIN gs : \E i \in DOMAIN hs : hs[i] = gs[j]
        <4> SUFFICES ASSUME NEW j \in 1 .. l PROVE \E i \in 1 .. l + 1 : hs[i] = gs[j]
          BY <3>g
        <4>1. CASE j < gi + 1
          <5>1. j \in 1 .. l + 1
            BY <3>l
          <5>2. hs[j] = gs[j]
            BY <3>h, <4>1, <5>1
          <5> QED  BY <5>1, <5>2
        <4>2. CASE ~(j < gi + 1)
          <5>1. j + 1 \in 1 .. l + 1 /\ ~(j + 1 < gi + 1) /\ j + 1 # gi + 1 /\ (j + 1) - 1 = j
            BY <3>l, <3>g, <4>2
          <5>2. hs[j + 1] = gs[(j + 1) - 1]
            BY <3>h, <5>1
          <5> QED  BY <5>1, <5>2
        <4> QED  BY <4>1, <4>2
      <3> HIDE DEF old
      <3>12. \A i \in DOMAIN hs : PanelOk(us, n + 1, hs[i])
        BY <1>12, <2>1, <3>4, <3>8, <3>9
      <3>13. PanelsApart(hs)
        <4> SUFFICES ASSUME NEW i \in DOMAIN hs, NEW j \in DOMAIN hs, i # j
                     PROVE  /\ hs[i].id # hs[j].id
                            /\ Range(hs[i].tabIds) \cap Range(hs[j].tabIds) = {}
          BY DEF PanelsApart
        <4>1. CASE i # gi + 1 /\ j # gi + 1
          <5>1. /\ hs[i] = gs[old(i)] /\ hs[j] = gs[old(j)] /\ old(i) # old(j)
                /\ old(i) \in DOMAIN gs /\ old(j) \in DOMAIN gs
            BY <3>8, <3>10, <4>1
          <5> QED  BY <1>8, <5>1 DEF PanelsApart
        <4>2. CASE i = gi + 1
          <5>1. hs[i] = new /\ hs[j] = gs[old(j)] /\ old(j) \in DOMAIN gs
            BY <3>8, <3>9, <4>2
          <5> QED  BY <1>13, <3>2, <3>3, <5>1
        <4>3. CASE j = gi + 1
          <5>1. hs[j] = new /\ hs[i] = gs[old(i)] /\ old(i) \in DOMAIN gs
            BY <3>8, <3>9, <4>3
          <5> QED  BY <1>13, <3>2, <3>3, <5>1
        <4> QED  BY <4>1, <4>2, <4>3
      <3>14. Covered(us, hs)
        <4> SUFFICES ASSUME NEW t \in Range(us) PROVE \E i \in DOMAIN hs : t \in Range(hs[i].tabIds)
          BY DEF Covered
        <4>1. CASE t = n
          BY <3>2, <3>3, <3>9, <4>1
        <4>2. CASE t # n
          <5>1. PICK j \in DOMAIN gs : t \in Range(gs[j].tabIds)
            BY <1>8, <1>10, <4>2 DEF Covered
          <5> QED  BY <3>11, <5>1
        <4> QED  BY <4>1, <4>2
      <3> QED  BY <3>6, <3>7, <3>12, <3>13, <3>14
    <2>2. CASE ~(split /\ ts # <<>>)
      <3>1. PICK new : new = Group(gs[gi].id, Append(gs[gi].tabIds, n), n)
        OBVIOUS
      <3>2. /\ gs[gi] \in Panels /\ PanelOk(ts, n, gs[gi]) /\ gs[gi].tabIds \in Seq(TabIds)
            /\ gs[gi].id \in TabIds \cup {Main} /\ gs[gi].id \in Int
        BY <1>f, <1>4 DEF Panels, TabIds, Main
      <3>3. /\ Append(gs[gi].tabIds, n) \in Seq(TabIds)
            /\ Range(Append(gs[gi].tabIds, n)) = Range(gs[gi].tabIds) \cup {n}
            /\ IsInjective(Append(gs[gi].tabIds, n))
        BY <1>4, <1>7, <1>13, <3>2, AppendIs DEF PanelOk
      <3>4. /\ new \in Panels /\ new.id = gs[gi].id /\ new.activeTabId = n
            /\ new.tabIds \in Seq(TabIds) /\ Range(new.tabIds) = Range(gs[gi].tabIds) \cup {n}
            /\ IsInjective(new.tabIds)
        BY <1>7, <3>1, <3>2, <3>3 DEF Group, Panels
      <3>5. PanelOk(us, n + 1, new)
        BY <1>7, <1>10, <3>2, <3>4 DEF PanelOk
      <3>6. hs = [gs EXCEPT ![gi] = new]
        BY <1>5, <1>14, <2>2, <3>1 DEF ReplaceAt
      <3>7. /\ hs \in Seq(Panels) /\ DOMAIN hs = DOMAIN gs /\ hs # <<>>
            /\ hs[gi] = new /\ \A i \in DOMAIN gs : i # gi => hs[i] = gs[i]
        BY <1>f, <1>4, <3>4, <3>6
      <3>8. ASSUME NEW i \in DOMAIN hs PROVE PanelOk(us, n + 1, hs[i])
        <4>1. CASE i = gi
          BY <3>5, <3>7, <4>1
        <4>2. CASE i # gi
          <5>1. ts # <<>>
            <6> SUFFICES ASSUME ts = <<>> PROVE FALSE
              OBVIOUS
            <6>1. groups = <<>>
              BY <1>3 DEF LayoutInv
            <6>2. Len(gs) = 1
              BY <1>0, <6>1 DEF TabGroups
            <6> QED  BY <1>f, <1>4, <3>7, <4>2, <6>2
          <5> QED  BY <1>12, <3>7, <4>2, <5>1
        <4> QED  BY <4>1, <4>2
      <3>9. PanelsApart(hs)
        <4> SUFFICES ASSUME NEW i \in DOMAIN gs, NEW j \in DOMAIN gs, i # j
                     PROVE  /\ hs[i].id # hs[j].id
                            /\ Range(hs[i].tabIds) \cap Range(hs[j].tabIds) = {}
          BY <3>7 DEF PanelsApart
        <4>1. gs[i].id # gs[j].id /\ Range(gs[i].tabIds) \cap Range(gs[j].tabIds) = {}
          BY <1>8 DEF PanelsApart
        <4>2. n \notin Range(gs[i].tabIds) /\ n \notin Range(gs[j].tabIds)
          BY <1>13
        <4>3. CASE i = gi
          BY <3>4, <3>7, <4>1, <4>2, <4>3
        <4>4. CASE j = gi
          BY <3>4, <3>7, <4>1, <4>2, <4>4
        <4>5. CASE i # gi /\ j # gi
          BY <3>7, <4>1, <4>5
        <4> QED  BY <4>3, <4>4, <4>5
      <3>10. Covered(us, hs)
        <4> SUFFICES ASSUME NEW t \in Range(us) PROVE \E i \in DOMAIN hs : t \in Range(hs[i].tabIds)
          BY DEF Covered
        <4>1. CASE t = n
          BY <1>4, <3>4, <3>7, <4>1
        <4>2. CASE t # n
          <5>1. PICK j \in DOMAIN gs : t \in Range(gs[j].tabIds)
            BY <1>8, <1>10, <4>2 DEF Covered
          <5>2. t \in Range(hs[j].tabIds) /\ j \in DOMAIN hs
            BY <3>4, <3>7, <5>1
          <5> QED  BY <5>2
        <4> QED  BY <4>1, <4>2
      <3> QED  BY <3>7, <3>8, <3>9, <3>10
    <2> QED  BY <2>1, <2>2
  <1>16. Whole(us, hs, n + 1)
    BY <1>10, <1>11, <1>15 DEF Whole
  <1>17. Whole(tabs', groups', nextId') /\ groups' # <<>> /\ active' \in Range(tabs')
    BY <1>5, <1>6, <1>10, <1>14, <1>15, <1>16
  <1> QED  BY <1>5, <1>7, <1>17, LayoutBecomes

(* A list without one of its elements. *)
LEMMA WithoutIs ==
    ASSUME NEW R, NEW s \in Seq(R), NEW t, IsInjective(s)
    PROVE  /\ Without(s, t) \in Seq(R) /\ IsInjective(Without(s, t))
           /\ Range(Without(s, t)) = Range(s) \ {t}
  <1>1. /\ Without(s, t) \in Seq(R) /\ IsInjective(Without(s, t))
        /\ Range(Without(s, t)) = Range(s) \cap (Range(s) \ {t})
    BY OnlyIs DEF Without
  <1> QED  BY <1>1

(* A list is empty when nothing is in it. *)
LEMMA EmptyIs ==
    ASSUME NEW R, NEW s \in Seq(R)
    PROVE  (s = <<>> <=> Range(s) = {}) /\ (s # <<>> => Len(s) \in Nat \ {0})
  <1>1. s = <<>> => Range(s) = {}
    BY DEF Range
  <1>2. s # <<>> => Len(s) \in Nat \ {0} /\ s[1] \in Range(s)
    <2>1. s # <<>> => Len(s) \in Nat \ {0} /\ 1 \in DOMAIN s
      OBVIOUS
    <2> QED  BY <2>1 DEF Range
  <1> QED  BY <1>1, <1>2

(* A tab is closed. *)
LEMMA CloseKeeps ==
    ASSUME LayoutInv, NEW t \in Range(tabs), TabClosed(t), UNCHANGED lookup
    PROVE  LayoutInv'
  <1>0. PICK gs : gs = TabGroups
    OBVIOUS
  <1>1. PICK gi : gi = GroupOf(t)
    OBVIOUS
  <1>2. PICK g : g = gs[gi]
    OBVIOUS
  <1>3. PICK ts : ts = tabs
    OBVIOUS
  <1>4. PICK n : n = nextId
    OBVIOUS
  <1>f. /\ gs \in Seq(Panels) /\ Len(gs) \in Nat \ {0} /\ DOMAIN gs = 1 .. Len(gs)
        /\ \A i \in DOMAIN gs : gs[i] \in Panels /\ PanelOk(ts, n, gs[i])
        /\ ts \in Seq(TabIds) /\ n \in 1 .. MaxTabs + 1 /\ MaxTabs \in Nat
        /\ kind \in [TabIds -> Kinds] /\ lookup \in BOOLEAN
    BY <1>0, <1>3, <1>4, PanelFacts
  <1>5. gi \in DOMAIN gs /\ t \in Range(g.tabIds)
    <2>1. gi # 0
      BY <1>1 DEF TabClosed
    <2> QED  BY <1>0, <1>1, <1>2, <1>f, <2>1, GroupOfIs
  <1>6. g \in Panels /\ PanelOk(ts, n, g) /\ g.tabIds \in Seq(TabIds) /\ g.id \in TabIds \cup {Main}
    BY <1>2, <1>f, <1>5 DEF Panels
  <1>7. ts # <<>> /\ t \in Range(ts) /\ t \in TabIds /\ active \in Range(ts)
    BY <1>3, <1>f, EmptyIs DEF LayoutInv, Range
  <1>8. IsInjective(ts) /\ PanelsApart(gs) /\ Covered(ts, gs) /\ \A x \in Range(ts) : x < n
    BY <1>0, <1>3, <1>4 DEF LayoutInv, Whole
  <1>9. PICK ids : ids = Without(g.tabIds, t)
    OBVIOUS
  <1>10. PICK us : us = Without(ts, t)
    OBVIOUS
  <1>11. ids \in Seq(TabIds) /\ IsInjective(ids) /\ Range(ids) = Range(g.tabIds) \ {t}
    BY <1>6, <1>9, WithoutIs DEF PanelOk
  <1>12. us \in Seq(TabIds) /\ IsInjective(us) /\ Range(us) = Range(ts) \ {t}
    BY <1>f, <1>8, <1>10, WithoutIs
  <1> DEFINE sh == IF g.activeTabId = t THEN ids[AtMost(IndexOf(g.tabIds, t), Len(ids))]
                   ELSE g.activeTabId
  <1>13. PICK shown : shown = sh
    OBVIOUS
  <1>14. PICK hs : hs = IF ids = <<>> THEN RemoveAt(gs, gi)
                        ELSE ReplaceAt(gs, gi, Group(g.id, ids, shown))
    OBVIOUS
  <1>15. /\ tabs' = us /\ groups' = hs /\ UNCHANGED <<kind, nextId>>
         /\ active' = IF active # t THEN active
                      ELSE IF ids # <<>> THEN shown
                      ELSE IF hs # <<>> THEN hs[AtMost(gi, Len(hs))].activeTabId
                      ELSE NoTab
    BY <1>0, <1>1, <1>2, <1>3, <1>9, <1>10, <1>13, <1>14 DEF TabClosed
  <1>16. ASSUME NEW i \in DOMAIN gs, i # gi
         PROVE  PanelOk(us, n, gs[i]) /\ t \notin Range(gs[i].tabIds) /\ gs[i].activeTabId \in Range(us)
    <2>1. PanelOk(ts, n, gs[i])
      BY <1>f
    <2>2. t \notin Range(gs[i].tabIds)
      BY <1>2, <1>5, <1>8, <1>16 DEF PanelsApart
    <2> QED  BY <1>7, <1>12, <2>1, <2>2 DEF PanelOk
  <1>17. ASSUME NEW x \in Range(us), x \notin Range(ids)
         PROVE  \E i \in DOMAIN gs : i # gi /\ x \in Range(gs[i].tabIds)
    <2>1. PICK i \in DOMAIN gs : x \in Range(gs[i].tabIds)
      BY <1>8, <1>12 DEF Covered
    <2>2. i # gi
      BY <1>2, <1>11, <1>12, <1>17, <2>1
    <2> QED  BY <2>1, <2>2
  <1>18. \A x \in Range(us) : x < n
    BY <1>8, <1>12
  <1>19. CASE ids # <<>>
    <2>1. shown \in Range(ids)
      <3>1. CASE g.activeTabId = t
        <4>1. IndexOf(g.tabIds, t) \in 0 .. Len(g.tabIds) /\ IndexOf(g.tabIds, t) # 0
          BY <1>5, <1>6, IndexOfIs
        <4>2. Len(ids) \in Nat \ {0} /\ DOMAIN ids = 1 .. Len(ids)
          BY <1>11, <1>19, EmptyIs
        <4>3. AtMost(IndexOf(g.tabIds, t), Len(ids)) \in 1 .. Len(ids)
          BY <4>1, <4>2 DEF AtMost
        <4> QED  BY <1>13, <3>1, <4>2, <4>3 DEF Range
      <3>2. CASE g.activeTabId # t
        BY <1>6, <1>7, <1>11, <1>13, <3>2 DEF PanelOk
      <3> QED  BY <3>1, <3>2
    <2>2. PICK new : new = Group(g.id, ids, shown)
      OBVIOUS
    <2>3. shown \in TabIds
      BY <1>11, <2>1 DEF Range
    <2>4. /\ new \in Panels /\ new.id = g.id /\ new.tabIds = ids /\ new.activeTabId = shown
      BY <1>6, <1>11, <2>2, <2>3 DEF Group, Panels
    <2>5. Range(ids) \subseteq Range(us)
      BY <1>6, <1>11, <1>12 DEF PanelOk
    <2>6. PanelOk(us, n, new)
      BY <1>6, <1>11, <2>1, <2>4, <2>5 DEF PanelOk
    <2>7. hs = [gs EXCEPT ![gi] = new]
      BY <1>14, <1>19, <2>2 DEF ReplaceAt
    <2>8. /\ hs \in Seq(Panels) /\ DOMAIN hs = DOMAIN gs /\ hs # <<>>
          /\ hs[gi] = new /\ \A i \in DOMAIN gs : i # gi => hs[i] = gs[i]
      BY <1>f, <1>5, <2>4, <2>7
    <2>9. \A i \in DOMAIN hs : PanelOk(us, n, hs[i])
      BY <1>16, <2>6, <2>8
    <2>10. PanelsApart(hs)
      <3> SUFFICES ASSUME NEW i \in DOMAIN gs, NEW j \in DOMAIN gs, i # j
                   PROVE  hs[i].id # hs[j].id /\ Range(hs[i].tabIds) \cap Range(hs[j].tabIds) = {}
        BY <2>8 DEF PanelsApart
      <3>1. gs[i].id # gs[j].id /\ Range(gs[i].tabIds) \cap Range(gs[j].tabIds) = {}
        BY <1>8 DEF PanelsApart
      <3>2. \A x \in DOMAIN gs : hs[x].id = gs[x].id /\ Range(hs[x].tabIds) \subseteq Range(gs[x].tabIds)
        BY <1>2, <1>11, <2>4, <2>8
      <3> QED  BY <3>1, <3>2
    <2>11. Covered(us, hs)
      <3> SUFFICES ASSUME NEW x \in Range(us) PROVE \E i \in DOMAIN hs : x \in Range(hs[i].tabIds)
        BY DEF Covered
      <3>1. CASE x \in Range(ids)
        BY <1>5, <2>4, <2>8, <3>1
      <3>2. CASE x \notin Range(ids)
        <4>1. PICK i \in DOMAIN gs : i # gi /\ x \in Range(gs[i].tabIds)
          BY <1>17, <3>2
        <4> QED  BY <2>8, <4>1
      <3> QED  BY <3>1, <3>2
    <2>12. Whole(us, hs, n)
      BY <1>12, <1>18, <2>8, <2>9, <2>10, <2>11 DEF Whole
    <2>13. active' \in Range(us)
      BY <1>7, <1>12, <1>15, <1>19, <2>1, <2>5
    <2>14. Whole(tabs', groups', nextId') /\ groups' # <<>> /\ active' \in Range(tabs')
      BY <1>4, <1>15, <2>8, <2>12, <2>13
    <2> QED  BY <1>4, <1>f, <1>15, <2>14, LayoutBecomes
  <1>20. CASE ids = <<>>
    <2>0. Range(ids) = {}
      BY <1>11, <1>20, EmptyIs
    <2>1. hs = RemoveAt(gs, gi)
      BY <1>14, <1>20
    <2>2. PICK l \in Nat : l = Len(gs) - 1
      <3>1. Len(gs) - 1 \in Nat
        BY <1>f
      <3> QED  BY <3>1
    <2>3. /\ hs \in Seq(Panels) /\ Len(hs) = l /\ DOMAIN hs = 1 .. l
          /\ DOMAIN gs = 1 .. l + 1 /\ gi \in 1 .. l + 1
          /\ \A i \in 1 .. l : hs[i] = IF i < gi THEN gs[i] ELSE gs[i + 1]
      <3>1. /\ hs \in Seq(Panels) /\ Len(hs) = Len(gs) - 1
            /\ \A i \in 1 .. Len(gs) - 1 : hs[i] = IF i < gi THEN gs[i] ELSE gs[i + 1]
        BY <1>f, <1>5, <2>1, RemoveAtIs
      <3>2. Len(gs) = l + 1
        BY <1>f, <2>2
      <3> QED  BY SMTT(60), <1>f, <1>5, <2>2, <3>1, <3>2
    <2> DEFINE old(i) == IF i < gi THEN i ELSE i + 1
    <2>4. \A i \in DOMAIN hs : old(i) \in DOMAIN gs /\ old(i) # gi /\ hs[i] = gs[old(i)]
      <3> SUFFICES ASSUME NEW i \in 1 .. l
                   PROVE  old(i) \in 1 .. l + 1 /\ old(i) # gi /\ hs[i] = gs[old(i)]
        BY <2>3
      <3>1. old(i) \in 1 .. l + 1 /\ old(i) # gi
        BY <2>2, <2>3
      <3>2. hs[i] = IF i < gi THEN gs[i] ELSE gs[i + 1]
        BY <2>3
      <3> QED  BY <3>1, <3>2
    <2>5. \A i, j \in DOMAIN hs : i # j => old(i) # old(j)
      BY <2>2, <2>3
    <2>6. \A j \in DOMAIN gs : j # gi => \E i \in DOMAIN hs : hs[i] = gs[j]
      <3> SUFFICES ASSUME NEW j \in 1 .. l + 1, j # gi PROVE \E i \in 1 .. l : hs[i] = gs[j]
        BY <2>3
      <3>1. CASE j < gi
        <4>1. j \in 1 .. l
          BY <2>2, <2>3, <3>1
        <4>2. hs[j] = gs[j]
          BY <2>3, <3>1, <4>1
        <4> QED  BY <4>1, <4>2
      <3>2. CASE ~(j < gi)
        <4>1. j - 1 \in 1 .. l /\ ~(j - 1 < gi) /\ (j - 1) + 1 = j
          BY <2>2, <2>3, <3>2
        <4>2. hs[j - 1] = gs[(j - 1) + 1]
          BY <2>3, <4>1
        <4> QED  BY <4>1, <4>2
      <3> QED  BY <3>1, <3>2
    <2> HIDE DEF old
    <2>7. \A i \in DOMAIN hs : PanelOk(us, n, hs[i]) /\ hs[i].activeTabId \in Range(us)
      BY <1>16, <2>4
    <2>8. PanelsApart(hs)
      BY <1>8, <2>4, <2>5 DEF PanelsApart
    <2>9. Covered(us, hs)
      <3> SUFFICES ASSUME NEW x \in Range(us) PROVE \E i \in DOMAIN hs : x \in Range(hs[i].tabIds)
        BY DEF Covered
      <3>1. PICK j \in DOMAIN gs : j # gi /\ x \in Range(gs[j].tabIds)
        BY <1>17, <2>0
      <3> QED  BY <2>6, <3>1
    <2>10. Whole(us, hs, n)
      BY <1>12, <1>18, <2>3, <2>7, <2>8, <2>9 DEF Whole
    <2>11. CASE hs # <<>>
      <3>1. active' \in Range(us)
        <4>1. CASE active # t
          BY <1>7, <1>12, <1>15, <4>1
        <4>2. CASE active = t
          <5>1. active' = hs[AtMost(gi, Len(hs))].activeTabId
            BY <1>15, <1>20, <2>11, <4>2
          <5>2. l # 0
            BY <2>3, <2>11, EmptyIs
          <5>3. AtMost(gi, Len(hs)) \in DOMAIN hs
            BY <2>2, <2>3, <5>2 DEF AtMost
          <5> QED  BY <2>7, <5>1, <5>3
        <4> QED  BY <4>1, <4>2
      <3>2. Whole(tabs', groups', nextId') /\ groups' # <<>> /\ active' \in Range(tabs')
        BY <1>4, <1>15, <2>10, <2>11, <3>1
      <3> QED  BY <1>4, <1>f, <1>15, <3>2, LayoutBecomes
    <2>12. CASE hs = <<>>
      <3>1. Range(us) = {}
        BY <2>9, <2>12 DEF Covered
      <3>2. us = <<>>
        BY <1>12, <3>1, EmptyIs
      <3>3. active = t
        BY <1>7, <1>12, <3>1
      <3>4. active' = NoTab /\ tabs' = <<>> /\ groups' = <<>>
        BY <1>15, <1>20, <2>12, <3>2, <3>3
      <3>5. PICK g0 : g0 = Group(Main, <<>>, NoTab)
        OBVIOUS
      <3>6. (TabGroups)' = <<g0>>
        BY <3>4, <3>5 DEF TabGroups
      <3>e. <<>> \in Seq(TabIds) /\ Range(<<>>) = {} /\ IsInjective(<<>>)
        BY <1>12, <3>1, <3>2
      <3>7. g0 \in Panels /\ g0.id = 0 /\ g0.tabIds = <<>>
        BY <3>5, <3>e DEF Group, Panels, Main
      <3>8. <<g0>> \in Seq(Panels) /\ DOMAIN <<g0>> = {1} /\ <<g0>>[1] = g0
        BY <3>7
      <3>9. PanelOk(<<>>, n, g0)
        BY <1>f, <3>e, <3>7 DEF PanelOk
      <3>10. PanelsApart(<<g0>>) /\ Covered(<<>>, <<g0>>)
        BY <3>e, <3>8 DEF PanelsApart, Covered
      <3>11. Whole(<<>>, <<g0>>, n)
        BY <3>e, <3>8, <3>9, <3>10 DEF Whole
      <3>12. Whole(tabs', (TabGroups)', nextId')
        BY <1>4, <1>15, <3>4, <3>6, <3>11
      <3>13. groups' \in Seq(Panels) /\ tabs' \in Seq(TabIds)
        BY <1>15, <2>3, <1>12
      <3>14. TypeOK'
        BY <1>4, <1>f, <1>15, <3>4, <3>13 DEF TypeOK, Panels
      <3> QED  BY <3>4, <3>12, <3>14 DEF LayoutInv
    <2> QED  BY <2>11, <2>12
  <1> QED  BY <1>19, <1>20

(* The snapshot of a panel. *)
LEMMA SavedIs ==
    ASSUME LayoutInv, NEW i \in DOMAIN TabGroups
    PROVE  LET g == TabGroups[i]
               h == SavedGroup(g)
           IN  /\ h \in Panels /\ h.id = g.id /\ IsInjective(h.tabIds)
               /\ Range(h.tabIds) = Range(g.tabIds) \cap IsQuery
               /\ h.tabIds # <<>> => h.activeTabId \in Range(h.tabIds)
  <1>1. PICK g : g = TabGroups[i]
    OBVIOUS
  <1>2. g \in Panels /\ PanelOk(tabs, nextId, g)
    BY <1>1, PanelFacts
  <1>3. g.tabIds \in Seq(TabIds) /\ g.id \in TabIds \cup {Main} /\ IsInjective(g.tabIds)
    BY <1>2 DEF Panels, PanelOk
  <1>4. PICK ids : ids = Only(g.tabIds, IsQuery)
    OBVIOUS
  <1>5. ids \in Seq(TabIds) /\ IsInjective(ids) /\ Range(ids) = Range(g.tabIds) \cap IsQuery
    BY <1>3, <1>4, OnlyIs
  <1>6. PICK x : x = IF g.activeTabId \in Range(ids) THEN g.activeTabId
                     ELSE IF ids = <<>> THEN NoTab ELSE ids[1]
    OBVIOUS
  <1>7. ids # <<>> => x \in Range(ids)
    <2>1. ids # <<>> => ids[1] \in Range(ids)
      <3>1. ids # <<>> => 1 \in DOMAIN ids
        BY <1>5
      <3> QED  BY <3>1 DEF Range
    <2> QED  BY <1>6, <2>1
  <1>8. x \in TabIds \cup {NoTab}
    <2>1. CASE ids = <<>>
      <3>1. Range(ids) = {}
        BY <1>5, <2>1, EmptyIs
      <3> QED  BY <1>6, <2>1, <3>1
    <2>2. CASE ids # <<>>
      BY <1>5, <1>7, <2>2 DEF Range
    <2> QED  BY <2>1, <2>2
  <1>9. SavedGroup(g) = Group(g.id, ids, x)
    BY <1>4, <1>6 DEF SavedGroup
  <1>10. PICK h : h = Group(g.id, ids, x)
    OBVIOUS
  <1>11. h \in Panels /\ h.id = g.id /\ h.tabIds = ids /\ h.activeTabId = x
    BY <1>3, <1>5, <1>8, <1>10 DEF Group, Panels
  <1> QED  BY <1>1, <1>5, <1>7, <1>9, <1>10, <1>11

(* The workspace is saved and restored. *)
LEMMA ReopenKeeps ==
    ASSUME LayoutInv, Reopen
    PROVE  LayoutInv'
  <1>0. PICK gs : gs = TabGroups
    OBVIOUS
  <1>1. PICK n : n = nextId
    OBVIOUS
  <1>f. /\ gs \in Seq(Panels) /\ Len(gs) \in Nat \ {0} /\ DOMAIN gs = 1 .. Len(gs)
        /\ \A i \in DOMAIN gs : gs[i] \in Panels /\ PanelOk(tabs, n, gs[i])
        /\ tabs \in Seq(TabIds) /\ n \in 1 .. MaxTabs + 1 /\ MaxTabs \in Nat
        /\ kind \in [TabIds -> Kinds] /\ lookup \in BOOLEAN
    BY <1>0, <1>1, PanelFacts
  <1>2. IsInjective(tabs) /\ PanelsApart(gs) /\ Covered(tabs, gs) /\ \A x \in Range(tabs) : x < n
    BY <1>0, <1>1 DEF LayoutInv, Whole
  <1>3. PICK us : us = QueryTabs
    OBVIOUS
  <1>4. us \in Seq(TabIds) /\ IsInjective(us) /\ Range(us) = Range(tabs) \cap IsQuery
    BY <1>f, <1>2, <1>3, OnlyIs DEF QueryTabs
  <1>5. PICK saved : saved = [i \in DOMAIN gs |-> SavedGroup(gs[i])]
    OBVIOUS
  <1>6. ASSUME NEW i \in DOMAIN gs
        PROVE  /\ saved[i] \in Panels /\ saved[i].id = gs[i].id /\ IsInjective(saved[i].tabIds)
               /\ Range(saved[i].tabIds) = Range(gs[i].tabIds) \cap IsQuery
               /\ saved[i].tabIds # <<>> => saved[i].activeTabId \in Range(saved[i].tabIds)
    <2>1. saved[i] = SavedGroup(TabGroups[i]) /\ i \in DOMAIN TabGroups
      BY <1>0, <1>5
    <2> QED  BY <1>0, <2>1, SavedIs
  <1>7. saved \in Seq(Panels) /\ DOMAIN saved = DOMAIN gs
    <2>1. saved = [i \in 1 .. Len(gs) |-> saved[i]]
      BY <1>f, <1>5
    <2> QED  BY <1>f, <1>6, <2>1
  <1>8. PICK hs : hs = Only(saved, {g \in Range(saved) : g.tabIds # <<>>})
    OBVIOUS
  <1>9. IsInjective(saved)
    <2>1. \A i, j \in DOMAIN gs : i # j => saved[i].id # saved[j].id
      BY <1>2, <1>6 DEF PanelsApart
    <2> QED  BY <1>7, <2>1 DEF IsInjective
  <1>10. /\ hs \in Seq(Panels) /\ IsInjective(hs)
         /\ Range(hs) = Range(saved) \cap {g \in Range(saved) : g.tabIds # <<>>}
    BY <1>7, <1>8, <1>9, OnlyIs
  <1>11. \A a \in DOMAIN hs : \E i \in DOMAIN gs : hs[a] = saved[i] /\ saved[i].tabIds # <<>>
    BY <1>7, <1>10 DEF Range
  <1>12. \A i \in DOMAIN gs : saved[i].tabIds # <<>> => \E a \in DOMAIN hs : hs[a] = saved[i]
    BY <1>7, <1>10 DEF Range
  <1>13. /\ RestoreWorkspace([tabs |-> us, tabGroups |-> hs, activeTabIndex |-> AtLeast1(IndexOf(us, active))])
         /\ UNCHANGED lookup
    BY <1>0, <1>3, <1>5, <1>8 DEF Reopen, BuildSnapshot
  <1>14. CASE us = <<>>
    <2>1. /\ n <= MaxTabs /\ tabs' = <<n>> /\ kind' = [kind EXCEPT ![n] = "query"] /\ active' = n
          /\ groups' = <<Group(Main, <<n>>, n)>> /\ nextId' = n + 1
      BY <1>1, <1>13, <1>14 DEF RestoreWorkspace
    <2>2. n \in TabIds /\ n + 1 \in 1 .. MaxTabs + 1 /\ kind' \in [TabIds -> Kinds] /\ n \in Nat
      BY <1>f, <2>1 DEF TabIds, Kinds
    <2>3. <<n>> \in Seq(TabIds) /\ DOMAIN <<n>> = {1} /\ <<n>>[1] = n
      BY <2>2
    <2>4. Range(<<n>>) = {n} /\ IsInjective(<<n>>)
      BY <2>3 DEF Range, IsInjective
    <2>5. PICK g : g = Group(Main, <<n>>, n)
      OBVIOUS
    <2>6. g \in Panels /\ g.id = 0 /\ g.tabIds = <<n>> /\ g.activeTabId = n
      BY <2>2, <2>3, <2>5 DEF Group, Panels, Main
    <2>7. PanelOk(<<n>>, n + 1, g)
      BY <2>2, <2>4, <2>6 DEF PanelOk
    <2>8. <<g>> \in Seq(Panels) /\ DOMAIN <<g>> = {1} /\ <<g>>[1] = g /\ <<g>> # <<>>
      BY <2>6
    <2>9. PanelsApart(<<g>>) /\ Covered(<<n>>, <<g>>)
      BY <2>4, <2>6, <2>8 DEF PanelsApart, Covered
    <2>10. \A x \in Range(<<n>>) : x < n + 1
      BY <2>2, <2>4
    <2>11. Whole(<<n>>, <<g>>, n + 1)
      BY <2>3, <2>4, <2>7, <2>8, <2>9, <2>10 DEF Whole
    <2>12. Whole(tabs', groups', nextId') /\ groups' # <<>> /\ active' \in Range(tabs')
      BY <2>1, <2>4, <2>5, <2>8, <2>11
    <2> QED  BY <1>f, <1>13, <2>1, <2>2, <2>12, LayoutBecomes
  <1>15. CASE us # <<>>
    <2>1. /\ tabs' = us /\ groups' = hs /\ UNCHANGED <<kind, nextId>>
          /\ active' = us[AtMost(AtLeast1(IndexOf(us, active)), Len(us))]
      BY <1>13, <1>15 DEF RestoreWorkspace
    <2>2. active' \in Range(us)
      <3>1. IndexOf(us, active) \in 0 .. Len(us)
        BY <1>4, IndexOfIs
      <3>2. Len(us) \in Nat \ {0} /\ DOMAIN us = 1 .. Len(us)
        BY <1>4, <1>15, EmptyIs
      <3>3. AtMost(AtLeast1(IndexOf(us, active)), Len(us)) \in 1 .. Len(us)
        BY <3>1, <3>2 DEF AtMost, AtLeast1
      <3> QED  BY <2>1, <3>2, <3>3 DEF Range
    <2>3. \A x \in Range(us) : x < n
      BY <1>2, <1>4
    <2>4. ASSUME NEW a \in DOMAIN hs PROVE PanelOk(us, n, hs[a])
      <3>1. PICK i \in DOMAIN gs : hs[a] = saved[i] /\ saved[i].tabIds # <<>>
        BY <1>11
      <3>2. PanelOk(tabs, n, gs[i])
        BY <1>f
      <3> QED  BY <1>4, <1>6, <3>1, <3>2 DEF PanelOk
    <2>5. PanelsApart(hs)
      <3> SUFFICES ASSUME NEW a \in DOMAIN hs, NEW b \in DOMAIN hs, a # b
                   PROVE  hs[a].id # hs[b].id /\ Range(hs[a].tabIds) \cap Range(hs[b].tabIds) = {}
        BY DEF PanelsApart
      <3>1. hs[a] # hs[b]
        BY <1>10 DEF IsInjective
      <3>2. PICK i \in DOMAIN gs : hs[a] = saved[i]
        BY <1>11
      <3>3. PICK j \in DOMAIN gs : hs[b] = saved[j]
        BY <1>11
      <3>4. i # j
        BY <3>1, <3>2, <3>3
      <3>5. gs[i].id # gs[j].id /\ Range(gs[i].tabIds) \cap Range(gs[j].tabIds) = {}
        BY <1>2, <3>4 DEF PanelsApart
      <3> QED  BY <1>6, <3>2, <3>3, <3>5
    <2>6. Covered(us, hs)
      <3> SUFFICES ASSUME NEW x \in Range(us) PROVE \E a \in DOMAIN hs : x \in Range(hs[a].tabIds)
        BY DEF Covered
      <3>1. PICK i \in DOMAIN gs : x \in Range(gs[i].tabIds)
        BY <1>2, <1>4 DEF Covered
      <3>2. x \in Range(saved[i].tabIds)
        BY <1>4, <1>6, <3>1
      <3>3. saved[i].tabIds # <<>>
        <4>1. saved[i].tabIds \in Seq(TabIds)
          BY <1>6 DEF Panels
        <4> QED  BY <3>2, <4>1, EmptyIs
      <3> QED  BY <1>12, <3>2, <3>3
    <2>7. hs # <<>>
      <3>1. Range(us) # {}
        BY <1>4, <1>15, EmptyIs
      <3>2. DOMAIN hs # {}
        BY <2>6, <3>1 DEF Covered
      <3> QED  BY <3>2
    <2>8. Whole(us, hs, n)
      BY <1>4, <1>10, <2>3, <2>4, <2>5, <2>6 DEF Whole
    <2>9. Whole(tabs', groups', nextId') /\ groups' # <<>> /\ active' \in Range(tabs')
      BY <1>1, <2>1, <2>2, <2>7, <2>8
    <2> QED  BY <1>1, <1>f, <1>13, <2>1, <2>9, LayoutBecomes
  <1> QED  BY <1>14, <1>15

(* Every step of the workspace. *)
LEMMA LayoutStep ==
    ASSUME LayoutInv, Next
    PROVE  LayoutInv'
  <1>0. /\ lookup \in BOOLEAN /\ "query" \in Kinds /\ "table-data" \in Kinds
        /\ "routine-definition" \in Kinds
    BY PanelFacts DEF Kinds
  <1>1. CASE NewQueryTab
    BY <1>0, <1>1, AddKeeps DEF NewQueryTab
  <1>2. CASE SplitKey
    <2>1. CASE TabAdded("query", TRUE, NoGroup) /\ UNCHANGED lookup
      BY <1>0, <2>1, AddKeeps
    <2>2. CASE ~lookup /\ lookup' = TRUE /\ UNCHANGED <<tabs, kind, groups, active, nextId>>
      BY <2>2 DEF LayoutInv, TypeOK, TabGroups
    <2> QED  BY <1>2, <2>1, <2>2 DEF SplitKey
  <1>3. CASE SplitLookedUp
    BY <1>0, <1>3, AddKeeps DEF SplitLookedUp
  <1>4. CASE OpenObject
    <2>1. CASE TabAdded("table-data", FALSE, NoGroup)
      BY <1>0, <1>4, <2>1, AddKeeps DEF OpenObject
    <2>2. CASE TabAdded("routine-definition", FALSE, NoGroup)
      BY <1>0, <1>4, <2>2, AddKeeps DEF OpenObject
    <2>3. CASE \E t : ActivateTab(t) /\ UNCHANGED <<tabs, kind, nextId>>
      BY <1>4, <2>3, ActivateKeeps DEF OpenObject
    <2> QED  BY <1>4, <2>1, <2>2, <2>3 DEF OpenObject
  <1>5. CASE \E split \in BOOLEAN : PanelButton(split)
    BY <1>0, <1>5, AddKeeps DEF PanelButton
  <1>6. CASE CloseTab
    BY <1>6, CloseKeeps DEF CloseTab
  <1>7. CASE AddWhenEmpty
    BY <1>0, <1>7, AddKeeps DEF AddWhenEmpty
  <1>8. CASE Reopen
    BY <1>8, ReopenKeeps
  <1>9. CASE \E t \in Range(tabs) : ClickTab(t)
    BY <1>9, ActivateKeeps DEF ClickTab
  <1>10. CASE EnterPanel
    BY <1>10, ActivateKeeps DEF EnterPanel
  <1>11. CASE NavigationKey
    <2>1. ASSUME NEW i \in TabIds, TabByIndex(i) PROVE LayoutInv'
      BY <2>1, ActivateKeeps DEF TabByIndex
    <2>2. ASSUME NEW d \in {1, -1}, CycleTab(d) PROVE LayoutInv'
      BY <2>2, ActivateKeeps DEF CycleTab
    <2>3. ASSUME NEW d \in {1, -1}, CyclePanel(d) PROVE LayoutInv'
      BY <2>3, ActivateKeeps DEF CyclePanel
    <2> QED  BY <1>11, <2>1, <2>2, <2>3 DEF NavigationKey
  <1> QED  BY <1>1, <1>2, <1>3, <1>4, <1>5, <1>6, <1>7, <1>8, <1>9, <1>10, <1>11 DEF Next

(* However tabs are opened, split, closed, saved and restored, every tab   *)
(* is in one panel, every panel shows a tab of its own, and the keyboard   *)
(* is in a tab of the workspace (workspaceStore.ts, persistence.ts).       *)
THEOREM LayoutStaysWhole == ShellSpec => []LayoutIsWhole
  <1>1. ShellInit => LayoutInv
    BY LayoutStarts DEF ShellInit
  <1>2. LayoutInv /\ [ShellNext]_<<part, vars, connVars, settingsVars>> => LayoutInv'
    <2> SUFFICES ASSUME LayoutInv, [ShellNext]_<<part, vars, connVars, settingsVars>>
                 PROVE  LayoutInv'
      OBVIOUS
    <2>1. CASE Next
      BY <2>1, LayoutStep
    <2>2. CASE UNCHANGED vars
      BY <2>2 DEF LayoutInv, TypeOK, TabGroups, vars
    <2>3. Next \/ UNCHANGED vars
      BY DEF ShellNext
    <2> QED  BY <2>1, <2>2, <2>3
  <1>3. LayoutInv => LayoutIsWhole
    BY LayoutImplies
  <1> QED  BY <1>1, <1>2, <1>3, PTL DEF ShellSpec

=============================================================================
