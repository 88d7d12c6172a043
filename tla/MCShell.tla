------------------------------ MODULE MCShell ------------------------------
(***************************************************************************)
(* The stores behind the shell: the layout of one workspace's tabs, the    *)
(* profiles and connections, and the settings.  They share no state, so a  *)
(* behaviour is one of one of them, and the others stay as they began.     *)
(***************************************************************************)
EXTENDS WorkspaceTabs

CONSTANTS MaxProfiles, None, MaxCalls, MaxRestarts, MaxChanges, PeriodIsFree

ASSUME ProfilesAssumption == MaxProfiles \in Nat

VARIABLES part, store, file, keys, work, main, calls, made, list, fetch, editing, rail, order,
          at, previous, restarts, asked, loose,
          mac, added, revision, shortcuts, stored, changes

C == INSTANCE Connections
S == INSTANCE Settings

connVars == <<store, file, keys, work, main, calls, made, list, fetch, editing, rail, order,
              at, previous, restarts, asked, loose>>
settingsVars == <<mac, added, revision, shortcuts, stored, changes>>

ShellInit ==
    /\ Init /\ C!Init /\ S!Init
    /\ part \in {"tabs", "connections", "settings"}
    /\ part # "tabs" => Len(tabs) = 1
    /\ part # "connections" => Len(store) = 1 /\ keys = {}
    /\ part # "settings" => mac /\ added = {}

ShellNext ==
    /\ \/ part = "tabs" /\ Next /\ UNCHANGED <<connVars, settingsVars>>
       \/ part = "connections" /\ C!Next /\ UNCHANGED <<vars, settingsVars>>
       \/ part = "settings" /\ S!Next /\ UNCHANGED <<vars, connVars>>
    /\ UNCHANGED part

ShellSpec == ShellInit /\ [][ShellNext]_<<part, vars, connVars, settingsVars>>

(* Profiles and connections are what the page and the rail show. *)
ConnectionsAreWhole == part = "connections" => C!ConnectionsAreWhole

(* A keystroke means one thing, and shortcuts survive a restart and an     *)
(* upgrade (SettingsPage.tsx, appSettings.ts).                             *)
ShortcutsAreKept == part = "settings" => S!ShortcutsAreKept

=============================================================================
