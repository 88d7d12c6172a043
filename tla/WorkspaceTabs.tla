--------------------------- MODULE WorkspaceTabs ---------------------------
(***************************************************************************)
(* The tab layout of one workspace: the reducer of workspaceStore.ts, the  *)
(* keys and buttons of WorkspacePage.tsx that dispatch to it, and the way  *)
(* the layout goes through the snapshot (persistence.ts) when a connection *)
(* is left and opened again.  A workspace is a list of tabs, shown in      *)
(* panels (tab groups) that each show one tab; one tab has the keyboard.   *)
(*                                                                         *)
(* Tab ids are UUIDs in the code: here 1, 2, ... in the order of creation, *)
(* never used twice.  The group "main" has id 0, a group made by a split   *)
(* the id of its first tab.                                                *)
(***************************************************************************)
EXTENDS Integers, Sequences, FiniteSets, SequencesExt, Lists

CONSTANT MaxTabs      \* Bound on the tabs created.

ASSUME MaxTabsAssumption == MaxTabs \in Nat \ {0}

VARIABLES
    tabs,      \* The tabs' ids in the order of their creation.
    kind,      \* What each tab is.
    groups,    \* state.tabGroups; the empty sequence where it is undefined.
    active,    \* state.activeTabId, or NoTab.
    nextId,    \* The id the next tab gets.
    lookup     \* A findTable of the split key is under way.

vars == <<tabs, kind, groups, active, nextId, lookup>>

NoTab == 0
Main == 0
NoGroup == -1
TabIds == 1 .. MaxTabs
Kinds == {"query", "table-data", "routine-definition"}

Group(id, ids, shown) == [id |-> id, tabIds |-> ids, activeTabId |-> shown]

(* getTabGroups: without pane data everything is in one group. *)
TabGroups == IF groups = <<>> THEN <<Group(Main, tabs, active)>> ELSE groups

(* Array.findIndex, from 1; 0 when no group fits. *)
GroupOf(t) == SelectInSeq(TabGroups, LAMBDA g : t \in Range(g.tabIds))
GroupNamed(id) == SelectInSeq(TabGroups, LAMBDA g : g.id = id)
IndexOf(s, x) == SelectInSeq(s, LAMBDA y : y = x)
AtLeast1(i) == IF i = 0 THEN 1 ELSE i
AtMost(i, n) == IF i < n THEN i ELSE n
Without(s, t) == Only(s, Range(s) \ {t})

----------------------------------------------------------------------------
(* activateTab of the reducer. *)
ActivateTab(t) ==
    IF active = t \/ t \notin Range(tabs)
    THEN UNCHANGED <<active, groups>>
    ELSE /\ active' = t
         /\ groups' = [i \in DOMAIN TabGroups |->
                           IF t \in Range(TabGroups[i].tabIds)
                           THEN [TabGroups[i] EXCEPT !.activeTabId = t]
                           ELSE TabGroups[i]]

(* TAB_ADDED: into a named group, or the one with the keyboard, or next to it. *)
TabAdded(k, split, groupId) ==
    LET gi == AtLeast1(IF groupId # NoGroup THEN GroupNamed(groupId) ELSE GroupOf(active))
        g == TabGroups[gi]
    IN  /\ nextId <= MaxTabs
        /\ tabs' = Append(tabs, nextId)
        /\ kind' = [kind EXCEPT ![nextId] = k]
        /\ active' = nextId
        /\ groups' = IF split /\ tabs # <<>>
                     THEN InsertAt(TabGroups, gi + 1, Group(nextId, <<nextId>>, nextId))
                     ELSE ReplaceAt(TabGroups, gi, Group(g.id, Append(g.tabIds, nextId), nextId))
        /\ nextId' = nextId + 1

(* Mutated form of TabClosed: the panel keeps showing the tab that was closed. *)
TabClosedStillShown(t) ==
    LET gi == GroupOf(t)
        ids == Without(TabGroups[gi].tabIds, t)
        rest == IF ids = <<>> THEN RemoveAt(TabGroups, gi)
                ELSE ReplaceAt(TabGroups, gi, [TabGroups[gi] EXCEPT !.tabIds = ids])
    IN  /\ gi # 0
        /\ tabs' = Without(tabs, t)
        /\ groups' = rest
        /\ active' = IF active # t THEN active
                     ELSE IF rest = <<>> THEN NoTab ELSE rest[1].tabIds[1]
        /\ UNCHANGED <<kind, nextId>>

(* TAB_CLOSED: the panel turns to the neighbour, an emptied panel goes away. *)
TabClosed(t) ==
    LET gi == GroupOf(t)
        g == TabGroups[gi]
        ids == Without(g.tabIds, t)
        neighbour == ids[AtMost(IndexOf(g.tabIds, t), Len(ids))]
        shown == IF g.activeTabId = t THEN neighbour ELSE g.activeTabId
        rest == IF ids = <<>> THEN RemoveAt(TabGroups, gi)
                ELSE ReplaceAt(TabGroups, gi, Group(g.id, ids, shown))
    IN  /\ gi # 0
        /\ tabs' = Without(tabs, t)
        /\ groups' = rest
        /\ active' = IF active # t THEN active
                     ELSE IF ids # <<>> THEN shown
                     ELSE IF rest # <<>> THEN rest[AtMost(gi, Len(rest))].activeTabId
                     ELSE NoTab
        /\ UNCHANGED <<kind, nextId>>

----------------------------------------------------------------------------
(* The snapshot of the layout: only query tabs are kept (buildSnapshot). *)
IsQuery == {t \in TabIds : kind[t] = "query"}
QueryTabs == Only(tabs, IsQuery)

SavedGroup(g) ==
    LET ids == Only(g.tabIds, IsQuery)
    IN  Group(g.id, ids, IF g.activeTabId \in Range(ids) THEN g.activeTabId
                         ELSE IF ids = <<>> THEN NoTab ELSE ids[1])

BuildSnapshot ==
    LET saved == [i \in DOMAIN TabGroups |-> SavedGroup(TabGroups[i])] IN
    [tabs |-> QueryTabs,
     tabGroups |-> Only(saved, {g \in Range(saved) : g.tabIds # <<>>}),
     activeTabIndex |-> AtLeast1(IndexOf(QueryTabs, active))]

(* restoreWorkspace, or the empty workspace with one new tab. *)
RestoreWorkspace(conn) ==
    IF conn.tabs = <<>>
    THEN /\ nextId <= MaxTabs
         /\ tabs' = <<nextId>>
         /\ kind' = [kind EXCEPT ![nextId] = "query"]
         /\ active' = nextId
         /\ groups' = <<Group(Main, <<nextId>>, nextId)>>
         /\ nextId' = nextId + 1
    ELSE /\ tabs' = conn.tabs
         /\ active' = conn.tabs[AtMost(conn.activeTabIndex, Len(conn.tabs))]
         /\ groups' = conn.tabGroups
         /\ UNCHANGED <<kind, nextId>>

(* The database is switched and switched back, the connection reconnected, *)
(* or closed and opened again: the workspace is saved, deleted, restored.  *)
Reopen == RestoreWorkspace(BuildSnapshot) /\ UNCHANGED lookup

----------------------------------------------------------------------------
(* The keys of the workspace (onKey) and its buttons. *)
NewQueryTab == TabAdded("query", FALSE, NoGroup) /\ UNCHANGED lookup

(* "+" and the split button of a panel name their group. *)
PanelButton(split) ==
    \E i \in DOMAIN TabGroups :
        TabAdded("query", split, TabGroups[i].id) /\ UNCHANGED lookup

(* The split key: a selected name is looked up first. *)
SplitKey ==
    \/ TabAdded("query", TRUE, NoGroup) /\ UNCHANGED lookup
    \/ ~lookup /\ lookup' = TRUE /\ UNCHANGED <<tabs, kind, groups, active, nextId>>

(* findTable answers, perhaps after the workspace was opened anew. *)
SplitLookedUp ==
    /\ lookup
    /\ \E k \in {"query", "table-data"} : TabAdded(k, TRUE, NoGroup)
    /\ lookup' = FALSE

(* openObject: a table opens a tab each time, a routine has one tab. *)
OpenObject ==
    /\ UNCHANGED lookup
    /\ \/ TabAdded("table-data", FALSE, NoGroup)
       \/ LET at == SelectInSeq(tabs, LAMBDA t : kind[t] = "routine-definition")
          IN  IF at = 0 THEN TabAdded("routine-definition", FALSE, NoGroup)
              ELSE ActivateTab(tabs[at]) /\ UNCHANGED <<tabs, kind, nextId>>

(* closeQueryTabs has closed the backend's side of the tab.  (The bound: the *)
(* last tab goes only while there is an id for the tab that replaces it.)    *)
CloseTab ==
    /\ Len(tabs) > 1 \/ nextId <= MaxTabs
    /\ \E t \in Range(tabs) : TabClosed(t)
    /\ UNCHANGED lookup

(* A click on a tab of the strip. *)
ClickTab(t) == ActivateTab(t) /\ UNCHANGED <<tabs, kind, nextId, lookup>>

(* A pointer or the focus goes into a panel: the tab it shows gets the keyboard. *)
EnterPanel ==
    \E i \in DOMAIN TabGroups :
        /\ TabGroups[i].activeTabId \in Range(tabs)
        /\ ActivateTab(TabGroups[i].activeTabId)
        /\ UNCHANGED <<tabs, kind, nextId, lookup>>

(* TAB_ACTIVATED_BY_INDEX: a number key picks a tab of the panel with the keyboard. *)
TabByIndex(i) ==
    /\ GroupOf(active) # 0
    /\ i \in DOMAIN TabGroups[GroupOf(active)].tabIds
    /\ ActivateTab(TabGroups[GroupOf(active)].tabIds[i])
    /\ UNCHANGED <<tabs, kind, nextId, lookup>>

(* Adding to an index of 1 .. n and wrapping around. *)
Wrapped(i, direction, n) == ((i - 1 + direction + n) % n) + 1

(* TAB_CYCLED runs through the tabs of all the panels in order. *)
CycleTab(direction) ==
    LET ids == FlattenSeq([i \in DOMAIN TabGroups |-> TabGroups[i].tabIds])
    IN  /\ ids # <<>>
        /\ ActivateTab(ids[Wrapped(AtLeast1(IndexOf(ids, active)), direction, Len(ids))])
        /\ UNCHANGED <<tabs, kind, nextId, lookup>>

(* PANEL_CYCLED goes to the tab the next panel shows. *)
CyclePanel(direction) ==
    LET g == TabGroups[Wrapped(AtLeast1(GroupOf(active)), direction, Len(TabGroups))]
        t == IF g.activeTabId # NoTab THEN g.activeTabId
             ELSE IF g.tabIds # <<>> THEN g.tabIds[1] ELSE NoTab
    IN  /\ t # NoTab
        /\ ActivateTab(t)
        /\ UNCHANGED <<tabs, kind, nextId, lookup>>

(* The keys of onKey that only move the keyboard. *)
NavigationKey ==
    \/ \E i \in TabIds : TabByIndex(i)
    \/ \E d \in {1, -1} : CycleTab(d) \/ CyclePanel(d)

(* The effect that keeps a workspace from being empty. *)
AddWhenEmpty == tabs = <<>> /\ TabAdded("query", FALSE, NoGroup) /\ UNCHANGED lookup

----------------------------------------------------------------------------
(* A first connection, or drafts of a version that saved no panels. *)
Init ==
    /\ \E n \in 1 .. AtMost(2, MaxTabs) :
         /\ tabs = [i \in 1 .. n |-> i]
         /\ nextId = n + 1
         /\ active \in 1 .. n
         /\ groups = <<>>
    /\ kind = [t \in TabIds |-> "query"]
    /\ lookup = FALSE

Next ==
    \/ NewQueryTab \/ SplitKey \/ SplitLookedUp \/ OpenObject
    \/ \E split \in BOOLEAN : PanelButton(split)
    \/ CloseTab \/ AddWhenEmpty \/ Reopen
    \/ \E t \in Range(tabs) : ClickTab(t)
    \/ EnterPanel
    \/ NavigationKey

Spec == Init /\ [][Next]_vars

----------------------------------------------------------------------------
TypeOK ==
    /\ tabs \in Seq(TabIds)
    /\ kind \in [TabIds -> Kinds]
    /\ groups \in Seq([id : TabIds \cup {Main}, tabIds : Seq(TabIds),
                       activeTabId : TabIds \cup {NoTab}])
    /\ active \in TabIds \cup {NoTab}
    /\ nextId \in 1 .. MaxTabs + 1
    /\ lookup \in BOOLEAN

(* Every tab is in exactly one panel, once, no panel is empty and no two   *)
(* panels share an id: whatever was opened, split, closed and restored, no *)
(* tab becomes unreachable and the panels' buttons address their own.      *)
GroupsPartitionTabs ==
    /\ IsInjective(tabs)
    /\ Range(tabs) = UNION {Range(TabGroups[i].tabIds) : i \in DOMAIN TabGroups}
    /\ \A i \in DOMAIN TabGroups :
         IsInjective(TabGroups[i].tabIds) /\ (tabs # <<>> => TabGroups[i].tabIds # <<>>)
    /\ \A i, j \in DOMAIN TabGroups : i # j =>
         /\ TabGroups[i].id # TabGroups[j].id
         /\ Range(TabGroups[i].tabIds) \cap Range(TabGroups[j].tabIds) = {}

(* Every panel shows a tab of its own, and the keyboard is in a tab of the *)
(* workspace, so run, cancel, save and close always have a target.         *)
PanelsShowTheirTabs ==
    tabs # <<>> =>
        /\ active \in Range(tabs)
        /\ \A i \in DOMAIN TabGroups : TabGroups[i].activeTabId \in Range(TabGroups[i].tabIds)

(* The layout of a workspace is whole: its lists keep their shape and agree *)
(* with each other, and every panel has something of its own to show.      *)
LayoutIsWhole == TypeOK /\ GroupsPartitionTabs /\ PanelsShowTheirTabs

(* The tab with the keyboard is the one its panel shows, so that the tool  *)
(* bar runs what the user sees ("returns the caret to the pane, tab and    *)
(* offset the connection was left in", WorkspacePage.test.tsx:938).        *)
ActiveIsShown ==
    \A i \in DOMAIN TabGroups :
        active \in Range(TabGroups[i].tabIds) => TabGroups[i].activeTabId = active

=============================================================================
