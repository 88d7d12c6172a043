------------------------------- MODULE Drafts -------------------------------
(***************************************************************************)
(* SQL drafts and saved queries, in memory and in the encrypted snapshot:  *)
(* loading and restoring (persistence.ts), the debounced and the explicit  *)
(* saves, which are written one after the other, the saved query list with *)
(* its rollback (savedQueryStore.ts), the tabs bound to a saved query      *)
(* (WorkspacePage.tsx, syncSavedQueryTabs of workspaceStore.ts), leaving a *)
(* workspace, and the end of the process at any point.                     *)
(*                                                                         *)
(* A workspace belongs to a profile and a database, here a Profile, and    *)
(* has one query tab, which may be empty. Names of saved queries are left  *)
(* out: a rename writes the same list again.                               *)
(***************************************************************************)
EXTENDS Integers, Sequences

CONSTANTS
    Profiles,     \* Profile and database pairs.
    Queries,      \* Ids of saved queries.
    Texts,        \* SQL texts other than the empty one.
    MaxQueue,     \* Bound on the saves waiting to be written.
    MaxOps,       \* Bound on what the user does.
    MaxRestarts,  \* Bound on the ends of the process.
    AnyFails      \* A write may fail while others wait behind it.

ASSUME DraftsAssumption ==
    /\ MaxQueue \in Nat /\ MaxOps \in Nat /\ MaxRestarts \in Nat /\ AnyFails \in BOOLEAN
    /\ Texts # {} /\ "empty" \notin Texts /\ "none" \notin Texts /\ "unbound" \notin Queries

VARIABLES
    disk,      \* The snapshot file: drafts by profile, and the saved queries.
    loaded,    \* loadPromise: "no", "yes" or "failed".
    open,      \* Profiles with a workspace.
    leaving,   \* Profiles whose connection is being closed, saved already.
    draft,     \* sqlDrafts of each profile's tab.
    bound,     \* savedQueryIds of each profile's tab.
    own,       \* History: whose text the draft is, one of Owners.
    entries,   \* savedQueryStore: a function from ids to texts.
    chain,     \* saveChain: the saves to be written, the first one under way.
    timer,     \* The debounced save is due.
    error,     \* persistenceError.
    ops, restarts,
    had,       \* History: the drafts on disk when the process started.
    seen       \* History: profiles opened by this process.

memory == <<loaded, open, leaving, draft, bound, own, entries, chain, timer, error>>
history == <<ops, restarts, had, seen>>
vars == <<disk, memory, history>>

Empty == "empty"
NoQuery == "unbound"
NoDrafts == [sql |-> "none", savedQueryId |-> NoQuery]
NoEntries == [q \in {} |-> Empty]

(* A draft is the user's, the saved query's own text, or such a text that  *)
(* another save has replaced or a failed one has taken back.               *)
Owners == {"user", "entry", "stale"}

TabOf(p) == [sql |-> draft[p], savedQueryId |-> bound[p]]

(* What waits for the outcome of a save: nothing, the query saved from a   *)
(* tab, a change of the list, or the workspace to be left.                 *)
Waiting(kind, p, q, sql, previous, before) ==
    [kind |-> kind, tab |-> p, query |-> q, sql |-> sql, previous |-> previous, before |-> before]
Nobody == "nobody"
Nothing == Waiting("auto", Nobody, NoQuery, Empty, Empty, NoEntries)
Leave(p) == Waiting("leave", p, NoQuery, Empty, Empty, NoEntries)
List(before) == Waiting("list", Nobody, NoQuery, Empty, Empty, before)

UserDoes == ops < MaxOps /\ ops' = ops + 1
Hands(p) == p \in open /\ p \notin leaving /\ \A i \in DOMAIN chain : chain[i].then # Leave(p)

----------------------------------------------------------------------------
(* preloadSnapshot; the snapshot cache is what was read or written last.   *)
Load ==
    /\ loaded = "no"
    /\ \/ loaded' = "yes" /\ entries' = disk.queries /\ UNCHANGED error
       \/ loaded' = "failed" /\ error' = TRUE /\ UNCHANGED entries
    /\ UNCHANGED <<disk, open, leaving, draft, bound, own, chain, timer, history>>

Cached(p) == IF loaded = "yes" THEN disk.drafts[p] ELSE NoDrafts

(* restoreWorkspace when the workspace opens; a restored draft counts as   *)
(* the user's own.                                                         *)
Restored(p) == IF Cached(p) = NoDrafts THEN [sql |-> Empty, savedQueryId |-> NoQuery] ELSE Cached(p)

Open(p) ==
    /\ loaded # "no" /\ p \notin open /\ UserDoes
    /\ open' = open \cup {p} /\ seen' = seen \cup {p}
    /\ draft' = [draft EXCEPT ![p] = Restored(p).sql]
    /\ bound' = [bound EXCEPT ![p] = Restored(p).savedQueryId]
    /\ own' = [own EXCEPT ![p] = "user"]
    /\ timer' = TRUE
    /\ UNCHANGED <<disk, loaded, leaving, entries, chain, error, restarts, had>>

(* Mutated form of BuildSnapshot: only the workspaces that are open. *)
BuildSnapshotOfOpen(list) ==
    [drafts |-> [p \in Profiles |-> IF p \in open THEN TabOf(p) ELSE NoDrafts], queries |-> list]

(* buildSnapshot: profiles without a workspace keep what is cached.        *)
BuildSnapshot(list) ==
    [drafts |-> [p \in Profiles |-> IF p \in open THEN TabOf(p) ELSE Cached(p)], queries |-> list]

----------------------------------------------------------------------------
(* saveWorkspaceNow: refused when the snapshot could not be read, otherwise*)
(* what there is now is queued. `then` says what waits for the outcome.    *)
Save(list, then) ==
    /\ loaded = "yes" /\ Len(chain) < MaxQueue
    /\ chain' = Append(chain, [snap |-> BuildSnapshot(list), then |-> then])
    /\ timer' = FALSE

AutoSave ==
    /\ timer
    /\ \/ Save(entries, Nothing)
       \/ loaded = "failed" /\ timer' = FALSE /\ UNCHANGED chain
    /\ UNCHANGED <<disk, loaded, open, leaving, draft, bound, own, entries, error, history>>

(* savedQueryStore.commit: the list shows the change at once. *)
Commit(list, then) == Save(list, then) /\ entries' = list

(* The editor: every change is a draft, and due to be saved. *)
Type(p, text) ==
    /\ Hands(p) /\ UserDoes /\ draft[p] # text
    /\ draft' = [draft EXCEPT ![p] = text]
    /\ own' = [own EXCEPT ![p] = "user"]
    /\ timer' = TRUE
    /\ UNCHANGED <<disk, loaded, open, leaving, bound, entries, chain, error, restarts, had, seen>>

(* openSqlInNewTab with a saved query, into a tab of its own. *)
OpenSaved(p, q) ==
    /\ Hands(p) /\ UserDoes /\ draft[p] = Empty /\ bound[p] = NoQuery /\ q \in DOMAIN entries
    /\ draft' = [draft EXCEPT ![p] = entries[q]]
    /\ bound' = [bound EXCEPT ![p] = q]
    /\ own' = [own EXCEPT ![p] = "entry"]
    /\ timer' = TRUE
    /\ UNCHANGED <<disk, loaded, open, leaving, entries, chain, error, restarts, had, seen>>

(* closeQueryTabs: the draft goes with its tab, saved or not as the user   *)
(* answered; an empty tab takes its place.                                 *)
CloseTab(p) ==
    /\ Hands(p) /\ UserDoes /\ (draft[p] # Empty \/ bound[p] # NoQuery)
    /\ draft' = [draft EXCEPT ![p] = Empty]
    /\ bound' = [bound EXCEPT ![p] = NoQuery]
    /\ own' = [own EXCEPT ![p] = "user"]
    /\ timer' = TRUE
    /\ UNCHANGED <<disk, loaded, open, leaving, entries, chain, error, restarts, had, seen>>

(* Ids nobody refers to: a new entry has one of its own. *)
Referred ==
    DOMAIN entries \cup DOMAIN disk.queries \cup {bound[p] : p \in Profiles}
      \cup UNION {DOMAIN chain[i].snap.queries : i \in DOMAIN chain}
      \cup {disk.drafts[p].savedQueryId : p \in {x \in Profiles : disk.drafts[x] # NoDrafts}}

(* saveQueryTab: the bound entry is overwritten, otherwise the name given  *)
(* is an existing one's or new.                                            *)
SaveQueryTab(p) ==
    /\ Hands(p) /\ UserDoes /\ draft[p] # Empty
    /\ \E q \in IF bound[p] \in DOMAIN entries THEN {bound[p]} ELSE DOMAIN entries \cup (Queries \ Referred) :
         LET previous == IF q \in DOMAIN entries THEN entries[q] ELSE Empty
             list == [x \in DOMAIN entries \cup {q} |-> IF x = q THEN draft[p] ELSE entries[x]]
         IN  Commit(list, Waiting("query", p, q, draft[p], previous, entries))
    /\ UNCHANGED <<disk, loaded, open, leaving, draft, bound, own, error, restarts, had, seen>>

(* remove and rename of SavedQueriesPanel. *)
RemoveQuery(q) ==
    /\ open # {} /\ UserDoes /\ q \in DOMAIN entries
    /\ Commit([x \in DOMAIN entries \ {q} |-> entries[x]], List(entries))
    /\ UNCHANGED <<disk, loaded, open, leaving, draft, bound, own, error, restarts, had, seen>>

RenameQuery(q) ==
    /\ open # {} /\ UserDoes /\ q \in DOMAIN entries
    /\ Commit(entries, List(entries))
    /\ UNCHANGED <<disk, loaded, open, leaving, draft, bound, own, error, restarts, had, seen>>

(* Mutated form of Disconnect: the connection is closed without waiting for the save. *)
DisconnectUnsaved(p) ==
    /\ Hands(p) /\ UserDoes
    /\ leaving' = leaving \cup {p}
    /\ UNCHANGED <<disk, loaded, open, draft, bound, own, entries, chain, timer, error, restarts, had, seen>>

(* disconnect, changeDatabase: the save comes first. *)
Disconnect(p) ==
    /\ Hands(p) /\ UserDoes
    /\ Save(entries, Leave(p))
    /\ UNCHANGED <<disk, loaded, open, leaving, draft, bound, own, entries, error, restarts, had, seen>>

(* connectionClose answered: drafts and workspace go; or it failed and the *)
(* workspace stays.                                                        *)
Left(p) ==
    /\ p \in leaving
    /\ leaving' = leaving \ {p}
    /\ \/ /\ open' = open \ {p}
          /\ draft' = [draft EXCEPT ![p] = Empty]
          /\ bound' = [bound EXCEPT ![p] = NoQuery]
          /\ own' = [own EXCEPT ![p] = "user"]
       \/ UNCHANGED <<open, draft, bound, own>>
    /\ UNCHANGED <<disk, loaded, entries, chain, timer, error, history>>

----------------------------------------------------------------------------
(* Mutated form of Moves: other tabs keep the text they have. *)
MovesNone(x, p, q, previous) == FALSE

(* syncSavedQueryTabs: tabs that still show the entry's text of before.    *)
Moves(x, p, q, previous) ==
    x # p /\ x \in open /\ bound[x] = q /\ previous # Empty /\ draft[x] = previous

(* The owner of p's text once its saved query has that text, or another.   *)
OwnerAfter(p, same) == CASE same -> "entry" [] ~same /\ own[p] = "user" -> "user" [] OTHER -> "stale"

Saved(p, q, sql, previous) ==
    /\ bound' = IF p \in open THEN [bound EXCEPT ![p] = q] ELSE bound
    /\ draft' = [x \in Profiles |-> IF Moves(x, p, q, previous) THEN sql ELSE draft[x]]
    /\ own' = [x \in Profiles |-> IF x = p THEN OwnerAfter(p, draft[p] = sql)
                                  ELSE IF Moves(x, p, q, previous) THEN "entry" ELSE own[x]]
    /\ timer' = TRUE

(* The first save of the chain is written. *)
Written ==
    /\ chain # <<>>
    /\ LET w == Head(chain)
       IN  /\ disk' = w.snap
           /\ IF w.then.kind = "query" THEN Saved(w.then.tab, w.then.query, w.then.sql, w.then.previous)
              ELSE UNCHANGED <<bound, draft, own, timer>>
           /\ leaving' = IF w.then.kind = "leave" THEN leaving \cup {w.then.tab} ELSE leaving
    /\ chain' = Tail(chain) /\ error' = FALSE
    /\ UNCHANGED <<loaded, open, entries, history>>

(* The list as it was before the commit that failed. *)
Rollback(then) ==
    IF then.kind \in {"query", "list"} THEN then.before ELSE entries

(* Text of a save that failed stays in its tabs.                           *)
WriteFails ==
    /\ chain # <<>> /\ (AnyFails \/ Len(chain) = 1)
    /\ entries' = Rollback(Head(chain).then)
    /\ own' = [p \in Profiles |->
                 IF own[p] = "entry" /\ bound[p] \in DOMAIN entries' /\ draft[p] # entries'[bound[p]]
                 THEN "stale" ELSE own[p]]
    /\ chain' = Tail(chain) /\ error' = TRUE
    /\ UNCHANGED <<disk, loaded, open, leaving, draft, bound, timer, history>>

(* The process ends, a save under way included, and is started again.      *)
Restart ==
    /\ restarts < MaxRestarts
    /\ restarts' = restarts + 1
    /\ loaded' = "no" /\ open' = {} /\ leaving' = {} /\ entries' = NoEntries /\ chain' = <<>>
    /\ draft' = [p \in Profiles |-> Empty] /\ bound' = [p \in Profiles |-> NoQuery]
    /\ own' = [p \in Profiles |-> "user"]
    /\ timer' = FALSE /\ error' = FALSE
    /\ had' = disk.drafts /\ seen' = {}
    /\ UNCHANGED <<disk, ops>>

----------------------------------------------------------------------------
(* The first start: no snapshot yet, or one with drafts of every profile.  *)
Init ==
    /\ disk \in {[drafts |-> [p \in Profiles |-> NoDrafts], queries |-> NoEntries],
                 [drafts |-> [p \in Profiles |-> [sql |-> CHOOSE x \in Texts : TRUE, savedQueryId |-> NoQuery]],
                  queries |-> NoEntries]}
    /\ loaded = "no" /\ open = {} /\ leaving = {} /\ entries = NoEntries /\ chain = <<>>
    /\ draft = [p \in Profiles |-> Empty] /\ bound = [p \in Profiles |-> NoQuery]
    /\ own = [p \in Profiles |-> "user"]
    /\ timer = FALSE /\ error = FALSE
    /\ ops = 0 /\ restarts = 0 /\ had = disk.drafts /\ seen = {}

Next ==
    \/ Load \/ AutoSave \/ Written \/ WriteFails \/ Restart
    \/ \E p \in Profiles :
         \/ Open(p) \/ CloseTab(p) \/ SaveQueryTab(p) \/ Disconnect(p) \/ Left(p)
         \/ \E text \in Texts : Type(p, text)
         \/ \E q \in Queries : OpenSaved(p, q)
    \/ \E q \in Queries : RemoveQuery(q) \/ RenameQuery(q)

Spec == Init /\ [][Next]_vars

----------------------------------------------------------------------------
(* Drafts of a profile that was not opened are on disk as they were when   *)
(* the process started, whatever is saved, and also when the snapshot      *)
(* could not be read (buildSnapshot, loadFailed).                          *)
UnopenedKeepsDrafts == \A p \in Profiles \ seen : disk.drafts[p] = had[p]

Quiet == loaded = "yes" /\ chain = <<>> /\ ~timer

(* With nothing queued or due, the disk holds the list of saved queries    *)
(* and, unless an error is displayed, the draft and binding of every open  *)
(* tab: each change of either leads to a save.                             *)
QuietMeansSaved ==
    Quiet => /\ entries = disk.queries
             /\ ~error => \A p \in open : disk.drafts[p] = TabOf(p)

(* Drafts survive the process: those of profiles not opened, and all of    *)
(* them once the saves that are queued or due are over.                    *)
DraftsSurvive == UnopenedKeepsDrafts /\ QuietMeansSaved

(* "Saving in one of them used to leave the others showing text the entry  *)
(* no longer held" (workspaceStore.ts:272): once nothing is queued, a tab  *)
(* bound to a saved query shows its text, or edits not saved to it yet, or *)
(* what the text was before another tab's save that crossed this one's.    *)
BoundTabsFollow ==
    chain = <<>> => \A p \in open : (bound[p] \in DOMAIN entries /\ own[p] = "entry") => draft[p] = entries[bound[p]]

(* A save moves another tab only from the text the entry had before: the   *)
(* user's own edits are never replaced.                                    *)
OwnEditsKept ==
    [][\A p \in Profiles : (p \in open \cap open' /\ draft'[p] # draft[p] /\ ops' = ops) =>
         own[p] # "user" \/ (bound[p] = Head(chain).then.query /\ draft[p] = Head(chain).then.previous)]_vars

(* The user's own text in a workspace that is left is on disk by then.     *)
LeavingKeepsDrafts ==
    [][\A p \in open \ open' : (restarts' = restarts /\ own[p] = "user") => disk.drafts[p].sql = draft[p]]_vars

(* No step takes away what the user typed: not the save of another tab,    *)
(* and not leaving the workspace (syncSavedQueryTabs, disconnect).         *)
EditsAreKept == OwnEditsKept /\ LeavingKeepsDrafts

(* "Snapshot writes can fail (locked keychain); roll back so the list      *)
(* matches disk" (savedQueryStore.ts:57): once nothing is queued.          *)
ListMatchesDisk == (loaded = "yes" /\ chain = <<>>) => entries = disk.queries

=============================================================================
