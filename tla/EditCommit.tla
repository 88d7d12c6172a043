---------------------------- MODULE EditCommit ----------------------------
(***************************************************************************)
(* Saving edits of one result tab: the edit buffer and the save dialog in    *)
(* the webview (editStore.ts, EditBar.tsx, saveChanges.ts), the commands      *)
(* that preview and commit a change set (edit_service.rs) on the shared       *)
(* control connection (metadata_service.rs), and the offset from which a      *)
(* Table Data result is continued (large_values.rs).  The table itself, its   *)
(* row and table locks and its other writers are PostgreSQL's, as the code    *)
(* relies on them.                                                           *)
(*                                                                         *)
(* A row has a key, a version (xmin) and a value: the columns on display.    *)
(* A save is identified by its number s, from the request for a preview to   *)
(* the end of its commit; the number is also its change set id.              *)
(***************************************************************************)
EXTENDS Integers, Sequences, FiniteSets, SequencesExt

CONSTANTS
    Saves,           \* bound: saves ever started (1..n)
    Keys, Vals,      \* primary keys (numbers, in the order of ORDER BY) and values
    InitialKeys, InitialVal,   \* what the table holds when it is first shown
    None,
    PageSize,        \* rows of a Table Data page
    MaxPending,      \* change sets kept by the core
    LockModes,       \* "xmin": Table Data; "displayed": the result of a query
    InsertVals,      \* values of new rows
    OtherKinds,      \* what other sessions do to the table
    MaxDrafts,       \* bound: drafts at one time
    MaxTurns,        \* bound: changes by other sessions, save bars taken off the screen,
                     \* queries of the result and changes of database, together
    MaxSwitches      \* bound: changes of database

ASSUME EditAssumption ==
    /\ Saves \subseteq Nat \ {0} /\ Keys \subseteq Nat \ {0} /\ IsFiniteSet(Keys) /\ InitialKeys \subseteq Keys
    /\ InitialVal \in Vals
    /\ None \notin Saves
    /\ {PageSize, MaxPending} \subseteq Nat \ {0}
    /\ {MaxDrafts, MaxTurns, MaxSwitches} \subseteq Nat
    /\ LockModes \subseteq {"xmin", "displayed"} /\ InsertVals \subseteq Vals
    /\ OtherKinds \subseteq {"update", "delete", "insert", "alter"}

VARIABLES
    table, schema,   \* the rows, and a number for the shape, of the table in each database
    tx,              \* the transaction of a save on the server
    history,         \* every row ever committed
    database,        \* ws.profile.database, which the control connection is to
    store,           \* the result's entry in AppState.large_values
    changeSets,      \* AppState.change_sets
    offset,          \* TablePaging.next_offset
    step, req,       \* where a save is, and what it consists of
    done,            \* rows the statements of a commit returned
    event, clash,    \* its terminal event, and the row a Conflict event is about
    lockMode,        \* "xmin": Table Data; "displayed": a query's result
    twice,           \* history: saves that change one row in two displayed copies of it
    grid, gen,       \* resultStore rows, and a number for the identity of the array
    gridDb,          \* the database the rows came from
    status, more,    \* its status and hasMoreRows
    updates, deletes, inserts, \* editStore: the drafts
    locked,          \* editStore: the lock on the drafts
    mounted, mount,  \* is a save bar on screen, and which one
    shown, conflict, \* the save whose preview, and the conflicts, the bar displays
    switching,       \* how far WorkspacePage.changeDatabase is: "no", "asked", "switched"
    turns            \* used up of MaxTurns

serverVars == <<table, schema, tx, history>>
coreVars == <<database, store, offset>>
saveVars == <<req, done, event, clash>>
gridVars == <<grid, gen, gridDb, status, more>>
draftVars == <<updates, deletes, inserts>>
barVars == <<mounted, mount, shown, conflict>>
userVars == <<switching, lockMode, twice, turns>>
vars == <<serverVars, coreVars, changeSets, step, saveVars, gridVars, draftVars, locked,
          barVars, userVars>>

Databases == 1..(MaxSwitches + 1)

\* Versions: 0 at first, then the number of the save, or minus that of the turn, that wrote it.
Row == [key : Keys, ver : Int, val : Vals]
Plan == [op : {"delete", "update", "insert"}, at : Nat, seen : SUBSET Row, val : Vals]

Steps == {"unused", "sent", "named", "checked", "kept", "refused", "shown",
          "commit", "taken", "running", "ended", "done"}
Committing == {"commit", "taken", "running", "ended"}
Previewing == {"sent", "named", "checked", "kept", "refused"}

NoSave == [mount |-> 0, plans |-> <<>>, origin |-> 1,
           database |-> 1, schema |-> 0, rows |-> 0, results |-> 0]
NoTx == [state |-> "none", db |-> 1, del |-> {}, add |-> {}]
NoClash == [at |-> 0, current |-> {}]

Turn == turns < MaxTurns /\ turns' = turns + 1

\* A finite set of numbers in ascending order, and a sequence without some positions.
Ascending(nums) ==
    CHOOSE f \in [1..Cardinality(nums) -> nums] : \A i, j \in DOMAIN f : i < j => f[i] < f[j]
Without(s, ats) ==
    LET keep == Ascending(DOMAIN s \ ats) IN [i \in DOMAIN keep |-> s[keep[i]]]

-----------------------------------------------------------------------------
(* The database server. *)

Active(s) == tx[s].state \in {"open", "committing"}

\* Rows a transaction wrote are locked until it ends; so are its keys.
Free(s, k) == \A o \in Saves \ {s} :
    Active(o) /\ tx[o].db = tx[s].db => \A r \in tx[o].del \cup tx[o].add : r.key # k
FreeForOthers(k) == \A o \in Saves :
    Active(o) /\ tx[o].db = database => \A r \in tx[o].del \cup tx[o].add : r.key # k

\* What a statement of the transaction sees: the committed rows and its own writes.
View(s) == (table[tx[s].db] \ tx[s].del) \cup tx[s].add

OtherChanges(gone, come) ==
    /\ Turn
    /\ table' = [table EXCEPT ![database] = (@ \ gone) \cup come]
    /\ history' = history \cup come
    /\ UNCHANGED <<schema, tx, coreVars, changeSets, step, saveVars, gridVars, draftVars,
                   locked, barVars, switching, lockMode, twice>>

OtherUpdates(r, v) ==
    /\ "update" \in OtherKinds
    /\ r \in table[database] /\ FreeForOthers(r.key)
    /\ OtherChanges({r}, {[r EXCEPT !.ver = -turns', !.val = v]})

OtherDeletes(r) ==
    /\ "delete" \in OtherKinds
    /\ r \in table[database] /\ FreeForOthers(r.key)
    /\ OtherChanges({r}, {})

OtherInserts(k, v) ==
    /\ "insert" \in OtherKinds
    /\ FreeForOthers(k) /\ \A r \in table[database] : r.key # k
    /\ OtherChanges({}, {[key |-> k, ver |-> -turns', val |-> v]})

\* DDL waits for the table lock of every transaction that writes the table.
OtherAlters ==
    /\ "alter" \in OtherKinds
    /\ Turn
    /\ \A s \in Saves : ~(Active(s) /\ tx[s].db = database)
    /\ schema' = [schema EXCEPT ![database] = @ + 1]
    /\ UNCHANGED <<table, tx, history, coreVars, changeSets, step, saveVars, gridVars,
                   draftVars, locked, barVars, switching, lockMode, twice>>

ServerCommits(s) ==
    /\ tx[s].state = "committing"
    /\ tx' = [tx EXCEPT ![s].state = "committed"]
    /\ table' = [table EXCEPT ![tx[s].db] = (@ \ tx[s].del) \cup tx[s].add]
    /\ history' = history \cup tx[s].add
    /\ UNCHANGED <<schema, coreVars, changeSets, step, saveVars, gridVars,
                   draftVars, locked, barVars, userVars>>

\* A failing COMMIT (deferred constraint, lost on its way), or the end of an
\* abandoned connection.
ServerAborts(s) ==
    /\ \/ tx[s].state = "committing"
       \/ tx[s].state = "open" /\ step[s] \in {"ended", "done"}
    /\ tx' = [tx EXCEPT ![s] = NoTx]
    /\ UNCHANGED <<table, schema, history, coreVars, changeSets, step, saveVars,
                   gridVars, draftVars, locked, barVars, userVars>>

-----------------------------------------------------------------------------
(* changes_preview *)

ControlFree == \A s \in Saves : step[s] # "running"

Goes(s, to) == step' = [step EXCEPT ![s] = to]

\* A save that came to nothing is forgotten.
Drops(s) ==
    /\ Goes(s, "done")
    /\ req' = [req EXCEPT ![s] = NoSave] /\ done' = [done EXCEPT ![s] = <<>>]
    /\ event' = [event EXCEPT ![s] = "none"] /\ clash' = [clash EXCEPT ![s] = NoClash]

PreviewNames(s) ==
    /\ step[s] = "sent"
    /\ Goes(s, "named")
    /\ req' = [req EXCEPT ![s].database = database]
    /\ UNCHANGED <<serverVars, coreVars, changeSets, done, event, clash, gridVars, draftVars,
                   locked, barVars, userVars>>

\* get_table answers, then the result must still be there and not be running.
PreviewReads(s) ==
    /\ step[s] = "named" /\ ControlFree
    /\ Goes(s, IF store /\ status # "running" THEN "checked" ELSE "refused")
    /\ req' = [req EXCEPT ![s].schema = schema[database]]
    /\ UNCHANGED <<serverVars, coreVars, changeSets, done, event, clash, gridVars, draftVars,
                   locked, barVars, userVars>>

PreviewFails(s) ==
    /\ step[s] \in {"sent", "named"}
    /\ Goes(s, "refused")
    /\ UNCHANGED <<serverVars, coreVars, changeSets, saveVars, gridVars, draftVars, locked,
                   barVars, userVars>>

PreviewKeeps(s) ==
    /\ step[s] = "checked"
    /\ \E live \in SUBSET changeSets :     \* those that have not expired
       IF Cardinality(live) >= MaxPending
       THEN changeSets' = live /\ Goes(s, "refused")
       ELSE changeSets' = live \cup {s} /\ Goes(s, "kept")
    /\ UNCHANGED <<serverVars, coreVars, saveVars, gridVars, draftVars, locked,
                   barVars, userVars>>

-----------------------------------------------------------------------------
(* changes_commit *)

Ends(s, outcome) == Goes(s, "ended") /\ event' = [event EXCEPT ![s] = outcome]

CommitTakes(s) ==
    /\ step[s] = "commit"
    /\ changeSets' = changeSets \ {s}
    /\ \/ s \in changeSets /\ store /\ Goes(s, "taken") /\ UNCHANGED event
       \/ Ends(s, "failed")    \* swept, expired, or the result was released
    /\ req' = [req EXCEPT ![s].results = gen]
    /\ UNCHANGED <<serverVars, coreVars, done, clash, gridVars, draftVars, locked,
                   barVars, userVars>>

\* Mutated form of commit: the database is not compared.
CommitBeginsAnywhere(s) ==
    /\ step[s] = "taken" /\ ControlFree
    /\ schema[database] = req[s].schema
    /\ Goes(s, "running")
    /\ tx' = [tx EXCEPT ![s] = [NoTx EXCEPT !.state = "open", !.db = database]]
    /\ UNCHANGED <<table, schema, history, coreVars, changeSets, saveVars, gridVars,
                   draftVars, locked, barVars, userVars>>

\* with_control_until, SELECT current_database, BEGIN, LOCK TABLE and the check of
\* the relation and its columns.
CommitBegins(s) ==
    /\ step[s] = "taken" /\ ControlFree
    /\ database = req[s].database
    /\ schema[database] = req[s].schema
    /\ Goes(s, "running")
    /\ tx' = [tx EXCEPT ![s] = [NoTx EXCEPT !.state = "open", !.db = database]]
    /\ UNCHANGED <<table, schema, history, coreVars, changeSets, saveVars, gridVars,
                   draftVars, locked, barVars, userVars>>

\* The control connection is busy, gone or to another database, the table changed,
\* or none of this was answered in time.
CommitRefused(s) ==
    /\ step[s] = "taken"
    /\ \E outcome \in {"failed", "unknown"} : Ends(s, outcome)
    /\ UNCHANGED <<serverVars, coreVars, changeSets, req, done, clash, gridVars, draftVars,
                   locked, barVars, userVars>>

NextPlan(s) == req[s].plans[Len(done[s]) + 1]
Running(s) == step[s] = "running" /\ tx[s].state = "open"
HasPlan(s) == Running(s) /\ Len(done[s]) < Len(req[s].plans)

\* where_clause: the key and the version, or the key and the displayed values.
SameVersion(r, seen) == IF lockMode = "xmin" THEN r.ver = seen.ver ELSE r.val = seen.val
\* Mutated form of where_clause: the key alone.
MatchingKey(s, p) == {r \in View(s) : \E o \in p.seen : r.key = o.key}

Matching(s, p) ==
    {r \in View(s) : \E o \in p.seen : r.key = o.key /\ SameVersion(r, o)}

Writes(s, gone, come) ==
    /\ tx' = [tx EXCEPT ![s].del = @ \cup (gone \cap table[tx[s].db]),
                        ![s].add = (@ \ gone) \cup come]
    /\ done' = [done EXCEPT ![s] = Append(@, [op |-> NextPlan(s).op, at |-> NextPlan(s).at,
                                              row |-> come])]
    /\ UNCHANGED <<table, schema, history, coreVars, changeSets, step, req, event,
                   clash, gridVars, draftVars, locked, barVars, userVars>>

PlanInserts(s) ==
    /\ HasPlan(s) /\ NextPlan(s).op = "insert"
    /\ \E k \in Keys :
       /\ Free(s, k) /\ \A r \in View(s) : r.key # k
       /\ Writes(s, {}, {[key |-> k, ver |-> s, val |-> NextPlan(s).val]})

PlanApplies(s) ==
    /\ HasPlan(s)
    /\ \E r \in Matching(s, NextPlan(s)) :
       /\ Free(s, r.key)
       /\ Writes(s, {r}, IF NextPlan(s).op = "delete" THEN {}
                         ELSE {[r EXCEPT !.ver = s, !.val = NextPlan(s).val]})

\* No row is affected: read the row as it is now, roll back, tell the webview.
PlanConflicts(s) ==
    /\ HasPlan(s) /\ NextPlan(s).op # "insert"
    /\ Matching(s, NextPlan(s)) = {}
    /\ clash' = [clash EXCEPT ![s] =
          [at |-> NextPlan(s).at,
           current |-> {r \in View(s) : \E o \in NextPlan(s).seen : r.key = o.key}]]
    /\ tx' = [tx EXCEPT ![s] = NoTx]
    /\ Ends(s, "conflict")
    /\ UNCHANGED <<table, schema, history, coreVars, changeSets, req, done,
                   gridVars, draftVars, locked, barVars, userVars>>

\* A statement fails and is rolled back, or the result's memory or the connection
\* gives out and the connection is dropped with the transaction open.
PlanFails(s) ==
    /\ Running(s)
    /\ \E left \in {tx[s], NoTx} : tx' = [tx EXCEPT ![s] = left]
    /\ Ends(s, "failed")
    /\ UNCHANGED <<table, schema, history, coreVars, changeSets, req, done, clash,
                   gridVars, draftVars, locked, barVars, userVars>>

\* Mutated form of commit: the last change of the set is left out.
CommitSendsEarly(s) ==
    /\ Running(s) /\ Len(done[s]) + 1 >= Len(req[s].plans)
    /\ tx' = [tx EXCEPT ![s].state = "committing"]
    /\ UNCHANGED <<table, schema, history, coreVars, changeSets, step, saveVars,
                   gridVars, draftVars, locked, barVars, userVars>>

CommitSends(s) ==
    /\ Running(s) /\ Len(done[s]) = Len(req[s].plans)
    /\ tx' = [tx EXCEPT ![s].state = "committing"]
    /\ UNCHANGED <<table, schema, history, coreVars, changeSets, step, saveVars,
                   gridVars, draftVars, locked, barVars, userVars>>

Count(s, op) == Cardinality({i \in DOMAIN done[s] : done[s][i].op = op})

\* shift_table_offset, on the store the commit found.
Shifted(s) ==
    IF req[s].results # gen THEN offset
    ELSE IF offset + Count(s, "insert") < Count(s, "delete") THEN 0
         ELSE offset + Count(s, "insert") - Count(s, "delete")

CommitAcked(s) ==
    /\ step[s] = "running" /\ tx[s].state = "committed"
    /\ offset' = Shifted(s)
    /\ Ends(s, "completed")
    /\ UNCHANGED <<serverVars, database, store, changeSets, req, done, clash, gridVars,
                   draftVars, locked, barVars, userVars>>

CommitRejected(s) ==
    /\ step[s] = "running" /\ tx[s].state = "none"
    /\ Ends(s, "failed")
    /\ UNCHANGED <<serverVars, coreVars, changeSets, req, done, clash, gridVars, draftVars,
                   locked, barVars, userVars>>

\* Mutated form of commit: giving up counts as a failure.
CommitUnknownFails(s) ==
    /\ step[s] = "running"
    /\ Ends(s, "failed")
    /\ UNCHANGED <<serverVars, coreVars, changeSets, req, done, clash, gridVars, draftVars,
                   locked, barVars, userVars>>

\* The deadline passes at any point, or the acknowledgement of COMMIT is lost.
CommitUnknown(s) ==
    /\ step[s] = "running"
    /\ Ends(s, "unknown")
    /\ UNCHANGED <<serverVars, coreVars, changeSets, req, done, clash, gridVars, draftVars,
                   locked, barVars, userVars>>

-----------------------------------------------------------------------------
(* The grid and the edit buffer. *)

Modal == mounted /\ (shown # None \/ conflict # {})
CanEdit == ~locked /\ ~Modal /\ mounted /\ status = "completed"
Pending == updates # {} \/ deletes # {} \/ inserts # {}

Edits(us, ds, is) ==
    /\ CanEdit
    /\ updates' = us /\ deletes' = ds /\ inserts' = is
    /\ Cardinality(us) + Cardinality(ds) + Cardinality(is) <= MaxDrafts
    /\ UNCHANGED <<serverVars, coreVars, changeSets, step, saveVars, gridVars, locked, barVars,
                   userVars>>

\* A draft notes the key of the row it was made on (of), which the code does not.

\* Writing what is displayed takes the draft back (commitCell).
SetCell(i, v) ==
    Edits({u \in updates : u.at # i}
          \cup (IF v = grid[i].val THEN {} ELSE {[at |-> i, of |-> grid[i].key, val |-> v]}),
          deletes, inserts)

ToggleDelete(i) ==
    Edits(updates,
          IF \E d \in deletes : d.at = i THEN {d \in deletes : d.at # i}
          ELSE deletes \cup {[at |-> i, of |-> grid[i].key]},
          inserts)

AddInsert(v) == v \notin inserts /\ Edits(updates, deletes, inserts \cup {v})

RemoveInsert(v) == Edits(updates, deletes, inserts \ {v})

\* editStore.clear
ClearDrafts == updates' = {} /\ deletes' = {} /\ inserts' = {} /\ locked' = FALSE

\* Mutated form of resolveRows: the drafts after a removed row are not moved up.
ResolveRowsInPlace(resolved, removed) ==
    /\ updates' = {u \in updates : u.at \notin resolved}
    /\ deletes' = {d \in deletes : d.at \notin resolved}

\* resolveRows: drop the drafts of the resolved row, move up those after a removed one.
ResolveRows(resolved, removed) ==
    LET Moved(d) == [d EXCEPT !.at = @ - Cardinality({r \in removed : r < d.at})]
    IN  /\ updates' = {Moved(u) : u \in {x \in updates : x.at \notin resolved}}
        /\ deletes' = {Moved(d) : d \in {x \in deletes : x.at \notin resolved}}

\* buildRowChanges, in the order the planner puts them.
BuildRowChanges ==
    LET deleted == {d.at : d \in deletes}
        At(op, i, v) == [op |-> op, at |-> i, seen |-> {grid[i]}, val |-> v]
    IN  SetToSeq({At("delete", i, grid[i].val) : i \in deleted})
        \o SetToSeq({At("update", u.at, u.val) : u \in {x \in updates : x.at \notin deleted}})
        \o SetToSeq({[op |-> "insert", at |-> 0, seen |-> {}, val |-> v] : v \in inserts})

\* Two changes are of one row, which is displayed twice.
ChangesTwice(plans) == \E i, j \in DOMAIN plans :
    i # j /\ \E o \in plans[i].seen, p \in plans[j].seen : o.key = p.key

Of(s, op) == Without(done[s], {i \in DOMAIN done[s] : done[s][i].op # op})
New(d) == CHOOSE r \in d.row : TRUE

\* Mutated form of ReplaceRows: the row version on display is not replaced.
ReplaceRowsOldVersion(s) ==
    [i \in DOMAIN grid |->
        LET on == {d \in Range(Of(s, "update")) : d.at = i}
        IN  IF on = {} THEN grid[i] ELSE [grid[i] EXCEPT !.val = New(CHOOSE d \in on : TRUE).val]]

\* replaceRow of the result store, for each updated row.
ReplaceRows(s) ==
    [i \in DOMAIN grid |->
        LET on == {d \in Range(Of(s, "update")) : d.at = i}
        IN  IF on = {} THEN grid[i] ELSE New(CHOOSE d \in on : TRUE)]

\* pushRows of the result store.
PushRows(rows, s) == rows \o [j \in DOMAIN Of(s, "insert") |-> New(Of(s, "insert")[j])]

\* applyUpdatedRows: replace by row number, then remove, then append.
ApplyUpdatedRows(s) == PushRows(Without(ReplaceRows(s), {d.at : d \in Range(Of(s, "delete"))}), s)

-----------------------------------------------------------------------------
(* The save bar. *)

Busy == \E s \in Saves : req[s].mount = mount /\ step[s] \in Previewing \cup Committing

OpenPreview(s) ==
    /\ step[s] = "unused" /\ \A o \in Saves : o < s => step[o] # "unused"
    /\ mounted /\ ~Modal /\ ~Busy /\ Pending /\ ~locked
    /\ locked' = TRUE
    /\ Goes(s, "sent")
    /\ req' = [req EXCEPT ![s] =
          [NoSave EXCEPT !.mount = mount, !.plans = BuildRowChanges, !.origin = gridDb]]
    /\ twice' = IF ChangesTwice(BuildRowChanges) THEN twice \cup {s} ELSE twice
    /\ UNCHANGED <<serverVars, coreVars, changeSets, done, event, clash, gridVars, draftVars,
                   barVars, switching, lockMode, turns>>

Alive(s) == mounted /\ mount = req[s].mount

\* The answer of changes_preview; one for a bar that is gone is discarded.
PreviewReply(s) ==
    /\ step[s] \in {"kept", "refused"}
    /\ IF step[s] = "kept" /\ Alive(s)
       THEN shown' = s /\ Goes(s, "shown") /\ UNCHANGED <<locked, changeSets, saveVars>>
       ELSE /\ locked' = FALSE /\ changeSets' = changeSets \ {s}
            /\ Drops(s) /\ UNCHANGED shown
    /\ UNCHANGED <<serverVars, coreVars, gridVars, draftVars, mounted,
                   mount, conflict, userVars>>

CancelPreview ==
    /\ shown # None /\ step[shown] = "shown"
    /\ locked' = FALSE
    /\ changeSets' = changeSets \ {shown}
    /\ Drops(shown)
    /\ shown' = None
    /\ UNCHANGED <<serverVars, coreVars, gridVars, draftVars, mounted,
                   mount, conflict, userVars>>

Commit ==
    /\ shown # None /\ step[shown] = "shown"
    /\ locked' = TRUE
    /\ Goes(shown, "commit")
    /\ req' = [req EXCEPT ![shown].rows = gen]
    /\ UNCHANGED <<serverVars, coreVars, changeSets, done, event, clash, gridVars, draftVars,
                   barVars, userVars>>

\* The preview closes, and a bar still on the screen shows a conflict.
BarLearns(s) ==
    /\ shown' = IF shown = s THEN None ELSE shown
    /\ conflict' = IF event[s] = "conflict" /\ Alive(s) THEN {clash[s]} ELSE conflict

\* commitChangeSet's channel handler, and the rest of commit in the bar.
HandleOutcome(s) ==
    /\ step[s] = "ended"
    /\ IF tx[s].state = "none" THEN Drops(s) ELSE Goes(s, "done") /\ UNCHANGED saveVars
    /\ IF event[s] = "completed"
       THEN /\ grid' = IF gen = req[s].rows THEN ApplyUpdatedRows(s) ELSE grid
            /\ ClearDrafts
       ELSE locked' = FALSE /\ UNCHANGED <<grid, draftVars>>
    /\ BarLearns(s)
    /\ UNCHANGED <<serverVars, coreVars, changeSets, gen, gridDb, status,
                   more, mounted, mount, userVars>>

\* applyServerValues
UseServer ==
    /\ \E c \in conflict :
       LET i == c.at
           current == c.current
       IN  IF i \in DOMAIN grid
           THEN /\ grid' = IF current = {} THEN RemoveAt(grid, i)
                           ELSE [grid EXCEPT ![i] = CHOOSE r \in current : TRUE]
                /\ ResolveRows({i}, IF current = {} THEN {i} ELSE {})
           ELSE UNCHANGED <<grid, updates, deletes>>
    /\ conflict' = {}
    /\ UNCHANGED <<serverVars, coreVars, changeSets, step, saveVars, gen, gridDb, status, more,
                   inserts, locked, mounted, mount, shown, userVars>>

KeepEditing ==
    /\ conflict # {}
    /\ conflict' = {}
    /\ UNCHANGED <<serverVars, coreVars, changeSets, step, saveVars, gridVars, draftVars, locked,
                   mounted, mount, shown, userVars>>

\* Dropping every draft, from the conflict dialog or from the bar.
DiscardAll ==
    /\ IF conflict # {} THEN conflict' = {}
       ELSE mounted /\ ~Modal /\ ~Busy /\ Pending /\ UNCHANGED conflict
    /\ ClearDrafts
    /\ UNCHANGED <<serverVars, coreVars, changeSets, step, saveVars, gridVars, mounted, mount,
                   shown, userVars>>

\* The bar's cleanup: a preview on display is discarded, a commit goes on.
BarGone ==
    /\ mounted' = FALSE /\ shown' = None /\ conflict' = {} /\ UNCHANGED mount
    /\ IF shown # None /\ step[shown] = "shown" THEN Drops(shown) ELSE UNCHANGED <<step, saveVars>>

Unmount ==
    /\ mounted /\ Turn
    /\ BarGone
    /\ IF shown # None /\ step[shown] \in Committing
       THEN UNCHANGED <<changeSets, locked>>
       ELSE changeSets' = changeSets \ {shown} /\ locked' = FALSE
    /\ UNCHANGED <<serverVars, coreVars, gridVars, draftVars, switching, lockMode, twice>>

Remount ==
    /\ ~mounted /\ status = "completed"
    /\ mounted' = TRUE /\ mount' = mount + 1
    /\ UNCHANGED <<serverVars, coreVars, changeSets, step, saveVars, gridVars, draftVars, locked,
                   shown, conflict, userVars>>

-----------------------------------------------------------------------------
(* Querying the rows. *)

InOrder(rows) == LET keys == Ascending({r.key : r \in rows})
                 IN  [i \in DOMAIN keys |-> CHOOSE r \in rows : r.key = keys[i]]
PageAt(n) == LET all == InOrder(table[database])
             IN  SubSeq(all, n + 1, IF lockMode = "xmin" /\ n + PageSize < Len(all)
                                    THEN n + PageSize ELSE Len(all))

\* The result is queried (again): the rows go, and with them the bar and the drafts;
\* the core forgets the change sets of the result and makes a new store.
Refresh ==
    /\ status # "running" /\ ~locked /\ ~Modal /\ Turn
    /\ ClearDrafts /\ BarGone
    /\ grid' = <<>> /\ gen' = gen + 1 /\ status' = "running" /\ more' = FALSE
    /\ changeSets' = {} /\ store' = TRUE
    /\ UNCHANGED <<serverVars, database, offset, gridDb, switching, lockMode, twice>>

QueryDone ==
    /\ status = "running"
    /\ status' = "completed"
    /\ grid' = PageAt(0) /\ gridDb' = database
    /\ offset' = PageSize
    /\ more' = (lockMode = "xmin" /\ Len(PageAt(0)) = PageSize)
    /\ UNCHANGED <<serverVars, database, store, changeSets, step, saveVars, gen, draftVars,
                   locked, barVars, userVars>>

LoadMore ==
    /\ status = "completed" /\ more /\ store
    /\ grid' = grid \o PageAt(offset)
    /\ offset' = offset + Len(PageAt(offset))
    /\ more' = (Len(PageAt(offset)) = PageSize)
    /\ UNCHANGED <<serverVars, database, store, changeSets, step, saveVars, gen, gridDb, status,
                   draftVars, locked, barVars, userVars>>

\* changeDatabase asks, the core switches once the control connection is free, and
\* the webview then closes the results.
SwitchAsked ==
    /\ database <= MaxSwitches /\ Turn
    /\ status = "completed" /\ ~locked /\ ~Modal
    /\ switching' = "asked"
    /\ UNCHANGED <<serverVars, coreVars, changeSets, step, saveVars, gridVars, draftVars, locked,
                   barVars, lockMode, twice>>

SwitchDatabase ==
    /\ switching = "asked" /\ ControlFree /\ status # "running"
    /\ switching' = "switched"
    /\ database' = database + 1 /\ store' = FALSE /\ changeSets' = {}
    /\ UNCHANGED <<serverVars, offset, step, saveVars, gridVars, draftVars, locked,
                   barVars, lockMode, twice, turns>>

SwitchFails ==
    /\ switching = "asked"
    /\ switching' = "no"
    /\ UNCHANGED <<serverVars, coreVars, changeSets, step, saveVars, gridVars, draftVars, locked,
                   barVars, lockMode, twice, turns>>

TabsDisposed ==
    /\ switching = "switched"
    /\ switching' = "no"
    /\ ClearDrafts /\ BarGone
    /\ changeSets' = changeSets \ {shown}
    /\ grid' = <<>> /\ gen' = gen + 1 /\ status' = "idle" /\ more' = FALSE /\ gridDb' = database
    /\ UNCHANGED <<serverVars, coreVars, lockMode, twice, turns>>

-----------------------------------------------------------------------------
Init ==
    /\ lockMode \in LockModes /\ twice = {}
    /\ table = [d \in Databases |->
                   {[key |-> k, ver |-> 0, val |-> InitialVal] : k \in InitialKeys}]
    /\ schema = [d \in Databases |-> 0]
    /\ turns = 0
    /\ tx = [s \in Saves |-> NoTx]
    /\ history = table[1]
    /\ database = 1 /\ store = TRUE
    /\ changeSets = {}
    /\ step = [s \in Saves |-> "unused"]
    /\ req = [s \in Saves |-> NoSave]
    /\ done = [s \in Saves |-> <<>>]
    /\ event = [s \in Saves |-> "none"]
    /\ clash = [s \in Saves |-> NoClash]
    /\ grid = PageAt(0) /\ gen = 0 /\ gridDb = 1
    /\ status = "completed" /\ more = (lockMode = "xmin" /\ Len(PageAt(0)) = PageSize)
    /\ offset = PageSize
    /\ updates = {} /\ deletes = {} /\ inserts = {}
    /\ locked = FALSE /\ mounted = TRUE /\ mount = 1
    /\ shown = None /\ conflict = {} /\ switching = "no"

Edit ==
    \/ \E i \in DOMAIN grid, v \in Vals : SetCell(i, v)
    \/ \E i \in DOMAIN grid : ToggleDelete(i)
    \/ \E v \in InsertVals : AddInsert(v)
    \/ \E v \in inserts : RemoveInsert(v)

SaveStep(s) ==
    \/ PreviewNames(s) \/ PreviewReads(s) \/ PreviewFails(s) \/ PreviewKeeps(s)
    \/ CommitTakes(s) \/ CommitBegins(s) \/ CommitRefused(s)
    \/ PlanInserts(s) \/ PlanApplies(s) \/ PlanConflicts(s) \/ PlanFails(s)
    \/ CommitSends(s) \/ CommitAcked(s) \/ CommitRejected(s) \/ CommitUnknown(s)
    \/ PreviewReply(s) \/ HandleOutcome(s)

OtherStep ==
    \/ \E r \in table[database], v \in Vals : OtherUpdates(r, v)
    \/ \E r \in table[database] : OtherDeletes(r)
    \/ \E k \in Keys, v \in Vals : OtherInserts(k, v)
    \/ OtherAlters

\* The workspace is inert while its database is changed.
UserStep ==
    /\ switching = "no"
    /\ \/ Edit
       \/ \E s \in Saves : OpenPreview(s)
       \/ CancelPreview \/ Commit
       \/ UseServer \/ KeepEditing \/ DiscardAll
       \/ Unmount \/ Remount
       \/ Refresh \/ SwitchAsked

Next ==
    \/ UserStep
    \/ OtherStep
    \/ \E s \in Saves : SaveStep(s) \/ ServerCommits(s) \/ ServerAborts(s)
    \/ QueryDone \/ LoadMore
    \/ SwitchDatabase \/ SwitchFails \/ TabsDisposed

Spec == Init /\ [][Next]_vars

-----------------------------------------------------------------------------
\* The drafts point at rows on display, and the core keeps at most MaxPending
\* previews, whatever was released, refused or abandoned (edit_service.rs).
TypeOK ==
    /\ \A d \in Databases : table[d] \subseteq Row
    /\ \A s \in Saves : /\ step[s] \in Steps
                        /\ \A i \in DOMAIN req[s].plans : req[s].plans[i] \in Plan
    /\ \A i \in DOMAIN grid : grid[i] \in Row
    /\ \A u \in updates : u \in [at : DOMAIN grid, of : Keys, val : Vals]
    /\ \A d \in deletes : d \in [at : DOMAIN grid, of : Keys]
    /\ changeSets \subseteq Saves /\ Cardinality(changeSets) <= MaxPending
    /\ offset \in Nat /\ locked \in BOOLEAN
    /\ shown \in Saves \cup {None} /\ Cardinality(conflict) <= 1

Commits(s) == tx[s].state # "committed" /\ tx'[s].state = "committed"

\* Of two changes of one row, made in two displayed copies of it, the second may find what
\* the first wrote where the WHERE clause compares displayed values.
Apart(s) == lockMode = "xmin" \/ s \notin twice

\* No lost update: when the server makes a save permanent, each row the save
\* replaces or deletes is still, in the committed table, the version (or the values)
\* the user had on screen when the change set was built, however many other sessions,
\* saves and retries came in between (the WHERE clause of plan_update and plan_delete,
\* and the rows-affected check of commit).
SeenIsReplaced ==
    [][\A s \in Saves : Commits(s) /\ Apart(s) =>
          \A i \in DOMAIN req[s].plans : \A o \in req[s].plans[i].seen :
             \E r \in table[tx[s].db] : r.key = o.key /\ SameVersion(r, o)]_vars

\* A change set is saved whole or not at all: what becomes permanent is every change
\* the user saw in the preview, also when the save was given up and commits late
\* ("Applies one change set atomically", commit).
SavesWholeSet ==
    [][\A s \in Saves : Commits(s) =>
          /\ Len(done[s]) = Len(req[s].plans)
          /\ Apart(s) => \A i \in DOMAIN done[s] : LET p == req[s].plans[i] IN
                /\ p.op # "delete" =>
                      \E r \in table'[tx[s].db] : r.ver = s /\ r.val = p.val
                /\ p.op = "delete" => \A o \in p.seen : o \notin table'[tx[s].db]]_vars

\* A save never writes to another database than the one its rows were read from,
\* wherever between editing, preview and commit the user changed database (the
\* DATABASE_CHANGED check of commit, the sweep of switch_database).
RowsOfThisDatabase ==
    \A s \in Saves : tx[s].state # "none" => tx[s].db = req[s].origin

\* Kept change sets are within their limit, in shape, and none of them reaches
\* another database (the guards of preview and commit).
ChangeSetsAreGuarded == TypeOK /\ RowsOfThisDatabase

\* What the user is told is true: a completed save is in the database, and one that
\* was reported as failed or in conflict is not and will not be, even if its COMMIT is
\* answered late (the COMMIT_OUTCOME_UNKNOWN cases of commit).
OutcomeIsTrue == \A s \in Saves :
    /\ event[s] = "completed" => tx[s].state = "committed"
    /\ event[s] \in {"failed", "conflict"} => tx[s].state \notin {"committing", "committed"}

\* Saving again after an unknown outcome does not apply a change twice: with row
\* versions, two saves that both become permanent never replace the same version of a
\* row (xmin in the WHERE clause).  New rows have no such protection.
RetryAppliesOnce == lockMode = "xmin" =>
    \A s, o \in {x \in Saves : tx[x].state = "committed"} :
       s # o /\ tx[s].db = tx[o].db =>
       \A i \in DOMAIN req[s].plans, j \in DOMAIN req[o].plans :
          req[s].plans[i].seen \cap req[o].plans[j].seen = {}

\* A draft stays on the row it was made on, though drafts are kept by position and
\* rows are removed above them by conflicts and saves (resolveRows, removeRows).
DraftsFollowRows == \A d \in updates \cup deletes :
    d.at \in DOMAIN grid /\ grid[d.at].key = d.of

\* The grid shows rows that were committed at some time: never a draft, nor what a
\* save wrote and rolled back (applyUpdatedRows, applyServerValues).  A save that changes
\* one row twice is left out: the row its conflict reports as current, or the first of
\* the two rows it reports as saved, is one that only the save itself has seen.
GridShowsCommitted == \A i \in DOMAIN grid : grid[i] \in history \/ grid[i].ver \in twice

\* While the bar on screen checks, shows or saves a change set, the drafts are the
\* ones it was built from ("no editing while a save is being checked", editStore.ts).
EditsAreFrozen == \A s \in Saves :
    Alive(s) /\ step[s] \in Previewing \cup Committing \cup {"shown"} =>
       BuildRowChanges = req[s].plans

\* When the last page of Table Data was loaded, and nobody else wrote the table, every
\* row of it is on display, whatever was saved between two pages ("Later Table Data
\* pages continue after the shown rows", edit_service.rs).
PagesLeaveNoGap ==
    (/\ status = "completed" /\ ~more /\ gridDb = database
     /\ \A s \in Saves : step[s] \in {"unused", "done"} /\ event[s] # "unknown")
    => \A r \in table[database] : \E i \in DOMAIN grid : grid[i].key = r.key
=============================================================================
