-------------------------------- MODULE Grid --------------------------------
(***************************************************************************)
(* The result grid of one execution (ResultGrid.tsx): which rows and cells *)
(* are selected while pages arrive and saves rearrange the rows, what the  *)
(* keys, the mouse, the cell editor, a paste and the delete command do to  *)
(* the edit buffer (editStore.ts), and the copy or export of the whole     *)
(* result, which fetches the remaining pages itself.                       *)
(*                                                                         *)
(* Rows, columns and positions count from 0 as in the source: position r   *)
(* is a fetched row when r < Len(rows), a new row after that. The grid is  *)
(* remounted for every execution (QueryResultPane), so its state begins    *)
(* fresh. React commits a store change and runs the selection effect in    *)
(* one go; changes made in one tick are seen as one.                       *)
(***************************************************************************)
EXTENDS Integers, Sequences, FiniteSets, SequencesExt, FiniteSetsExt, Lists

CONSTANTS
    ServerRows,  \* Rows the backend retains for the result.
    PageSize,    \* Rows of a page.
    Cols,        \* Number of columns displayed.
    Editable,    \* Columns that accept edits, a subset of 0..Cols-1.
    MaxInserts,  \* New rows waiting to be saved (500 in the code).
    MaxNew,      \* Bound on the new rows alive, saved ones included.
    MaxSaves     \* Bound on the saves.

ASSUME GridAssumption ==
    /\ ServerRows \in Nat /\ PageSize \in Nat \ {0} /\ Cols \in Nat \ {0}
    /\ Editable \subseteq 0..(Cols - 1) /\ MaxInserts \in Nat /\ MaxNew \in Nat /\ MaxSaves \in Nat

VARIABLES
    rows,      \* snapshot.rows: identities of the rows fetched and displayed.
    next,      \* nextRowOffset.
    loading,   \* loadingMore: loadMoreRows waits for its page.
    inserts,   \* edits.inserts: identities of the new rows.
    deletes,   \* edits.deletes: positions of rows.
    dirty,     \* Some cell has a pending value.
    wrote,     \* What the last step was asked to write, and what it wrote.
    locked,    \* edits.locked: a save is under way.
    selection, \* NoSelection or anchor and focus.
    editing,   \* NoCell or the cell whose editor is open.
    job,       \* allResultRows of a copy or export: what it has, where it is.
    saves      \* Saves so far.

vars == <<rows, next, loading, inserts, deletes, dirty, wrote, locked, selection,
          editing, job, saves>>

NoSelection == <<>>
NoCell == <<>>
NoWrite == [asked |-> {}, took |-> {}]
NoJob == [step |-> "none"]
Cell(r, c) == [r |-> r, c |-> c]
Between(a, f) == [anchor |-> a, focus |-> f]

Shown == Len(rows) + Len(inserts)
Positions == 0..(Shown - 1)
Columns == 0..(Cols - 1)
RowAt(r) == IF r < Len(rows) THEN rows[r + 1] ELSE inserts[r - Len(rows) + 1]
IsInsert(r) == r >= Len(rows)
MoreRows == next < ServerRows

(* Identities for h new rows: any that are not in use. *)
Unused == (ServerRows + 1)..(ServerRows + MaxNew) \ (Range(rows) \cup Range(inserts))
NewRows(h) == {q \in [1..h -> Unused] : IsInjective(q)}

----------------------------------------------------------------------------
(* The selection. *)
MinR(sel) == Min({sel.anchor.r, sel.focus.r})
MaxR(sel) == Max({sel.anchor.r, sel.focus.r})
MinC(sel) == Min({sel.anchor.c, sel.focus.c})
MaxC(sel) == Max({sel.anchor.c, sel.focus.c})
SelectedRows(sel) == MinR(sel)..MaxR(sel)
FullRowsSelected(sel) == sel # NoSelection /\ MinC(sel) = 0 /\ MaxC(sel) = Cols - 1

(* Mutated form of Rebased: positions are kept when pages arrive. *)
RebasedNot(sel, before, after, added) ==
    IF sel = NoSelection \/ after < before \/ MaxR(sel) >= after + added THEN NoSelection ELSE sel

(* The effect on rows.length and inserts.length.                           *)
Rebased(sel, before, after, added) ==
    LET move(p) == IF p.r >= before THEN Cell(p.r + after - before, p.c) ELSE p
        to == Between(move(sel.anchor), move(sel.focus))
    IN  IF sel = NoSelection \/ after < before THEN NoSelection
        ELSE IF MaxR(to) >= after + added THEN NoSelection ELSE to

Select(a, f) == selection' = Between(a, f)
Extends(shift) == shift /\ selection # NoSelection
OnlySelection == UNCHANGED <<rows, next, loading, inserts, deletes, dirty, locked, job, saves>>

(* Mouse on a cell; a new row's cells do not extend. A blur commits the    *)
(* open editor first, so the mouse finds none open.                        *)
MouseDown(shift) ==
    /\ editing = NoCell
    /\ \E r \in Positions, c \in Columns :
         Select(IF Extends(shift) /\ ~IsInsert(r) THEN selection.anchor ELSE Cell(r, c), Cell(r, c))
    /\ UNCHANGED editing /\ OnlySelection

MouseEnter ==
    /\ editing = NoCell /\ selection # NoSelection
    /\ \E r \in 0..(Len(rows) - 1), c \in Columns : Select(selection.anchor, Cell(r, c))
    /\ UNCHANGED editing /\ OnlySelection

SelectRow(shift) ==
    /\ editing = NoCell
    /\ \E r \in Positions :
         Select(Cell(IF Extends(shift) THEN selection.anchor.r ELSE r, 0), Cell(r, Cols - 1))
    /\ UNCHANGED editing /\ OnlySelection

Clamp(x, hi) == Max({0, Min({hi, x})})
Position == IF selection = NoSelection THEN Cell(0, 0) ELSE selection.focus

(* Select all, select row, arrows, Home and End, Escape. *)
SelectKey(shift) ==
    /\ editing = NoCell /\ Shown > 0
    /\ \/ Select(Cell(0, 0), Cell(Shown - 1, Cols - 1))
       \/ selection # NoSelection /\ Select(Cell(Position.r, 0), Cell(Position.r, Cols - 1))
       \/ \E step \in {<<-1, 0>>, <<1, 0>>, <<0, -1>>, <<0, 1>>, <<0, Cols>>, <<0, -Cols>>,
                       <<Shown, Cols>>, <<-Shown, -Cols>>} :
            LET to == Cell(Clamp(Position.r + step[1], Shown - 1), Clamp(Position.c + step[2], Cols - 1))
            IN  Select(IF Extends(shift) THEN selection.anchor ELSE to, to)
       \/ selection' = NoSelection
    /\ UNCHANGED editing /\ OnlySelection

----------------------------------------------------------------------------
(* The cell editor, on the focused cell by key or by double click. *)
OpenEditor ==
    /\ editing = NoCell /\ ~locked /\ Shown > 0
    /\ Position.c \in Editable
    /\ editing' = Position
    /\ UNCHANGED selection /\ OnlySelection

(* setCell, setInsertCell: nothing while a save locks the buffer; a value  *)
(* equal to the original withdraws the draft (commitCell).                 *)
Write(cells, took) ==
    /\ wrote' = [asked |-> cells, took |-> IF locked THEN {} ELSE took]
    /\ dirty' \in IF wrote'.took = {} THEN {dirty} ELSE BOOLEAN

(* Enter, blur, the NULL and DEFAULT buttons commit; Escape cancels. *)
CloseEditor ==
    /\ editing # NoCell
    /\ editing' = NoCell
    /\ Write({}, {}) \/ Write({editing}, {editing})
    /\ UNCHANGED <<rows, next, loading, inserts, deletes, locked, selection, job, saves>>

AddRow ==
    /\ editing = NoCell /\ ~locked /\ Len(inserts) < MaxInserts
    /\ \E q \in NewRows(1) : inserts' = inserts \o q
    /\ selection' = Rebased(selection, Len(rows), Len(rows), Len(inserts'))
    /\ UNCHANGED <<rows, next, loading, deletes, dirty, locked, editing, job, saves>>

----------------------------------------------------------------------------
(* deleteSelectedRows: rows are marked, or unmarked when all were; new     *)
(* rows go. The loop reads the snapshot taken before it began.             *)
AllSelectedDeleted ==
    /\ FullRowsSelected(selection) /\ MaxR(selection) < Len(rows)
    /\ SelectedRows(selection) \subseteq deletes

(* Mutated form of RemovedInserts: the loop finds each new row in the list it is shortening. *)
RemovedInsertsLive(sel) ==
    {inserts[i] : i \in {k \in DOMAIN inserts :
        /\ Len(rows) + k - 1 \in SelectedRows(sel)
        /\ (Len(rows) + k - 1 - Max({Len(rows), MinR(sel)})) % 2 = 0}}

RemovedInserts(sel) ==
    {inserts[i] : i \in {k \in DOMAIN inserts : Len(rows) + k - 1 \in SelectedRows(sel)}}

DeleteSelectedRows ==
    /\ editing = NoCell /\ ~locked /\ FullRowsSelected(selection)
    /\ LET marked == SelectedRows(selection) \cap (0..(Len(rows) - 1))
       IN  deletes' = IF AllSelectedDeleted THEN deletes \ marked ELSE deletes \cup marked
    /\ inserts' = Only(inserts, Range(inserts) \ RemovedInserts(selection))
    /\ dirty' \in IF inserts' = inserts THEN {dirty} ELSE {dirty, FALSE}
    /\ selection' = Rebased(selection, Len(rows), Len(rows), Len(inserts'))
    /\ UNCHANGED <<rows, next, loading, locked, editing, job, saves>>

(* onPaste over a selection: the whole rectangle is checked, then written. *)
Rectangle(h, w) == {Cell(Position.r + i, Position.c + j) : i \in 0..(h - 1), j \in 0..(w - 1)}
Accepts(p, mode) ==
    /\ p.c \in Editable /\ p.r \notin deletes
    /\ mode = "default" => IsInsert(p.r)

PasteTakes(cells, mode) == IF \A p \in cells : Accepts(p, mode) THEN cells ELSE {}

PasteOver(h, w, mode) ==
    /\ editing = NoCell /\ ~locked /\ selection # NoSelection
    /\ Position.r + h <= Shown /\ Position.c + w <= Cols
    /\ Write(Rectangle(h, w), PasteTakes(Rectangle(h, w), mode))
    /\ UNCHANGED <<rows, next, loading, inserts, deletes, locked, selection, editing, job, saves>>

(* onPaste with nothing selected: new rows, filled from the first editable *)
(* columns on.                                                             *)
PasteRows(h, w) ==
    /\ editing = NoCell /\ ~locked /\ selection = NoSelection
    /\ Editable # {} /\ w <= Cardinality(Editable) /\ Len(inserts) + h <= MaxInserts
    /\ \E q \in NewRows(h) : inserts' = inserts \o q
    /\ LET into == {x \in Editable : Cardinality({y \in Editable : y < x}) < w}
           cells == {Cell(r, c) : r \in Shown..(Shown + h - 1), c \in into}
       IN  Write(cells, cells)
    /\ UNCHANGED <<rows, next, loading, deletes, locked, selection, editing, job, saves>>

----------------------------------------------------------------------------
(* resultRowsFetch: the rows after `offset`, and where the next ones are. *)
PageRows(offset) == [i \in 1..(Min({offset + PageSize, ServerRows}) - offset) |-> offset + i]

(* Scrolling near the end, or the retry after an error. *)
LoadMoreRows ==
    /\ MoreRows /\ ~loading
    /\ loading' = TRUE
    /\ UNCHANGED <<rows, next, inserts, deletes, dirty, locked, selection, editing, job, saves>>

AppendPage ==
    /\ loading
    /\ loading' = FALSE
    /\ rows' = rows \o PageRows(next)
    /\ next' = next + Len(PageRows(next))
    /\ selection' = Rebased(selection, Len(rows), Len(rows'), Len(inserts))
    /\ UNCHANGED <<inserts, deletes, dirty, locked, editing, job, saves>>

PageFails ==
    /\ loading
    /\ loading' = FALSE
    /\ UNCHANGED <<rows, next, inserts, deletes, dirty, locked, selection, editing, job, saves>>

(* commitChangeSet: the buffer is locked until the outcome is known. *)
Save ==
    /\ editing = NoCell /\ ~locked /\ saves < MaxSaves
    /\ deletes # {} \/ dirty \/ inserts # <<>>
    /\ locked' = TRUE /\ saves' = saves + 1
    /\ UNCHANGED <<rows, next, loading, inserts, deletes, dirty, selection, editing, job>>

(* removeRows, pushRows and clear: one render sees the difference. *)
SaveCompletes ==
    LET kept == [i \in DOMAIN rows |-> IF i - 1 \in deletes THEN 0 ELSE rows[i]]
    IN  /\ locked
        /\ rows' = Only(kept, Range(rows)) \o inserts
        /\ inserts' = <<>> /\ deletes' = {} /\ dirty' = FALSE /\ locked' = FALSE
        /\ selection' = Rebased(selection, Len(rows), Len(rows'), 0)
        /\ UNCHANGED <<next, loading, editing, job, saves>>

SaveFails ==
    /\ locked
    /\ locked' = FALSE
    /\ UNCHANGED <<rows, next, loading, inserts, deletes, dirty, selection, editing, job, saves>>

----------------------------------------------------------------------------
(* Mutated form of FirstOffset: the rows on screen are counted instead of the rows fetched. *)
FirstOffsetShown == Len(rows)

FirstOffset == next

(* New rows of an earlier save are left out of what is followed. *)
Served(s) == Only(s, 1..ServerRows)

(* copySelection without a selection, exportAs: a copy of the rows shown,  *)
(* then every page after them, independently of the grid's own paging.     *)
Collect ==
    /\ job = NoJob /\ rows # <<>>
    /\ job' = IF MoreRows THEN [step |-> "fetching", got |-> Served(rows), from |-> next, offset |-> FirstOffset]
              ELSE [step |-> "done", got |-> Served(rows), from |-> next, offset |-> next]
    /\ UNCHANGED <<rows, next, loading, inserts, deletes, dirty, locked, selection, editing, saves>>

CollectPage ==
    /\ job # NoJob /\ job.step = "fetching"
    /\ LET page == PageRows(job.offset)
           end == job.offset + Len(page)
       IN  \/ job' = [job EXCEPT !.step = IF end < ServerRows THEN "fetching" ELSE "done",
                                 !.got = @ \o page, !.offset = end]
           \/ job' = NoJob      \* Refused: too large, released, connection lost.
    /\ UNCHANGED <<rows, next, loading, inserts, deletes, dirty, locked, selection, editing, saves>>

----------------------------------------------------------------------------
Init ==
    /\ rows = PageRows(0) /\ next = Len(PageRows(0)) /\ loading = FALSE
    /\ inserts = <<>> /\ deletes = {} /\ dirty = FALSE /\ wrote = NoWrite /\ locked = FALSE
    /\ selection = NoSelection /\ editing = NoCell /\ job = NoJob
    /\ saves = 0

Next ==
    \/ CloseEditor
    \/ \E h \in 1..2, w \in 1..2 :
         PasteRows(h, w) \/ \E mode \in {"value", "default"} : PasteOver(h, w, mode)
    \/ /\ wrote' = NoWrite
       /\ \/ \E shift \in BOOLEAN : MouseDown(shift) \/ SelectRow(shift) \/ SelectKey(shift)
          \/ MouseEnter \/ OpenEditor \/ AddRow \/ DeleteSelectedRows
          \/ LoadMoreRows \/ AppendPage \/ PageFails \/ Save \/ SaveCompletes \/ SaveFails
          \/ Collect \/ CollectPage

Spec == Init /\ [][Next]_vars

----------------------------------------------------------------------------
RowsOf(sel) == {RowAt(r) : r \in SelectedRows(sel)}

(* A page that arrives leaves the selection on the rows and cells it was   *)
(* on, new rows below the fetched ones included: Backspace, copy and paste *)
(* after it act on what the user selected (effect of ResultGrid).          *)
SelectionFollowsRows ==
    [][(selection # NoSelection /\ loading /\ ~loading') =>
         /\ selection' # NoSelection
         /\ {RowAt(selection.focus.r), RowAt(selection.anchor.r)} =
            {RowAt(selection.focus.r)', RowAt(selection.anchor.r)'}]_vars

(* The delete command takes exactly the selected rows: every selected new  *)
(* row goes and no other, and the selected fetched rows end up all marked  *)
(* or, when they all were, all unmarked.                                   *)
DeletesAreSelected ==
    [][(~locked /\ (deletes' # deletes \/ Len(inserts') < Len(inserts)) /\ DeleteSelectedRows) =>
         LET old == SelectedRows(selection) \cap (0..(Len(rows) - 1))
         IN  /\ Range(inserts) \ Range(inserts') = RowsOf(selection) \cap Range(inserts)
             /\ old \subseteq deletes' \/ old \cap deletes' = {}
             /\ deletes' \ old = deletes \ old]_vars

(* A paste writes its whole rectangle or nothing, never a cell of a column *)
(* that is not editable or of a row about to be deleted.                   *)
PasteIsWhole ==
    /\ wrote.took \in {{}, wrote.asked}
    /\ \A p \in wrote.took : p.c \in Editable /\ (Cardinality(wrote.asked) > 1 => p.r \notin deletes)

(* A copy or export that finishes has no row of the result twice, keeps    *)
(* the order of the server and misses none of the rows that were not yet   *)
(* on screen, whatever was saved before and is scrolled or saved meanwhile.*)
ExportIsComplete ==
    (job # NoJob /\ job.step = "done") =>
        /\ \A i, j \in DOMAIN job.got : i < j => job.got[i] < job.got[j]
        /\ (job.from + 1)..ServerRows \subseteq Range(job.got)

(* Rows leave and enter the grid whole: a copy or export misses nothing of *)
(* the result, a paste is written as a whole or not at all.                *)
TransfersAreWhole == ExportIsComplete /\ PasteIsWhole

=============================================================================
