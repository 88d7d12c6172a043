---------------------------- MODULE Editability -----------------------------
(***************************************************************************)
(* Which results may be edited, and through which columns their rows are   *)
(* found again (editability.ts).  The backend names the origin of every    *)
(* result column; a result is editable when the origins prove that each    *)
(* row is one row of one table.                                            *)
(*                                                                         *)
(* The scan of the SQL text that goes before (isPlainSelect) is a Boolean  *)
(* here, and a name either is plain or one the drafts cannot be keyed by.  *)
(***************************************************************************)
EXTENDS Integers, Sequences, FiniteSets, SequencesExt

Xmin == "__dbpod_xmin"
UnsafeNames == {"prototype"}
NoRelation == 0
Unsupported == {"array", "binary"}          \* text[] is a category of its own here.
NotAKey == Unsupported \cup {"text array"}
NotComparable == Unsupported \cup {"json"}  \* Not even by displayed values.

(* The columns of the result that are not the row version. *)
Visible(columns, xmin) == {i \in DOMAIN columns : i # xmin}

(* Mutated form of UniqueOrigins: a column of the table may be shown twice. *)
OriginsOfTable(columns, visible, oid) == \A i \in visible : columns[i].relation = oid

(* Every column comes from the table, each from another one of its columns. *)
UniqueOrigins(columns, visible, oid) ==
    /\ \A i \in visible : columns[i].relation = oid
    /\ \A i, j \in visible : columns[i].attribute = columns[j].attribute => i = j

(* Drafts are keyed by the displayed name. *)
UsableNames(columns, visible) ==
    /\ \A i \in visible : columns[i].name \notin UnsafeNames \cup {Xmin}
    /\ \A i, j \in visible : columns[i].name = columns[j].name => i = j

(* analyzeColumns: the checks before the result's identity is known. *)
Provable(columns, meta, xmin) ==
    LET visible == Visible(columns, xmin)
    IN  /\ \A a \in DOMAIN meta.columns : meta.columns[a].name \notin UnsafeNames \cup {Xmin}
        /\ UsableNames(columns, visible)
        /\ UniqueOrigins(columns, visible, meta.oid)
        /\ xmin = 0 => \A i \in visible : columns[i].category \notin NotComparable
        /\ \A i \in visible : columns[i].attribute \in DOMAIN meta.columns
                              /\ meta.columns[columns[i].attribute].type = columns[i].type

(* pk: the displayed columns a row is found again by. *)
KeyColumns(columns, meta, xmin) ==
    {i \in Visible(columns, xmin) : columns[i].attribute \in Range(meta.primaryKey)
                                     /\ columns[i].category \notin NotAKey}

(* The whole primary key is displayed, in types that can be compared. *)
KeyShown(columns, meta, xmin) ==
    /\ meta.primaryKey # <<>>
    /\ Range(meta.primaryKey) = {columns[i].attribute : i \in KeyColumns(columns, meta, xmin)}

Analyzed(columns, meta, xmin) == Provable(columns, meta, xmin) /\ KeyShown(columns, meta, xmin)

(* editableColumns: the displayed columns that accept a draft. *)
EditableColumns(columns, meta, xmin) ==
    {i \in Visible(columns, xmin) : ~meta.columns[columns[i].attribute].generated
                                    /\ columns[i].category \notin Unsupported}

(* catalogName: the column of the table that a draft under a name writes. *)
CatalogName(columns, xmin, name) ==
    columns[CHOOSE i \in Visible(columns, xmin) : columns[i].name = name].attribute

BaseTables == {"table", "partitioned-table"}

(* tableDataEditability: the row version is the first column. *)
TableDataEditable(columns, meta, readOnly) ==
    /\ ~readOnly /\ meta.kind \in BaseTables
    /\ {i \in DOMAIN columns : columns[i].name = Xmin} = {1}
    /\ columns[1].relation = NoRelation /\ columns[1].type = "text" /\ columns[1].category = "scalar"
    /\ Analyzed(columns, meta, 1)

(* queryEditability: one table is the origin of what has an origin. *)
QueryEditable(columns, meta, readOnly, plain) ==
    /\ ~readOnly /\ plain /\ meta.kind \in BaseTables
    /\ {columns[i].relation : i \in DOMAIN columns} \ {NoRelation} = {meta.oid}
    /\ Analyzed(columns, meta, 0)

----------------------------------------------------------------------------
(* A draft addresses what is on the screen, whatever the rows of the table *)
(* hold: the displayed key of a row finds that row and no other, and       *)
(* writing a draft changes the displayed cell it was made in, no other     *)
(* displayed cell and no generated column.                                 *)
Addressed(columns, meta, xmin, Values) ==
    LET origin(i) == columns[i].attribute
        written(i) == CatalogName(columns, xmin, columns[i].name)
        finds(shown, row) == \A i \in KeyColumns(columns, meta, xmin) : row[origin(i)] = shown[origin(i)]
        tableRows == [DOMAIN meta.columns -> Values]
    IN  /\ meta.primaryKey # <<>>
        /\ \A row, other \in tableRows :
             (\E k \in Range(meta.primaryKey) : row[k] # other[k]) => ~finds(row, other)
        /\ \A i \in EditableColumns(columns, meta, xmin) :
             /\ ~meta.columns[written(i)].generated
             /\ \A row \in tableRows, v \in Values : \A j \in Visible(columns, xmin) :
                  [row EXCEPT ![written(i)] = v][origin(j)] = IF j = i THEN v ELSE row[origin(j)]

=============================================================================
