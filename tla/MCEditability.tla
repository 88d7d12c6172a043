--------------------------- MODULE MCEditability ----------------------------
(***************************************************************************)
(* The results and tables that Editability is checked on: every short list *)
(* of columns against tables of three columns.                             *)
(***************************************************************************)
EXTENDS Editability

VARIABLES
    topic,   \* The algorithm the input is for.
    input    \* Its input, for the topic "columns" the columns of a result.

ResultColumns ==
    [name : {"x", "y"}, relation : {1, 2}, attribute : {1, 2, 3}, type : {"int"},
     category : {"scalar", "array", "text array"}]
      \cup {[name |-> Xmin, relation |-> NoRelation, attribute |-> 0, type |-> "text", category |-> "scalar"]}

(* Tables of three columns, the third generated, with a key of one or two. *)
Metas == {[oid |-> 1, kind |-> "table", primaryKey |-> key,
           columns |-> [a \in 1 .. 3 |-> [name |-> "c", type |-> "int", generated |-> a = 3]]] :
          key \in {<<>>, <<1>>, <<1, 2>>}}

(* A draft addresses what is on the screen: when a result may be edited,   *)
(* in the table tab or in a query tab, the displayed key of a row finds    *)
(* that row and no other of the table, and a draft is written to the cell  *)
(* it was made in (editability.ts).                                        *)
DraftsAreAddressed ==
    topic = "columns" =>
        \A meta \in Metas : \A xmin \in {0, 1} :
            (IF xmin = 1 THEN input # <<>> /\ TableDataEditable(input, meta, FALSE)
             ELSE QueryEditable(input, meta, FALSE, TRUE)) =>
                Addressed(input, meta, xmin, {0, 1, 2})

=============================================================================
