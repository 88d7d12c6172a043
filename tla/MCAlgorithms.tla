---------------------------- MODULE MCAlgorithms ----------------------------
(***************************************************************************)
(* The text algorithms of the webview over all short inputs.  An input is  *)
(* a sequence that grows by one piece per step, so that every prefix is an *)
(* input of its own; the topic says for which algorithm.                   *)
(***************************************************************************)
EXTENDS SqlText, CellText, MCEditability

CONSTANTS MaxSql, MaxCells, MaxColumns   \* Bounds on the inputs, in pieces.

vars == <<topic, input>>

SqlPieces == {<<"'">>, <<"\"">>, <<"-">>, <<"-", "-">>, <<"/">>, <<"/", "*">>, <<"*", "/">>,
              <<"$">>, <<"$", "$">>, <<"$", "a", "$">>, <<";">>, <<NL>>, <<"a">>}

CellTexts == {<<>>, <<"NULL">>, <<"DEFAULT">>, <<"a">>, <<TAB>>, <<LF>>, <<CR>>, <<",">>, <<DQ>>,
              <<"=">>, <<"a", DQ>>, <<DQ, "a">>, <<CR, LF>>, <<"\\">>, <<"\\", DQ>>, <<DQ, TAB>>}
Cells == {Null} \cup {TextValue(t) : t \in CellTexts}

Init == topic \in {"sql", "cells", "columns"} /\ input = <<>>

Grow(t, pieces, max) ==
    /\ topic = t /\ Len(input) < max
    /\ \E p \in pieces : input' = Append(input, p)
    /\ UNCHANGED topic

Next ==
    \/ Grow("sql", SqlPieces, MaxSql)
    \/ Grow("cells", Cells, MaxCells)
    \/ Grow("columns", ResultColumns, MaxColumns)

Spec == Init /\ [][Next]_vars

Sql == FlattenSeq(input)

(* The input's cells as a table of so many columns. *)
Rows(width) == [r \in 1 .. Len(input) \div width |-> SubSeq(input, (r - 1) * width + 1, r * width)]
Widths == {w \in 1 .. 2 : Len(input) > 0 /\ Len(input) % w = 0}

----------------------------------------------------------------------------
(* splitStatements cuts a script exactly where a statement ends by the     *)
(* rules its comment lists (quotes with '' inside, dollar quotes, line and *)
(* nested block comments): its nested loops against an automaton that      *)
(* reads one character at a time.                                          *)
SplitIsLexical == topic = "sql" => Boundaries(Sql, 1) = ReferenceBoundaries(Sql)

(* stripLiterals moves nothing: the text keeps its length, splits into the *)
(* same statements (those with more than comments), and a statement cut    *)
(* out and stripped alone is what the stripped script holds in its place.  *)
StripKeepsStatements ==
    topic = "sql" =>
        LET stripped == StripLiterals(Sql)
            solid == SelectSeq(SplitStatements(Sql), LAMBDA p : ~Blank(StripLiterals(Text(Sql, p))))
        IN  /\ Len(stripped) = Len(Sql)
            /\ SplitStatements(stripped) = solid
            /\ \A k \in DOMAIN solid :
                 Trim(StripLiterals(Text(Sql, solid[k]))) = Text(stripped, solid[k])

(* Wherever the cursor is, what pickSql picks is one statement, which run  *)
(* does not refuse, and no other statement lies between it and the cursor. *)
PickedRunsAlone ==
    topic = "sql" =>
        \A cursor \in 1 .. Len(Sql) + 1 :
            LET all == SplitStatements(Sql)
                p == StatementAt(Sql, cursor)
            IN  /\ StatementCount(PickSql(Sql, cursor)) <= 1
                /\ all # <<>> => Len(SplitStatements(PickSql(Sql, cursor))) = 1
                /\ \A k \in DOMAIN all :
                     /\ ~(p.to + 1 < cursor /\ p.from < all[k].from /\ all[k].from < cursor)
                     /\ ~(cursor < p.from /\ all[k].from < p.from)

(* Copied cells are pasted as they were: NULL as NULL, every text as that  *)
(* text, tables up to the limits of a paste, and larger ones are refused.  *)
PasteIsCopy ==
    topic = "cells" =>
        \A w \in Widths :
            LET pasted == ParseTsv(ToTsv(Rows(w)))
            IN  IF Len(Rows(w)) > MaxPasteRows \/ Len(input) > MaxPasteCells THEN pasted.error
                ELSE /\ ~pasted.error
                     /\ [r \in DOMAIN pasted.rows |->
                           [c \in DOMAIN pasted.rows[r] |-> InterpretMarker(pasted.rows[r][c])]] = Rows(w)

(* A CSV file tells NULL, the empty text and every other text apart, but   *)
(* for the guard before a formula.                                         *)
CsvTellsApart ==
    (topic = "cells" /\ Len(input) <= MaxPasteRows) =>
        \A w \in Widths :
            LET back == ReadCsv(ToCsv(Rows(w)))
                expected(v) == [text |-> IF v.kind = "null" THEN <<>> ELSE CsvGuarded(v.text)]
            IN  /\ ~back.error /\ Len(back.rows) = Len(Rows(w))
                /\ \A r \in DOMAIN back.rows :
                     /\ Len(back.rows[r]) = w
                     /\ \A c \in 1 .. w :
                          /\ back.rows[r][c].text = expected(Rows(w)[r][c]).text
                          /\ (Rows(w)[r][c].kind = "null") =
                               (back.rows[r][c].text = <<>> /\ ~back.rows[r][c].quoted)

(* The text of an array reads back as its elements at their places, with   *)
(* NULL apart from the text NULL, for one and two dimensions.              *)
ArrayReadsBack ==
    topic = "cells" =>
        \A w \in Widths : \A lengths \in {<<Len(input)>>, <<Len(input) \div w, w>>} :
            ArrayFits(lengths, input) =>
                ReadArray(ArrayText(lengths, input), 1, <<>>, <<>>) =
                    [k \in DOMAIN input |-> [path |-> PathOf(lengths, Len(input), k - 1), value |-> input[k]]]

(* What the splitter, the check for one statement and the editability gate *)
(* rely on: scripts are cut where statements end, stripping literals moves *)
(* no boundary, and what is picked at the cursor runs alone.               *)
SqlIsCutRight == SplitIsLexical /\ StripKeepsStatements /\ PickedRunsAlone

(* What leaves the grid as text is read back as the values it was: pasted  *)
(* cells, exported CSV and the text of arrays (exporters.ts, tsv.ts,       *)
(* valueText.ts).                                                          *)
ValuesReadBack == PasteIsCopy /\ CsvTellsApart /\ ArrayReadsBack

=============================================================================
