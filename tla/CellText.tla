------------------------------ MODULE CellText ------------------------------
(***************************************************************************)
(* Values as text: what copy and export write (exporters.ts, valueText.ts) *)
(* and what paste reads (tsv.ts).                                          *)
(*                                                                         *)
(* A text is a sequence of characters; the words NULL and DEFAULT are one  *)
(* character each.  The operators are recursive: only TLC uses them.       *)
(***************************************************************************)
EXTENDS Integers, Sequences, FiniteSets, SequencesExt

CONSTANTS MaxPasteRows, MaxPasteCells   \* MAX_PASTE_ROWS and MAX_PASTE_CELLS.

TAB == "tab"
LF == "lf"
CR == "cr"
DQ == "\""

(* A DbValue: NULL, a text, or an array of one dimension. *)
Null == [kind |-> "null", text |-> <<>>]
TextValue(t) == [kind |-> "text", text |-> t]

(* Texts joined by a separator. *)
RECURSIVE Join(_, _)
Join(texts, separator) ==
    IF texts = <<>> THEN <<>>
    ELSE IF Len(texts) = 1 THEN texts[1]
    ELSE texts[1] \o separator \o Join(Tail(texts), separator)

(* replace(/"/g, '""') between two quotes. *)
Quoted(t) == <<DQ>> \o FlattenSeq([i \in DOMAIN t |-> IF t[i] = DQ THEN <<DQ, DQ>> ELSE <<t[i]>>]) \o <<DQ>>

(* exportText. *)
ExportText(v) == IF v.kind = "null" THEN <<"NULL">> ELSE v.text

(* Mutated form of TsvField: only the separators make a field quoted. *)
TsvFieldPlain(t, literal) == IF Range(t) \cap {TAB, LF, CR, DQ} # {} THEN Quoted(t) ELSE t

(* tsvField: a text that reads like a marker, or like nothing, is quoted. *)
TsvField(t, literal) ==
    IF Range(t) \cap {TAB, LF, CR, DQ} # {} \/ (literal /\ t \in {<<>>, <<"NULL">>, <<"DEFAULT">>})
    THEN Quoted(t) ELSE t

ToTsv(rows) ==
    LET line(row) == Join([c \in DOMAIN row |-> TsvField(ExportText(row[c]), row[c].kind # "null")], <<TAB>>)
    IN  Join([r \in DOMAIN rows |-> line(rows[r])], <<LF>>)

(* csvField, with the guard against formulas. *)
CsvGuarded(t) == IF t # <<>> /\ t[1] = "=" THEN <<"'">> \o t ELSE t
CsvField(t) ==
    LET g == CsvGuarded(t) IN IF Range(g) \cap {DQ, ",", LF, CR} # {} THEN Quoted(g) ELSE g

CsvCell(v) ==
    IF v.kind = "null" THEN <<>> ELSE IF v.text = <<>> THEN <<DQ, DQ>> ELSE CsvField(v.text)

(* toCsv, without the header. *)
ToCsv(rows) ==
    FlattenSeq([r \in DOMAIN rows |->
        Join([c \in DOMAIN rows[r] |-> CsvCell(rows[r][c])], <<",">>) \o <<CR, LF>>])

----------------------------------------------------------------------------
(* parseTsv as the state of its loop: the rows so far, the current row and *)
(* field, each field with whether it was quoted.                           *)
Fields == [rows |-> <<>>, row |-> <<>>, field |-> <<>>, inQuotes |-> FALSE, quoted |-> FALSE,
           cells |-> 0]
Error == [rows |-> <<>>, error |-> TRUE]

EndField(p) == [p EXCEPT !.row = Append(@, [text |-> p.field, quoted |-> p.quoted]),
                         !.cells = @ + 1, !.field = <<>>, !.quoted = FALSE]
EndRow(p) == LET q == EndField(p) IN [q EXCEPT !.rows = Append(@, q.row), !.row = <<>>]

TooLarge(p) == p.cells > MaxPasteCells \/ Len(p.rows) > MaxPasteRows
Result(p) == IF TooLarge(p) THEN Error ELSE [rows |-> p.rows, error |-> FALSE]

RECURSIVE ParseFrom(_, _, _, _)
ParseFrom(text, i, p, delimiter) ==
    IF i > Len(text)
    THEN IF p.inQuotes THEN Error
         ELSE Result(IF p.field # <<>> \/ p.row # <<>> \/ p.quoted THEN EndRow(p) ELSE p)
    ELSE LET c == text[i]
             next == IF i < Len(text) THEN text[i + 1] ELSE "end"
         IN  IF TooLarge(p) THEN Error
             ELSE IF p.inQuotes
             THEN IF c # DQ THEN ParseFrom(text, i + 1, [p EXCEPT !.field = Append(@, c)], delimiter)
                  ELSE IF next = DQ THEN ParseFrom(text, i + 2, [p EXCEPT !.field = Append(@, DQ)], delimiter)
                  ELSE ParseFrom(text, i + 1, [p EXCEPT !.inQuotes = FALSE], delimiter)
             ELSE CASE c = DQ /\ p.field = <<>> /\ ~p.quoted ->
                         ParseFrom(text, i + 1, [p EXCEPT !.inQuotes = TRUE, !.quoted = TRUE], delimiter)
                    [] c = delimiter -> ParseFrom(text, i + 1, EndField(p), delimiter)
                    [] c = LF -> ParseFrom(text, i + 1, EndRow(p), delimiter)
                    [] c = CR -> ParseFrom(text, IF next = LF THEN i + 2 ELSE i + 1, EndRow(p), delimiter)
                    [] OTHER -> IF p.quoted \/ c = DQ THEN Error
                                ELSE ParseFrom(text, i + 1, [p EXCEPT !.field = Append(@, c)], delimiter)

ParseTsv(text) == ParseFrom(text, 1, Fields, TAB)

(* interpretMarker: what a pasted field stands for. *)
InterpretMarker(f) ==
    IF ~f.quoted /\ f.text = <<"NULL">> THEN Null
    ELSE IF ~f.quoted /\ f.text = <<"DEFAULT">> THEN [kind |-> "default", text |-> <<>>]
    ELSE TextValue(f.text)

(* What a reader of RFC 4180 finds in a CSV file (no code of this program). *)
ReadCsv(text) == ParseFrom(text, 1, Fields, ",")

----------------------------------------------------------------------------
(* arrayTree and arrayText.  An array has the lengths of its dimensions    *)
(* and its elements in row-major order; its text has nested braces.        *)
ArrayFits(lengths, values) ==
    LET count == FoldLeft(LAMBDA a, b : a * b, IF lengths = <<>> THEN 0 ELSE 1, lengths)
    IN  count = Len(values) /\ (Len(lengths) > 1 => \A d \in DOMAIN lengths : lengths[d] # 0)

ElementText(v) ==
    IF v.kind = "null" THEN <<"NULL">>
    ELSE <<DQ>> \o FlattenSeq([i \in DOMAIN v.text |->
              IF v.text[i] \in {DQ, "\\"} THEN <<"\\", v.text[i]>> ELSE <<v.text[i]>>]) \o <<DQ>>

(* The elements of the i-th row. *)
Slice(values, i, size) == SubSeq(values, (i - 1) * size + 1, i * size)

RECURSIVE Braces(_, _)
Braces(lengths, values) ==
    LET size == Len(values) \div lengths[1]
        item(i) == IF Len(lengths) = 1 THEN ElementText(values[i])
                   ELSE Braces(Tail(lengths), Slice(values, i, size))
    IN  <<"{">> \o Join([i \in 1 .. lengths[1] |-> item(i)], <<",">>) \o <<"}">>

ArrayText(lengths, values) ==
    IF values = <<>> THEN <<"{", "}">> ELSE Braces(lengths, values)

(* PostgreSQL's reading of such a text: the elements in order, each with   *)
(* the braces open around it and the rows begun so far.                    *)
RECURSIVE ReadArray(_, _, _, _)
ReadArray(text, i, path, found) ==
    IF i > Len(text) THEN found
    ELSE CASE text[i] = "{" -> ReadArray(text, i + 1, Append(path, 1), found)
           [] text[i] = "}" -> ReadArray(text, i + 1, Front(path), found)
           [] text[i] = "," -> ReadArray(text, i + 1, [path EXCEPT ![Len(path)] = @ + 1], found)
           [] text[i] = "NULL" -> ReadArray(text, i + 1, path, Append(found, [path |-> path, value |-> Null]))
           [] text[i] = DQ ->
                LET plain == {j \in i + 1 .. Len(text) : text[j] = DQ
                                /\ Cardinality({k \in i + 1 .. j - 1 : text[k] = "\\"
                                     /\ \A m \in k .. j - 1 : text[m] = "\\"}) % 2 = 0}
                    close == CHOOSE j \in plain : \A k \in plain : j <= k
                    inner == SubSeq(text, i + 1, close - 1)
                    escapes(k) == inner[k] = "\\" /\
                        Cardinality({m \in 1 .. k : \A n \in m .. k : inner[n] = "\\"}) % 2 = 1
                    kept == SelectSeq([k \in DOMAIN inner |-> <<k, inner[k]>>], LAMBDA x : ~escapes(x[1]))
                IN  ReadArray(text, close + 1, path,
                              Append(found, [path |-> path, value |-> TextValue([k \in DOMAIN kept |-> kept[k][2]])]))

(* Where the k-th element of a row-major array is. *)
RECURSIVE PathOf(_, _, _)
PathOf(lengths, size, k) ==
    IF lengths = <<>> THEN <<>>
    ELSE LET each == size \div lengths[1]
         IN  <<(k \div each) + 1>> \o PathOf(Tail(lengths), each, k % each)

=============================================================================
