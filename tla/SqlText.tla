------------------------------ MODULE SqlText -------------------------------
(***************************************************************************)
(* What the webview does with SQL text before it sends it: splitting a     *)
(* script into statements, blanking literals and comments                  *)
(* (statementSplitter.ts), picking the statement at the cursor and the     *)
(* check for one statement (pickSql and run of WorkspacePage.tsx).         *)
(*                                                                         *)
(* A text is a sequence of characters, positions are from 1; "a" stands    *)
(* for any letter.  The operators are recursive: only TLC uses them.       *)
(***************************************************************************)
EXTENDS Integers, Sequences, FiniteSets, SequencesExt

NL == "nl"

At(s, i) == IF i \in DOMAIN s THEN s[i] ELSE "end"
StartsAt(s, i, t) == i + Len(t) - 1 <= Len(s) /\ SubSeq(s, i, i + Len(t) - 1) = t
Blank(s) == \A i \in DOMAIN s : s[i] \in {" ", NL}
End(s) == Len(s) + 1

(* indexOf(t, from): End when it is not found. *)
Find(s, t, from) ==
    LET found == {i \in from .. Len(s) : StartsAt(s, i, t)}
    IN  IF found = {} THEN End(s) ELSE CHOOSE i \in found : \A j \in found : i <= j

(* trim: the positions that are left. *)
Trim(s) ==
    LET solid == {i \in DOMAIN s : s[i] \notin {" ", NL}}
    IN  IF solid = {} THEN <<>>
        ELSE SubSeq(s, CHOOSE i \in solid : \A j \in solid : i <= j,
                       CHOOSE i \in solid : \A j \in solid : i >= j)

----------------------------------------------------------------------------
(* Past the end of a quoted text of which i is inside; '' stays inside. *)
RECURSIVE QuoteEnd(_, _, _)
QuoteEnd(s, i, quote) ==
    IF i > Len(s) THEN End(s)
    ELSE IF s[i] # quote THEN QuoteEnd(s, i + 1, quote)
    ELSE IF quote = "'" /\ At(s, i + 1) = "'" THEN QuoteEnd(s, i + 2, quote)
    ELSE i + 1

(* Mutated form of BlockEnd: comments do not nest. *)
BlockEndFlat(s, i, depth) ==
    LET close == Find(s, <<"*", "/">>, i) IN IF close = End(s) THEN close ELSE close + 2

(* Past the end of a block comment; comments nest. *)
RECURSIVE BlockEnd(_, _, _)
BlockEnd(s, i, depth) ==
    IF i > Len(s) \/ depth = 0 THEN i
    ELSE IF StartsAt(s, i, <<"/", "*">>) THEN BlockEnd(s, i + 2, depth + 1)
    ELSE IF StartsAt(s, i, <<"*", "/">>) THEN BlockEnd(s, i + 2, depth - 1)
    ELSE BlockEnd(s, i + 1, depth)

(* The tag $...$ that begins at i, or nothing. *)
TagAt(s, i) ==
    LET ends == {j \in i + 1 .. Len(s) : s[j] = "$" /\ \A k \in i + 1 .. j - 1 : s[k] = "a"}
    IN  IF At(s, i) = "$" /\ ends # {} THEN SubSeq(s, i, CHOOSE j \in ends : TRUE) ELSE <<>>

(* Past the end of a dollar-quoted body. *)
DollarEnd(s, i, tag) ==
    LET close == Find(s, tag, i + Len(tag)) IN IF close = End(s) THEN close ELSE close + Len(tag)

(* Past the literal or comment that begins at i; i itself when none does. *)
Skip(s, i) ==
    IF s[i] \in {"'", "\""} THEN QuoteEnd(s, i + 1, s[i])
    ELSE IF StartsAt(s, i, <<"-", "-">>) THEN Find(s, <<NL>>, i)
    ELSE IF StartsAt(s, i, <<"/", "*">>) THEN BlockEnd(s, i + 2, 1)
    ELSE IF TagAt(s, i) # <<>> THEN DollarEnd(s, i, TagAt(s, i))
    ELSE i

(* The semicolons between statements, from position i. *)
RECURSIVE Boundaries(_, _)
Boundaries(s, i) ==
    IF i > Len(s) THEN <<>>
    ELSE IF Skip(s, i) > i THEN Boundaries(s, Skip(s, i))
    ELSE IF s[i] = ";" THEN <<i>> \o Boundaries(s, i + 1)
    ELSE Boundaries(s, i + 1)

(* splitStatements: the pieces between the boundaries that are not blank. *)
SplitStatements(s) ==
    LET ends == Append(Boundaries(s, 1), End(s))
        piece(k) == [from |-> IF k = 1 THEN 1 ELSE ends[k - 1] + 1, to |-> ends[k]]
    IN  SelectSeq([k \in DOMAIN ends |-> piece(k)],
                  LAMBDA p : ~Blank(SubSeq(s, p.from, p.to - 1)))

Text(s, statement) == Trim(SubSeq(s, statement.from, statement.to - 1))

Blanked(part) == [k \in DOMAIN part |-> IF part[k] = NL THEN NL ELSE " "]

(* stripLiterals: literals and comments become blanks, "names" stay. *)
RECURSIVE StripFrom(_, _)
StripFrom(s, i) ==
    IF i > Len(s) THEN <<>>
    ELSE IF Skip(s, i) = i THEN <<s[i]>> \o StripFrom(s, i + 1)
    ELSE LET part == SubSeq(s, i, Skip(s, i) - 1)
         IN  (IF s[i] = "\"" THEN part ELSE Blanked(part)) \o StripFrom(s, Skip(s, i))

StripLiterals(s) == StripFrom(s, 1)

(* statementAt: the one with the cursor, else the last before it, else the first. *)
StatementAt(s, cursor) ==
    LET all == SplitStatements(s)
        hit == SelectInSeq(all, LAMBDA p : cursor >= p.from /\ cursor <= p.to + 1)
        before == SelectLastInSeq(all, LAMBDA p : p.to < cursor)
    IN  IF all = <<>> THEN [from |-> 1, to |-> 1]
        ELSE IF hit # 0 THEN all[hit] ELSE IF before # 0 THEN all[before] ELSE all[1]

(* pickSql without a selection: the cursor is between characters. *)
PickSql(s, cursor) == Text(s, StatementAt(s, cursor))

(* run refuses more than one statement that is not just comments. *)
StatementCount(s) ==
    LET all == SplitStatements(s)
    IN  Cardinality({k \in DOMAIN all : ~Blank(StripLiterals(Text(s, all[k])))})

----------------------------------------------------------------------------
(* The reference: PostgreSQL's lexical rules as an automaton that reads    *)
(* one character at a time.  prev is the character a two-character token   *)
(* may begin with; tag is the dollar quote being read or in force.         *)
Reading(mode, depth, prev, tag, since, ends) ==
    [mode |-> mode, depth |-> depth, prev |-> prev, tag |-> tag, since |-> since, ends |-> ends]

Plain(ends) == Reading("plain", 0, "", <<>>, <<>>, ends)

ReadPlain(q, c, i) ==
    CASE c \in {"'", "\""} -> Reading(c, 0, "", <<>>, <<>>, q.ends)
      [] c = "-" /\ q.prev = "-" -> Reading("line", 0, "", <<>>, <<>>, q.ends)
      [] c = "*" /\ q.prev = "/" -> Reading("block", 1, "", <<>>, <<>>, q.ends)
      [] c = "$" /\ q.tag # <<>> -> Reading("dollar", 0, "", Append(q.tag, c), <<>>, q.ends)
      [] c = "$" /\ q.tag = <<>> -> Reading("plain", 0, "", <<c>>, <<>>, q.ends)
      [] c = "a" /\ q.tag # <<>> -> Reading("plain", 0, "", Append(q.tag, c), <<>>, q.ends)
      [] c = ";" -> Plain(Append(q.ends, i))
      [] OTHER -> Reading("plain", 0, c, <<>>, <<>>, q.ends)

ReadBlock(q, c) ==
    CASE c = "*" /\ q.prev = "/" -> [q EXCEPT !.depth = @ + 1, !.prev = ""]
      [] c = "/" /\ q.prev = "*" -> IF q.depth = 1 THEN Plain(q.ends)
                                    ELSE [q EXCEPT !.depth = @ - 1, !.prev = ""]
      [] OTHER -> [q EXCEPT !.prev = c]

ReadDollar(q, c) ==
    LET since == Append(q.since, c)
        from == Len(since) - Len(q.tag) + 1
    IN  IF from >= 1 /\ SubSeq(since, from, Len(since)) = q.tag THEN Plain(q.ends)
        ELSE [q EXCEPT !.since = since]

RECURSIVE ReadTo(_, _)
ReadTo(s, i) ==
    IF i = 0 THEN Plain(<<>>)
    ELSE LET q == ReadTo(s, i - 1)
             c == s[i]
         IN  CASE q.mode = "plain" -> ReadPlain(q, c, i)
               [] q.mode = "line" -> IF c = NL THEN Plain(q.ends) ELSE q
               [] q.mode = "block" -> ReadBlock(q, c)
               [] q.mode = "dollar" -> ReadDollar(q, c)
               [] OTHER -> IF c = q.mode THEN Plain(q.ends) ELSE q

ReferenceBoundaries(s) == ReadTo(s, Len(s)).ends
=============================================================================
