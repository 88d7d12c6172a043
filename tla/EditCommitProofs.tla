-------------------------- MODULE EditCommitProofs --------------------------
(***************************************************************************)
(* Proofs about EditCommit, for any number of saves, keys, values, pages,   *)
(* kept change sets and databases.                                          *)
(***************************************************************************)
EXTENDS EditCommit, FiniteSetTheorems, FunctionTheorems, WellFoundedInduction, TLAPS

Ops == {"delete", "update", "insert"}
Transactions == [state : {"none", "open", "committing", "committed"}, db : Databases,
                 del : SUBSET Row, add : SUBSET Row]
SaveRequests == [mount : Nat, plans : Seq(Plan), origin : Databases, database : Databases,
                 schema : Nat, rows : Nat, results : Nat]
Results == [op : Ops, at : Nat, row : SUBSET Row]
Outcomes == {"none", "completed", "failed", "conflict", "unknown"}
Clashes == [at : Nat, current : SUBSET Row]
UpdateDrafts == [at : Nat, of : Keys, val : Vals]
DeleteDrafts == [at : Nat, of : Keys]

-----------------------------------------------------------------------------
(* The inductive invariant. *)

ServerShape ==
    /\ table \in [Databases -> SUBSET Row] /\ history \subseteq Row
    /\ schema \in [Databases -> Nat]
    /\ tx \in [Saves -> Transactions]

CoreShape ==
    /\ database \in Databases /\ store \in BOOLEAN /\ offset \in Nat
    /\ changeSets \subseteq Saves /\ IsFiniteSet(changeSets)
    /\ Cardinality(changeSets) <= MaxPending

SaveShape ==
    /\ step \in [Saves -> Steps] /\ req \in [Saves -> SaveRequests]
    /\ done \in [Saves -> Seq(Results)] /\ event \in [Saves -> Outcomes]
    /\ clash \in [Saves -> Clashes]

GridShape ==
    /\ grid \in Seq(Row) /\ gen \in Nat /\ gridDb \in Databases
    /\ status \in {"idle", "running", "completed"}

DraftShape ==
    /\ updates \subseteq UpdateDrafts /\ IsFiniteSet(updates)
    /\ deletes \subseteq DeleteDrafts /\ IsFiniteSet(deletes)
    /\ inserts \subseteq Vals /\ IsFiniteSet(inserts)

UserShape ==
    /\ locked \in BOOLEAN /\ mounted \in BOOLEAN /\ mount \in Nat
    /\ shown \in Saves \cup {None}
    /\ conflict \subseteq Clashes /\ IsFiniteSet(conflict) /\ Cardinality(conflict) <= 1
    /\ switching \in {"no", "asked", "switched"} /\ turns \in Nat
    /\ lockMode \in {"xmin", "displayed"} /\ twice \subseteq Saves

Shape == ServerShape /\ CoreShape /\ SaveShape /\ GridShape /\ DraftShape /\ UserShape

(* Before its transaction begins a save has neither written nor been told of. *)
Waiting == {"unused", "sent", "named", "checked", "kept", "refused", "shown", "commit", "taken"}

OutcomeInv == \A s \in Saves :
    /\ step[s] \in Waiting => tx[s].state = "none" /\ done[s] = <<>>
    /\ step[s] \in Waiting \cup {"running"} => event[s] = "none"
    /\ event[s] = "completed" => tx[s].state = "committed"
    /\ event[s] \in {"failed", "conflict"} => tx[s].state \notin {"committing", "committed"}

(* A save whose rows are of another database than the one it named is one of *)
(* a bar that is gone, or will find no store.                                *)
SameDb(s) == req[s].database = req[s].origin

DatabaseInv ==
    /\ switching = "asked" => database <= MaxSwitches
    /\ switching = "switched" => ~store
    /\ switching # "switched" => gridDb = database
    /\ \A s \in Saves :
         /\ req[s].mount <= mount
         /\ step[s] = "sent" /\ Alive(s) => req[s].origin = database \/ switching = "switched"
         /\ step[s] = "named" /\ Alive(s) => SameDb(s) \/ switching = "switched"
         /\ step[s] \in {"checked", "kept"} /\ Alive(s) => SameDb(s)
         /\ step[s] \in {"shown", "commit", "taken"} => SameDb(s)
         /\ tx[s].state # "none" => tx[s].db = req[s].origin

(* Row locks: what an open transaction wrote is still as it found it. *)
Written(s) == tx[s].del \cup tx[s].add
OneRowPerKey(rows) == \A r, q \in rows : r.key = q.key => r = q

LockInv ==
    /\ \A d \in Databases : OneRowPerKey(table[d])
    /\ \A s \in Saves : Active(s) =>
         /\ tx[s].del \subseteq table[tx[s].db]
         /\ \A r \in tx[s].add : r.ver = s
         /\ OneRowPerKey(View(s))
         /\ \A o \in Saves : Active(o) /\ o # s /\ tx[o].db = tx[s].db =>
              \A r \in Written(s), q \in Written(o) : r.key # q.key

(* The rows a change set was built from, and what its statements did so far. *)
PlansInv == \A s \in Saves :
    /\ \A i \in 1..Len(req[s].plans) :
         /\ \A o \in req[s].plans[i].seen : o.ver # s
         /\ \A o, q \in req[s].plans[i].seen : o = q
         /\ req[s].plans[i].op = "insert" => req[s].plans[i].seen = {}
         /\ \A j \in 1..i : req[s].plans[j].op = "insert" => req[s].plans[i].op = "insert"
    /\ ChangesTwice(req[s].plans) => s \in twice

DoneInv == \A s \in Saves :
    /\ Len(done[s]) <= Len(req[s].plans)
    /\ \A i \in 1..Len(done[s]) :
         /\ done[s][i].op = req[s].plans[i].op
         /\ done[s][i].op = "delete" <=> done[s][i].row = {}
         /\ \A r \in done[s][i].row : r.ver = s /\ r.val = req[s].plans[i].val
    /\ tx[s].state \in {"committing", "committed"} => Len(done[s]) = Len(req[s].plans)

WriteInv == \A s \in Saves :
    /\ Active(s) => \A r \in tx[s].add : \E j \in 1..Len(done[s]) :
         req[s].plans[j].op = "insert" \/ \E o \in req[s].plans[j].seen : o.key = r.key
    /\ Active(s) /\ Apart(s) => \A i \in 1..Len(done[s]) :
         /\ done[s][i].row \subseteq tx[s].add
         /\ \A o \in req[s].plans[i].seen : \E r \in tx[s].del : r.key = o.key /\ SameVersion(r, o)
    /\ tx[s].state = "committed" /\ s \notin twice =>
         \A i \in 1..Len(done[s]) : done[s][i].row \subseteq history

(* A row that was on the server: its version will not be written again. *)
Settled(v) == \/ tx[v].state = "committed"
              \/ tx[v].state = "none" /\ step[v] \in {"ended", "done"}

Known(r) == /\ r.ver \in Saves => Settled(r.ver)
            /\ -turns <= r.ver
            /\ r \in history \/ r.ver \in twice

KnownInv ==
    /\ \A d \in Databases : \A r \in table[d] : Known(r) /\ r \in history
    /\ \A i \in 1..Len(grid) : Known(grid[i])
    /\ \A s \in Saves : \A r \in clash[s].current : Known(r)
    /\ \A c \in conflict : \A r \in c.current : Known(r)
    /\ \A s \in Saves : \A i \in 1..Len(req[s].plans) : \A o \in req[s].plans[i].seen : Known(o)

(* The versions a permanent save replaced are gone for good. *)
SpentInv == lockMode = "xmin" => \A s \in Saves : tx[s].state = "committed" =>
    \A i \in 1..Len(req[s].plans) : \A o \in req[s].plans[i].seen :
       \A r \in table[tx[s].db] : ~(r.key = o.key /\ r.ver = o.ver)

(* Drafts are on rows on display, and a result being queried has none. *)
DraftInv ==
    /\ DraftsFollowRows
    /\ status = "running" => updates = {} /\ deletes = {}

Inv == /\ Shape /\ OutcomeInv /\ DatabaseInv /\ LockInv /\ PlansInv /\ DoneInv /\ WriteInv
       /\ KnownInv /\ SpentInv /\ DraftInv /\ RetryAppliesOnce

-----------------------------------------------------------------------------
(* Sets put in order. *)

(* Every set of numbers that is not empty has a least one. *)
LEMMA LeastNumber ==
    ASSUME NEW T \in SUBSET Nat, T # {}
    PROVE  \E n \in T : \A m \in T : n <= m
<1> DEFINE R == {ss \in Nat \X Nat : ss[1] < ss[2]}
<1>1. IsWellFoundedOn(R, Nat)
  BY NatLessThanWellFounded, SMT DEF OpToRel
<1>2. PICK n \in T : \A m \in T : ~(<<m, n>> \in R)
  <2> HIDE DEF R
  <2>1. T \subseteq Nat
    OBVIOUS
  <2> QED
    BY <1>1, <2>1, WFMin, Zenon
<1>3. \A m \in T : ~(m < n)
  BY <1>2
<1> QED
  BY <1>3

(* A finite set of numbers can be put in ascending order. *)
LEMMA AscendingExists ==
    ASSUME NEW S \in SUBSET Nat, IsFiniteSet(S)
    PROVE  \E f \in [1..Cardinality(S) -> S] : \A i, j \in DOMAIN f : i < j => f[i] < f[j]
<1> DEFINE Ordered(n) == \A T \in SUBSET Nat : IsFiniteSet(T) /\ Cardinality(T) = n =>
              \E f \in [1..n -> T] : \A i, j \in 1..n : i < j => f[i] < f[j]
           Bad == {n \in Nat : ~Ordered(n)}
<1>1. SUFFICES Bad = {}
  <2>1. Cardinality(S) \in Nat
    BY FS_CardinalityType
  <2>2. Ordered(Cardinality(S))
    BY <1>1, <2>1
  <2> QED
    BY <2>2
<1>2. SUFFICES ASSUME Bad # {} PROVE FALSE
  OBVIOUS
<1>3. PICK n \in Bad : \A m \in Bad : n <= m
  BY <1>2, LeastNumber
<1>4. n \in Nat /\ ~Ordered(n)
  OBVIOUS
<1>5. PICK T \in SUBSET Nat : /\ IsFiniteSet(T) /\ Cardinality(T) = n
                              /\ ~\E f \in [1..n -> T] : \A i, j \in 1..n : i < j => f[i] < f[j]
  BY <1>4
<1>6. CASE n = 0
  <2> DEFINE f == [i \in 1..0 |-> 0]
  <2>1. f \in [1..n -> T] /\ \A i, j \in 1..n : i < j => f[i] < f[j]
    BY <1>6
  <2> QED
    BY <1>5, <2>1
<1>7. CASE n # 0
  <2>1. T # {}
    BY <1>5, <1>7, FS_EmptySet
  <2>2. PICK x \in T : \A y \in T : x <= y
    BY <2>1, LeastNumber
  <2> DEFINE U == T \ {x}
  <2>3. IsFiniteSet(U) /\ Cardinality(U) = n - 1 /\ U \in SUBSET Nat
    BY <1>5, <2>2, FS_RemoveElement
  <2>4. n - 1 \in Nat /\ Ordered(n - 1)
    <3>1. n - 1 \in Nat /\ ~(n <= n - 1)
      BY <1>4, <1>7
    <3> HIDE DEF Ordered
    <3> QED
      BY <3>1, <1>3
  <2>5. PICK g \in [1..(n - 1) -> U] : \A i, j \in 1..(n - 1) : i < j => g[i] < g[j]
    BY <2>3, <2>4
  <2> DEFINE f == [i \in 1..n |-> IF i = 1 THEN x ELSE g[i - 1]]
  <2>6. f \in [1..n -> T]
    BY <1>4, <2>2, <2>5
  <2>7. ASSUME NEW i \in 1..n, NEW j \in 1..n, i < j PROVE f[i] < f[j]
    <3>1. j - 1 \in 1..(n - 1) /\ f[j] = g[j - 1] /\ g[j - 1] \in U
      BY <1>4, <2>5, <2>7
    <3>2. CASE i = 1
      <4>1. f[i] = x /\ x \in Nat /\ g[j - 1] \in Nat
        BY <2>3, <3>1, <3>2
      <4>2. x <= g[j - 1] /\ x # g[j - 1]
        BY <2>2, <3>1
      <4> QED
        BY <3>1, <4>1, <4>2
    <3>3. CASE i # 1
      <4>1. i - 1 \in 1..(n - 1) /\ i - 1 < j - 1 /\ f[i] = g[i - 1]
        BY <1>4, <2>7, <3>3
      <4> QED
        BY <2>5, <3>1, <4>1
    <3> QED
      BY <3>2, <3>3
  <2> HIDE DEF f
  <2> QED
    BY <1>5, <2>6, <2>7
<1> QED
  BY <1>6, <1>7

LEMMA AscendingFacts ==
    ASSUME NEW S \in SUBSET Nat, IsFiniteSet(S)
    PROVE  /\ Cardinality(S) \in Nat
           /\ Ascending(S) \in [1..Cardinality(S) -> S]
           /\ \A i, j \in 1..Cardinality(S) : i < j => Ascending(S)[i] < Ascending(S)[j]
<1>1. \E f \in [1..Cardinality(S) -> S] : \A i, j \in DOMAIN f : i < j => f[i] < f[j]
  BY AscendingExists
<1>2. /\ Ascending(S) \in [1..Cardinality(S) -> S]
      /\ \A i, j \in DOMAIN Ascending(S) : i < j => Ascending(S)[i] < Ascending(S)[j]
  BY <1>1 DEF Ascending
<1>3. Cardinality(S) \in Nat
  BY FS_CardinalityType
<1> QED
  BY <1>2, <1>3

(* What is left of a sequence are members of it. *)
LEMMA WithoutFacts ==
    ASSUME NEW R, NEW s \in Seq(R), NEW ats
    PROVE  /\ Without(s, ats) \in Seq(R)
           /\ \A i \in 1..Len(Without(s, ats)) :
                \E j \in 1..Len(s) : j \notin ats /\ Without(s, ats)[i] = s[j]
<1> DEFINE S == DOMAIN s \ ats
           keep == Ascending(S)
<1>1. S \in SUBSET Nat /\ IsFiniteSet(S) /\ DOMAIN s = 1..Len(s) /\ Len(s) \in Nat
  <2>1. DOMAIN s = 1..Len(s) /\ Len(s) \in Nat
    OBVIOUS
  <2>2. IsFiniteSet(1..Len(s))
    BY <2>1, FS_Interval
  <2> QED
    BY <2>1, <2>2, FS_Subset
<1>2. Cardinality(S) \in Nat /\ keep \in [1..Cardinality(S) -> S]
  BY <1>1, AscendingFacts
<1>3. Without(s, ats) = [i \in 1..Cardinality(S) |-> s[keep[i]]]
  BY <1>2 DEF Without
<1>4. \A i \in 1..Cardinality(S) : keep[i] \in 1..Len(s) /\ keep[i] \notin ats
  BY <1>1, <1>2
<1> HIDE DEF S, keep
<1>5. Without(s, ats) \in [1..Cardinality(S) -> R]
  BY <1>1, <1>3, <1>4
<1>6. Without(s, ats) \in Seq(R) /\ Len(Without(s, ats)) = Cardinality(S)
  BY <1>2, <1>5
<1> QED
  BY <1>3, <1>4, <1>6

(* A finite set as a sequence. *)
LEMMA SetToSeqFacts ==
    ASSUME NEW S, IsFiniteSet(S)
    PROVE  /\ SetToSeq(S) \in Seq(S)
           /\ \A i, j \in 1..Len(SetToSeq(S)) : i # j => SetToSeq(S)[i] # SetToSeq(S)[j]
<1>1. Cardinality(S) \in Nat /\ ExistsBijection(1..Cardinality(S), S)
  BY FS_CardinalityType
<1>2. \E f \in [1..Cardinality(S) -> S] : IsInjective(f)
  BY <1>1 DEF ExistsBijection, Bijection, Injection, IsInjective
<1>3. SetToSeq(S) \in [1..Cardinality(S) -> S] /\ IsInjective(SetToSeq(S))
  BY <1>2 DEF SetToSeq
<1>4. SetToSeq(S) \in Seq(S) /\ Len(SetToSeq(S)) = Cardinality(S)
  BY <1>1, <1>3
<1> QED
  BY <1>3, <1>4 DEF IsInjective

-----------------------------------------------------------------------------
(* Which steps change what. *)

(* Only other sessions and commits change the tables. *)
LEMMA TableFrame ==
    [Next]_vars => \/ UNCHANGED <<table, history>>
                   \/ OtherStep
                   \/ \E s \in Saves : ServerCommits(s)
<1> SUFFICES ASSUME [Next]_vars PROVE UNCHANGED <<table, history>>
                   \/ OtherStep
                   \/ (\E s \in Saves : ServerCommits(s))
  OBVIOUS
<1> USE DEF serverVars
<1>1. CASE UserStep
  BY ZenonT(120), <1>1 DEF UserStep, Edit, SetCell, ToggleDelete, AddInsert, RemoveInsert, Edits, OpenPreview,
     CancelPreview, Commit, UseServer, KeepEditing, DiscardAll, Unmount, Remount, Refresh, SwitchAsked
<1>2. CASE OtherStep
  BY <1>2
<1>3. ASSUME NEW s \in Saves, SaveStep(s) PROVE UNCHANGED <<table, history>>
  BY <1>3 DEF SaveStep, PreviewNames, PreviewReads, PreviewFails, PreviewKeeps, CommitTakes,
     CommitBegins, CommitRefused, PlanInserts, PlanApplies, Writes, PlanConflicts, PlanFails,
     CommitSends, CommitAcked, CommitRejected, CommitUnknown, PreviewReply, HandleOutcome
<1>4. ASSUME NEW s \in Saves, ServerAborts(s) PROVE UNCHANGED <<table, history>>
  BY <1>4 DEF ServerAborts
<1>5. CASE QueryDone \/ LoadMore \/ SwitchDatabase \/ SwitchFails \/ TabsDisposed
  BY <1>5 DEF QueryDone, LoadMore, SwitchDatabase, SwitchFails, TabsDisposed
<1>6. CASE UNCHANGED vars
  BY <1>6 DEF vars
<1> QED
  BY <1>1, <1>2, <1>3, <1>4, <1>5, <1>6 DEF Next

(* Which steps change a transaction. *)
TxStep(s) ==
    \/ CommitBegins(s) \/ PlanInserts(s) \/ PlanApplies(s) \/ PlanConflicts(s) \/ PlanFails(s)
    \/ CommitSends(s) \/ ServerCommits(s) \/ ServerAborts(s)

LEMMA TxFrame == [Next]_vars => (tx' = tx) \/ \E s \in Saves : TxStep(s)
<1> SUFFICES ASSUME [Next]_vars PROVE (tx' = tx) \/ \E s \in Saves : TxStep(s)
  OBVIOUS
<1> USE DEF serverVars
<1>1. CASE UserStep
  BY <1>1 DEF UserStep, Edit, SetCell, ToggleDelete, AddInsert, RemoveInsert, Edits, OpenPreview,
     CancelPreview, Commit, UseServer, KeepEditing, DiscardAll, Unmount, Remount, Refresh, SwitchAsked
<1>2. CASE OtherStep
  BY <1>2 DEF OtherStep, OtherUpdates, OtherDeletes, OtherInserts, OtherChanges, OtherAlters
<1>3. ASSUME NEW s \in Saves, SaveStep(s) PROVE (tx' = tx) \/ TxStep(s)
  BY <1>3 DEF TxStep, SaveStep, PreviewNames, PreviewReads, PreviewFails, PreviewKeeps, CommitTakes,
     CommitRefused, CommitAcked, CommitRejected, CommitUnknown, PreviewReply, HandleOutcome
<1>4. CASE QueryDone \/ LoadMore \/ SwitchDatabase \/ SwitchFails \/ TabsDisposed
  BY <1>4 DEF QueryDone, LoadMore, SwitchDatabase, SwitchFails, TabsDisposed
<1>5. CASE UNCHANGED vars
  BY <1>5 DEF vars
<1> QED
  BY <1>1, <1>2, <1>3, <1>4, <1>5 DEF Next, TxStep

-----------------------------------------------------------------------------
(* The state keeps its shape. *)

LEMMA NoTxType == NoTx \in Transactions /\ NoTx.state = "none"
<1>1. 1 \in Databases
  BY EditAssumption DEF Databases
<1> QED
  BY <1>1 DEF NoTx, Transactions

(* One transaction changes. *)
OnlyTx(s) == /\ tx' \in [Saves -> Transactions]
             /\ \A o \in Saves \ {s} : tx'[o] = tx[o]

(* What a statement of a save writes. *)
Wrote(s, gone, come) ==
    /\ OnlyTx(s) /\ tx[s].state = "open" /\ tx'[s].state = "open" /\ tx'[s].db = tx[s].db
    /\ tx'[s].del = tx[s].del \cup (gone \cap table[tx[s].db])
    /\ tx'[s].add = (tx[s].add \ gone) \cup come
    /\ UNCHANGED <<table, history, step, req>>

LEMMA WriteFacts ==
    ASSUME ServerShape, SaveShape, NEW s \in Saves, NEW gone \in SUBSET Row,
           NEW come \in SUBSET Row, HasPlan(s), Writes(s, gone, come)
    PROVE  /\ tx' \in [Saves -> Transactions] /\ Wrote(s, gone, come)
           /\ tx'[s].state = "open" /\ tx[s].state = "open" /\ step[s] = "running"
           /\ tx'[s].db = tx[s].db
           /\ \A o \in Saves \ {s} : tx'[o] = tx[o]
           /\ Len(done[s]) < Len(req[s].plans)
           /\ NextPlan(s) \in Plan
           /\ done' \in [Saves -> Seq(Results)]
           /\ done'[s] = Append(done[s], [op |-> NextPlan(s).op, at |-> NextPlan(s).at,
                                          row |-> come])
           /\ \A o \in Saves \ {s} : done'[o] = done[o]
           /\ UNCHANGED <<table, schema, history, coreVars, changeSets, step, req, event,
                          clash, gridVars, draftVars, locked, barVars, userVars>>
<1> DEFINE t == [tx[s] EXCEPT !.del = tx[s].del \cup (gone \cap table[tx[s].db]),
                              !.add = (tx[s].add \ gone) \cup come]
           d == [op |-> NextPlan(s).op, at |-> NextPlan(s).at, row |-> come]
<1>0. /\ tx \in [Saves -> Transactions] /\ tx[s] \in Transactions
      /\ table \in [Databases -> SUBSET Row] /\ tx[s].db \in Databases
  BY DEF ServerShape, Transactions
<1>1. tx' = [tx EXCEPT ![s] = t]
  BY <1>0 DEF Writes, Transactions
<1>2. t \in Transactions /\ t.state = tx[s].state /\ t.db = tx[s].db
  BY <1>0 DEF Transactions
<1>3. /\ t.del = tx[s].del \cup (gone \cap table[tx[s].db])
      /\ t.add = (tx[s].add \ gone) \cup come
  BY <1>0 DEF Transactions
<1>4. /\ done[s] \in Seq(Results) /\ req[s].plans \in Seq(Plan)
      /\ Len(done[s]) < Len(req[s].plans)
  BY DEF SaveShape, SaveRequests, HasPlan
<1>5. NextPlan(s) \in Plan
  BY <1>4 DEF NextPlan
<1>6. d \in Results
  BY <1>5 DEF Results, Plan, Ops
<1>7. done' = [done EXCEPT ![s] = Append(done[s], d)]
  BY DEF Writes
<1>8. Append(done[s], d) \in Seq(Results)
  BY <1>4, <1>6
<1>9. done \in [Saves -> Seq(Results)]
  BY DEF SaveShape
<1> HIDE DEF t, d
<1>10. /\ done' \in [Saves -> Seq(Results)] /\ done'[s] = Append(done[s], d)
       /\ \A o \in Saves \ {s} : done'[o] = done[o]
  BY <1>7, <1>8, <1>9
<1>11. /\ tx' \in [Saves -> Transactions] /\ tx'[s] = t
       /\ \A o \in Saves \ {s} : tx'[o] = tx[o]
  BY <1>0, <1>1, <1>2
<1>12. tx[s].state = "open" /\ step[s] = "running"
  BY DEF HasPlan, Running
<1>13. UNCHANGED <<table, schema, history, coreVars, changeSets, step, req, event,
                   clash, gridVars, draftVars, locked, barVars, userVars>>
  BY DEF Writes
<1> QED
  BY <1>2, <1>3, <1>4, <1>5, <1>10, <1>11, <1>12, <1>13 DEF d, Wrote, OnlyTx

LEMMA InsertFacts ==
    ASSUME ServerShape, SaveShape, NEW s \in Saves, PlanInserts(s)
    PROVE  \E k \in Keys :
             LET come == {[key |-> k, ver |-> s, val |-> NextPlan(s).val]} IN
             /\ come \in SUBSET Row /\ HasPlan(s) /\ NextPlan(s).op = "insert"
             /\ Free(s, k) /\ \A r \in View(s) : r.key # k
             /\ Writes(s, {}, come)
<1>1. NextPlan(s) \in Plan
  BY DEF PlanInserts, HasPlan, NextPlan, SaveShape, SaveRequests
<1>2. s \in Int /\ NextPlan(s).val \in Vals
  BY <1>1, EditAssumption DEF Plan
<1>3. \A k \in Keys : {[key |-> k, ver |-> s, val |-> NextPlan(s).val]} \in SUBSET Row
  BY <1>2 DEF Row
<1> QED
  BY <1>3 DEF PlanInserts

LEMMA ApplyFacts ==
    ASSUME ServerShape, SaveShape, NEW s \in Saves, PlanApplies(s)
    PROVE  \E r \in Matching(s, NextPlan(s)), come \in SUBSET Row :
             /\ r \in Row /\ HasPlan(s) /\ Free(s, r.key) /\ Writes(s, {r}, come)
             /\ NextPlan(s).op = "delete" => come = {}
             /\ NextPlan(s).op # "delete" =>
                  \E q \in Row : come = {q} /\ q.key = r.key /\ q.ver = s /\ q.val = NextPlan(s).val
<1>1. NextPlan(s) \in Plan
  BY DEF PlanApplies, HasPlan, NextPlan, SaveShape, SaveRequests
<1>2. s \in Int /\ NextPlan(s).val \in Vals
  BY <1>1, EditAssumption DEF Plan
<1>3. PICK r \in Matching(s, NextPlan(s)) :
         /\ Free(s, r.key)
         /\ Writes(s, {r}, IF NextPlan(s).op = "delete" THEN {}
                           ELSE {[r EXCEPT !.ver = s, !.val = NextPlan(s).val]})
  BY DEF PlanApplies
<1>4. r \in Row
  BY DEF Matching, View, ServerShape, Transactions
<1> DEFINE q == [r EXCEPT !.ver = s, !.val = NextPlan(s).val]
<1>5. q \in Row /\ q.key = r.key /\ q.ver = s /\ q.val = NextPlan(s).val
  BY <1>2, <1>4 DEF Row
<1> HIDE DEF q
<1>6. HasPlan(s)
  BY DEF PlanApplies
<1>7. CASE NextPlan(s).op = "delete"
  BY SMTT(60), <1>3, <1>4, <1>6, <1>7
<1>8. CASE NextPlan(s).op # "delete"
  <2>1. Writes(s, {r}, {q}) /\ {q} \in SUBSET Row
    BY <1>3, <1>5, <1>8 DEF q
  <2> QED
    BY <1>3, <1>4, <1>5, <1>6, <1>8, <2>1
<1> QED
  BY <1>7, <1>8

LEMMA SetTx ==
    ASSUME ServerShape, NEW s \in Saves, NEW t \in Transactions, tx' = [tx EXCEPT ![s] = t]
    PROVE  OnlyTx(s) /\ tx'[s] = t
BY DEF ServerShape, OnlyTx

LEMMA BeginFacts ==
    ASSUME ServerShape, CoreShape, NEW s \in Saves, CommitBegins(s)
    PROVE  /\ OnlyTx(s) /\ tx'[s].state = "open" /\ tx'[s].db = database
           /\ tx'[s].del = {} /\ tx'[s].add = {}
<1> DEFINE t == [NoTx EXCEPT !.state = "open", !.db = database]
<1>1. /\ t \in Transactions /\ t.state = "open" /\ t.db = database
      /\ t.del = {} /\ t.add = {}
  BY DEF NoTx, Transactions, CoreShape
<1>2. tx' = [tx EXCEPT ![s] = t]
  BY DEF CommitBegins
<1> HIDE DEF t
<1> QED
  BY <1>1, <1>2, SetTx

LEMMA ConflictFacts ==
    ASSUME ServerShape, NEW s \in Saves, PlanConflicts(s) \/ ServerAborts(s)
    PROVE  OnlyTx(s) /\ tx'[s].state = "none"
<1>1. tx' = [tx EXCEPT ![s] = NoTx]
  BY DEF PlanConflicts, ServerAborts
<1> QED
  BY <1>1, SetTx, NoTxType

LEMMA FailFacts ==
    ASSUME ServerShape, NEW s \in Saves, PlanFails(s)
    PROVE  OnlyTx(s) /\ (tx'[s].state = "none" \/ tx'[s] = tx[s]) /\ tx[s].state = "open"
<1>1. PICK left \in {tx[s], NoTx} : tx' = [tx EXCEPT ![s] = left]
  BY DEF PlanFails
<1>2. left \in Transactions
  BY NoTxType DEF ServerShape
<1>3. tx[s].state = "open"
  BY DEF PlanFails, Running
<1> QED
  BY <1>1, <1>2, <1>3, SetTx, NoTxType

LEMMA SendFacts ==
    ASSUME ServerShape, NEW s \in Saves, CommitSends(s)
    PROVE  /\ OnlyTx(s) /\ tx'[s].state = "committing" /\ tx[s].state = "open"
           /\ tx'[s].db = tx[s].db /\ tx'[s].del = tx[s].del /\ tx'[s].add = tx[s].add
<1> DEFINE t == [tx[s] EXCEPT !.state = "committing"]
<1>1. /\ t \in Transactions /\ t.state = "committing" /\ t.db = tx[s].db
      /\ t.del = tx[s].del /\ t.add = tx[s].add
  BY DEF ServerShape, Transactions
<1>2. tx' = [tx EXCEPT ![s] = t] /\ tx[s].state = "open"
  BY DEF CommitSends, Running
<1> HIDE DEF t
<1> QED
  BY <1>1, <1>2, SetTx

LEMMA CommitFacts ==
    ASSUME ServerShape, NEW s \in Saves, ServerCommits(s)
    PROVE  /\ OnlyTx(s) /\ tx'[s].state = "committed" /\ tx[s].state = "committing"
           /\ tx'[s].db = tx[s].db /\ tx'[s].del = tx[s].del /\ tx'[s].add = tx[s].add
           /\ tx[s].db \in Databases
           /\ table'[tx[s].db] = (table[tx[s].db] \ tx[s].del) \cup tx[s].add
           /\ \A d \in Databases \ {tx[s].db} : table'[d] = table[d]
           /\ table' \in [Databases -> SUBSET Row]
           /\ history' = history \cup tx[s].add
<1> DEFINE t == [tx[s] EXCEPT !.state = "committed"]
<1>1. /\ t \in Transactions /\ t.state = "committed" /\ t.db = tx[s].db
      /\ t.del = tx[s].del /\ t.add = tx[s].add
  BY DEF ServerShape, Transactions
<1>2. tx' = [tx EXCEPT ![s] = t] /\ tx[s].state = "committing"
  BY DEF ServerCommits
<1>3. /\ tx[s].db \in Databases /\ tx[s].add \subseteq Row
      /\ table \in [Databases -> SUBSET Row]
  BY DEF ServerShape, Transactions
<1>4. /\ table' = [table EXCEPT ![tx[s].db] = (table[tx[s].db] \ tx[s].del) \cup tx[s].add]
      /\ history' = history \cup tx[s].add
  BY DEF ServerCommits
<1>5. (table[tx[s].db] \ tx[s].del) \cup tx[s].add \in SUBSET Row
  BY <1>3
<1> HIDE DEF t
<1>6. OnlyTx(s) /\ tx'[s] = t
  BY <1>1, <1>2, SetTx
<1> QED
  BY <1>1, <1>2, <1>3, <1>4, <1>5, <1>6

LEMMA OtherFacts ==
    ASSUME ServerShape, CoreShape, UserShape, NEW gone, NEW come \in SUBSET Row,
           OtherChanges(gone, come)
    PROVE  /\ table' \in [Databases -> SUBSET Row]
           /\ table'[database] = (table[database] \ gone) \cup come
           /\ \A d \in Databases \ {database} : table'[d] = table[d]
           /\ history' = history \cup come
           /\ turns' = turns + 1
           /\ UNCHANGED <<schema, tx, coreVars, changeSets, step, saveVars, gridVars, draftVars,
                          locked, barVars, switching, lockMode, twice>>
<1>1. /\ table' = [table EXCEPT ![database] = (table[database] \ gone) \cup come]
      /\ database \in Databases /\ table \in [Databases -> SUBSET Row]
      /\ history' = history \cup come /\ turns' = turns + 1
      /\ UNCHANGED <<schema, tx, coreVars, changeSets, step, saveVars, gridVars, draftVars,
                          locked, barVars, switching, lockMode, twice>>
  BY DEF OtherChanges, Turn, ServerShape, CoreShape
<1>2. (table[database] \ gone) \cup come \in SUBSET Row
  BY <1>1
<1> QED
  BY <1>1, <1>2

(* A change by another session: of a row nobody has locked, or of a new key. *)
OtherRow(gone, come, k) ==
    /\ OtherChanges(gone, come) /\ FreeForOthers(k)
    /\ \A r \in gone : r \in table[database] /\ r.key = k
    /\ \A r \in come : r.key = k /\ r.ver = -(turns + 1)
    /\ OneRowPerKey(come)
    /\ \A r \in table[database] : r.key = k => r \in gone

LEMMA OtherRows ==
    ASSUME ServerShape, CoreShape, UserShape, LockInv, OtherStep
    PROVE  OtherAlters \/ \E gone, come \in SUBSET Row, k \in Keys : OtherRow(gone, come, k)
<1>0. /\ turns \in Nat /\ table[database] \in SUBSET Row /\ OneRowPerKey(table[database])
  BY DEF ServerShape, CoreShape, UserShape, LockInv
<1>1. ASSUME NEW r \in table[database], NEW v \in Vals, OtherUpdates(r, v)
      PROVE  \E gone, come \in SUBSET Row, k \in Keys : OtherRow(gone, come, k)
  <2> DEFINE n == -turns'
             q == [r EXCEPT !.ver = n, !.val = v]
  <2>1. turns' = turns + 1 /\ OtherChanges({r}, {q}) /\ FreeForOthers(r.key)
    BY <1>1 DEF OtherUpdates, OtherChanges, Turn
  <2>2. r \in Row /\ r.key \in Keys
    BY <1>0 DEF Row
  <2>n. n \in Int /\ n = -(turns + 1)
    BY <1>0, <2>1
  <2> HIDE DEF n
  <2>3. q \in Row /\ q.key = r.key /\ q.ver = n
    BY <2>n, <2>2 DEF Row
  <2> HIDE DEF q
  <2>4. {r} \in SUBSET Row /\ {q} \in SUBSET Row /\ OneRowPerKey({q})
    BY <2>2, <2>3 DEF OneRowPerKey
  <2>5. \A x \in table[database] : x.key = r.key => x \in {r}
    BY <1>0 DEF OneRowPerKey
  <2>6. OtherRow({r}, {q}, r.key)
    BY <2>1, <2>n, <2>3, <2>4, <2>5 DEF OtherRow
  <2> QED
    BY <2>2, <2>4, <2>6
<1>2. ASSUME NEW r \in table[database], OtherDeletes(r)
      PROVE  \E gone, come \in SUBSET Row, k \in Keys : OtherRow(gone, come, k)
  <2>1. OtherChanges({r}, {}) /\ FreeForOthers(r.key)
    BY <1>2 DEF OtherDeletes
  <2>2. r \in Row /\ r.key \in Keys
    BY <1>0 DEF Row
  <2>4. {r} \in SUBSET Row /\ {} \in SUBSET Row /\ OneRowPerKey({})
    BY <2>2 DEF OneRowPerKey
  <2>5. \A x \in table[database] : x.key = r.key => x \in {r}
    BY <1>0 DEF OneRowPerKey
  <2>6. OtherRow({r}, {}, r.key)
    BY <2>1, <2>4, <2>5 DEF OtherRow
  <2> QED
    BY <2>2, <2>4, <2>6
<1>3. ASSUME NEW k \in Keys, NEW v \in Vals, OtherInserts(k, v)
      PROVE  \E gone, come \in SUBSET Row, kk \in Keys : OtherRow(gone, come, kk)
  <2> DEFINE q == [key |-> k, ver |-> -turns', val |-> v]
  <2>1. /\ turns' = turns + 1 /\ OtherChanges({}, {q}) /\ FreeForOthers(k)
        /\ \A r \in table[database] : r.key # k
    BY <1>3 DEF OtherInserts, OtherChanges, Turn
  <2>3. q \in Row /\ q.key = k /\ q.ver = -(turns + 1)
    BY <1>0, <2>1 DEF Row
  <2> HIDE DEF q
  <2>4. {} \in SUBSET Row /\ {q} \in SUBSET Row /\ OneRowPerKey({q})
    BY <2>3 DEF OneRowPerKey
  <2>6. OtherRow({}, {q}, k)
    BY <2>1, <2>3, <2>4 DEF OtherRow
  <2> QED
    BY <2>4, <2>6
<1> QED
  BY <1>1, <1>2, <1>3 DEF OtherStep

-----------------------------------------------------------------------------
(* What a step makes of the saves. *)

Same(o) == /\ step'[o] = step[o] /\ req'[o] = req[o] /\ done'[o] = done[o]
           /\ event'[o] = event[o] /\ clash'[o] = clash[o]

Forgotten(o) == /\ step'[o] = "done" /\ req'[o] = NoSave /\ done'[o] = <<>>
                /\ event'[o] = "none" /\ clash'[o] = NoClash

PlansStay(o) == /\ req'[o].plans = req[o].plans /\ req'[o].origin = req[o].origin
                /\ req'[o].mount = req[o].mount

(* One save moves, and the others stay as they are. *)
Only(s) == SaveShape' /\ \A o \in Saves \ {s} : Same(o)

Moves(s, to, outcome) ==
    /\ Only(s) /\ PlansStay(s)
    /\ step'[s] = to /\ event'[s] = outcome /\ done'[s] = done[s] /\ clash'[s] = clash[s]

LEMMA NoSaveType ==
    /\ NoSave \in SaveRequests /\ NoSave.plans = <<>> /\ NoSave.mount = 0
    /\ NoClash \in Clashes /\ NoClash.current = {}
<1>1. 1 \in Databases
  BY EditAssumption DEF Databases
<1>2. <<>> \in Seq(Plan)
  OBVIOUS
<1> QED
  BY <1>1, <1>2 DEF NoSave, NoClash, SaveRequests, Clashes

LEMMA DropFacts ==
    ASSUME SaveShape, NEW s \in Saves, Drops(s)
    PROVE  Only(s) /\ Forgotten(s)
<1>1. /\ step' = [step EXCEPT ![s] = "done"] /\ req' = [req EXCEPT ![s] = NoSave]
      /\ done' = [done EXCEPT ![s] = <<>>] /\ event' = [event EXCEPT ![s] = "none"]
      /\ clash' = [clash EXCEPT ![s] = NoClash]
  BY DEF Drops, Goes
<1>2. "done" \in Steps /\ "none" \in Outcomes /\ <<>> \in Seq(Results)
  BY DEF Steps, Outcomes
<1>3. SaveShape'
  BY <1>1, <1>2, NoSaveType DEF SaveShape
<1> QED
  BY <1>1, <1>3 DEF SaveShape, Only, Same, Forgotten

(* A save moves on with its request unchanged. *)
LEMMA MoveFacts ==
    ASSUME SaveShape, NEW s \in Saves, NEW to \in Steps, NEW outcome \in Outcomes, Goes(s, to),
           \/ UNCHANGED event /\ outcome = event[s]
           \/ event' = [event EXCEPT ![s] = outcome],
           UNCHANGED <<req, done, clash>>
    PROVE  Moves(s, to, outcome) /\ req' = req
<1>1. step' = [step EXCEPT ![s] = to] /\ event' = [event EXCEPT ![s] = outcome]
  BY DEF Goes, SaveShape
<1>2. SaveShape'
  BY <1>1 DEF SaveShape
<1> QED
  BY <1>1, <1>2 DEF SaveShape, Only, Same, Moves, PlansStay

(* The same, where a field of the request is filled in. *)
LEMMA FillFacts ==
    ASSUME SaveShape, NEW s \in Saves, NEW to \in Steps, NEW outcome \in Outcomes, Goes(s, to),
           \/ UNCHANGED event /\ outcome = event[s]
           \/ event' = [event EXCEPT ![s] = outcome],
           NEW t \in SaveRequests, req' = [req EXCEPT ![s] = t],
           t.plans = req[s].plans, t.origin = req[s].origin, t.mount = req[s].mount,
           UNCHANGED <<done, clash>>
    PROVE  Moves(s, to, outcome) /\ req'[s] = t
<1>1. step' = [step EXCEPT ![s] = to] /\ event' = [event EXCEPT ![s] = outcome]
  BY DEF Goes, SaveShape
<1>2. SaveShape'
  BY <1>1 DEF SaveShape
<1> QED
  BY <1>1, <1>2 DEF SaveShape, Only, Same, Moves, PlansStay

LEMMA EventType == ASSUME SaveShape, NEW s \in Saves PROVE event[s] \in Outcomes /\ step[s] \in Steps
BY DEF SaveShape

LEMMA NamesFacts ==
    ASSUME SaveShape, CoreShape, NEW s \in Saves, PreviewNames(s)
    PROVE  Moves(s, "named", event[s]) /\ req'[s].database = database /\ step[s] = "sent"
<1> DEFINE t == [req[s] EXCEPT !.database = database]
<1>1. /\ t \in SaveRequests /\ t.plans = req[s].plans /\ t.origin = req[s].origin
      /\ t.mount = req[s].mount /\ t.database = database
  BY ZenonT(120) DEF SaveShape, CoreShape, SaveRequests
<1>2. req' = [req EXCEPT ![s] = t] /\ Goes(s, "named") /\ UNCHANGED <<event, done, clash>>
  BY DEF PreviewNames
<1>3. "named" \in Steps /\ event[s] \in Outcomes
  BY EventType DEF Steps
<1> HIDE DEF t
<1>4. step[s] = "sent"
  BY DEF PreviewNames
<1> QED
  BY <1>1, <1>2, <1>3, <1>4, FillFacts

LEMMA ReadsFacts ==
    ASSUME ServerShape, SaveShape, CoreShape, NEW s \in Saves, PreviewReads(s)
    PROVE  /\ \/ Moves(s, "checked", event[s]) /\ store
              \/ Moves(s, "refused", event[s])
           /\ step[s] = "named" /\ req'[s].database = req[s].database
<1> DEFINE t == [req[s] EXCEPT !.schema = schema[database]]
<1>1. /\ t \in SaveRequests /\ t.plans = req[s].plans /\ t.origin = req[s].origin
      /\ t.mount = req[s].mount /\ t.database = req[s].database
  BY ZenonT(120) DEF SaveShape, CoreShape, ServerShape, SaveRequests
<1>2. req' = [req EXCEPT ![s] = t] /\ UNCHANGED <<event, done, clash>>
  BY DEF PreviewReads
<1>3. (Goes(s, "checked") /\ store) \/ Goes(s, "refused")
  BY DEF PreviewReads
<1>4. "checked" \in Steps /\ "refused" \in Steps /\ event[s] \in Outcomes
  BY EventType DEF Steps
<1> HIDE DEF t
<1>5. step[s] = "named"
  BY DEF PreviewReads
<1>6. CASE Goes(s, "checked") /\ store
  BY <1>1, <1>2, <1>4, <1>5, <1>6, FillFacts
<1>7. CASE Goes(s, "refused")
  BY <1>1, <1>2, <1>4, <1>5, <1>7, FillFacts
<1> QED
  BY <1>3, <1>6, <1>7

LEMMA TakesFacts ==
    ASSUME SaveShape, GridShape, NEW s \in Saves, CommitTakes(s)
    PROVE  /\ \/ Moves(s, "taken", event[s]) /\ store
              \/ Moves(s, "ended", "failed")
           /\ step[s] = "commit" /\ req'[s].database = req[s].database
<1> DEFINE t == [req[s] EXCEPT !.results = gen]
<1>1. /\ t \in SaveRequests /\ t.plans = req[s].plans /\ t.origin = req[s].origin
      /\ t.mount = req[s].mount /\ t.database = req[s].database
  BY ZenonT(120) DEF SaveShape, GridShape, SaveRequests
<1>2. req' = [req EXCEPT ![s] = t] /\ UNCHANGED <<done, clash>>
  BY DEF CommitTakes
<1>3. \/ Goes(s, "taken") /\ store /\ UNCHANGED event
      \/ Goes(s, "ended") /\ event' = [event EXCEPT ![s] = "failed"]
  BY DEF CommitTakes, Ends
<1>4. "taken" \in Steps /\ "ended" \in Steps /\ event[s] \in Outcomes /\ "failed" \in Outcomes
  BY EventType DEF Steps, Outcomes
<1> HIDE DEF t
<1>5. step[s] = "commit"
  BY DEF CommitTakes
<1>6. CASE Goes(s, "taken") /\ store /\ UNCHANGED event
  BY <1>1, <1>2, <1>4, <1>5, <1>6, FillFacts
<1>7. CASE Goes(s, "ended") /\ event' = [event EXCEPT ![s] = "failed"]
  BY <1>1, <1>2, <1>4, <1>5, <1>7, FillFacts
<1> QED
  BY <1>3, <1>6, <1>7

LEMMA CommitButtonFacts ==
    ASSUME SaveShape, GridShape, UserShape, Commit
    PROVE  /\ shown \in Saves /\ step[shown] = "shown"
           /\ Moves(shown, "commit", event[shown])
           /\ req'[shown].database = req[shown].database
<1>0. PICK s \in Saves : s = shown
  BY DEF Commit, UserShape
<1> DEFINE t == [req[s] EXCEPT !.rows = gen]
<1>1. /\ t \in SaveRequests /\ t.plans = req[s].plans /\ t.origin = req[s].origin
      /\ t.mount = req[s].mount /\ t.database = req[s].database
  BY ZenonT(120) DEF SaveShape, GridShape, SaveRequests
<1>2. req' = [req EXCEPT ![s] = t] /\ UNCHANGED <<event, done, clash>> /\ Goes(s, "commit")
  BY <1>0 DEF Commit
<1>4. "commit" \in Steps /\ event[s] \in Outcomes
  BY EventType DEF Steps
<1> HIDE DEF t
<1>5. step[s] = "shown"
  BY <1>0 DEF Commit
<1>6. Moves(s, "commit", event[s]) /\ req'[s] = t
  BY <1>1, <1>2, <1>4, FillFacts
<1> QED
  BY <1>0, <1>1, <1>5, <1>6

LEMMA ReplyFacts ==
    ASSUME SaveShape, NEW s \in Saves, PreviewReply(s)
    PROVE  /\ \/ Moves(s, "shown", event[s]) /\ req' = req /\ step[s] = "kept" /\ Alive(s)
              \/ Only(s) /\ Forgotten(s)
           /\ step[s] \in {"kept", "refused"}
<1>1. \/ /\ Goes(s, "shown") /\ step[s] = "kept" /\ Alive(s)
         /\ UNCHANGED event /\ UNCHANGED <<req, done, clash>>
      \/ Drops(s)
  BY DEF PreviewReply, saveVars
<1>2. "shown" \in Steps /\ event[s] \in Outcomes /\ step[s] \in {"kept", "refused"}
  BY EventType DEF Steps, PreviewReply
<1> QED
  BY <1>1, <1>2, MoveFacts, DropFacts

LEMMA OutcomeFacts ==
    ASSUME SaveShape, NEW s \in Saves, HandleOutcome(s)
    PROVE  /\ \/ Moves(s, "done", event[s]) /\ req' = req
              \/ Only(s) /\ Forgotten(s) /\ tx[s].state = "none"
           /\ step[s] = "ended" /\ tx' = tx
<1>1. \/ Goes(s, "done") /\ UNCHANGED event /\ UNCHANGED <<req, done, clash>>
      \/ Drops(s) /\ tx[s].state = "none"
  BY DEF HandleOutcome, saveVars
<1>2. "done" \in Steps /\ event[s] \in Outcomes /\ step[s] = "ended" /\ tx' = tx
  BY EventType DEF Steps, HandleOutcome, serverVars
<1> QED
  BY <1>1, <1>2, MoveFacts, DropFacts

(* A preview on display is forgotten when its bar goes or it is cancelled. *)
AllSame == SaveShape' /\ \A o \in Saves : Same(o)
Closes == \/ AllSame
          \/ \E s \in Saves : Only(s) /\ Forgotten(s) /\ step[s] = "shown"

LEMMA SameFacts ==
    ASSUME SaveShape, UNCHANGED <<step, saveVars>>
    PROVE  AllSame
BY DEF SaveShape, saveVars, AllSame, Same

LEMMA CloseFacts ==
    ASSUME SaveShape, UserShape, BarGone \/ CancelPreview
    PROVE  Closes
<1>1. CASE UNCHANGED <<step, saveVars>>
  BY <1>1, SameFacts DEF Closes
<1>2. CASE shown # None /\ step[shown] = "shown" /\ Drops(shown)
  <2>1. shown \in Saves
    BY <1>2 DEF UserShape
  <2> QED
    BY <1>2, <2>1, DropFacts DEF Closes
<1> QED
  BY <1>1, <1>2 DEF BarGone, CancelPreview

(* The steps a save takes with what it consists of unchanged. *)
Advances(s) ==
    \E to \in Steps, outcome \in Outcomes :
       /\ Moves(s, to, outcome)
       /\ req'[s].database = IF to = "named" THEN database ELSE req[s].database
       /\ to = "checked" => store
       /\ to = "shown" => Alive(s)
       /\ \/ /\ outcome = event[s]
             /\ <<step[s], to>> \in {<<"sent", "named">>, <<"named", "checked">>,
                   <<"named", "refused">>, <<"sent", "refused">>, <<"checked", "kept">>,
                   <<"checked", "refused">>, <<"kept", "shown">>, <<"shown", "commit">>,
                   <<"commit", "taken">>, <<"ended", "done">>}
             /\ tx' = tx
          \/ /\ outcome \in {"failed", "unknown"} /\ to = "ended" /\ tx' = tx
             /\ step[s] \in {"commit", "taken"}
          \/ CommitBegins(s) /\ step[s] = "taken" /\ to = "running" /\ outcome = event[s]
          \/ PlanFails(s) /\ step[s] = "running" /\ to = "ended" /\ outcome = "failed"
          \/ /\ step[s] = "running" /\ to = "ended" /\ tx' = tx
             /\ \/ outcome = "completed" /\ tx[s].state = "committed"
                \/ outcome = "failed" /\ tx[s].state = "none"
                \/ outcome = "unknown"

Forgets(s) ==
    /\ Only(s) /\ Forgotten(s) /\ tx' = tx
    /\ \/ step[s] \in {"kept", "refused", "shown"}
       \/ step[s] = "ended" /\ tx[s].state = "none"

SavesMove ==
    \/ AllSame
    \/ \E s \in Saves : \/ Advances(s) \/ Forgets(s) \/ OpenPreview(s)
                        \/ PlanConflicts(s) \/ PlanInserts(s) \/ PlanApplies(s)

LEMMA UserMoves ==
    ASSUME Shape, UserStep
    PROVE  SavesMove
<1> USE DEF Shape, serverVars
<1>1. CASE Edit \/ UseServer \/ KeepEditing \/ DiscardAll \/ Remount \/ SwitchAsked
  <2>1. UNCHANGED <<step, saveVars>>
    BY <1>1 DEF Edit, SetCell, ToggleDelete, AddInsert, RemoveInsert, Edits, UseServer, KeepEditing,
       DiscardAll, Remount, SwitchAsked
  <2> QED
    BY <2>1, SameFacts DEF SavesMove
<1>2. CASE CancelPreview \/ Unmount \/ Refresh
  <2>1. (BarGone \/ CancelPreview) /\ tx' = tx
    BY <1>2 DEF CancelPreview, Unmount, Refresh
  <2>2. Closes
    BY <2>1, CloseFacts
  <2> QED
    BY <2>1, <2>2 DEF SavesMove, Closes, Forgets
<1>3. CASE Commit
  <2>1. PICK s \in Saves : s = shown
    BY <1>3, CommitButtonFacts
  <2>2. /\ Moves(s, "commit", event[s]) /\ step[s] = "shown"
        /\ req'[s].database = req[s].database
    BY <1>3, <2>1, CommitButtonFacts
  <2>3. tx' = tx
    BY <1>3 DEF Commit
  <2>4. "commit" \in Steps /\ event[s] \in Outcomes
    BY EventType DEF Steps
  <2> QED
    BY <2>2, <2>3, <2>4 DEF SavesMove, Advances
<1> QED
  BY <1>1, <1>2, <1>3 DEF UserStep, SavesMove

LEMMA SaveMoves ==
    ASSUME Shape, NEW s \in Saves, SaveStep(s)
    PROVE  SavesMove
<1> USE DEF Shape, serverVars
<1>0. event[s] \in Outcomes /\ {"completed", "failed", "conflict", "unknown"} \subseteq Outcomes
  BY EventType DEF Outcomes
<1>1. ASSUME PreviewNames(s) PROVE Advances(s)
  <2>1. /\ Moves(s, "named", event[s]) /\ step[s] = "sent" /\ tx' = tx
        /\ req'[s].database = database
    BY <1>1, NamesFacts DEF PreviewNames
  <2> QED
    BY <1>0, <2>1 DEF Advances, Steps
<1>2. ASSUME PreviewReads(s) PROVE Advances(s)
  <2>1. /\ (Moves(s, "checked", event[s]) /\ store) \/ Moves(s, "refused", event[s])
        /\ step[s] = "named" /\ tx' = tx /\ req'[s].database = req[s].database
    BY <1>2, ReadsFacts DEF PreviewReads
  <2> QED
    BY <1>0, <2>1 DEF Advances, Steps
<1>3. ASSUME PreviewFails(s) PROVE Advances(s)
  <2>1. /\ Moves(s, "refused", event[s]) /\ step[s] \in {"sent", "named"} /\ tx' = tx
        /\ req' = req
    BY <1>0, <1>3, MoveFacts DEF PreviewFails, saveVars, Steps
  <2> QED
    BY <1>0, <2>1 DEF Advances, Steps
<1>4. ASSUME PreviewKeeps(s) PROVE Advances(s)
  <2>1. /\ step[s] = "checked" /\ tx' = tx
        /\ Goes(s, "kept") \/ Goes(s, "refused")
        /\ UNCHANGED event /\ UNCHANGED <<req, done, clash>>
    BY <1>4 DEF PreviewKeeps, saveVars
  <2>2. (Moves(s, "refused", event[s]) \/ Moves(s, "kept", event[s])) /\ req' = req
    BY <1>0, <2>1, MoveFacts DEF Steps
  <2> QED
    BY <1>0, <2>1, <2>2 DEF Advances, Steps
<1>5. ASSUME CommitTakes(s) PROVE Advances(s)
  <2>1. /\ Moves(s, "taken", event[s]) \/ Moves(s, "ended", "failed")
        /\ step[s] = "commit" /\ tx' = tx /\ req'[s].database = req[s].database
    BY <1>5, TakesFacts DEF CommitTakes
  <2> QED
    BY <1>0, <2>1 DEF Advances, Steps
<1>6. ASSUME CommitBegins(s) PROVE Advances(s)
  <2>1. Moves(s, "running", event[s]) /\ step[s] = "taken" /\ req' = req
    BY <1>0, <1>6, MoveFacts DEF CommitBegins, saveVars, Steps
  <2> QED
    BY <1>0, <1>6, <2>1 DEF Advances, Steps
<1>7. ASSUME CommitRefused(s) PROVE Advances(s)
  <2>1. PICK outcome \in {"failed", "unknown"} : Ends(s, outcome)
    BY <1>7 DEF CommitRefused
  <2>2. step[s] = "taken" /\ tx' = tx /\ UNCHANGED <<req, done, clash>>
    BY <1>7 DEF CommitRefused
  <2>3. Moves(s, "ended", outcome) /\ req' = req
    BY <1>0, <2>1, <2>2, MoveFacts DEF Ends, Steps
  <2> QED
    BY <1>0, <2>1, <2>2, <2>3 DEF Advances, Steps
<1>8. ASSUME PlanFails(s) PROVE Advances(s)
  <2>1. Moves(s, "ended", "failed") /\ step[s] = "running" /\ req' = req
    BY <1>0, <1>8, MoveFacts DEF PlanFails, Running, Ends, Steps
  <2> QED
    BY <1>0, <1>8, <2>1 DEF Advances, Steps
<1>9. ASSUME CommitSends(s) PROVE AllSame
  BY <1>9, SameFacts DEF CommitSends
<1>10. ASSUME CommitAcked(s) PROVE Advances(s)
  <2>1. /\ Moves(s, "ended", "completed") /\ step[s] = "running" /\ tx' = tx
        /\ tx[s].state = "committed" /\ req' = req
    BY <1>0, <1>10, MoveFacts DEF CommitAcked, Ends, Steps
  <2> QED
    BY <1>0, <2>1 DEF Advances, Steps
<1>11. ASSUME CommitRejected(s) PROVE Advances(s)
  <2>1. /\ Moves(s, "ended", "failed") /\ step[s] = "running" /\ tx' = tx
        /\ tx[s].state = "none" /\ req' = req
    BY <1>0, <1>11, MoveFacts DEF CommitRejected, Ends, Steps
  <2> QED
    BY <1>0, <2>1 DEF Advances, Steps
<1>12. ASSUME CommitUnknown(s) PROVE Advances(s)
  <2>1. Moves(s, "ended", "unknown") /\ step[s] = "running" /\ tx' = tx /\ req' = req
    BY <1>0, <1>12, MoveFacts DEF CommitUnknown, Ends, Steps
  <2> QED
    BY <1>0, <2>1 DEF Advances, Steps
<1>13. ASSUME PreviewReply(s) PROVE Advances(s) \/ Forgets(s)
  <2>1. /\ \/ Moves(s, "shown", event[s]) /\ step[s] = "kept" /\ Alive(s) /\ req' = req
           \/ Only(s) /\ Forgotten(s)
        /\ step[s] \in {"kept", "refused"} /\ tx' = tx
    BY <1>13, ReplyFacts DEF PreviewReply
  <2> QED
    BY <1>0, <2>1 DEF Advances, Forgets, Steps
<1>14. ASSUME HandleOutcome(s) PROVE Advances(s) \/ Forgets(s)
  <2>1. /\ \/ Moves(s, "done", event[s]) /\ req' = req
           \/ Only(s) /\ Forgotten(s) /\ tx[s].state = "none"
        /\ step[s] = "ended" /\ tx' = tx
    BY <1>14, OutcomeFacts
  <2> QED
    BY <1>0, <2>1 DEF Advances, Forgets, Steps
<1> QED
  BY <1>1, <1>2, <1>3, <1>4, <1>5, <1>6, <1>7, <1>8, <1>9, <1>10, <1>11, <1>12, <1>13, <1>14
     DEF SaveStep, SavesMove

LEMMA AllMoves ==
    ASSUME Shape, [Next]_vars
    PROVE  SavesMove
<1> USE DEF Shape
<1>1. CASE OtherStep
  <2>1. UNCHANGED <<step, saveVars>>
    BY <1>1 DEF OtherStep, OtherUpdates, OtherDeletes, OtherInserts, OtherChanges, OtherAlters
  <2> QED
    BY <2>1, SameFacts DEF SavesMove
<1>2. ASSUME NEW s \in Saves, ServerCommits(s) \/ ServerAborts(s) PROVE SavesMove
  <2>1. UNCHANGED <<step, saveVars>>
    BY <1>2 DEF ServerCommits, ServerAborts
  <2> QED
    BY <2>1, SameFacts DEF SavesMove
<1>3. CASE QueryDone \/ LoadMore \/ SwitchDatabase \/ SwitchFails
  <2>1. UNCHANGED <<step, saveVars>>
    BY <1>3 DEF QueryDone, LoadMore, SwitchDatabase, SwitchFails
  <2> QED
    BY <2>1, SameFacts DEF SavesMove
<1>4. CASE TabsDisposed
  <2>1. BarGone /\ tx' = tx
    BY <1>4 DEF TabsDisposed, serverVars
  <2> QED
    BY <2>1, CloseFacts DEF SavesMove, Closes, Forgets
<1>5. CASE UNCHANGED vars
  <2>1. UNCHANGED <<step, saveVars>>
    BY <1>5 DEF vars
  <2> QED
    BY <2>1, SameFacts DEF SavesMove
<1> QED
  BY <1>1, <1>2, <1>3, <1>4, <1>5, UserMoves, SaveMoves DEF Next

-----------------------------------------------------------------------------
(* The change set built from the drafts. *)

LEMMA FiniteImage ==
    ASSUME NEW S, NEW T, NEW f, IsFiniteSet(S), \A y \in T : \E x \in S : y = f[x]
    PROVE  IsFiniteSet(T)
<1> DEFINE R == {f[x] : x \in S}
           g == [x \in S |-> f[x]]
<1>1. g \in Surjection(S, R)
  BY DEF Surjection
<1>2. IsFiniteSet(R)
  BY <1>1, FS_Surjection
<1>3. T \subseteq R
  OBVIOUS
<1> QED
  BY <1>2, <1>3, FS_Subset

LEMMA ConcatFacts ==
    ASSUME NEW P, NEW s \in Seq(P), NEW t \in Seq(P)
    PROVE  /\ s \o t \in Seq(P) /\ Len(s \o t) = Len(s) + Len(t)
           /\ Len(s) \in Nat /\ Len(t) \in Nat
           /\ \A i \in 1..Len(s) : (s \o t)[i] = s[i]
           /\ \A i \in (Len(s) + 1)..(Len(s) + Len(t)) :
                (s \o t)[i] = t[i - Len(s)] /\ i - Len(s) \in 1..Len(t)
OBVIOUS

OfGrid(plans) == \A i \in 1..Len(plans) :
    /\ \A o \in plans[i].seen : \E k \in 1..Len(grid) : o = grid[k]
    /\ \A o, q \in plans[i].seen : o = q
    /\ plans[i].op = "insert" => plans[i].seen = {}
    /\ \A j \in 1..i : plans[j].op = "insert" => plans[i].op = "insert"

PlansOf(op) == {p \in Plan :
    /\ p.op = op
    /\ \A o, q \in p.seen : o = q
    /\ p.op # "insert" => \A o \in p.seen : \E k \in 1..Len(grid) : o = grid[k]
    /\ p.op = "insert" => p.seen = {}}

LEMMA BuiltPlans ==
    ASSUME GridShape, DraftShape, DraftInv
    PROVE  BuildRowChanges \in Seq(Plan) /\ OfGrid(BuildRowChanges)
<1> DEFINE deleted == {d.at : d \in deletes}
           rest == {x \in updates : x.at \notin deleted}
           At(op, i, v) == [op |-> op, at |-> i, seen |-> {grid[i]}, val |-> v]
           D == {At("delete", i, grid[i].val) : i \in deleted}
           U == {At("update", u.at, u.val) : u \in rest}
           I == {[op |-> "insert", at |-> 0, seen |-> {}, val |-> v] : v \in inserts}
<1>1. /\ grid \in Seq(Row) /\ DOMAIN grid = 1..Len(grid)
      /\ \A d \in deletes : d.at \in 1..Len(grid)
      /\ \A u \in updates : u.at \in 1..Len(grid) /\ u.val \in Vals
  BY DEF GridShape, DraftShape, DraftInv, DraftsFollowRows, UpdateDrafts
<1>2. IsFiniteSet(D) /\ D \subseteq PlansOf("delete")
  <2> DEFINE f == [d \in deletes |-> d.at]
             g == [i \in deleted |-> At("delete", i, grid[i].val)]
  <2>0. /\ \A i \in deleted : \E d \in deletes : i = f[d]
        /\ \A p \in D : \E i \in deleted : p = g[i]
    OBVIOUS
  <2>1. IsFiniteSet(deletes)
    BY DEF DraftShape
  <2> HIDE DEF f, g, D
  <2>2. IsFiniteSet(deleted)
    <3> HIDE DEF deleted
    <3> QED
      BY <2>0, <2>1, FiniteImage
  <2>3. IsFiniteSet(D)
    <3> HIDE DEF deleted
    <3> QED
      BY <2>0, <2>2, FiniteImage
  <2>4. ASSUME NEW i \in deleted PROVE At("delete", i, grid[i].val) \in PlansOf("delete")
    <3>1. i \in 1..Len(grid)
      BY <1>1
    <3>2. i \in Nat /\ grid[i] \in Row
      BY <1>1, <3>1
    <3>3. grid[i].val \in Vals
      BY <3>2 DEF Row
    <3> QED
      BY <3>1, <3>2, <3>3 DEF PlansOf, Plan
  <2> QED
    BY <2>3, <2>4 DEF D
<1>3. IsFiniteSet(U) /\ U \subseteq PlansOf("update")
  <2> DEFINE g == [u \in rest |-> At("update", u.at, u.val)]
  <2>1. \A p \in U : \E u \in rest : p = g[u]
    OBVIOUS
  <2>2. IsFiniteSet(rest)
    BY FS_Subset DEF DraftShape
  <2>3. IsFiniteSet(U)
    <3> HIDE DEF g, U, rest
    <3> QED
      BY <2>1, <2>2, FiniteImage
  <2>4. ASSUME NEW u \in rest PROVE At("update", u.at, u.val) \in PlansOf("update")
    <3>1. u.at \in 1..Len(grid) /\ u.at \in Nat /\ grid[u.at] \in Row /\ u.val \in Vals
      BY <1>1
    <3> QED
      BY <3>1 DEF PlansOf, Plan
  <2> QED
    BY <2>3, <2>4
<1>4. IsFiniteSet(I) /\ I \subseteq PlansOf("insert")
  <2> DEFINE g == [v \in inserts |-> [op |-> "insert", at |-> 0, seen |-> {}, val |-> v]]
  <2>1. \A p \in I : \E v \in inserts : p = g[v]
    OBVIOUS
  <2>2. IsFiniteSet(I)
    <3> HIDE DEF g, I
    <3> QED
      BY <2>1, FiniteImage DEF DraftShape
  <2>3. ASSUME NEW v \in inserts
        PROVE  [op |-> "insert", at |-> 0, seen |-> {}, val |-> v] \in PlansOf("insert")
    BY DEF PlansOf, Plan, DraftShape
  <2> QED
    BY <2>2, <2>3
<1>5. BuildRowChanges = SetToSeq(D) \o SetToSeq(U) \o SetToSeq(I)
  BY DEF BuildRowChanges
<1> HIDE DEF D, U, I
<1> DEFINE a == SetToSeq(D)
           b == SetToSeq(U)
           c == SetToSeq(I)
<1>6. a \in Seq(PlansOf("delete")) /\ b \in Seq(PlansOf("update")) /\ c \in Seq(PlansOf("insert"))
  <2>1. a \in Seq(D) /\ b \in Seq(U) /\ c \in Seq(I)
    BY <1>2, <1>3, <1>4, SetToSeqFacts
  <2> QED
    BY <1>2, <1>3, <1>4, <2>1
<1> HIDE DEF a, b, c
<1> DEFINE B == a \o b \o c
<1>7. /\ Len(B) = Len(a) + Len(b) + Len(c)
      /\ \A i \in 1..Len(B) :
           \/ i <= Len(a) /\ B[i] \in PlansOf("delete")
           \/ Len(a) < i /\ i <= Len(a) + Len(b) /\ B[i] \in PlansOf("update")
           \/ Len(a) + Len(b) < i /\ B[i] \in PlansOf("insert")
  <2> DEFINE ab == a \o b
  <2>0. a \in Seq(Plan) /\ b \in Seq(Plan) /\ c \in Seq(Plan)
    BY <1>6 DEF PlansOf
  <2>1. /\ ab \in Seq(Plan) /\ Len(ab) = Len(a) + Len(b) /\ Len(a) \in Nat /\ Len(b) \in Nat
        /\ \A i \in 1..Len(a) : ab[i] = a[i]
        /\ \A i \in (Len(a) + 1)..(Len(a) + Len(b)) :
             ab[i] = b[i - Len(a)] /\ i - Len(a) \in 1..Len(b)
    BY <2>0, ConcatFacts
  <2> HIDE DEF ab
  <2>t. ab \in Seq(Plan)
    BY <2>1
  <2>2. /\ ab \o c \in Seq(Plan) /\ Len(ab \o c) = Len(ab) + Len(c) /\ Len(c) \in Nat
        /\ \A i \in 1..Len(ab) : (ab \o c)[i] = ab[i]
        /\ \A i \in (Len(ab) + 1)..(Len(ab) + Len(c)) :
             (ab \o c)[i] = c[i - Len(ab)] /\ i - Len(ab) \in 1..Len(c)
    BY <2>0, <2>t, ConcatFacts
  <2>3. B = ab \o c
    BY DEF ab
  <2> HIDE DEF B
  <2>4. /\ \A i \in 1..Len(a) : a[i] \in PlansOf("delete")
        /\ \A i \in 1..Len(b) : b[i] \in PlansOf("update")
        /\ \A i \in 1..Len(c) : c[i] \in PlansOf("insert")
    BY <1>6
  <2>5. ASSUME NEW i \in 1..Len(B)
        PROVE  \/ i <= Len(a) /\ B[i] \in PlansOf("delete")
               \/ Len(a) < i /\ i <= Len(a) + Len(b) /\ B[i] \in PlansOf("update")
               \/ Len(a) + Len(b) < i /\ B[i] \in PlansOf("insert")
    <3>0. i \in Nat /\ 1 <= i /\ i <= Len(ab) + Len(c)
      BY <2>1, <2>2, <2>3
    <3>1. CASE i <= Len(a)
      <4>1. i \in 1..Len(a) /\ i \in 1..Len(ab)
        BY <2>1, <3>0, <3>1
      <4>2. B[i] = a[i]
        BY <2>1, <2>2, <2>3, <4>1
      <4> QED
        BY <2>4, <3>1, <4>1, <4>2
    <3>2. CASE Len(a) < i /\ i <= Len(a) + Len(b)
      <4>1. i \in (Len(a) + 1)..(Len(a) + Len(b)) /\ i \in 1..Len(ab)
        BY <2>1, <3>0, <3>2
      <4>2. B[i] = b[i - Len(a)] /\ i - Len(a) \in 1..Len(b)
        BY <2>1, <2>2, <2>3, <4>1
      <4> QED
        BY <2>4, <3>2, <4>2
    <3>3. CASE Len(a) + Len(b) < i
      <4>1. i \in (Len(ab) + 1)..(Len(ab) + Len(c))
        BY <2>1, <2>2, <3>0, <3>3
      <4>2. B[i] = c[i - Len(ab)] /\ i - Len(ab) \in 1..Len(c)
        BY <2>2, <2>3, <4>1
      <4> QED
        BY <2>4, <3>3, <4>2
    <3> QED
      BY <2>1, <3>1, <3>2, <3>3
  <2> QED
    BY <2>1, <2>2, <2>3, <2>5
<1>8. B \in Seq(Plan)
  BY <1>6 DEF PlansOf
<1>9. BuildRowChanges = B
  BY <1>5 DEF a, b, c
<1> HIDE DEF B
<1>10. Len(a) \in Nat /\ Len(b) \in Nat /\ Len(B) \in Nat
  BY <1>6, <1>8
<1>11. ASSUME NEW i \in 1..Len(B)
       PROVE  /\ \A o \in B[i].seen : \E k \in 1..Len(grid) : o = grid[k]
              /\ \A o, q \in B[i].seen : o = q
              /\ B[i].op = "insert" => B[i].seen = {}
              /\ \A j \in 1..i : B[j].op = "insert" => B[i].op = "insert"
  <2>1. /\ \A o \in B[i].seen : \E k \in 1..Len(grid) : o = grid[k]
        /\ \A o, q \in B[i].seen : o = q
        /\ B[i].op = "insert" => B[i].seen = {}
    BY <1>7 DEF PlansOf
  <2>2. ASSUME NEW j \in 1..i, B[j].op = "insert" PROVE B[i].op = "insert"
    <3>1. j \in 1..Len(B) /\ j <= i
      BY <1>10
    <3>2. Len(a) + Len(b) < j
      BY <1>7, <2>2, <3>1 DEF PlansOf
    <3> QED
      BY <1>7, <1>10, <3>1, <3>2 DEF PlansOf
  <2> QED
    BY <2>1, <2>2
<1> QED
  BY <1>8, <1>9, <1>11 DEF OfGrid

LEMMA OpenFacts ==
    ASSUME Shape, DraftInv, NEW s \in Saves, OpenPreview(s)
    PROVE  /\ Only(s) /\ step[s] = "unused" /\ step'[s] = "sent"
           /\ req'[s].plans = BuildRowChanges /\ req'[s].origin = gridDb
           /\ req'[s].mount = mount
           /\ done'[s] = done[s] /\ event'[s] = event[s] /\ clash'[s] = clash[s]
           /\ tx' = tx /\ table' = table /\ history' = history /\ UNCHANGED <<gridVars, barVars>>
<1> DEFINE t == [NoSave EXCEPT !.mount = mount, !.plans = BuildRowChanges, !.origin = gridDb]
<1>1. t \in SaveRequests /\ t.plans = BuildRowChanges /\ t.origin = gridDb /\ t.mount = mount
  <2>1. BuildRowChanges \in Seq(Plan) /\ mount \in Nat /\ gridDb \in Databases
    BY BuiltPlans DEF Shape, UserShape, GridShape
  <2>2. 1 \in Databases
    BY EditAssumption DEF Databases
  <2> QED
    BY <2>1, <2>2 DEF NoSave, SaveRequests
<1>2. /\ step' = [step EXCEPT ![s] = "sent"] /\ req' = [req EXCEPT ![s] = t]
      /\ step[s] = "unused" /\ UNCHANGED <<done, event, clash>>
  BY DEF OpenPreview, Goes
<1>3. tx' = tx /\ table' = table /\ history' = history /\ UNCHANGED <<gridVars, barVars>>
  BY DEF OpenPreview, serverVars
<1> HIDE DEF t
<1>4. "sent" \in Steps
  BY DEF Steps
<1>5. SaveShape'
  BY <1>1, <1>2, <1>4 DEF Shape, SaveShape
<1> QED
  BY <1>1, <1>2, <1>3, <1>5 DEF Shape, SaveShape, Only, Same

LEMMA ClashFacts ==
    ASSUME ServerShape, SaveShape, NEW s \in Saves, PlanConflicts(s)
    PROVE  /\ Only(s) /\ PlansStay(s) /\ step[s] = "running" /\ step'[s] = "ended"
           /\ event'[s] = "conflict" /\ done'[s] = done[s] /\ req' = req
           /\ clash'[s].current = {r \in View(s) : \E o \in NextPlan(s).seen : r.key = o.key}
           /\ NextPlan(s) \in Plan /\ HasPlan(s)
<1> DEFINE c == [at |-> NextPlan(s).at,
                 current |-> {r \in View(s) : \E o \in NextPlan(s).seen : r.key = o.key}]
<1>1. NextPlan(s) \in Plan /\ HasPlan(s) /\ step[s] = "running"
  BY DEF PlanConflicts, HasPlan, Running, NextPlan, SaveShape, SaveRequests
<1>2. View(s) \subseteq Row
  BY DEF View, ServerShape, Transactions
<1>3. c \in Clashes
  BY <1>1, <1>2 DEF Clashes, Plan
<1>4. /\ step' = [step EXCEPT ![s] = "ended"] /\ event' = [event EXCEPT ![s] = "conflict"]
      /\ clash' = [clash EXCEPT ![s] = c] /\ UNCHANGED <<req, done>>
  BY DEF PlanConflicts, Ends, Goes
<1>5. "ended" \in Steps /\ "conflict" \in Outcomes
  BY DEF Steps, Outcomes
<1>6. c.current = {r \in View(s) : \E o \in NextPlan(s).seen : r.key = o.key}
  OBVIOUS
<1> HIDE DEF c
<1>7. SaveShape'
  BY <1>3, <1>4, <1>5 DEF SaveShape
<1>8. clash'[s] = c
  BY <1>4 DEF SaveShape
<1> QED
  BY <1>1, <1>4, <1>6, <1>7, <1>8 DEF SaveShape, Only, Same, PlansStay

(* The shape of the saves, which is what the previous lemmas are for. *)
LEMMA SaveShapeStep ==
    ASSUME Shape, DraftInv, [Next]_vars
    PROVE  SaveShape'
<1>1. ASSUME NEW s \in Saves, PlanInserts(s) \/ PlanApplies(s) PROVE SaveShape'
  <2>1. \E gone, come \in SUBSET Row : HasPlan(s) /\ Writes(s, gone, come)
    BY ZenonT(120), <1>1, InsertFacts, ApplyFacts DEF Shape
  <2>2. done' \in [Saves -> Seq(Results)] /\ UNCHANGED <<step, req, event, clash>>
    BY <2>1, WriteFacts DEF Shape
  <2> QED
    BY <2>2 DEF Shape, SaveShape
<1> QED
  BY <1>1, AllMoves, OpenFacts, ClashFacts
     DEF Shape, SavesMove, AllSame, Advances, Moves, Forgets, Only

-----------------------------------------------------------------------------
(* The rest of the state keeps its shape. *)

CoreFrame ==
    /\ schema' = schema \/ OtherAlters
    /\ database' = database \/ SwitchDatabase
    /\ store' = store \/ (UserStep /\ Refresh) \/ SwitchDatabase
    /\ offset' = offset \/ QueryDone \/ LoadMore \/ \E s \in Saves : CommitAcked(s)
    /\ changeSets' \subseteq changeSets \/ \E s \in Saves : PreviewKeeps(s)

LEMMA CoreFrames == [Next]_vars => CoreFrame
<1> SUFFICES ASSUME [Next]_vars PROVE CoreFrame
  OBVIOUS
<1> USE DEF serverVars, coreVars, CoreFrame
<1>1. CASE UserStep
  BY ZenonT(120), <1>1 DEF UserStep, Edit, SetCell, ToggleDelete, AddInsert, RemoveInsert, Edits, OpenPreview,
     CancelPreview, Commit, UseServer, KeepEditing, DiscardAll, Unmount, Remount, Refresh, SwitchAsked
<1>2. CASE OtherStep
  BY ZenonT(120), <1>2 DEF OtherStep, OtherUpdates, OtherDeletes, OtherInserts, OtherChanges, OtherAlters
<1>3. ASSUME NEW s \in Saves, SaveStep(s) PROVE CoreFrame
  BY <1>3 DEF SaveStep, PreviewNames, PreviewReads, PreviewFails, CommitTakes,
     CommitBegins, CommitRefused, PlanInserts, PlanApplies, Writes, PlanConflicts, PlanFails,
     CommitSends, CommitAcked, CommitRejected, CommitUnknown, PreviewReply, HandleOutcome, PreviewKeeps
<1>4. ASSUME NEW s \in Saves, ServerAborts(s) \/ ServerCommits(s) PROVE CoreFrame
  BY <1>4 DEF ServerAborts, ServerCommits
<1>5. CASE QueryDone \/ LoadMore \/ SwitchDatabase \/ SwitchFails \/ TabsDisposed
  BY <1>5 DEF QueryDone, LoadMore, SwitchDatabase, SwitchFails, TabsDisposed
<1>6. CASE UNCHANGED vars
  BY <1>6 DEF vars
<1> QED
  BY <1>1, <1>2, <1>3, <1>4, <1>5, <1>6 DEF Next

UserFrame ==
    /\ UNCHANGED <<mount, mounted>> \/ Remount \/ (BarGone /\ mount' = mount)
    /\ shown' \in {shown, None} \/ \E s \in Saves : PreviewReply(s) \/ HandleOutcome(s)
    /\ conflict' \in {conflict, {}} \/ \E s \in Saves : HandleOutcome(s)
    /\ switching' = switching \/ (UserStep /\ SwitchAsked) \/ SwitchDatabase \/ SwitchFails \/ TabsDisposed
    /\ turns' = turns \/ turns' = turns + 1
    /\ lockMode' = lockMode
    /\ twice' = twice \/ \E s \in Saves : OpenPreview(s) /\ twice' = twice \cup {s}

LEMMA UserFrames == [Next]_vars => UserFrame
<1> SUFFICES ASSUME [Next]_vars PROVE UserFrame
  OBVIOUS
<1> USE DEF barVars, userVars, UserFrame
<1>1. CASE UserStep
  BY ZenonT(120), <1>1 DEF UserStep, Edit, SetCell, ToggleDelete, AddInsert, RemoveInsert, Edits, OpenPreview,
     CancelPreview, Commit, UseServer, KeepEditing, DiscardAll, Unmount, Refresh, SwitchAsked, Turn,
     BarGone, Remount
<1>2. CASE OtherStep
  BY <1>2 DEF OtherStep, OtherUpdates, OtherDeletes, OtherInserts, OtherChanges, OtherAlters, Turn
<1>3. ASSUME NEW s \in Saves, SaveStep(s) PROVE UserFrame
  BY <1>3 DEF SaveStep, PreviewNames, PreviewReads, PreviewFails, CommitTakes,
     CommitBegins, CommitRefused, PlanInserts, PlanApplies, Writes, PlanConflicts, PlanFails,
     CommitSends, CommitAcked, CommitRejected, CommitUnknown, PreviewReply, HandleOutcome, PreviewKeeps
<1>4. ASSUME NEW s \in Saves, ServerAborts(s) \/ ServerCommits(s) PROVE UserFrame
  BY <1>4 DEF ServerAborts, ServerCommits
<1>5. CASE QueryDone \/ LoadMore \/ SwitchDatabase \/ SwitchFails \/ TabsDisposed
  BY <1>5 DEF QueryDone, LoadMore, SwitchDatabase, SwitchFails, TabsDisposed, BarGone
<1>6. CASE UNCHANGED vars
  BY <1>6 DEF vars
<1> QED
  BY SMTT(60), <1>1, <1>2, <1>3, <1>4, <1>5, <1>6 DEF Next

GridFrame ==
    /\ \/ UNCHANGED <<grid, gen, gridDb, status>>
       \/ QueryDone \/ LoadMore \/ Refresh \/ TabsDisposed \/ UseServer
       \/ \E s \in Saves : HandleOutcome(s)
    /\ \/ UNCHANGED draftVars
       \/ UserStep /\ Edit
       \/ ClearDrafts
       \/ UseServer

LEMMA GridFrames == [Next]_vars => GridFrame
<1> SUFFICES ASSUME [Next]_vars PROVE GridFrame
  OBVIOUS
<1> USE DEF gridVars, GridFrame
<1>1. CASE UserStep
  BY ZenonT(120), <1>1 DEF UserStep, Edit, SetCell, ToggleDelete, AddInsert, RemoveInsert, Edits, OpenPreview,
     CancelPreview, Commit, KeepEditing, DiscardAll, Unmount, Refresh, SwitchAsked, Remount
<1>2. CASE OtherStep
  BY <1>2 DEF OtherStep, OtherUpdates, OtherDeletes, OtherInserts, OtherChanges, OtherAlters
<1>3. ASSUME NEW s \in Saves, SaveStep(s) PROVE GridFrame
  BY <1>3 DEF SaveStep, PreviewNames, PreviewReads, PreviewFails, CommitTakes,
     CommitBegins, CommitRefused, PlanInserts, PlanApplies, Writes, PlanConflicts, PlanFails,
     CommitSends, CommitAcked, CommitRejected, CommitUnknown, PreviewReply, HandleOutcome, PreviewKeeps,
     draftVars
<1>4. ASSUME NEW s \in Saves, ServerAborts(s) \/ ServerCommits(s) PROVE GridFrame
  BY <1>4 DEF ServerAborts, ServerCommits
<1>5. CASE QueryDone \/ LoadMore \/ SwitchDatabase \/ SwitchFails \/ TabsDisposed
  BY <1>5 DEF QueryDone, LoadMore, SwitchDatabase, SwitchFails, TabsDisposed
<1>6. CASE UNCHANGED vars
  BY <1>6 DEF vars
<1> QED
  BY <1>1, <1>2, <1>3, <1>4, <1>5, <1>6 DEF Next

LEMMA PageFacts ==
    ASSUME NEW rows \in SUBSET Row
    PROVE  InOrder(rows) \in Seq(rows)
<1> DEFINE K == {r.key : r \in rows}
           keys == Ascending(K)
<1>1. K \in SUBSET Nat /\ IsFiniteSet(K)
  <2>1. K \subseteq Keys
    BY DEF Row
  <2> HIDE DEF K
  <2> QED
    BY <2>1, EditAssumption, FS_Subset
<1>2. Cardinality(K) \in Nat /\ keys \in [1..Cardinality(K) -> K]
  BY <1>1, AscendingFacts
<1>3. InOrder(rows) = [i \in 1..Cardinality(K) |-> CHOOSE r \in rows : r.key = keys[i]]
  BY <1>2 DEF InOrder
<1>4. \A i \in 1..Cardinality(K) : \E r \in rows : r.key = keys[i]
  BY <1>2
<1> HIDE DEF K, keys
<1>5. InOrder(rows) \in [1..Cardinality(K) -> rows]
  BY <1>3, <1>4
<1> QED
  BY <1>2, <1>5

LEMMA PageType ==
    ASSUME ServerShape, database \in Databases, NEW n \in Nat
    PROVE  PageAt(n) \in Seq(table[database])
<1> DEFINE all == InOrder(table[database])
<1>1. all \in Seq(table[database])
  BY PageFacts DEF ServerShape
<1> HIDE DEF all
<1>2. PageSize \in Nat
  BY EditAssumption
<1>3. PICK m \in Nat : m <= Len(all) /\ PageAt(n) = SubSeq(all, n + 1, m)
  BY <1>1, <1>2 DEF PageAt, all
<1>4. PICK R : R = table[database]
  OBVIOUS
<1>5. all \in Seq(R) /\ n + 1 \in Int /\ m \in Int /\ 1 <= n + 1
  BY <1>1, <1>4
<1>6. SubSeq(all, n + 1, m) \in Seq(R)
  BY <1>3, <1>5
<1> QED
  BY <1>3, <1>4, <1>6

(* The rows a save returned. *)
LEMMA Returned ==
    ASSUME SaveShape, DoneInv, NEW s \in Saves, NEW op \in {"update", "insert"}
    PROVE  /\ Of(s, op) \in Seq(Results)
           /\ \A i \in 1..Len(Of(s, op)) : \E j \in 1..Len(done[s]) :
                /\ Of(s, op)[i] = done[s][j] /\ New(Of(s, op)[i]) \in done[s][j].row
                /\ New(Of(s, op)[i]) \in Row
<1> DEFINE ats == {i \in DOMAIN done[s] : done[s][i].op # op}
<1>1. done[s] \in Seq(Results) /\ DOMAIN done[s] = 1..Len(done[s])
  BY DEF SaveShape
<1>2. /\ Of(s, op) \in Seq(Results)
      /\ \A i \in 1..Len(Of(s, op)) :
            \E j \in 1..Len(done[s]) : j \notin ats /\ Of(s, op)[i] = done[s][j]
  <2>1. Of(s, op) = Without(done[s], ats)
    BY DEF Of
  <2> HIDE DEF ats
  <2> QED
    BY <1>1, <2>1, WithoutFacts
<1>3. ASSUME NEW i \in 1..Len(Of(s, op)), NEW j \in 1..Len(done[s]), j \notin ats,
             Of(s, op)[i] = done[s][j]
      PROVE  New(Of(s, op)[i]) \in done[s][j].row /\ New(Of(s, op)[i]) \in Row
  <2>1. done[s][j].op = op /\ done[s][j] \in Results
    BY <1>1, <1>3
  <2>2. done[s][j].row # {} /\ done[s][j].row \subseteq Row
    BY <2>1 DEF DoneInv, Results
  <2> QED
    BY <1>3, <2>2 DEF New
<1> QED
  BY <1>2, <1>3

OnDisplayOrReturned(r, s) ==
    \/ \E k \in 1..Len(grid) : r = grid[k]
    \/ \E j \in 1..Len(done[s]) : r \in done[s][j].row

LEMMA AppliedRows ==
    ASSUME SaveShape, GridShape, DoneInv, NEW s \in Saves
    PROVE  /\ ApplyUpdatedRows(s) \in Seq(Row)
           /\ \A i \in 1..Len(ApplyUpdatedRows(s)) : OnDisplayOrReturned(ApplyUpdatedRows(s)[i], s)
<1>1. grid \in Seq(Row) /\ DOMAIN grid = 1..Len(grid)
  BY DEF GridShape
<1> DEFINE upd == Of(s, "update")
           ins == Of(s, "insert")
           on(i) == {d \in Range(upd) : d.at = i}
           rep == ReplaceRows(s)
           P == {r \in Row : OnDisplayOrReturned(r, s)}
<1>2. ASSUME NEW i \in 1..Len(grid) PROVE rep[i] \in P
  <2>1. rep[i] = IF on(i) = {} THEN grid[i] ELSE New(CHOOSE d \in on(i) : TRUE)
    BY <1>1 DEF ReplaceRows
  <2>2. CASE on(i) = {}
    BY <1>1, <2>1, <2>2 DEF OnDisplayOrReturned
  <2>3. CASE on(i) # {}
    <3>1. PICK d \in on(i) : rep[i] = New(d)
      BY <2>1, <2>3
    <3>2. upd \in Seq(Results)
      BY Returned
    <3>3. PICK n \in 1..Len(upd) : d = upd[n]
      BY <3>1, <3>2 DEF Range
    <3>4. PICK j \in 1..Len(done[s]) : New(upd[n]) \in done[s][j].row /\ New(upd[n]) \in Row
      BY Returned
    <3>5. rep[i] \in done[s][j].row /\ rep[i] \in Row
      BY <3>1, <3>3, <3>4
    <3> QED
      BY <3>5 DEF OnDisplayOrReturned
  <2> QED
    BY <2>2, <2>3
<1>3. rep \in Seq(P)
  <2>1. rep = [i \in 1..Len(grid) |-> rep[i]]
    BY <1>1 DEF ReplaceRows
  <2>2. Len(grid) \in Nat
    BY <1>1
  <2> HIDE DEF rep, P
  <2>3. rep \in [1..Len(grid) -> P]
    BY <1>2, <2>1
  <2> QED
    BY <2>2, <2>3
<1> DEFINE cut == Without(rep, {d.at : d \in Range(Of(s, "delete"))})
           new == [j \in DOMAIN ins |-> New(ins[j])]
<1>4. cut \in Seq(P)
  <2> HIDE DEF rep, P
  <2> QED
    BY <1>3, WithoutFacts
<1>5. new \in Seq(P)
  <2>1. ins \in Seq(Results) /\ DOMAIN ins = 1..Len(ins) /\ Len(ins) \in Nat
    BY Returned
  <2>2. ASSUME NEW j \in 1..Len(ins) PROVE New(ins[j]) \in P
    BY Returned DEF OnDisplayOrReturned
  <2> HIDE DEF P
  <2>3. new \in [1..Len(ins) -> P]
    BY <2>1, <2>2
  <2> QED
    BY <2>1, <2>3
<1>6. ApplyUpdatedRows(s) = cut \o new
  BY DEF ApplyUpdatedRows, PushRows
<1> HIDE DEF cut, new, P
<1>7. ApplyUpdatedRows(s) \in Seq(P)
  BY <1>4, <1>5, <1>6
<1> QED
  BY <1>7 DEF P

(* Drafts move with the rows under them. *)
MovedUp(at, i, removed) == IF removed = {i} /\ i < at THEN at - 1 ELSE at

LEMMA ResolveFacts ==
    ASSUME DraftShape, DraftInv, GridShape, NEW i \in Nat, NEW removed \in {{}, {i}},
           ResolveRows({i}, removed)
    PROVE  /\ updates' \subseteq UpdateDrafts /\ IsFiniteSet(updates')
           /\ deletes' \subseteq DeleteDrafts /\ IsFiniteSet(deletes')
           /\ \A d \in updates' \cup deletes' : \E u \in updates \cup deletes :
                u.at # i /\ d.of = u.of /\ d.at = MovedUp(u.at, i, removed)
<1> DEFINE Moved(d) == [d EXCEPT !.at = d.at - Cardinality({r \in removed : r < d.at})]
           us == {x \in updates : x.at \notin {i}}
           ds == {x \in deletes : x.at \notin {i}}
<1>1. updates' = {Moved(u) : u \in us} /\ deletes' = {Moved(d) : d \in ds}
  BY DEF ResolveRows
<1>2. /\ \A u \in updates : u \in UpdateDrafts /\ u.at \in Nat \ {0}
      /\ \A d \in deletes : d \in DeleteDrafts /\ d.at \in Nat \ {0}
  BY DEF DraftShape, DraftInv, DraftsFollowRows, GridShape
<1>3. ASSUME NEW u \in us \cup ds
      PROVE  u.at - Cardinality({r \in removed : r < u.at}) = MovedUp(u.at, i, removed)
  <2> DEFINE R == {r \in removed : r < u.at}
  <2>1. u.at \in Nat
    BY <1>2
  <2>2. CASE removed = {i} /\ i < u.at
    <3>1. R = {i}
      BY <2>2
    <3> QED
      BY <2>1, <2>2, <3>1, FS_Singleton DEF MovedUp
  <2>3. CASE ~(removed = {i} /\ i < u.at)
    <3>1. R = {}
      BY <2>3
    <3> QED
      BY <2>1, <2>3, <3>1, FS_EmptySet DEF MovedUp
  <2> QED
    BY <2>2, <2>3
<1>4. ASSUME NEW u \in us \cup ds PROVE MovedUp(u.at, i, removed) \in Nat
  BY <1>2 DEF MovedUp
<1>5. ASSUME NEW u \in us PROVE /\ Moved(u) \in UpdateDrafts /\ Moved(u).of = u.of
                                /\ Moved(u).at = MovedUp(u.at, i, removed)
  <2>1. Moved(u) = [u EXCEPT !.at = MovedUp(u.at, i, removed)]
    BY <1>3
  <2>2. u \in UpdateDrafts
    BY <1>2
  <2> HIDE DEF Moved
  <2> QED
    BY <1>4, <2>1, <2>2 DEF UpdateDrafts
<1>6. ASSUME NEW u \in ds PROVE /\ Moved(u) \in DeleteDrafts /\ Moved(u).of = u.of
                                /\ Moved(u).at = MovedUp(u.at, i, removed)
  <2>1. Moved(u) = [u EXCEPT !.at = MovedUp(u.at, i, removed)]
    BY <1>3
  <2>2. u \in DeleteDrafts
    BY <1>2
  <2> HIDE DEF Moved
  <2> QED
    BY <1>4, <2>1, <2>2 DEF DeleteDrafts
<1>7. IsFiniteSet(us) /\ IsFiniteSet(ds)
  BY FS_Subset DEF DraftShape
<1>8. IsFiniteSet(updates') /\ IsFiniteSet(deletes')
  <2> DEFINE f == [u \in us |-> Moved(u)]
             g == [d \in ds |-> Moved(d)]
  <2>1. /\ \A y \in updates' : \E x \in us : y = f[x]
        /\ \A y \in deletes' : \E x \in ds : y = g[x]
    BY <1>1
  <2> HIDE DEF f, g, us, ds
  <2> QED
    BY <1>7, <2>1, FiniteImage
<1>9. us \subseteq updates /\ ds \subseteq deletes /\ \A u \in us \cup ds : u.at # i
  OBVIOUS
<1> HIDE DEF us, ds, Moved
<1> QED
  BY <1>1, <1>5, <1>6, <1>8, <1>9

LEMMA ServerShapeStep ==
    ASSUME Shape, LockInv, [Next]_vars
    PROVE  ServerShape'
<1>1. table' \in [Databases -> SUBSET Row] /\ history' \subseteq Row
  <2>0. ServerShape /\ history \subseteq Row /\ table \in [Databases -> SUBSET Row]
    BY DEF Shape, ServerShape
  <2>1. CASE UNCHANGED <<table, history>>
    BY <2>0, <2>1
  <2>2. CASE OtherStep
    <3>1. CASE OtherAlters
      BY <2>0, <3>1 DEF OtherAlters
    <3>2. ASSUME NEW gone \in SUBSET Row, NEW come \in SUBSET Row, NEW k, OtherRow(gone, come, k)
          PROVE  table' \in [Databases -> SUBSET Row] /\ history' \subseteq Row
      <4>1. OtherChanges(gone, come)
        BY <3>2 DEF OtherRow
      <4>2. table' \in [Databases -> SUBSET Row] /\ history' = history \cup come
        BY <4>1, OtherFacts DEF Shape
      <4> QED
        BY <2>0, <4>2
    <3> QED
      BY <2>2, <3>1, <3>2, OtherRows DEF Shape
  <2>3. ASSUME NEW s \in Saves, ServerCommits(s)
        PROVE  table' \in [Databases -> SUBSET Row] /\ history' \subseteq Row
    <3>1. table' \in [Databases -> SUBSET Row] /\ history' = history \cup tx[s].add
      BY <2>0, <2>3, CommitFacts
    <3>2. tx[s].add \subseteq Row
      BY DEF Shape, ServerShape, Transactions
    <3> QED
      BY <2>0, <3>1, <3>2
  <2> QED
    BY <2>1, <2>2, <2>3, TableFrame
<1>2. schema' \in [Databases -> Nat]
  BY CoreFrames DEF CoreFrame, OtherAlters, Shape, ServerShape, CoreShape
<1>3. tx' \in [Saves -> Transactions]
  <2>1. ASSUME NEW s \in Saves, TxStep(s) PROVE tx' \in [Saves -> Transactions]
    <3>1. CASE PlanInserts(s) \/ PlanApplies(s)
      <4>1. \E gone, come \in SUBSET Row : HasPlan(s) /\ Writes(s, gone, come)
        BY <3>1, InsertFacts, ApplyFacts DEF Shape
      <4> QED
        BY <4>1, WriteFacts DEF Shape
    <3> QED
      BY <2>1, <3>1, BeginFacts, ConflictFacts, FailFacts, SendFacts, CommitFacts
         DEF TxStep, OnlyTx, Shape
  <2> QED
    BY <2>1, TxFrame DEF Shape, ServerShape
<1> QED
  BY <1>1, <1>2, <1>3 DEF ServerShape

LEMMA CoreShapeStep ==
    ASSUME Shape, DatabaseInv, [Next]_vars
    PROVE  CoreShape'
<1>0. CoreFrame
  BY CoreFrames
<1>1. database' \in Databases
  BY <1>0, EditAssumption DEF CoreFrame, SwitchDatabase, DatabaseInv, Shape, CoreShape, Databases
<1>2. store' \in BOOLEAN
  BY <1>0 DEF CoreFrame, Shape, CoreShape, Refresh, SwitchDatabase
<1>3. offset' \in Nat
  <2>1. CASE QueryDone
    BY <2>1, EditAssumption DEF QueryDone
  <2>2. CASE LoadMore
    <3>1. PageAt(offset) \in Seq(table[database]) /\ offset \in Nat
      BY PageType DEF Shape, CoreShape
    <3> QED
      BY <2>2, <3>1 DEF LoadMore
  <2>3. ASSUME NEW s \in Saves, CommitAcked(s) PROVE offset' \in Nat
    <3>1. ASSUME NEW op PROVE Count(s, op) \in Nat
      <4> DEFINE N == {i \in DOMAIN done[s] : done[s][i].op = op}
      <4>1. DOMAIN done[s] = 1..Len(done[s]) /\ Len(done[s]) \in Nat
        BY DEF Shape, SaveShape
      <4>2. IsFiniteSet(1..Len(done[s])) /\ N \subseteq 1..Len(done[s])
        BY <4>1, FS_Interval
      <4>3. IsFiniteSet(N)
        BY <4>2, FS_Subset
      <4> QED
        BY <4>3, FS_CardinalityType DEF Count
    <3>2. offset' = Shifted(s) /\ offset \in Nat
      BY <2>3 DEF CommitAcked, Shape, CoreShape
    <3> QED
      BY <3>1, <3>2 DEF Shifted
  <2> QED
    BY <1>0, <2>1, <2>2, <2>3 DEF CoreFrame, Shape, CoreShape
<1>4. /\ changeSets' \subseteq Saves /\ IsFiniteSet(changeSets')
      /\ Cardinality(changeSets') <= MaxPending
  <2>0. /\ changeSets \subseteq Saves /\ IsFiniteSet(changeSets) /\ Cardinality(changeSets) \in Nat
        /\ Cardinality(changeSets) <= MaxPending /\ MaxPending \in Nat
    BY EditAssumption, FS_CardinalityType DEF Shape, CoreShape
  <2>1. ASSUME NEW live \in SUBSET changeSets
        PROVE  /\ live \subseteq Saves /\ IsFiniteSet(live) /\ Cardinality(live) \in Nat
               /\ Cardinality(live) <= MaxPending
    <3>1. IsFiniteSet(live) /\ Cardinality(live) <= Cardinality(changeSets)
      BY <2>0, FS_Subset
    <3>2. Cardinality(live) \in Nat
      BY <3>1, FS_CardinalityType
    <3> QED
      BY <2>0, <3>1, <3>2
  <2>2. CASE changeSets' \subseteq changeSets
    BY <2>1, <2>2
  <2>3. ASSUME NEW s \in Saves, PreviewKeeps(s)
        PROVE  /\ changeSets' \subseteq Saves /\ IsFiniteSet(changeSets')
               /\ Cardinality(changeSets') <= MaxPending
    <3>1. PICK live \in SUBSET changeSets :
             \/ changeSets' = live
             \/ ~(Cardinality(live) >= MaxPending) /\ changeSets' = live \cup {s}
      BY <2>3 DEF PreviewKeeps
    <3>2. CASE changeSets' = live
      BY <2>1, <3>2
    <3>3. CASE ~(Cardinality(live) >= MaxPending) /\ changeSets' = live \cup {s}
      <4>1. /\ IsFiniteSet(live \cup {s})
            /\ Cardinality(live \cup {s}) = Cardinality(live)
               \/ Cardinality(live \cup {s}) = Cardinality(live) + 1
        BY <2>1, FS_AddElement
      <4> QED
        BY <2>0, <2>1, <3>3, <4>1
    <3> QED
      BY <3>1, <3>2, <3>3
  <2> QED
    BY <1>0, <2>2, <2>3 DEF CoreFrame
<1> QED
  BY <1>1, <1>2, <1>3, <1>4 DEF CoreShape

(* The conflict on display is about a row of the grid, or about none. *)
LEMMA UseServerFacts ==
    ASSUME Shape, UseServer
    PROVE  \/ UNCHANGED <<grid, updates, deletes>>
           \/ \E i \in 1..Len(grid), r \in Row :
                /\ grid' = [grid EXCEPT ![i] = r] /\ ResolveRows({i}, {})
                /\ \E c \in conflict : r \in c.current
           \/ \E i \in 1..Len(grid) : grid' = RemoveAt(grid, i) /\ ResolveRows({i}, {i})
<1>1. PICK c \in conflict :
         IF c.at \in DOMAIN grid
         THEN /\ grid' = IF c.current = {} THEN RemoveAt(grid, c.at)
                         ELSE [grid EXCEPT ![c.at] = CHOOSE r \in c.current : TRUE]
              /\ ResolveRows({c.at}, IF c.current = {} THEN {c.at} ELSE {})
         ELSE UNCHANGED <<grid, updates, deletes>>
  BY DEF UseServer
<1>2. c \in Clashes /\ DOMAIN grid = 1..Len(grid)
  BY DEF Shape, UserShape, GridShape
<1>3. CASE c.at \notin DOMAIN grid
  BY <1>1, <1>3
<1>4. CASE c.at \in DOMAIN grid /\ c.current = {}
  <2>1. grid' = RemoveAt(grid, c.at) /\ ResolveRows({c.at}, {c.at})
    BY <1>1, <1>4
  <2> QED
    BY <1>2, <1>4, <2>1
<1>5. CASE c.at \in DOMAIN grid /\ c.current # {}
  <2> DEFINE r == CHOOSE r \in c.current : TRUE
  <2>1. r \in c.current
    BY <1>5
  <2>2. r \in Row
    BY <1>2, <2>1 DEF Clashes
  <2>3. grid' = [grid EXCEPT ![c.at] = r] /\ ResolveRows({c.at}, {})
    BY <1>1, <1>5
  <2> HIDE DEF r
  <2> QED
    BY <1>2, <1>5, <2>1, <2>2, <2>3
<1> QED
  BY <1>3, <1>4, <1>5

LEMMA RemoveFacts ==
    ASSUME NEW R, NEW q \in Seq(R), NEW i \in 1..Len(q)
    PROVE  /\ RemoveAt(q, i) \in Seq(R) /\ Len(RemoveAt(q, i)) = Len(q) - 1
           /\ \A k \in 1..(i - 1) : RemoveAt(q, i)[k] = q[k]
           /\ \A k \in i..(Len(q) - 1) : RemoveAt(q, i)[k] = q[k + 1]
<1> DEFINE a == SubSeq(q, 1, i - 1)
           b == SubSeq(q, i + 1, Len(q))
<1>1. /\ a \in Seq(R) /\ Len(a) = i - 1 /\ \A k \in 1..(i - 1) : a[k] = q[k]
  OBVIOUS
<1>2. /\ b \in Seq(R) /\ Len(b) = Len(q) - i /\ \A k \in 1..(Len(q) - i) : b[k] = q[i + k]
  OBVIOUS
<1>3. RemoveAt(q, i) = a \o b
  BY DEF RemoveAt
<1> HIDE DEF a, b
<1>4. /\ a \o b \in Seq(R) /\ Len(a \o b) = Len(a) + Len(b)
      /\ \A k \in 1..Len(a) : (a \o b)[k] = a[k]
      /\ \A k \in (Len(a) + 1)..(Len(a) + Len(b)) :
           (a \o b)[k] = b[k - Len(a)] /\ k - Len(a) \in 1..Len(b)
  BY ZenonT(120), <1>1, <1>2, ConcatFacts
<1>5. ASSUME NEW k \in i..(Len(q) - 1) PROVE (a \o b)[k] = q[k + 1]
  <2>1. k \in (Len(a) + 1)..(Len(a) + Len(b)) /\ k - Len(a) \in 1..(Len(q) - i)
    BY <1>1, <1>2
  <2>2. (a \o b)[k] = b[k - Len(a)]
    BY <1>4, <2>1
  <2>3. i + (k - Len(a)) = k + 1
    BY <1>1
  <2> QED
    BY <1>2, <2>1, <2>2, <2>3
<1> QED
  BY <1>1, <1>2, <1>3, <1>4, <1>5

LEMMA GridShapeStep ==
    ASSUME Shape, DoneInv, [Next]_vars
    PROVE  GridShape'
<1>0. /\ grid \in Seq(Row) /\ gen \in Nat /\ gridDb \in Databases /\ database \in Databases
      /\ status \in {"idle", "running", "completed"} /\ offset \in Nat
      /\ ServerShape /\ table[database] \subseteq Row
  BY DEF Shape, GridShape, CoreShape, ServerShape
<1>1. CASE UNCHANGED <<grid, gen, gridDb, status>>
  BY <1>0, <1>1 DEF GridShape
<1>2. CASE QueryDone
  <2>1. PageAt(0) \in Seq(Row)
    BY <1>0, PageType
  <2> QED
    BY <1>0, <1>2, <2>1 DEF QueryDone, GridShape
<1>3. CASE LoadMore
  <2>1. PageAt(offset) \in Seq(Row)
    BY <1>0, PageType
  <2>2. grid \o PageAt(offset) \in Seq(Row)
    BY <1>0, <2>1
  <2> QED
    BY <1>0, <1>3, <2>2 DEF LoadMore, GridShape
<1>4. CASE Refresh \/ TabsDisposed
  <2>1. /\ grid' = <<>> /\ gen' = gen + 1 /\ status' \in {"running", "idle"}
        /\ gridDb' \in {gridDb, database}
    BY <1>4 DEF Refresh, TabsDisposed
  <2>2. <<>> \in Seq(Row)
    OBVIOUS
  <2> QED
    BY <1>0, <2>1, <2>2 DEF GridShape
<1>5. CASE UseServer
  <2>1. UNCHANGED <<gen, gridDb, status>>
    BY <1>5 DEF UseServer
  <2>2. grid' \in Seq(Row)
    <3>1. CASE UNCHANGED <<grid, updates, deletes>>
      BY <1>0, <3>1
    <3>2. ASSUME NEW i \in 1..Len(grid), NEW r \in Row, grid' = [grid EXCEPT ![i] = r]
          PROVE  grid' \in Seq(Row)
      BY <1>0, <3>2
    <3>3. ASSUME NEW i \in 1..Len(grid), grid' = RemoveAt(grid, i)
          PROVE  grid' \in Seq(Row)
      BY <1>0, <3>3, RemoveFacts
    <3> QED
      BY <1>5, <3>1, <3>2, <3>3, UseServerFacts
  <2> QED
    BY <1>0, <2>1, <2>2 DEF GridShape
<1>6. ASSUME NEW s \in Saves, HandleOutcome(s) PROVE GridShape'
  <2>1. UNCHANGED <<gen, gridDb, status>> /\ grid' \in {grid, ApplyUpdatedRows(s)}
    BY <1>6 DEF HandleOutcome
  <2>2. ApplyUpdatedRows(s) \in Seq(Row)
    BY AppliedRows DEF Shape
  <2> QED
    BY <1>0, <2>1, <2>2 DEF GridShape
<1> QED
  BY <1>1, <1>2, <1>3, <1>4, <1>5, <1>6, GridFrames DEF GridFrame

(* What editing makes of the drafts. *)
Edited ==
    /\ CanEdit
    /\ \A d \in updates' \cup deletes' : \/ d \in updates \cup deletes
                                         \/ d.at \in DOMAIN grid /\ d.of = grid[d.at].key
    /\ updates' \subseteq UpdateDrafts /\ IsFiniteSet(updates')
    /\ deletes' \subseteq DeleteDrafts /\ IsFiniteSet(deletes')
    /\ inserts' \subseteq Vals /\ IsFiniteSet(inserts')

LEMMA EditFacts ==
    ASSUME Shape, Edit
    PROVE  Edited /\ UNCHANGED gridVars
<1>0. /\ grid \in Seq(Row) /\ DOMAIN grid = 1..Len(grid) /\ updates \subseteq UpdateDrafts
      /\ deletes \subseteq DeleteDrafts /\ inserts \subseteq Vals
      /\ IsFiniteSet(updates) /\ IsFiniteSet(deletes) /\ IsFiniteSet(inserts)
  BY DEF Shape, GridShape, DraftShape
<1>1. ASSUME NEW i \in DOMAIN grid
      PROVE  i \in Nat /\ grid[i].key \in Keys
  <2>1. i \in Nat /\ grid[i] \in Row
    BY <1>0
  <2> QED
    BY <2>1 DEF Row
<1>2. ASSUME NEW i \in DOMAIN grid, NEW v \in Vals, SetCell(i, v)
      PROVE  Edited
  <2> DEFINE u == [at |-> i, of |-> grid[i].key, val |-> v]
             us == {x \in updates : x.at # i}
  <2>1. u \in UpdateDrafts /\ u.at = i /\ u.of = grid[i].key
    BY <1>1 DEF UpdateDrafts
  <2>2. IsFiniteSet(us) /\ IsFiniteSet(us \cup {u}) /\ us \subseteq updates
    BY <1>0, FS_Subset, FS_AddElement
  <2>3. CanEdit /\ updates' \in {us \cup {}, us \cup {u}} /\ deletes' = deletes /\ inserts' = inserts
    BY <1>2 DEF SetCell, Edits
  <2> HIDE DEF u, us
  <2> QED
    BY <1>0, <2>1, <2>2, <2>3 DEF Edited
<1>3. ASSUME NEW i \in DOMAIN grid, ToggleDelete(i)
      PROVE  Edited
  <2> DEFINE u == [at |-> i, of |-> grid[i].key]
             ds == {x \in deletes : x.at # i}
  <2>1. u \in DeleteDrafts /\ u.at = i /\ u.of = grid[i].key
    BY <1>1 DEF DeleteDrafts
  <2>2. IsFiniteSet(ds) /\ IsFiniteSet(deletes \cup {u}) /\ ds \subseteq deletes
    BY <1>0, FS_Subset, FS_AddElement
  <2>3. CanEdit /\ deletes' \in {ds, deletes \cup {u}} /\ updates' = updates /\ inserts' = inserts
    BY <1>3 DEF ToggleDelete, Edits
  <2> HIDE DEF u, ds
  <2> QED
    BY <1>0, <2>1, <2>2, <2>3 DEF Edited
<1>4. ASSUME NEW v \in InsertVals, AddInsert(v) PROVE Edited
  <2>1. v \in Vals /\ IsFiniteSet(inserts \cup {v})
    BY <1>0, EditAssumption, FS_AddElement
  <2>2. CanEdit /\ deletes' = deletes /\ updates' = updates /\ inserts' = inserts \cup {v}
    BY <1>4 DEF AddInsert, Edits
  <2> QED
    BY <1>0, <2>1, <2>2 DEF Edited
<1>5. ASSUME NEW v, RemoveInsert(v) PROVE Edited
  <2>1. IsFiniteSet(inserts \ {v})
    BY <1>0, FS_RemoveElement
  <2>2. CanEdit /\ deletes' = deletes /\ updates' = updates /\ inserts' = inserts \ {v}
    BY <1>5 DEF RemoveInsert, Edits
  <2> QED
    BY <1>0, <2>1, <2>2 DEF Edited
<1>6. UNCHANGED gridVars
  BY DEF Edit, SetCell, ToggleDelete, AddInsert, RemoveInsert, Edits
<1> QED
  BY <1>2, <1>3, <1>4, <1>5, <1>6 DEF Edit

LEMMA DraftShapeStep ==
    ASSUME Shape, DraftInv, [Next]_vars
    PROVE  DraftShape'
<1>1. CASE UNCHANGED draftVars
  BY <1>1 DEF Shape, DraftShape, draftVars
<1>2. CASE Edit
  BY <1>2, EditFacts DEF Edited, DraftShape
<1>3. CASE ClearDrafts
  BY <1>3, FS_EmptySet DEF ClearDrafts, DraftShape
<1>4. CASE UseServer
  <2>1. inserts' = inserts
    BY <1>4 DEF UseServer
  <2>2. CASE UNCHANGED <<grid, updates, deletes>>
    BY <2>1, <2>2 DEF Shape, DraftShape
  <2>3. ASSUME NEW i \in 1..Len(grid), NEW removed \in {{}, {i}}, ResolveRows({i}, removed)
        PROVE  DraftShape'
    <3>1. i \in Nat
      BY DEF Shape, GridShape
    <3>2. /\ updates' \subseteq UpdateDrafts /\ IsFiniteSet(updates')
          /\ deletes' \subseteq DeleteDrafts /\ IsFiniteSet(deletes')
      BY <2>3, <3>1, ResolveFacts DEF Shape
    <3> QED
      BY <2>1, <3>2 DEF Shape, DraftShape
  <2> QED
    BY <1>4, <2>2, <2>3, UseServerFacts
<1> QED
  BY <1>1, <1>2, <1>3, <1>4, GridFrames DEF GridFrame

LEMMA UserShapeStep ==
    ASSUME Shape, [Next]_vars
    PROVE  UserShape'
<1>0. UserFrame
  BY UserFrames
<1>1. /\ mount \in Nat /\ mounted \in BOOLEAN /\ shown \in Saves \cup {None} /\ turns \in Nat
      /\ conflict \subseteq Clashes /\ IsFiniteSet(conflict) /\ Cardinality(conflict) <= 1
      /\ switching \in {"no", "asked", "switched"}
      /\ lockMode \in {"xmin", "displayed"} /\ twice \subseteq Saves
      /\ clash \in [Saves -> Clashes] /\ locked \in BOOLEAN
  BY DEF Shape, UserShape, SaveShape
<1>2. mount' \in Nat
  BY <1>0, <1>1 DEF UserFrame, Remount
<1>3. mounted' \in BOOLEAN
  BY <1>0, <1>1 DEF UserFrame, Remount, BarGone
<1>4. shown' \in Saves \cup {None}
  BY <1>0, <1>1 DEF UserFrame, PreviewReply, HandleOutcome, BarLearns
<1>5. conflict' \subseteq Clashes /\ IsFiniteSet(conflict') /\ Cardinality(conflict') <= 1
  <2>1. CASE conflict' \in {conflict, {}}
    BY <1>1, <2>1, FS_EmptySet
  <2>2. ASSUME NEW s \in Saves, HandleOutcome(s)
        PROVE  conflict' \subseteq Clashes /\ IsFiniteSet(conflict') /\ Cardinality(conflict') <= 1
    <3>1. conflict' \in {conflict, {clash[s]}}
      BY <2>2 DEF HandleOutcome, BarLearns
    <3>2. clash[s] \in Clashes /\ IsFiniteSet({clash[s]}) /\ Cardinality({clash[s]}) = 1
      BY <1>1, FS_Singleton
    <3> QED
      BY <1>1, <3>1, <3>2
  <2> QED
    BY <1>0, <2>1, <2>2 DEF UserFrame
<1>6. switching' \in {"no", "asked", "switched"}
  BY <1>0, <1>1 DEF UserFrame, SwitchAsked, SwitchDatabase, SwitchFails, TabsDisposed
<1>7. turns' \in Nat /\ lockMode' \in {"xmin", "displayed"} /\ twice' \subseteq Saves
  BY <1>0, <1>1 DEF UserFrame
<1>8. locked' \in BOOLEAN
  <2>1. locked' \in {locked, TRUE, FALSE}
    <3>1. CASE UserStep
      BY <3>1 DEF UserStep, Edit, SetCell, ToggleDelete, AddInsert, RemoveInsert, Edits, OpenPreview,
         CancelPreview, Commit, UseServer, KeepEditing, DiscardAll, ClearDrafts, Unmount, Remount,
         Refresh, SwitchAsked
    <3>2. CASE OtherStep
      BY <3>2 DEF OtherStep, OtherUpdates, OtherDeletes, OtherInserts, OtherChanges, OtherAlters
    <3>3. ASSUME NEW s \in Saves, SaveStep(s) PROVE locked' \in {locked, TRUE, FALSE}
      BY <3>3 DEF SaveStep, PreviewNames, PreviewReads, PreviewFails, CommitTakes,
         CommitBegins, CommitRefused, PlanInserts, PlanApplies, Writes, PlanConflicts, PlanFails,
         CommitSends, CommitAcked, CommitRejected, CommitUnknown, PreviewReply, HandleOutcome,
         PreviewKeeps, ClearDrafts
    <3>4. ASSUME NEW s \in Saves, ServerAborts(s) \/ ServerCommits(s)
          PROVE  locked' \in {locked, TRUE, FALSE}
      BY <3>4 DEF ServerAborts, ServerCommits
    <3>5. CASE QueryDone \/ LoadMore \/ SwitchDatabase \/ SwitchFails \/ TabsDisposed
      BY <3>5 DEF QueryDone, LoadMore, SwitchDatabase, SwitchFails, TabsDisposed, ClearDrafts
    <3>6. CASE UNCHANGED vars
      BY <3>6 DEF vars
    <3> QED
      BY <3>1, <3>2, <3>3, <3>4, <3>5, <3>6 DEF Next
  <2> QED
    BY <1>1, <2>1, Zenon
<1> QED
  BY <1>2, <1>3, <1>4, <1>5, <1>6, <1>7, <1>8 DEF UserShape

LEMMA ShapeStep ==
    ASSUME Shape, LockInv, DatabaseInv, DoneInv, DraftInv, [Next]_vars
    PROVE  Shape'
BY ServerShapeStep, CoreShapeStep, SaveShapeStep, GridShapeStep, DraftShapeStep, UserShapeStep
   DEF Shape

-----------------------------------------------------------------------------
(* What a save is told agrees with its transaction. *)

TxMove(s) ==
    \/ step[s] = "taken" /\ step'[s] = "running" /\ tx'[s].state = "open"
    \/ /\ step[s] = "running" /\ tx[s].state = "open" /\ tx'[s].state \in {"open", "committing"}
       /\ tx'[s].state = "committing" => Len(done[s]) = Len(req[s].plans) /\ UNCHANGED done
    \/ tx[s].state = "committing" /\ tx'[s].state = "committed"
    \/ tx[s].state \in {"open", "committing"} /\ tx'[s].state = "none"
    \/ tx'[s] = tx[s]

LEMMA TxMoves ==
    ASSUME Shape, [Next]_vars
    PROVE  (tx' = tx) \/ \E s \in Saves : OnlyTx(s) /\ TxMove(s)
<1> USE DEF Shape
<1>1. ASSUME NEW s \in Saves, TxStep(s) PROVE OnlyTx(s) /\ TxMove(s)
  <2>1. CASE CommitBegins(s)
    <3>1. OnlyTx(s) /\ tx'[s].state = "open"
      BY <2>1, BeginFacts
    <3>2. step[s] = "taken" /\ step'[s] = "running"
      BY <2>1 DEF CommitBegins, Goes, SaveShape
    <3> QED
      BY <3>1, <3>2 DEF TxMove
  <2>2. CASE PlanInserts(s) \/ PlanApplies(s)
    <3>1. \E gone, come \in SUBSET Row : HasPlan(s) /\ Writes(s, gone, come)
      BY ZenonT(120), <2>2, InsertFacts, ApplyFacts
    <3>2. /\ tx' \in [Saves -> Transactions] /\ step[s] = "running"
          /\ tx'[s].state = "open" /\ tx[s].state = "open" /\ \A o \in Saves \ {s} : tx'[o] = tx[o]
      BY <3>1, WriteFacts
    <3> QED
      BY <3>2 DEF OnlyTx, TxMove
  <2>3. CASE PlanConflicts(s) \/ ServerAborts(s)
    <3>1. OnlyTx(s) /\ tx'[s].state = "none"
      BY <2>3, ConflictFacts
    <3>2. tx[s].state \in {"open", "committing"}
      BY <2>3 DEF PlanConflicts, HasPlan, Running, ServerAborts
    <3> QED
      BY <3>1, <3>2 DEF TxMove
  <2>4. CASE PlanFails(s)
    BY <2>4, FailFacts DEF TxMove
  <2>5. CASE CommitSends(s)
    <3>1. step[s] = "running" /\ Len(done[s]) = Len(req[s].plans) /\ UNCHANGED done
      BY <2>5 DEF CommitSends, Running, saveVars
    <3> QED
      BY <2>5, <3>1, SendFacts DEF TxMove
  <2>6. CASE ServerCommits(s)
    BY <2>6, CommitFacts DEF TxMove
  <2> QED
    BY <1>1, <2>1, <2>2, <2>3, <2>4, <2>5, <2>6 DEF TxStep
<1> QED
  BY <1>1, TxFrame

LEMMA OutcomeStep ==
    ASSUME Shape, DraftInv, OutcomeInv, [Next]_vars
    PROVE  OutcomeInv'
<1> DEFINE Told(o) ==
      /\ step[o] \in Waiting => tx[o].state = "none" /\ done[o] = <<>>
      /\ step[o] \in Waiting \cup {"running"} => event[o] = "none"
      /\ event[o] = "completed" => tx[o].state = "committed"
      /\ event[o] \in {"failed", "conflict"} => tx[o].state \notin {"committing", "committed"}
<1>0. \A o \in Saves : Told(o)
  BY DEF OutcomeInv
<1> SUFFICES ASSUME NEW o \in Saves PROVE Told(o)'
  BY DEF OutcomeInv
<1>1. CASE Same(o) /\ tx'[o] = tx[o]
  BY <1>0, <1>1 DEF Same
<1>2. CASE AllSame
  <2>1. CASE OnlyTx(o) /\ TxMove(o)
    <3>0. Same(o)
      BY <1>2 DEF AllSame
    <3>1. /\ step[o] \in Waiting => tx[o].state = "none" /\ done[o] = <<>>
          /\ step[o] \in Waiting \cup {"running"} => event[o] = "none"
          /\ event[o] = "completed" => tx[o].state = "committed"
          /\ event[o] \in {"failed", "conflict"} => tx[o].state \notin {"committing", "committed"}
      BY <1>0
    <3> QED
      BY <2>1, <3>0, <3>1 DEF Same, TxMove, Waiting
  <2> QED
    BY <1>1, <1>2, <2>1, TxMoves DEF AllSame, OnlyTx
<1>3. ASSUME NEW s \in Saves, Advances(s) PROVE Told(o)'
  <2>1. Only(s)
    BY <1>3 DEF Advances, Moves
  <2>2. tx' = tx \/ OnlyTx(s)
    BY <1>3, BeginFacts, FailFacts DEF Advances, Shape
  <2>3. CASE o # s
    BY <1>1, <2>1, <2>2, <2>3 DEF Only, OnlyTx
  <2>4. CASE o = s
    <3>1. Told(s)
      BY <1>0
    <3>2. CASE tx' = tx
      <4>1. done'[s] = done[s]
        BY <1>3 DEF Advances, Moves
      <4>2. \/ event'[s] = event[s] /\ step[s] \in Waiting /\ step'[s] \in Waiting
            \/ event'[s] = event[s] /\ step[s] = "ended" /\ step'[s] = "done"
            \/ event'[s] = "failed" /\ step[s] \in Waiting /\ step'[s] = "ended"
            \/ event'[s] = "unknown" /\ step'[s] = "ended"
            \/ event'[s] = "completed" /\ tx[s].state = "committed" /\ step'[s] = "ended"
            \/ event'[s] = "failed" /\ tx[s].state = "none" /\ step'[s] = "ended"
            \/ CommitBegins(s) \/ PlanFails(s)
        BY <1>3 DEF Advances, Moves, Waiting
      <4>3. ~(CommitBegins(s) \/ PlanFails(s)) \/ PlanFails(s)
        <5>1. CommitBegins(s) => tx'[s].state = "open" /\ step[s] = "taken"
          BY BeginFacts DEF CommitBegins, Shape
        <5> QED
          BY <3>1, <3>2, <5>1 DEF Waiting
      <4>4. CASE PlanFails(s)
        <5>1. event'[s] = "failed" /\ step'[s] = "ended" /\ tx[s].state = "open"
          <6>1. event' = [event EXCEPT ![s] = "failed"] /\ step' = [step EXCEPT ![s] = "ended"]
            BY <4>4 DEF PlanFails, Ends, Goes
          <6> QED
            BY <4>4, <6>1, FailFacts DEF Shape, SaveShape
        <5> QED
          BY <2>4, <3>2, <5>1 DEF Waiting
      <4> QED
        BY <2>4, <3>1, <3>2, <4>1, <4>2, <4>3, <4>4 DEF Waiting
    <3>3. CASE CommitBegins(s)
      <4>1. tx'[s].state = "open" /\ step[s] = "taken"
        BY <3>3, BeginFacts DEF CommitBegins, Shape
      <4>2. step' = [step EXCEPT ![s] = "running"] /\ UNCHANGED event
        BY <3>3 DEF CommitBegins, Goes, saveVars
      <4> QED
        BY <2>4, <3>1, <4>1, <4>2 DEF Waiting, Shape, SaveShape
    <3>4. CASE PlanFails(s)
      <4>1. event' = [event EXCEPT ![s] = "failed"] /\ step' = [step EXCEPT ![s] = "ended"]
        BY <3>4 DEF PlanFails, Ends, Goes
      <4>2. event'[s] = "failed" /\ step'[s] = "ended" /\ tx'[s].state \in {"none", "open"}
        BY <3>4, <4>1, FailFacts DEF Shape, SaveShape
      <4> QED
        BY <2>4, <4>2 DEF Waiting
    <3> QED
      BY <1>3, <3>2, <3>3, <3>4 DEF Advances
  <2> QED
    BY <2>3, <2>4
<1>4. ASSUME NEW s \in Saves, Forgets(s) PROVE Told(o)'
  <2>1. CASE o # s
    BY <1>1, <1>4, <2>1 DEF Forgets, Only
  <2>2. CASE o = s
    BY <1>4, <2>2 DEF Forgets, Forgotten, Waiting
  <2> QED
    BY <2>1, <2>2
<1>5. ASSUME NEW s \in Saves, OpenPreview(s) PROVE Told(o)'
  <2>0. /\ Only(s) /\ step[s] = "unused" /\ step'[s] = "sent" /\ tx' = tx
        /\ done'[s] = done[s] /\ event'[s] = event[s]
    BY <1>5, OpenFacts
  <2>1. CASE o # s
    BY <1>1, <2>0, <2>1 DEF Only
  <2>2. CASE o = s
    <3>1. Told(s)
      BY <1>0
    <3> QED
      BY <2>0, <2>2, <3>1 DEF Waiting
  <2> QED
    BY <2>1, <2>2
<1>6. ASSUME NEW s \in Saves, PlanConflicts(s) PROVE Told(o)'
  <2>0. Only(s) /\ step'[s] = "ended" /\ event'[s] = "conflict"
    BY <1>6, ClashFacts DEF Shape
  <2>1. OnlyTx(s) /\ tx'[s].state = "none"
    BY <1>6, ConflictFacts DEF Shape
  <2>2. CASE o # s
    BY <1>1, <2>0, <2>1, <2>2 DEF Only, OnlyTx
  <2>3. CASE o = s
    BY <2>0, <2>1, <2>3 DEF Waiting
  <2> QED
    BY <2>2, <2>3
<1>7. ASSUME NEW s \in Saves, PlanInserts(s) \/ PlanApplies(s) PROVE Told(o)'
  <2>0. \E gone, come \in SUBSET Row : HasPlan(s) /\ Writes(s, gone, come)
    BY ZenonT(120), <1>7, InsertFacts, ApplyFacts DEF Shape
  <2>1. /\ tx'[s].state = "open" /\ tx[s].state = "open" /\ step[s] = "running"
        /\ \A p \in Saves \ {s} : tx'[p] = tx[p]
        /\ \A p \in Saves \ {s} : done'[p] = done[p]
        /\ UNCHANGED <<step, event>>
    BY <2>0, WriteFacts DEF Shape
  <2>2. Told(o)
    BY <1>0
  <2> QED
    BY <2>1, <2>2 DEF Waiting
<1> QED
  BY <1>2, <1>3, <1>4, <1>5, <1>6, <1>7, AllMoves DEF SavesMove

-----------------------------------------------------------------------------
(* A save stays in the database its rows came from. *)

LEMMA TxDatabase ==
    ASSUME Shape, [Next]_vars, NEW o \in Saves
    PROVE  \/ tx'[o].state = "none"
           \/ tx[o].state # "none" /\ tx'[o].db = tx[o].db
           \/ CommitBegins(o) /\ tx'[o].db = database
<1> USE DEF Shape
<1>1. CASE tx' = tx
  BY <1>1
<1>2. ASSUME NEW s \in Saves, TxStep(s), s # o PROVE tx'[o] = tx[o]
  <2>1. ASSUME PlanInserts(s) \/ PlanApplies(s) PROVE tx'[o] = tx[o]
    <3>1. \E gone, come \in SUBSET Row : HasPlan(s) /\ Writes(s, gone, come)
      BY ZenonT(120), <2>1, InsertFacts, ApplyFacts
    <3>2. \A p \in Saves \ {s} : tx'[p] = tx[p]
      BY <3>1, WriteFacts
    <3> QED
      BY <1>2, <3>2
  <2> QED
    BY <1>2, <2>1, BeginFacts, ConflictFacts, FailFacts, SendFacts, CommitFacts DEF TxStep, OnlyTx
<1>3. CASE CommitBegins(o)
  BY <1>3, BeginFacts
<1>4. CASE PlanInserts(o) \/ PlanApplies(o)
  <2>1. \E gone, come \in SUBSET Row : HasPlan(o) /\ Writes(o, gone, come)
    BY <1>4, InsertFacts, ApplyFacts
  <2>2. tx[o].state = "open" /\ tx'[o].db = tx[o].db
    BY <2>1, WriteFacts
  <2> QED
    BY <2>2
<1>5. CASE PlanConflicts(o) \/ ServerAborts(o)
  BY <1>5, ConflictFacts
<1>6. CASE PlanFails(o)
  BY <1>6, FailFacts
<1>7. CASE CommitSends(o) \/ ServerCommits(o)
  BY <1>7, SendFacts, CommitFacts
<1>8. CASE \E s \in Saves : TxStep(s)
  BY <1>2, <1>3, <1>4, <1>5, <1>6, <1>7, <1>8 DEF TxStep
<1> QED
  BY <1>1, <1>8, TxFrame

LEMMA SwitchingStep ==
    ASSUME Shape, DatabaseInv, [Next]_vars
    PROVE  /\ switching' = "asked" => database' <= MaxSwitches
           /\ switching' = "switched" => ~store'
           /\ switching' # "switched" => gridDb' = database'
<1>0. /\ CoreFrame /\ UserFrame /\ GridFrame
      /\ switching = "asked" => database <= MaxSwitches
      /\ switching = "switched" => ~store
      /\ switching # "switched" => gridDb = database
  BY CoreFrames, UserFrames, GridFrames DEF DatabaseInv
<1>1. switching' = "asked" => database' <= MaxSwitches
  BY <1>0 DEF CoreFrame, UserFrame, SwitchAsked, SwitchDatabase, SwitchFails, TabsDisposed, coreVars
<1>2. switching' = "switched" => ~store'
  BY <1>0 DEF CoreFrame, UserFrame, SwitchAsked, SwitchDatabase, SwitchFails, TabsDisposed, coreVars,
     UserStep, Refresh
<1>3. switching' # "switched" => gridDb' = database'
  <2>1. CASE SwitchDatabase \/ TabsDisposed
    BY <2>1 DEF SwitchDatabase, TabsDisposed, coreVars
  <2>2. CASE ~(SwitchDatabase \/ TabsDisposed)
    <3>1. database' = database /\ (switching' # "switched" => switching # "switched")
      BY <1>0, <2>2 DEF CoreFrame, UserFrame, SwitchAsked, SwitchFails, UserStep
    <3>2. gridDb' \in {gridDb, database}
      BY <1>0, <2>2 DEF GridFrame, QueryDone, LoadMore, Refresh, UseServer, HandleOutcome
    <3> QED
      BY <1>0, <3>1, <3>2
  <2> QED
    BY <2>1, <2>2
<1> QED
  BY <1>1, <1>2, <1>3

DbOk(s) ==
    /\ req[s].mount <= mount
    /\ step[s] = "sent" /\ Alive(s) => req[s].origin = database \/ switching = "switched"
    /\ step[s] = "named" /\ Alive(s) => SameDb(s) \/ switching = "switched"
    /\ step[s] \in {"checked", "kept"} /\ Alive(s) => SameDb(s)
    /\ step[s] \in {"shown", "commit", "taken"} => SameDb(s)
    /\ tx[s].state # "none" => tx[s].db = req[s].origin

(* A bar that is alive after a step was alive before it. *)
LEMMA AliveStays ==
    ASSUME Shape, DatabaseInv, [Next]_vars, NEW o \in Saves, req'[o].mount = req[o].mount
    PROVE  /\ Alive(o)' => Alive(o)
           /\ Alive(o)' => database' = database \/ switching' = "switched"
           /\ Alive(o)' /\ switching = "switched" => switching' = "switched"
           /\ req[o].mount <= mount' /\ mount <= mount'
<1>0. UserFrame /\ CoreFrame
  BY UserFrames, CoreFrames
<1>1. req[o].mount <= mount /\ req[o].mount \in Nat /\ mount \in Nat
  BY DEF DatabaseInv, Shape, UserShape, SaveShape, SaveRequests
<1>2. CASE UNCHANGED <<mount, mounted>>
  <2>1. ~TabsDisposed \/ ~mounted'
    BY DEF TabsDisposed, BarGone
  <2> QED
    BY <1>0, <1>1, <1>2, <2>1
       DEF Alive, UserFrame, CoreFrame, SwitchAsked, SwitchDatabase, SwitchFails, UserStep
<1>3. CASE Remount
  <2>1. mount' = mount + 1
    BY <1>3 DEF Remount
  <2>2. ~(mount' = req'[o].mount)
    BY <1>1, <2>1
  <2> QED
    BY <1>1, <2>1, <2>2 DEF Alive
<1>4. CASE BarGone
  BY <1>1, <1>4 DEF BarGone, Alive
<1> QED
  BY <1>0, <1>2, <1>3, <1>4 DEF UserFrame

LEMMA SaveDatabaseStep ==
    ASSUME Shape, DraftInv, OutcomeInv, DatabaseInv, [Next]_vars, NEW o \in Saves
    PROVE  DbOk(o)'
<1>0. DbOk(o)
  BY DEF DatabaseInv, DbOk
<1>1. tx'[o].state # "none" => \/ tx'[o].db = req[o].origin
                               \/ CommitBegins(o) /\ tx'[o].db = database
  BY <1>0, TxDatabase DEF DbOk
<1>2. ASSUME CommitBegins(o), tx'[o].db = database PROVE tx'[o].db = req[o].origin
  BY <1>0, <1>2 DEF CommitBegins, DbOk, SameDb
<1>3. tx'[o].state # "none" => tx'[o].db = req[o].origin
  BY <1>1, <1>2
<1>4. CASE Same(o)
  <2>1. req'[o] = req[o] /\ step'[o] = step[o]
    BY <1>4 DEF Same
  <2>2. /\ Alive(o)' => Alive(o)
        /\ Alive(o)' => database' = database \/ switching' = "switched"
        /\ Alive(o)' /\ switching = "switched" => switching' = "switched"
        /\ req[o].mount <= mount'
    BY <2>1, AliveStays
  <2> QED
    BY <1>0, <1>3, <2>1, <2>2 DEF DbOk, SameDb
<1>5. CASE Advances(o)
  <2>0. PICK to \in Steps, outcome \in Outcomes :
          /\ PlansStay(o) /\ step'[o] = to
          /\ req'[o].database = IF to = "named" THEN database ELSE req[o].database
          /\ to = "checked" => store
          /\ to = "shown" => Alive(o)
          /\ \/ <<step[o], to>> \in {<<"sent", "named">>, <<"named", "checked">>,
                   <<"named", "refused">>, <<"sent", "refused">>, <<"checked", "kept">>,
                   <<"checked", "refused">>, <<"kept", "shown">>, <<"shown", "commit">>,
                   <<"commit", "taken">>, <<"ended", "done">>}
             \/ to = "ended" \/ to = "running"
    BY <1>5 DEF Advances, Moves
  <2>1. req'[o].mount = req[o].mount /\ req'[o].origin = req[o].origin
    BY <2>0 DEF PlansStay
  <2>2. /\ Alive(o)' => Alive(o)
        /\ Alive(o)' => database' = database \/ switching' = "switched"
        /\ Alive(o)' /\ switching = "switched" => switching' = "switched"
        /\ req[o].mount <= mount'
    BY <2>1, AliveStays
  <2>3. switching = "switched" => ~store
    BY DEF DatabaseInv
  <2> QED
    BY <1>0, <1>3, <2>0, <2>1, <2>2, <2>3 DEF DbOk, SameDb
<1>6. CASE Forgets(o)
  <2>1. req'[o] = NoSave /\ step'[o] = "done" /\ tx' = tx
    BY <1>6 DEF Forgets, Forgotten
  <2>2. tx[o].state = "none"
    BY <1>6 DEF Forgets, OutcomeInv, Waiting
  <2>3. req'[o].mount = 0 /\ mount' \in Nat
    BY <2>1, NoSaveType, UserShapeStep DEF UserShape
  <2> QED
    BY <2>1, <2>2, <2>3 DEF DbOk
<1>7. CASE OpenPreview(o)
  <2>1. /\ step[o] = "unused" /\ step'[o] = "sent" /\ req'[o].origin = gridDb
        /\ req'[o].mount = mount /\ tx' = tx
    BY <1>7, OpenFacts
  <2>2. switching # "switched" => gridDb = database
    BY DEF DatabaseInv
  <2>3. database' = database /\ switching' = switching /\ mount' = mount
    BY <1>7 DEF OpenPreview, coreVars, barVars
  <2>4. tx[o].state = "none" /\ mount \in Nat
    BY <2>1 DEF OutcomeInv, Waiting, Shape, UserShape
  <2> QED
    BY <2>1, <2>2, <2>3, <2>4 DEF DbOk
<1>8. CASE PlanConflicts(o) \/ PlanInserts(o) \/ PlanApplies(o)
  <2>1. req' = req /\ (step' = step \/ step'[o] = "ended")
    <3>1. CASE PlanConflicts(o)
      BY SMTT(60), <3>1, ClashFacts DEF Shape
    <3>2. CASE PlanInserts(o) \/ PlanApplies(o)
      BY <3>2 DEF PlanInserts, PlanApplies, Writes
    <3> QED
      BY <1>8, <3>1, <3>2
  <2>2. /\ Alive(o)' => Alive(o)
        /\ Alive(o)' => database' = database \/ switching' = "switched"
        /\ Alive(o)' /\ switching = "switched" => switching' = "switched"
        /\ req[o].mount <= mount'
    BY <2>1, AliveStays
  <2> QED
    BY <1>0, <1>3, <2>1, <2>2 DEF DbOk, SameDb
<1>9. ASSUME NEW s \in Saves, s # o,
             \/ Advances(s) \/ Forgets(s) \/ OpenPreview(s)
             \/ PlanConflicts(s) \/ PlanInserts(s) \/ PlanApplies(s)
      PROVE  Same(o)
  <2>1. CASE PlanInserts(s) \/ PlanApplies(s)
    <3>1. \E gone, come \in SUBSET Row : HasPlan(s) /\ Writes(s, gone, come)
      BY ZenonT(120), <2>1, InsertFacts, ApplyFacts DEF Shape
    <3>2. (\A p \in Saves \ {s} : done'[p] = done[p]) /\ UNCHANGED <<step, req, event, clash>>
      BY <3>1, WriteFacts DEF Shape
    <3> QED
      BY <1>9, <3>2 DEF Same
  <2>2. CASE Advances(s) \/ Forgets(s) \/ OpenPreview(s) \/ PlanConflicts(s)
    <3>1. Only(s)
      BY <2>2, OpenFacts, ClashFacts DEF Advances, Moves, Forgets, Shape
    <3> QED
      BY <1>9, <3>1 DEF Only
  <2> QED
    BY <1>9, <2>1, <2>2
<1> QED
  BY <1>4, <1>5, <1>6, <1>7, <1>8, <1>9, AllMoves DEF SavesMove, AllSame

LEMMA DatabaseStep ==
    ASSUME Shape, DraftInv, OutcomeInv, DatabaseInv, [Next]_vars
    PROVE  DatabaseInv'
<1>1. \A o \in Saves : DbOk(o)'
  BY SaveDatabaseStep
<1> QED
  BY <1>1, SwitchingStep DEF DatabaseInv, DbOk

-----------------------------------------------------------------------------
(* Drafts stay on their rows. *)

LEMMA DraftStep ==
    ASSUME Shape, DraftInv, [Next]_vars
    PROVE  DraftInv'
<1>0. /\ grid \in Seq(Row) /\ DOMAIN grid = 1..Len(grid) /\ Len(grid) \in Nat
      /\ \A d \in updates \cup deletes : d.at \in 1..Len(grid) /\ grid[d.at].key = d.of
      /\ status = "running" => updates = {} /\ deletes = {}
  BY DEF Shape, GridShape, DraftInv, DraftsFollowRows
<1>1. CASE ClearDrafts
  BY <1>1 DEF ClearDrafts, DraftInv, DraftsFollowRows
<1>2. CASE UseServer
  <2>1. status' = status
    BY <1>2 DEF UseServer
  <2>2. CASE UNCHANGED <<grid, updates, deletes>>
    BY <1>0, <2>1, <2>2 DEF DraftInv, DraftsFollowRows
  <2>3. ASSUME NEW i \in 1..Len(grid), NEW removed \in {{}, {i}}, ResolveRows({i}, removed)
        PROVE  /\ \A d \in updates' \cup deletes' : \E u \in updates \cup deletes :
                     u.at # i /\ d.of = u.of /\ d.at = MovedUp(u.at, i, removed)
               /\ status' = "running" => updates' = {} /\ deletes' = {}
    <3>1. i \in Nat
      OBVIOUS
    <3>2. \A d \in updates' \cup deletes' : \E u \in updates \cup deletes :
              u.at # i /\ d.of = u.of /\ d.at = MovedUp(u.at, i, removed)
      BY <2>3, <3>1, ResolveFacts DEF Shape
    <3> QED
      BY <1>0, <2>1, <3>2
  <2>4. ASSUME NEW i \in 1..Len(grid), NEW r \in Row, grid' = [grid EXCEPT ![i] = r],
               ResolveRows({i}, {})
        PROVE  DraftInv'
    <3>1. /\ \A d \in updates' \cup deletes' : \E u \in updates \cup deletes :
                u.at # i /\ d.of = u.of /\ d.at = MovedUp(u.at, i, {})
          /\ status' = "running" => updates' = {} /\ deletes' = {}
      BY <2>3, <2>4
    <3>2. /\ DOMAIN grid' = 1..Len(grid)
          /\ \A k \in 1..Len(grid) : k # i => grid'[k] = grid[k]
      BY <1>0, <2>4
    <3>3. ASSUME NEW d \in updates' \cup deletes'
          PROVE  d.at \in DOMAIN grid' /\ grid'[d.at].key = d.of
      <4>1. PICK u \in updates \cup deletes : u.at # i /\ d.of = u.of /\ d.at = u.at
        BY <3>1 DEF MovedUp
      <4> QED
        BY <1>0, <3>2, <4>1
    <3> QED
      BY <3>1, <3>3 DEF DraftInv, DraftsFollowRows
  <2>5. ASSUME NEW i \in 1..Len(grid), grid' = RemoveAt(grid, i), ResolveRows({i}, {i})
        PROVE  DraftInv'
    <3>1. /\ \A d \in updates' \cup deletes' : \E u \in updates \cup deletes :
                u.at # i /\ d.of = u.of /\ d.at = MovedUp(u.at, i, {i})
          /\ status' = "running" => updates' = {} /\ deletes' = {}
      BY <2>3, <2>5
    <3>2. /\ grid' \in Seq(Row) /\ Len(grid') = Len(grid) - 1
          /\ \A k \in 1..(i - 1) : grid'[k] = grid[k]
          /\ \A k \in i..(Len(grid) - 1) : grid'[k] = grid[k + 1]
      BY <1>0, <2>5, RemoveFacts
    <3>3. DOMAIN grid' = 1..(Len(grid) - 1)
      BY <3>2
    <3>4. ASSUME NEW d \in updates' \cup deletes'
          PROVE  d.at \in DOMAIN grid' /\ grid'[d.at].key = d.of
      <4>1. PICK u \in updates \cup deletes :
               u.at # i /\ d.of = u.of /\ d.at = IF i < u.at THEN u.at - 1 ELSE u.at
        BY <3>1 DEF MovedUp
      <4>2. u.at \in 1..Len(grid) /\ grid[u.at].key = u.of
        BY <1>0
      <4>3. CASE i < u.at
        <5>1. d.at = u.at - 1 /\ d.at \in i..(Len(grid) - 1) /\ d.at + 1 = u.at
          BY <1>0, <4>1, <4>2, <4>3
        <5>2. grid'[d.at] = grid[u.at]
          BY <3>2, <5>1
        <5> QED
          BY <1>0, <3>3, <4>1, <4>2, <5>1, <5>2
      <4>4. CASE ~(i < u.at)
        <5>1. d.at = u.at /\ d.at \in 1..(i - 1)
          BY <4>1, <4>2, <4>4
        <5>2. grid'[d.at] = grid[u.at]
          BY <3>2, <5>1
        <5> QED
          BY <1>0, <3>3, <4>1, <4>2, <5>1, <5>2
      <4> QED
        BY <4>3, <4>4
    <3> QED
      BY <3>1, <3>4 DEF DraftInv, DraftsFollowRows
  <2> QED
    BY <1>2, <2>2, <2>4, <2>5, UseServerFacts
<1>3. CASE UNCHANGED <<grid, gen, gridDb, status>> /\ UNCHANGED draftVars
  BY <1>0, <1>3 DEF DraftInv, DraftsFollowRows, draftVars
<1>4. CASE Edit
  <2>1. Edited /\ UNCHANGED gridVars /\ status # "running"
    BY <1>4, EditFacts DEF Edited, CanEdit
  <2> QED
    BY <1>0, <2>1 DEF Edited, gridVars, DraftInv, DraftsFollowRows
<1>5. CASE QueryDone
  BY <1>0, <1>5 DEF QueryDone, draftVars, DraftInv, DraftsFollowRows
<1>6. CASE LoadMore
  <2>1. PICK page \in Seq(Row) : grid' = grid \o page
    <3>1. PageAt(offset) \in Seq(table[database]) /\ table[database] \subseteq Row
      BY PageType DEF Shape, CoreShape, ServerShape
    <3>2. PageAt(offset) \in Seq(Row)
      BY <3>1
    <3> QED
      BY <1>6, <3>2 DEF LoadMore
  <2>2. /\ Len(grid') = Len(grid) + Len(page) /\ grid' \in Seq(Row) /\ Len(page) \in Nat
        /\ \A k \in 1..Len(grid) : grid'[k] = grid[k]
    BY <1>0, <2>1, ConcatFacts
  <2>3. 1..Len(grid) \subseteq DOMAIN grid'
    BY <1>0, <2>2
  <2>4. UNCHANGED <<updates, deletes, status>>
    BY <1>6 DEF LoadMore, draftVars
  <2> QED
    BY <1>0, <2>2, <2>3, <2>4 DEF DraftInv, DraftsFollowRows
<1>7. CASE Refresh \/ TabsDisposed
  BY <1>1, <1>7 DEF Refresh, TabsDisposed
<1>8. ASSUME NEW s \in Saves, HandleOutcome(s) PROVE DraftInv'
  <2>1. ClearDrafts \/ (UNCHANGED <<grid, gen, gridDb, status>> /\ UNCHANGED draftVars)
    BY <1>8 DEF HandleOutcome
  <2> QED
    BY <1>1, <1>3, <2>1
<1> QED
  BY <1>1, <1>2, <1>3, <1>4, <1>5, <1>6, <1>7, <1>8, GridFrames DEF GridFrame

-----------------------------------------------------------------------------
(* The change set of a save. *)

LEMMA MonoStep ==
    ASSUME [Next]_vars
    PROVE  /\ lockMode' = lockMode
           /\ \A s \in twice : s \in twice'
           /\ \A s \in twice' : s \in twice \/ OpenPreview(s)
BY UserFrames DEF UserFrame

PlansOk(s) ==
    /\ \A i \in 1..Len(req[s].plans) :
         /\ \A o \in req[s].plans[i].seen : o.ver # s
         /\ \A o, q \in req[s].plans[i].seen : o = q
         /\ req[s].plans[i].op = "insert" => req[s].plans[i].seen = {}
         /\ \A j \in 1..i : req[s].plans[j].op = "insert" => req[s].plans[i].op = "insert"
    /\ ChangesTwice(req[s].plans) => s \in twice

(* For each save: as it was, dropped, new, or the same change set. *)
LEMMA PlanMoves ==
    ASSUME Shape, DraftInv, OutcomeInv, [Next]_vars, NEW o \in Saves
    PROVE  \/ OpenPreview(o)
           \/ Forgets(o) /\ tx'[o].state = "none" /\ tx[o].state = "none"
           \/ PlansStay(o) /\ (done'[o] = done[o] \/ PlanInserts(o) \/ PlanApplies(o))
<1>1. CASE Forgets(o)
  BY <1>1 DEF Forgets, OutcomeInv, Waiting
<1>2. CASE Same(o)
  BY <1>2 DEF Same, PlansStay
<1>3. ASSUME NEW s \in Saves,
             \/ Advances(s) \/ Forgets(s) \/ OpenPreview(s)
             \/ PlanConflicts(s) \/ PlanInserts(s) \/ PlanApplies(s)
      PROVE  \/ OpenPreview(o) \/ Forgets(o)
             \/ PlansStay(o) /\ (done'[o] = done[o] \/ PlanInserts(o) \/ PlanApplies(o))
  <2>1. CASE PlanInserts(s) \/ PlanApplies(s) \/ PlanConflicts(s)
    <3>1. req' = req
      BY <2>1 DEF PlanInserts, PlanApplies, PlanConflicts, Writes
    <3>2. done' = done \/ \E d : done' = [done EXCEPT ![s] = d]
      BY <2>1 DEF PlanInserts, PlanApplies, PlanConflicts, Writes
    <3>3. o # s => done'[o] = done[o]
      BY <3>2 DEF Shape, SaveShape
    <3>4. PlanConflicts(s) => done' = done
      BY DEF PlanConflicts
    <3> QED
      BY <2>1, <3>1, <3>3, <3>4 DEF PlansStay
  <2>2. CASE Advances(s) \/ Forgets(s) \/ OpenPreview(s)
    <3>1. Only(s) /\ (Advances(s) => PlansStay(s) /\ done'[s] = done[s])
      BY <2>2, OpenFacts DEF Advances, Moves, Forgets
    <3> QED
      BY <2>2, <3>1 DEF Only, Same, PlansStay
  <2> QED
    BY <1>3, <2>1, <2>2
<1> QED
  BY <1>1, <1>2, <1>3, AllMoves DEF SavesMove, AllSame

LEMMA PlansStep ==
    ASSUME Shape, DraftInv, OutcomeInv, PlansInv, KnownInv, [Next]_vars
    PROVE  PlansInv'
<1> SUFFICES ASSUME NEW o \in Saves PROVE PlansOk(o)'
  BY DEF PlansInv, PlansOk
<1>0. PlansOk(o)
  BY DEF PlansInv, PlansOk
<1>1. CASE OpenPreview(o)
  <2>1. /\ step[o] = "unused" /\ req'[o].plans = BuildRowChanges
    BY <1>1, OpenFacts
  <2>2. BuildRowChanges \in Seq(Plan) /\ OfGrid(BuildRowChanges)
    BY BuiltPlans DEF Shape
  <2>3. ~Settled(o)
    BY <2>1 DEF Settled, OutcomeInv, Waiting
  <2>4. \A k \in 1..Len(grid) : grid[k].ver # o
    BY <2>3 DEF KnownInv, Known
  <2>5. PICK B \in Seq(Plan) : B = BuildRowChanges
    BY <2>2
  <2>6. \A i \in 1..Len(B) :
          /\ \A r \in B[i].seen : r.ver # o
          /\ \A r, q \in B[i].seen : r = q
          /\ B[i].op = "insert" => B[i].seen = {}
          /\ \A j \in 1..i : B[j].op = "insert" => B[i].op = "insert"
    BY <2>2, <2>4, <2>5 DEF OfGrid
  <2>7. ChangesTwice(B) => o \in twice'
    BY <1>1, <2>5 DEF OpenPreview
  <2>8. req'[o].plans = B
    BY <2>1, <2>5
  <2>9. (ChangesTwice(req[o].plans))' <=> ChangesTwice(B)
    BY <2>8 DEF ChangesTwice
  <2> QED
    BY <2>6, <2>7, <2>8, <2>9 DEF PlansOk
<1>2. CASE Forgets(o)
  <2>1. req'[o].plans = <<>>
    BY <1>2, NoSaveType DEF Forgets, Forgotten
  <2> QED
    BY <2>1 DEF PlansOk, ChangesTwice
<1>3. CASE PlansStay(o)
  <2>1. req'[o].plans = req[o].plans
    BY <1>3 DEF PlansStay
  <2> QED
    BY <1>0, <2>1, MonoStep DEF PlansOk, ChangesTwice
<1> QED
  BY <1>1, <1>2, <1>3, PlanMoves

(* What a statement writes: rows of one key, which nobody else has locked. *)
WritesKey(s, gone, come, k) ==
    /\ HasPlan(s) /\ Writes(s, gone, come) /\ Free(s, k)
    /\ \A r \in gone : r \in View(s) /\ r.key = k
    /\ \A r \in View(s) : r.key = k => r \in gone
    /\ \A r \in come : r.key = k /\ r.ver = s /\ r.val = NextPlan(s).val
    /\ come = {} \/ \E q \in Row : come = {q}
    /\ NextPlan(s).op = "delete" <=> come = {}
    /\ \/ NextPlan(s).op = "insert" /\ gone = {}
       \/ \E r \in Matching(s, NextPlan(s)) : gone = {r}

LEMMA KeyWrites ==
    ASSUME ServerShape, SaveShape, LockInv, NEW s \in Saves, PlanInserts(s) \/ PlanApplies(s)
    PROVE  \E gone, come \in SUBSET Row, k \in Keys : WritesKey(s, gone, come, k)
<1>1. CASE PlanInserts(s)
  <2>1. PICK k \in Keys :
          LET come == {[key |-> k, ver |-> s, val |-> NextPlan(s).val]} IN
             /\ come \in SUBSET Row /\ HasPlan(s) /\ NextPlan(s).op = "insert"
             /\ Free(s, k) /\ \A r \in View(s) : r.key # k
             /\ Writes(s, {}, come)
    BY <1>1, InsertFacts
  <2> DEFINE q == [key |-> k, ver |-> s, val |-> NextPlan(s).val]
  <2>2. q.key = k /\ q.ver = s /\ q.val = NextPlan(s).val
    OBVIOUS
  <2>3. /\ {q} \in SUBSET Row /\ q \in Row /\ HasPlan(s) /\ NextPlan(s).op = "insert"
        /\ Free(s, k) /\ \A r \in View(s) : r.key # k
        /\ Writes(s, {}, {q})
    BY <2>1
  <2> HIDE DEF q
  <2>4. WritesKey(s, {}, {q}, k)
    BY <2>2, <2>3 DEF WritesKey
  <2> QED
    BY <2>3, <2>4
<1>2. CASE PlanApplies(s)
  <2>1. PICK r \in Matching(s, NextPlan(s)), come \in SUBSET Row :
             /\ r \in Row /\ HasPlan(s) /\ Free(s, r.key) /\ Writes(s, {r}, come)
             /\ NextPlan(s).op = "delete" => come = {}
             /\ NextPlan(s).op # "delete" =>
                  \E q \in Row : come = {q} /\ q.key = r.key /\ q.ver = s /\ q.val = NextPlan(s).val
    BY <1>2, ApplyFacts
  <2>2. r \in View(s) /\ r.key \in Keys
    BY <2>1 DEF Matching, Row
  <2>3. Active(s)
    BY <2>1 DEF HasPlan, Running, Active
  <2>4. \A x \in View(s) : x.key = r.key => x \in {r}
    BY <2>2, <2>3 DEF LockInv, OneRowPerKey
  <2>5. WritesKey(s, {r}, come, r.key)
    BY <2>1, <2>2, <2>4 DEF WritesKey
  <2> QED
    BY <2>1, <2>2, <2>5
<1> QED
  BY <1>1, <1>2

DoneOk(s) ==
    /\ Len(done[s]) <= Len(req[s].plans)
    /\ \A i \in 1..Len(done[s]) :
         /\ done[s][i].op = req[s].plans[i].op
         /\ done[s][i].op = "delete" <=> done[s][i].row = {}
         /\ \A r \in done[s][i].row : r.ver = s /\ r.val = req[s].plans[i].val
    /\ tx[s].state \in {"committing", "committed"} => Len(done[s]) = Len(req[s].plans)

LEMMA DoneStep ==
    ASSUME Shape, DraftInv, OutcomeInv, LockInv, DoneInv, [Next]_vars
    PROVE  DoneInv'
<1> SUFFICES ASSUME NEW o \in Saves PROVE DoneOk(o)'
  BY DEF DoneInv, DoneOk
<1>0. DoneOk(o)
  BY DEF DoneInv, DoneOk
<1>1. CASE OpenPreview(o)
  <2>1. step[o] = "unused" /\ done'[o] = done[o] /\ tx' = tx
    BY <1>1, OpenFacts
  <2>2. done'[o] = <<>> /\ tx'[o].state = "none"
    BY <2>1 DEF OutcomeInv, Waiting
  <2>3. req'[o].plans \in Seq(Plan)
    BY SaveShapeStep DEF SaveShape, SaveRequests
  <2> QED
    BY <2>2, <2>3 DEF DoneOk
<1>2. CASE Forgets(o) /\ tx'[o].state = "none"
  <2>1. req'[o].plans = <<>> /\ done'[o] = <<>>
    BY <1>2, NoSaveType DEF Forgets, Forgotten
  <2> QED
    BY <1>2, <2>1 DEF DoneOk
<1>3. CASE PlansStay(o) /\ done'[o] = done[o]
  <2>1. req'[o].plans = req[o].plans
    BY <1>3 DEF PlansStay
  <2>2. tx'[o].state \in {"committing", "committed"} => Len(done[o]) = Len(req[o].plans)
    <3>1. CASE tx'[o] = tx[o]
      BY <1>0, <3>1 DEF DoneOk
    <3>2. CASE TxMove(o)
      <4>1. tx[o].state \in {"committing", "committed"} => Len(done[o]) = Len(req[o].plans)
        BY <1>0 DEF DoneOk
      <4> QED
        BY <3>2, <4>1 DEF TxMove
    <3> QED
      BY <3>1, <3>2, TxMoves DEF OnlyTx
  <2> QED
    BY <1>0, <1>3, <2>1, <2>2 DEF DoneOk
<1>4. CASE PlanInserts(o) \/ PlanApplies(o)
  <2>1. PICK gone \in SUBSET Row, come \in SUBSET Row, k \in Keys : WritesKey(o, gone, come, k)
    BY <1>4, KeyWrites DEF Shape
  <2> DEFINE d == [op |-> NextPlan(o).op, at |-> NextPlan(o).at, row |-> come]
             n == Len(done[o])
  <2>2. /\ tx'[o].state = "open" /\ n < Len(req[o].plans)
        /\ done'[o] = Append(done[o], d) /\ req' = req
    BY <2>1, WriteFacts DEF WritesKey, Shape
  <2>3. /\ d.op = req[o].plans[n + 1].op /\ d.row = come
        /\ d.op = "delete" <=> come = {}
        /\ \A r \in come : r.ver = o /\ r.val = req[o].plans[n + 1].val
    BY <2>1 DEF WritesKey, NextPlan
  <2>4. done[o] \in Seq(Results) /\ n \in Nat /\ Len(req[o].plans) \in Nat
    BY DEF Shape, SaveShape, SaveRequests
  <2> HIDE DEF d
  <2>5. /\ Len(done'[o]) = n + 1 /\ done'[o][n + 1] = d
        /\ \A i \in 1..n : done'[o][i] = done[o][i]
    BY <2>2, <2>4
  <2>6. ASSUME NEW i \in 1..Len(done'[o])
        PROVE  /\ done'[o][i].op = req[o].plans[i].op
               /\ done'[o][i].op = "delete" <=> done'[o][i].row = {}
               /\ \A r \in done'[o][i].row : r.ver = o /\ r.val = req[o].plans[i].val
    <3>1. CASE i = n + 1
      BY <2>3, <2>5, <3>1
    <3>2. CASE i # n + 1
      <4>1. i \in 1..n
        BY <2>4, <2>5, <3>2
      <4> QED
        BY <1>0, <2>5, <4>1 DEF DoneOk
    <3> QED
      BY <3>1, <3>2
  <2>7. Len(done'[o]) <= Len(req[o].plans)
    BY <2>2, <2>4, <2>5
  <2> QED
    BY <2>2, <2>6, <2>7 DEF DoneOk
<1> QED
  BY <1>1, <1>2, <1>3, <1>4, PlanMoves

-----------------------------------------------------------------------------
(* Row locks. *)

(* What holds of one transaction, given what it deletes and adds. *)
Locks(s, T, del, add) ==
    /\ del \subseteq T /\ \A r \in add : r.ver = s
    /\ OneRowPerKey((T \ del) \cup add)

Disjoint(as, bs) == \A r \in as, q \in bs : r.key # q.key

LEMMA LockMeans ==
    LockInv <=>
      /\ \A d \in Databases : OneRowPerKey(table[d])
      /\ \A s \in Saves : Active(s) => Locks(s, table[tx[s].db], tx[s].del, tx[s].add)
      /\ \A s, o \in Saves : Active(s) /\ Active(o) /\ o # s /\ tx[o].db = tx[s].db =>
            Disjoint(Written(s), Written(o))
BY DEF LockInv, Locks, View, Disjoint

(* A step on one transaction, with the tables as they are. *)
LEMMA LockKeeps ==
    ASSUME Shape, LockInv, table' = table, NEW s \in Saves, OnlyTx(s),
           tx'[s].state \in {"open", "committing"} =>
             /\ Locks(s, table[tx'[s].db], tx'[s].del, tx'[s].add)
             /\ \A o \in Saves \ {s} : Active(o) /\ tx[o].db = tx'[s].db =>
                  Disjoint(tx'[s].del \cup tx'[s].add, Written(o))
    PROVE  LockInv'
<1>1. \A d \in Databases : OneRowPerKey(table'[d])
  BY LockMeans
<1>2. ASSUME NEW o \in Saves, Active(o)'
      PROVE  Locks(o, table'[tx'[o].db], tx'[o].del, tx'[o].add)
  BY <1>2, LockMeans DEF OnlyTx, Active
<1>3. ASSUME NEW o \in Saves, NEW p \in Saves, Active(o)', Active(p)', p # o, tx'[p].db = tx'[o].db
      PROVE  Disjoint(tx'[o].del \cup tx'[o].add, tx'[p].del \cup tx'[p].add)
  <2>1. CASE o = s
    BY <1>3, <2>1 DEF OnlyTx, Active, Written
  <2>2. CASE p = s
    BY <1>3, <2>2 DEF OnlyTx, Active, Written, Disjoint
  <2>3. CASE o # s /\ p # s
    BY <1>3, <2>3, LockMeans DEF OnlyTx, Active, Written
  <2> QED
    BY <2>1, <2>2, <2>3
<1> QED
  BY <1>1, <1>2, <1>3 DEF LockInv, Locks, View, Disjoint, Written

LEMMA LockStep ==
    ASSUME Shape, OutcomeInv, LockInv, [Next]_vars
    PROVE  LockInv'
<1> USE DEF Shape
<1>0. /\ \A d \in Databases : OneRowPerKey(table[d])
      /\ \A s \in Saves : tx[s].db \in Databases /\ table[tx[s].db] \subseteq Row
      /\ \A s \in Saves : Active(s) => Locks(s, table[tx[s].db], tx[s].del, tx[s].add)
      /\ \A s, o \in Saves : Active(s) /\ Active(o) /\ o # s /\ tx[o].db = tx[s].db =>
            Disjoint(Written(s), Written(o))
  BY LockMeans DEF ServerShape, Transactions
<1>1. CASE UNCHANGED <<table, tx>>
  BY <1>1 DEF LockInv, Active, View, Written
<1>2. CASE OtherStep
  <2>1. CASE OtherAlters
    BY <1>1, <2>1 DEF OtherAlters
  <2>2. ASSUME NEW gone \in SUBSET Row, NEW come \in SUBSET Row, NEW k \in Keys,
               OtherRow(gone, come, k)
        PROVE  LockInv'
    <3>1. /\ OtherChanges(gone, come) /\ FreeForOthers(k)
          /\ \A r \in gone : r \in table[database] /\ r.key = k
          /\ \A r \in come : r.key = k
          /\ OneRowPerKey(come)
          /\ \A r \in table[database] : r.key = k => r \in gone
      BY <2>2 DEF OtherRow
    <3>2. /\ table'[database] = (table[database] \ gone) \cup come
          /\ \A d \in Databases \ {database} : table'[d] = table[d]
          /\ tx' = tx /\ database \in Databases
      BY <3>1, OtherFacts DEF CoreShape
    <3>3. OneRowPerKey(table'[database])
      BY <1>0, <3>1, <3>2 DEF OneRowPerKey
    <3>4. ASSUME NEW s \in Saves, Active(s)
          PROVE  Locks(s, table'[tx[s].db], tx[s].del, tx[s].add)
      <4>1. CASE tx[s].db # database
        BY <1>0, <3>2, <3>4, <4>1
      <4>2. CASE tx[s].db = database
        <5>1. \A r \in tx[s].del \cup tx[s].add : r.key # k
          BY <3>1, <3>4, <4>2 DEF FreeForOthers
        <5>2. Locks(s, table[database], tx[s].del, tx[s].add)
          BY <1>0, <3>4, <4>2
        <5>3. tx[s].del \subseteq table'[database] /\ \A r \in tx[s].add : r.ver = s
          BY <3>1, <3>2, <5>1, <5>2 DEF Locks
        <5>4. OneRowPerKey((table'[database] \ tx[s].del) \cup tx[s].add)
          BY <3>1, <3>2, <5>1, <5>2 DEF Locks, OneRowPerKey
        <5> QED
          BY <4>2, <5>3, <5>4 DEF Locks
      <4> QED
        BY <4>1, <4>2
    <3>5. \A d \in Databases : OneRowPerKey(table'[d])
      BY <1>0, <3>2, <3>3
    <3> QED
      BY <1>0, <3>2, <3>4, <3>5 DEF LockInv, Locks, View, Disjoint, Written, Active
  <2> QED
    BY <1>2, <2>1, <2>2, OtherRows
<1>3. ASSUME NEW s \in Saves, ServerCommits(s) PROVE LockInv'
  <2>1. /\ OnlyTx(s) /\ tx'[s].state = "committed" /\ tx[s].state = "committing"
        /\ table'[tx[s].db] = (table[tx[s].db] \ tx[s].del) \cup tx[s].add
        /\ \A d \in Databases \ {tx[s].db} : table'[d] = table[d]
    BY <1>3, CommitFacts
  <2>2. Active(s) /\ Locks(s, table[tx[s].db], tx[s].del, tx[s].add)
    BY <1>0, <2>1 DEF Active
  <2>3. \A d \in Databases : OneRowPerKey(table'[d])
    BY <1>0, <2>1, <2>2 DEF Locks
  <2>4. ASSUME NEW o \in Saves, o # s, Active(o)
        PROVE  Locks(o, table'[tx[o].db], tx[o].del, tx[o].add)
    <3>1. CASE tx[o].db # tx[s].db
      BY <1>0, <2>1, <2>4, <3>1
    <3>2. CASE tx[o].db = tx[s].db
      <4> DEFINE T == table[tx[s].db]
      <4>1. Locks(o, T, tx[o].del, tx[o].add) /\ OneRowPerKey(T)
        BY <1>0, <2>4, <3>2
      <4>2. \A r \in tx[s].del \cup tx[s].add, q \in tx[o].del \cup tx[o].add : r.key # q.key
        BY <1>0, <2>2, <2>4, <3>2 DEF Disjoint, Written
      <4>3. table'[tx[o].db] = (T \ tx[s].del) \cup tx[s].add
        BY <2>1, <3>2
      <4> HIDE DEF T
      <4>4. /\ tx[o].del \subseteq (T \ tx[s].del) \cup tx[s].add
            /\ \A r \in tx[o].add : r.ver = o
        BY <4>1, <4>2 DEF Locks
      <4>5. Locks(s, T, tx[s].del, tx[s].add)
        BY <2>2 DEF T
      <4>6. OneRowPerKey((((T \ tx[s].del) \cup tx[s].add) \ tx[o].del) \cup tx[o].add)
        BY <4>1, <4>2, <4>5 DEF Locks, OneRowPerKey
      <4> QED
        BY <4>3, <4>4, <4>6 DEF Locks
    <3> QED
      BY <3>1, <3>2
  <2>5. \A o \in Saves : Active(o)' => o # s /\ Active(o) /\ tx'[o] = tx[o]
    BY <2>1 DEF OnlyTx, Active
  <2>6. \A o \in Saves : Active(o)' => Locks(o, table'[tx'[o].db], tx'[o].del, tx'[o].add)
    BY <2>4, <2>5
  <2>7. \A o, p \in Saves : Active(o)' /\ Active(p)' /\ p # o /\ tx'[p].db = tx'[o].db =>
           Disjoint(tx'[o].del \cup tx'[o].add, tx'[p].del \cup tx'[p].add)
    BY <1>0, <2>5 DEF Written
  <2> QED
    BY <2>3, <2>6, <2>7 DEF LockInv, Locks, View, Disjoint, Written
<1>4. ASSUME NEW s \in Saves, CommitBegins(s) PROVE LockInv'
  <2>1. /\ OnlyTx(s) /\ tx'[s].db = database /\ tx'[s].del = {} /\ tx'[s].add = {}
    BY <1>4, BeginFacts
  <2>2. table' = table /\ database \in Databases
    BY <1>4 DEF CommitBegins, CoreShape
  <2>3. Locks(s, table[tx'[s].db], tx'[s].del, tx'[s].add)
    BY <1>0, <2>1, <2>2 DEF Locks, OneRowPerKey
  <2> QED
    BY <2>1, <2>2, <2>3, LockKeeps DEF Disjoint
<1>5. ASSUME NEW s \in Saves, PlanInserts(s) \/ PlanApplies(s) PROVE LockInv'
  <2>1. PICK gone \in SUBSET Row, come \in SUBSET Row, k \in Keys : WritesKey(s, gone, come, k)
    BY <1>5, KeyWrites
  <2> DEFINE T == table[tx[s].db]
  <2>2. /\ tx'[s].db = tx[s].db /\ tx[s].state = "open"
        /\ tx'[s].del = tx[s].del \cup (gone \cap T)
        /\ tx'[s].add = (tx[s].add \ gone) \cup come
        /\ OnlyTx(s) /\ table' = table
    <3>1. HasPlan(s) /\ Writes(s, gone, come)
      BY <2>1 DEF WritesKey
    <3>2. Wrote(s, gone, come)
      BY <3>1, WriteFacts
    <3> QED
      BY <3>2 DEF Wrote
  <2>3. Locks(s, T, tx[s].del, tx[s].add)
    BY <1>0, <2>2 DEF Active
  <2>4. /\ \A r \in gone : r \in (T \ tx[s].del) \cup tx[s].add /\ r.key = k
        /\ \A r \in (T \ tx[s].del) \cup tx[s].add : r.key = k => r \in gone
        /\ \A r \in come : r.key = k /\ r.ver = s
        /\ OneRowPerKey(come)
        /\ \A o \in Saves \ {s} : Active(o) /\ tx[o].db = tx[s].db =>
              \A r \in tx[o].del \cup tx[o].add : r.key # k
    BY <2>1 DEF WritesKey, View, OneRowPerKey, Free
  <2>5. \A o \in Saves \ {s} : Active(o) /\ tx[o].db = tx[s].db =>
           Disjoint(Written(s), Written(o))
    BY <1>0, <2>2 DEF Active
  <2> HIDE DEF T
  <2>6. Locks(s, T, tx'[s].del, tx'[s].add)
    <3>1. tx'[s].del \subseteq T /\ \A r \in tx'[s].add : r.ver = s
      BY <2>2, <2>3, <2>4 DEF Locks
    <3>2. OneRowPerKey((T \ tx'[s].del) \cup tx'[s].add)
      <4>1. OneRowPerKey((T \ tx[s].del) \cup tx[s].add)
        BY <2>3 DEF Locks
      <4>2. \A x \in (T \ tx'[s].del) \cup tx'[s].add :
               \/ x \in come
               \/ x \in (T \ tx[s].del) \cup tx[s].add /\ x \notin gone
        BY <2>2
      <4>3. \A x, y \in (T \ tx[s].del) \cup tx[s].add : x.key = y.key => x = y
        BY <4>1 DEF OneRowPerKey
      <4>4. \A x, y \in come : x.key = y.key => x = y
        BY <2>4 DEF OneRowPerKey
      <4> QED
        BY <2>4, <4>2, <4>3, <4>4 DEF OneRowPerKey
    <3> QED
      BY <3>1, <3>2 DEF Locks
  <2>7. ASSUME NEW o \in Saves \ {s}, Active(o), tx[o].db = tx'[s].db
        PROVE  Disjoint(tx'[s].del \cup tx'[s].add, Written(o))
    <3>1. \A r \in Written(o) : r.key # k
      BY <2>2, <2>4, <2>7 DEF Written
    <3>2. \A r \in tx'[s].del \cup tx'[s].add : r \in Written(s) \/ r.key = k
      BY <2>2, <2>4 DEF Written
    <3> QED
      BY <2>2, <2>5, <2>7, <3>1, <3>2 DEF Disjoint
  <2>8. Locks(s, table[tx'[s].db], tx'[s].del, tx'[s].add)
    BY <2>2, <2>6 DEF T
  <2> QED
    BY <2>2, <2>7, <2>8, LockKeeps
<1>6. ASSUME NEW s \in Saves, PlanConflicts(s) \/ ServerAborts(s) PROVE LockInv'
  <2>1. OnlyTx(s) /\ tx'[s].state = "none" /\ table' = table
    BY <1>6, ConflictFacts DEF PlanConflicts, ServerAborts
  <2> QED
    BY <2>1, LockKeeps
<1>7. ASSUME NEW s \in Saves, OnlyTx(s), table' = table,
             /\ Active(s) /\ tx'[s].db = tx[s].db
             /\ tx'[s].del = tx[s].del /\ tx'[s].add = tx[s].add
      PROVE  LockInv'
  <2>1. Locks(s, table[tx'[s].db], tx'[s].del, tx'[s].add)
    BY <1>0, <1>7
  <2>2. \A o \in Saves \ {s} : Active(o) /\ tx[o].db = tx'[s].db =>
           Disjoint(tx'[s].del \cup tx'[s].add, Written(o))
    BY <1>0, <1>7 DEF Written
  <2> QED
    BY <1>7, <2>1, <2>2, LockKeeps
<1>8. ASSUME NEW s \in Saves, PlanFails(s) PROVE LockInv'
  <2>1. OnlyTx(s) /\ (tx'[s].state = "none" \/ tx'[s] = tx[s]) /\ Active(s) /\ table' = table
    BY <1>8, FailFacts DEF PlanFails, Active
  <2>2. CASE tx'[s].state = "none"
    BY <2>1, <2>2, LockKeeps
  <2>3. CASE tx'[s] = tx[s]
    BY <1>7, <2>1, <2>3
  <2> QED
    BY <2>1, <2>2, <2>3
<1>9. ASSUME NEW s \in Saves, CommitSends(s) PROVE LockInv'
  <2>1. /\ OnlyTx(s) /\ table' = table /\ Active(s) /\ tx'[s].db = tx[s].db
        /\ tx'[s].del = tx[s].del /\ tx'[s].add = tx[s].add
    BY <1>9, SendFacts DEF CommitSends, Active
  <2> QED
    BY <1>7, <2>1
<1> QED
  BY <1>1, <1>2, <1>3, <1>4, <1>5, <1>6, <1>8, <1>9, TxFrame, TableFrame DEF TxStep

-----------------------------------------------------------------------------
(* A save keeps what its statements did. *)

(* While a save has a transaction its change set does not change, and what it *)
(* has done only by a statement of its own.                                   *)
LEMMA BusyMoves ==
    ASSUME Shape, DraftInv, OutcomeInv, [Next]_vars, NEW o \in Saves, tx'[o].state # "none"
    PROVE  /\ req'[o].plans = req[o].plans
           /\ \/ done'[o] = done[o]
              \/ PlanInserts(o) \/ PlanApplies(o)
           /\ o \in twice' <=> o \in twice
<1>1. ~OpenPreview(o)
  <2> SUFFICES ASSUME OpenPreview(o) PROVE FALSE
    OBVIOUS
  <2>1. step[o] = "unused" /\ tx' = tx
    BY OpenFacts
  <2> QED
    BY <2>1 DEF OutcomeInv, Waiting
<1>2. PlansStay(o) /\ (done'[o] = done[o] \/ PlanInserts(o) \/ PlanApplies(o))
  BY <1>1, PlanMoves
<1> QED
  BY <1>1, <1>2, MonoStep DEF PlansStay

(* What becomes of the transaction of a save, in one step. *)
TxFate(o) ==
    \/ tx'[o] = tx[o] /\ done'[o] = done[o]
    \/ tx'[o].state = "none"
    \/ /\ tx'[o].state = "open" /\ tx'[o].add = {} /\ tx'[o].del = {} /\ done'[o] = <<>>
       /\ tx[o].state = "none"
    \/ PlanInserts(o) \/ PlanApplies(o)
    \/ /\ tx[o].state = "open" /\ tx'[o].state = "committing" /\ done'[o] = done[o]
       /\ tx'[o].db = tx[o].db /\ tx'[o].del = tx[o].del /\ tx'[o].add = tx[o].add
    \/ ServerCommits(o) /\ done'[o] = done[o]

LEMMA TxFates ==
    ASSUME Shape, DraftInv, OutcomeInv, [Next]_vars, NEW o \in Saves
    PROVE  TxFate(o)
<1> USE DEF Shape
<1>1. CASE tx'[o].state = "none"
  BY <1>1 DEF TxFate
<1>2. CASE tx'[o].state # "none"
  <2>0. done'[o] = done[o] \/ PlanInserts(o) \/ PlanApplies(o)
    BY <1>2, BusyMoves
  <2>1. CASE tx'[o] = tx[o]
    BY <2>0, <2>1 DEF TxFate
  <2>2. CASE CommitBegins(o)
    <3>1. tx'[o].state = "open" /\ tx'[o].add = {} /\ tx'[o].del = {}
      BY <2>2, BeginFacts
    <3>2. step[o] = "taken" /\ done' = done
      BY <2>2 DEF CommitBegins, saveVars
    <3>3. tx[o].state = "none" /\ done[o] = <<>>
      BY <3>2 DEF OutcomeInv, Waiting
    <3> QED
      BY <3>1, <3>2, <3>3 DEF TxFate
  <2>3. CASE PlanInserts(o) \/ PlanApplies(o)
    BY <2>3 DEF TxFate
  <2>4. CASE PlanConflicts(o) \/ ServerAborts(o) \/ PlanFails(o)
    BY <1>2, <2>1, <2>4, ConflictFacts, FailFacts
  <2>5. CASE CommitSends(o)
    BY <2>0, <2>5, SendFacts DEF TxFate
  <2>6. CASE ServerCommits(o)
    BY <2>0, <2>6 DEF TxFate
  <2>7. ASSUME NEW s \in Saves, s # o, TxStep(s) PROVE tx'[o] = tx[o]
    <3>1. ASSUME PlanInserts(s) \/ PlanApplies(s) PROVE OnlyTx(s)
      <4>1. \E gone, come \in SUBSET Row : HasPlan(s) /\ Writes(s, gone, come)
        BY <3>1, InsertFacts, ApplyFacts
      <4>2. \E gone, come \in SUBSET Row : Wrote(s, gone, come)
        BY <4>1, WriteFacts
      <4> QED
        BY <4>2 DEF Wrote
    <3>2. OnlyTx(s)
      BY <2>7, <3>1, BeginFacts, ConflictFacts, FailFacts, SendFacts, CommitFacts DEF TxStep
    <3> QED
      BY <2>7, <3>2 DEF OnlyTx
  <2> QED
    BY <2>1, <2>2, <2>3, <2>4, <2>5, <2>6, <2>7, TxFrame DEF TxStep
<1> QED
  BY <1>1, <1>2

(* A statement does not touch what the save itself wrote, unless two of its    *)
(* changes are of one row.                                                     *)
LEMMA OwnRows ==
    ASSUME Shape, LockInv, PlansInv, DoneInv, WriteInv, NEW s \in Saves, HasPlan(s),
           NEW r \in tx[s].add, NEW o \in NextPlan(s).seen, r.key = o.key
    PROVE  s \in twice
<1> DEFINE n == Len(done[s])
           P == req[s].plans
<1>1. /\ P \in Seq(Plan) /\ n \in Nat /\ n < Len(P) /\ n + 1 \in 1..Len(P) /\ Active(s)
      /\ DOMAIN P = 1..Len(P)
  BY DEF Shape, SaveShape, SaveRequests, HasPlan, Running, Active
<1>2. PICK j \in 1..n : P[j].op = "insert" \/ \E q \in P[j].seen : q.key = r.key
  BY <1>1 DEF WriteInv
<1>3. o \in P[n + 1].seen /\ j \in 1..Len(P) /\ j \in 1..(n + 1) /\ j # n + 1
  BY <1>1 DEF NextPlan
<1>4. P[j].op # "insert"
  BY <1>1, <1>3 DEF PlansInv
<1>5. PICK q \in P[j].seen : q.key = r.key
  BY <1>2, <1>4
<1>6. ChangesTwice(P)
  BY <1>1, <1>3, <1>5 DEF ChangesTwice
<1> QED
  BY <1>6 DEF PlansInv

WriteOk(s) ==
    /\ Active(s) => \A r \in tx[s].add : \E j \in 1..Len(done[s]) :
         req[s].plans[j].op = "insert" \/ \E o \in req[s].plans[j].seen : o.key = r.key
    /\ Active(s) /\ Apart(s) => \A i \in 1..Len(done[s]) :
         /\ done[s][i].row \subseteq tx[s].add
         /\ \A o \in req[s].plans[i].seen : \E r \in tx[s].del : r.key = o.key /\ SameVersion(r, o)
    /\ tx[s].state = "committed" /\ s \notin twice =>
         \A i \in 1..Len(done[s]) : done[s][i].row \subseteq history

LEMMA StatementKeeps ==
    ASSUME Shape, DraftInv, OutcomeInv, LockInv, PlansInv, DoneInv, WriteInv, [Next]_vars,
           NEW s \in Saves, PlanInserts(s) \/ PlanApplies(s)
    PROVE  WriteOk(s)'
<1>0. WriteOk(s)
  BY DEF WriteInv, WriteOk
<1>1. PICK gone \in SUBSET Row, come \in SUBSET Row, k \in Keys : WritesKey(s, gone, come, k)
  BY KeyWrites DEF Shape
<1>2. HasPlan(s) /\ Writes(s, gone, come)
  BY <1>1 DEF WritesKey
<1>3. Wrote(s, gone, come)
  BY <1>2, WriteFacts DEF Shape
<1> DEFINE n == Len(done[s])
           P == req[s].plans
           d == [op |-> NextPlan(s).op, at |-> NextPlan(s).at, row |-> come]
<1>4. done'[s] = Append(done[s], d) /\ n < Len(P) /\ tx[s].state = "open"
  BY <1>2, WriteFacts DEF Shape
<1>5. /\ tx'[s].state = "open" /\ req' = req /\ table' = table
      /\ tx'[s].del = tx[s].del \cup (gone \cap table[tx[s].db])
      /\ tx'[s].add = (tx[s].add \ gone) \cup come
  BY <1>3 DEF Wrote
<1>6. done[s] \in Seq(Results) /\ n \in Nat /\ P \in Seq(Plan) /\ Active(s)
  BY <1>4 DEF Shape, SaveShape, SaveRequests, Active
<1>7. d.row = come
  OBVIOUS
<1> HIDE DEF d
<1>8. /\ Len(done'[s]) = n + 1 /\ done'[s][n + 1] = d
      /\ \A i \in 1..n : done'[s][i] = done[s][i]
  BY <1>4, <1>6
<1>9. lockMode' = lockMode /\ (s \in twice' <=> s \in twice)
  BY <1>5, MonoStep, BusyMoves
<1>10. NextPlan(s) = P[n + 1]
  BY DEF NextPlan
<1>11. ASSUME NEW r \in tx'[s].add
       PROVE  \E j \in 1..Len(done'[s]) : P[j].op = "insert" \/ \E o \in P[j].seen : o.key = r.key
  <2>1. CASE r \in come
    <3>1. r.key = k
      BY <1>1, <2>1 DEF WritesKey
    <3>2. P[n + 1].op = "insert" \/ \E o \in P[n + 1].seen : o.key = k
      <4>1. CASE NextPlan(s).op = "insert"
        BY <1>10, <4>1
      <4>2. ASSUME NEW x \in Matching(s, NextPlan(s)), gone = {x}
            PROVE  \E o \in P[n + 1].seen : o.key = k
        BY <1>1, <1>10, <4>2 DEF WritesKey, Matching
      <4> QED
        BY <1>1, <4>1, <4>2 DEF WritesKey
    <3>3. n + 1 \in 1..Len(done'[s])
      BY <1>6, <1>8
    <3> QED
      BY <3>1, <3>2, <3>3
  <2>2. CASE r \in tx[s].add
    <3>1. PICK j \in 1..n : P[j].op = "insert" \/ \E o \in P[j].seen : o.key = r.key
      BY <1>0, <1>6, <2>2 DEF WriteOk
    <3>2. j \in 1..Len(done'[s])
      BY <1>6, <1>8
    <3> QED
      BY <3>1, <3>2
  <2> QED
    BY <1>5, <2>1, <2>2
<1>12. ASSUME Apart(s), NEW x \in Matching(s, NextPlan(s)), gone = {x}
       PROVE  /\ x \notin tx[s].add /\ x \in tx'[s].del
              /\ \A o \in P[n + 1].seen : x.key = o.key /\ SameVersion(x, o)
  <2>1. PICK o \in P[n + 1].seen : x.key = o.key /\ SameVersion(x, o)
    BY <1>10, <1>12 DEF Matching
  <2>2. /\ \A q \in P[n + 1].seen : q = o
        /\ o.ver # s
    BY SMTT(60), <1>4, <1>6 DEF PlansInv
  <2>3. x \notin tx[s].add
    <3> SUFFICES ASSUME x \in tx[s].add PROVE FALSE
      OBVIOUS
    <3>1. x.ver = s
      BY <1>6 DEF LockInv
    <3>2. lockMode # "xmin"
      BY <2>1, <2>2, <3>1 DEF SameVersion
    <3>3. s \in twice
      BY <1>2, <1>10, <2>1, OwnRows
    <3> QED
      BY <1>12, <3>2, <3>3 DEF Apart
  <2>4. x \in table[tx[s].db]
    BY <1>12, <2>3 DEF Matching, View
  <2> QED
    BY <1>5, <1>12, <2>1, <2>2, <2>3, <2>4
<1>13. ASSUME Apart(s) PROVE /\ tx[s].add \subseteq tx'[s].add
                             /\ \A o \in P[n + 1].seen : \E r \in tx'[s].del :
                                  r.key = o.key /\ SameVersion(r, o)
  <2>1. CASE NextPlan(s).op = "insert" /\ gone = {}
    <3>1. P[n + 1].seen = {}
      BY <1>4, <1>6, <1>10, <2>1 DEF PlansInv
    <3> QED
      BY <1>5, <2>1, <3>1
  <2>2. ASSUME NEW x \in Matching(s, NextPlan(s)), gone = {x}
        PROVE  /\ tx[s].add \subseteq tx'[s].add
               /\ \A o \in P[n + 1].seen : \E r \in tx'[s].del :
                                  r.key = o.key /\ SameVersion(r, o)
    BY <1>5, <1>12, <1>13, <2>2
  <2> QED
    BY <1>1, <2>1, <2>2 DEF WritesKey
<1>14. ASSUME Apart(s), NEW i \in 1..Len(done'[s])
       PROVE  /\ done'[s][i].row \subseteq tx'[s].add
              /\ \A o \in P[i].seen : \E r \in tx'[s].del : r.key = o.key /\ SameVersion(r, o)
  <2>1. CASE i = n + 1
    BY <1>5, <1>7, <1>8, <1>13, <1>14, <2>1
  <2>2. CASE i # n + 1
    <3>1. i \in 1..n
      BY <1>6, <1>8, <2>2
    <3>2. /\ done[s][i].row \subseteq tx[s].add
          /\ \A o \in P[i].seen : \E r \in tx[s].del : r.key = o.key /\ SameVersion(r, o)
      BY <1>0, <1>6, <1>14, <3>1 DEF WriteOk
    <3> QED
      BY <1>5, <1>8, <1>13, <1>14, <3>1, <3>2
  <2> QED
    BY <2>1, <2>2
<1>15. Apart(s)' => Apart(s)
  BY <1>9 DEF Apart
<1>16. \A r, o : (SameVersion(r, o) => IF lockMode' = "xmin" THEN r.ver = o.ver ELSE r.val = o.val)
  BY <1>9 DEF SameVersion
<1> QED
  BY <1>5, <1>11, <1>14, <1>15, <1>16 DEF WriteOk, SameVersion

(* Rows that were committed stay in the history. *)
LEMMA HistoryGrows ==
    ASSUME Shape, LockInv, [Next]_vars
    PROVE  \A r \in history : r \in history'
<1>1. CASE UNCHANGED <<table, history>>
  BY <1>1
<1>2. CASE OtherStep
  <2>1. CASE OtherAlters
    BY <2>1 DEF OtherAlters
  <2>2. ASSUME NEW gone \in SUBSET Row, NEW come \in SUBSET Row, NEW k \in Keys,
               OtherRow(gone, come, k)
        PROVE  history' = history \cup come
    BY <2>2 DEF OtherRow, OtherChanges
  <2> QED
    BY <1>2, <2>1, <2>2, OtherRows DEF Shape
<1>3. ASSUME NEW s \in Saves, ServerCommits(s) PROVE history' = history \cup tx[s].add
  BY <1>3 DEF ServerCommits
<1> QED
  BY <1>1, <1>2, <1>3, TableFrame

LEMMA WriteStep ==
    ASSUME Shape, DraftInv, OutcomeInv, LockInv, PlansInv, DoneInv, WriteInv, [Next]_vars
    PROVE  WriteInv'
<1> SUFFICES ASSUME NEW o \in Saves PROVE WriteOk(o)'
  BY DEF WriteInv, WriteOk
<1>0. WriteOk(o)
  BY DEF WriteInv, WriteOk
<1>1. CASE tx'[o].state = "none"
  BY <1>1 DEF WriteOk, Active
<1>2. CASE PlanInserts(o) \/ PlanApplies(o)
  BY <1>2, StatementKeeps
<1>3. CASE /\ tx'[o].state = "open" /\ tx'[o].add = {} /\ tx'[o].del = {} /\ done'[o] = <<>>
           /\ tx[o].state = "none"
  BY <1>3 DEF WriteOk, Active
<1>4. CASE tx'[o].state # "none" /\ tx[o].state = tx'[o].state /\ tx'[o] = tx[o] /\ done'[o] = done[o]
  <2>1. /\ req'[o].plans = req[o].plans /\ lockMode' = lockMode
        /\ o \in twice' <=> o \in twice
    BY <1>4, BusyMoves, MonoStep
  <2>2. \A i \in 1..Len(done[o]) : done[o][i].row \subseteq history => done[o][i].row \subseteq history'
    BY HistoryGrows
  <2> QED
    BY <1>0, <1>4, <2>1, <2>2 DEF WriteOk, Active, Apart, SameVersion
<1>5. CASE /\ tx[o].state = "open" /\ tx'[o].state = "committing" /\ done'[o] = done[o]
           /\ tx'[o].db = tx[o].db /\ tx'[o].del = tx[o].del /\ tx'[o].add = tx[o].add
  <2>1. /\ req'[o].plans = req[o].plans /\ lockMode' = lockMode
        /\ o \in twice' <=> o \in twice
    BY <1>5, BusyMoves, MonoStep
  <2> QED
    BY <1>0, <1>5, <2>1 DEF WriteOk, Active, Apart, SameVersion
<1>6. CASE ServerCommits(o) /\ done'[o] = done[o]
  <2>1. tx'[o].state = "committed" /\ tx[o].state = "committing" /\ history' = history \cup tx[o].add
    BY <1>6, CommitFacts DEF Shape
  <2>2. o \in twice' <=> o \in twice
    BY <2>1, BusyMoves
  <2>3. o \notin twice => \A i \in 1..Len(done[o]) : done[o][i].row \subseteq tx[o].add
    BY <1>0, <2>1 DEF WriteOk, Active, Apart
  <2> QED
    BY <1>6, <2>1, <2>2, <2>3 DEF WriteOk, Active
<1> QED
  BY <1>1, <1>2, <1>3, <1>4, <1>5, <1>6, TxFates DEF TxFate

-----------------------------------------------------------------------------
(* Versions that will not be written again. *)

LEMMA SettledStays ==
    ASSUME Shape, DraftInv, OutcomeInv, [Next]_vars, NEW v \in Saves, Settled(v)
    PROVE  Settled(v)'
<1> USE DEF Shape
<1>1. CASE tx[v].state = "committed"
  <2>1. step[v] \notin Waiting
    BY <1>1 DEF OutcomeInv
  <2>2. tx'[v].state = "committed"
    BY <1>1, <2>1, TxMoves DEF TxMove, OnlyTx, Waiting
  <2> QED
    BY <2>2 DEF Settled
<1>2. CASE tx[v].state = "none" /\ step[v] \in {"ended", "done"}
  <2>1. tx'[v].state = "none"
    BY <1>2, TxMoves DEF TxMove, OnlyTx
  <2>2. step'[v] \in {"ended", "done"}
    <3>1. CASE Same(v)
      BY <1>2, <3>1 DEF Same
    <3>2. CASE Advances(v)
      BY <1>2, <3>2 DEF Advances, Moves
    <3>3. CASE Forgets(v)
      BY <3>3 DEF Forgets, Forgotten
    <3>4. CASE OpenPreview(v)
      BY <1>2, <3>4 DEF OpenPreview
    <3>5. CASE PlanConflicts(v) \/ PlanInserts(v) \/ PlanApplies(v)
      BY <1>2, <3>5 DEF PlanConflicts, PlanInserts, PlanApplies, HasPlan, Running
    <3>6. ASSUME NEW s \in Saves, s # v,
             \/ Advances(s) \/ Forgets(s) \/ OpenPreview(s)
             \/ PlanConflicts(s) \/ PlanInserts(s) \/ PlanApplies(s)
          PROVE  step'[v] = step[v]
      <4>1. CASE PlanInserts(s) \/ PlanApplies(s)
        BY <4>1 DEF PlanInserts, PlanApplies, Writes
      <4>2. CASE Advances(s) \/ Forgets(s) \/ OpenPreview(s) \/ PlanConflicts(s)
        <5>1. Only(s)
          BY <4>2, OpenFacts, ClashFacts DEF Advances, Moves, Forgets
        <5> QED
          BY <3>6, <5>1 DEF Only, Same
      <4> QED
        BY <3>6, <4>1, <4>2
    <3> QED
      BY <1>2, <3>1, <3>2, <3>3, <3>4, <3>5, <3>6, AllMoves DEF SavesMove, AllSame
  <2> QED
    BY <2>1, <2>2 DEF Settled
<1> QED
  BY <1>1, <1>2 DEF Settled

LEMMA KnownStays ==
    ASSUME Shape, DraftInv, OutcomeInv, LockInv, [Next]_vars, NEW r \in Row, Known(r)
    PROVE  /\ r.ver \in Saves => Settled(r.ver)'
           /\ -turns' <= r.ver
           /\ r \in history' \/ r.ver \in twice'
<1>1. r.ver \in Saves => Settled(r.ver)'
  BY SettledStays DEF Known
<1>2. turns \in Nat /\ r.ver \in Int /\ (turns' = turns \/ turns' = turns + 1) /\ -turns <= r.ver
  BY UserFrames DEF UserFrame, Shape, UserShape, Row, Known
<1>3. r \in history' \/ r.ver \in twice'
  BY HistoryGrows, MonoStep DEF Known
<1> QED
  BY <1>1, <1>2, <1>3

LEMMA KnownLater ==
    ASSUME Shape, DraftInv, OutcomeInv, LockInv, [Next]_vars, NEW r \in Row, Known(r)
    PROVE  Known(r)'
BY KnownStays DEF Known, Settled

(* Where the rows on display come from. *)
LEMMA GridRows ==
    ASSUME Shape, DoneInv, [Next]_vars, NEW i \in 1..Len(grid')
    PROVE  \/ \E k \in 1..Len(grid) : grid'[i] = grid[k]
           \/ grid'[i] \in table[database]
           \/ \E c \in conflict : grid'[i] \in c.current
           \/ \E s \in Saves : /\ event[s] = "completed"
                               /\ \E j \in 1..Len(done[s]) : grid'[i] \in done[s][j].row
<1>0. /\ grid \in Seq(Row) /\ database \in Databases /\ offset \in Nat
      /\ ServerShape /\ table[database] \subseteq Row
  BY DEF Shape, GridShape, CoreShape, ServerShape
<1>1. CASE grid' = grid
  BY <1>1
<1>2. CASE QueryDone
  <2>1. PageAt(0) \in Seq(table[database])
    BY <1>0, PageType
  <2>2. PICK p \in Seq(table[database]) : p = PageAt(0)
    BY <2>1
  <2>3. grid' = p
    BY <1>2, <2>2 DEF QueryDone
  <2> QED
    BY <2>2, <2>3
<1>3. CASE LoadMore
  <2>1. PageAt(offset) \in Seq(table[database])
    BY <1>0, PageType
  <2>2. PICK p \in Seq(table[database]) : p = PageAt(offset)
    BY <2>1
  <2>3. grid' = grid \o p /\ p \in Seq(Row)
    BY <1>0, <1>3, <2>2 DEF LoadMore
  <2>4. CASE i \in 1..Len(grid)
    BY <1>0, <2>3, <2>4, ConcatFacts
  <2>5. CASE i \notin 1..Len(grid)
    <3>1. Len(grid) \in Nat /\ Len(p) \in Nat /\ Len(grid') = Len(grid) + Len(p)
      BY <1>0, <2>3
    <3>2. i \in (Len(grid) + 1)..(Len(grid) + Len(p))
      BY <2>5, <3>1
    <3>3. grid'[i] = p[i - Len(grid)] /\ i - Len(grid) \in 1..Len(p)
      BY <1>0, <2>3, <3>2, ConcatFacts
    <3>4. \A k \in 1..Len(p) : p[k] \in table[database]
      BY <2>2
    <3> QED
      BY <3>3, <3>4
  <2> QED
    BY <2>4, <2>5
<1>4. CASE Refresh \/ TabsDisposed
  <2>1. grid' = <<>>
    BY <1>4 DEF Refresh, TabsDisposed
  <2> QED
    BY <2>1
<1>5. CASE UseServer
  <2>1. ASSUME NEW n \in 1..Len(grid), NEW r \in Row, grid' = [grid EXCEPT ![n] = r],
               \E c \in conflict : r \in c.current
        PROVE  (\E k \in 1..Len(grid) : grid'[i] = grid[k]) \/ \E c \in conflict : grid'[i] \in c.current
    <3>1. Len(grid') = Len(grid)
      BY <1>0, <2>1
    <3>2. grid'[i] = IF i = n THEN r ELSE grid[i]
      BY <1>0, <2>1, <3>1
    <3> QED
      BY <2>1, <3>1, <3>2
  <2>2. ASSUME NEW n \in 1..Len(grid), grid' = RemoveAt(grid, n)
        PROVE  \E k \in 1..Len(grid) : grid'[i] = grid[k]
    <3>0. /\ Len(RemoveAt(grid, n)) = Len(grid) - 1
          /\ \A k \in 1..(n - 1) : RemoveAt(grid, n)[k] = grid[k]
          /\ \A k \in n..(Len(grid) - 1) : RemoveAt(grid, n)[k] = grid[k + 1]
      BY <1>0, RemoveFacts
    <3>1. /\ Len(grid') = Len(grid) - 1 /\ Len(grid) \in Nat
          /\ \A k \in 1..(n - 1) : grid'[k] = grid[k]
          /\ \A k \in n..(Len(grid) - 1) : grid'[k] = grid[k + 1]
      BY <1>0, <2>2, <3>0
    <3>2. CASE i < n
      BY <3>1, <3>2
    <3>3. CASE i >= n
      <4>1. i \in n..(Len(grid) - 1) /\ i + 1 \in 1..Len(grid)
        BY <3>1, <3>3
      <4> QED
        BY <3>1, <4>1
    <3> QED
      BY <3>1, <3>2, <3>3
  <2> QED
    BY <1>1, <1>5, <2>1, <2>2, UseServerFacts
<1>6. ASSUME NEW s \in Saves, HandleOutcome(s)
      PROVE  \/ \E k \in 1..Len(grid) : grid'[i] = grid[k]
             \/ /\ event[s] = "completed"
                /\ \E j \in 1..Len(done[s]) : grid'[i] \in done[s][j].row
  <2>1. grid' = grid \/ (event[s] = "completed" /\ grid' = ApplyUpdatedRows(s))
    BY <1>6 DEF HandleOutcome
  <2>2. CASE event[s] = "completed" /\ grid' = ApplyUpdatedRows(s)
    <3>1. OnDisplayOrReturned(ApplyUpdatedRows(s)[i], s)
      BY <2>2, AppliedRows DEF Shape
    <3> QED
      BY <2>2, <3>1 DEF OnDisplayOrReturned
  <2> QED
    BY <1>1, <2>1, <2>2
<1> QED
  BY <1>1, <1>2, <1>3, <1>4, <1>5, <1>6, GridFrames DEF GridFrame

(* A row that has just been committed. *)
LEMMA KnownTables ==
    ASSUME Shape, DraftInv, OutcomeInv, LockInv, KnownInv, [Next]_vars,
           NEW d \in Databases, NEW r \in table'[d]
    PROVE  Known(r)' /\ r \in history'
<1>0. /\ turns \in Nat /\ Saves \subseteq Nat \ {0}
  BY EditAssumption DEF Shape, UserShape
<1>1. CASE r \in table[d]
  <2>1. r \in Row /\ Known(r) /\ r \in history
    BY <1>1 DEF KnownInv, Shape, ServerShape
  <2> QED
    BY <2>1, KnownLater, HistoryGrows
<1>2. CASE UNCHANGED <<table, history>>
  BY <1>1, <1>2
<1>3. CASE OtherStep
  <2>1. CASE OtherAlters
    BY <1>1, <2>1 DEF OtherAlters
  <2>2. ASSUME NEW gone \in SUBSET Row, NEW come \in SUBSET Row, NEW k \in Keys,
               OtherRow(gone, come, k)
        PROVE  Known(r)' /\ r \in history'
    <3>1. /\ table'[database] = (table[database] \ gone) \cup come
          /\ \A x \in Databases \ {database} : table'[x] = table[x]
          /\ history' = history \cup come /\ turns' = turns + 1
      BY <2>2, OtherFacts DEF OtherRow, Shape
    <3>2. CASE r \in come
      <4>1. r.ver = -(turns + 1) /\ r \in history'
        BY <2>2, <3>1, <3>2 DEF OtherRow
      <4>2. r.ver \notin Saves /\ -turns' <= r.ver
        BY <1>0, <3>1, <4>1
      <4> QED
        BY <4>1, <4>2 DEF Known
    <3> QED
      BY <1>1, <3>1, <3>2
  <2> QED
    BY <1>3, <2>1, <2>2, OtherRows DEF Shape
<1>4. ASSUME NEW s \in Saves, ServerCommits(s) PROVE Known(r)' /\ r \in history'
  <2>1. /\ tx'[s].state = "committed" /\ tx[s].state = "committing"
        /\ table'[tx[s].db] = (table[tx[s].db] \ tx[s].del) \cup tx[s].add
        /\ \A x \in Databases \ {tx[s].db} : table'[x] = table[x]
        /\ history' = history \cup tx[s].add
    BY <1>4, CommitFacts DEF Shape
  <2>2. CASE r \in tx[s].add
    <3>1. r.ver = s /\ r \in history'
      BY <2>1, <2>2 DEF LockInv, Active
    <3>2. Settled(s)'
      BY <2>1 DEF Settled
    <3>3. turns' \in Nat
      BY <1>0, UserFrames DEF UserFrame
    <3>4. -turns' <= r.ver
      BY <1>0, <3>1, <3>3
    <3> QED
      BY <3>1, <3>2, <3>4 DEF Known, Settled
  <2> QED
    BY <1>1, <2>1, <2>2
<1> QED
  BY <1>2, <1>3, <1>4, TableFrame

LEMMA KnownGrid ==
    ASSUME Shape, DraftInv, OutcomeInv, LockInv, DoneInv, WriteInv, KnownInv, [Next]_vars,
           NEW r \in Row, NEW i \in 1..Len(grid'), r = grid'[i]
    PROVE  Known(r)'
<1> SUFFICES Known(r)
  BY KnownLater
<1>1. CASE \E k \in 1..Len(grid) : r = grid[k]
  BY <1>1 DEF KnownInv
<1>2. CASE r \in table[database]
  BY <1>2 DEF KnownInv, Shape, CoreShape
<1>3. CASE \E c \in conflict : r \in c.current
  BY <1>3 DEF KnownInv
<1>4. ASSUME NEW s \in Saves, event[s] = "completed", NEW j \in 1..Len(done[s]), r \in done[s][j].row
      PROVE  Known(r)
  <2>1. tx[s].state = "committed"
    BY <1>4 DEF OutcomeInv
  <2>2. r.ver = s
    BY <1>4 DEF DoneInv
  <2>3. r \in history \/ s \in twice
    BY <1>4, <2>1 DEF WriteInv
  <2>4. turns \in Nat /\ s \in Nat /\ -turns <= s
    BY EditAssumption DEF Shape, UserShape
  <2> QED
    BY <2>1, <2>2, <2>3, <2>4 DEF Known, Settled
<1> QED
  BY <1>1, <1>2, <1>3, <1>4, GridRows

(* What a conflict is reported with. *)
LEMMA KnownClash ==
    ASSUME Shape, DraftInv, OutcomeInv, LockInv, PlansInv, DoneInv, WriteInv, KnownInv,
           [Next]_vars, NEW s \in Saves, NEW r \in clash'[s].current
    PROVE  Known(r)'
<1> USE DEF Shape
<1>1. CASE clash'[s] = clash[s]
  <2>1. r \in Row /\ Known(r)
    BY <1>1 DEF KnownInv, SaveShape, Clashes
  <2> QED
    BY <2>1, KnownLater
<1>2. CASE clash'[s] = NoClash
  BY <1>2 DEF NoClash
<1>3. CASE PlanConflicts(s)
  <2>1. /\ step'[s] = "ended" /\ HasPlan(s) /\ tx'[s].state = "none"
        /\ r \in View(s) /\ \E o \in NextPlan(s).seen : r.key = o.key
    BY <1>3, ClashFacts, ConflictFacts
  <2>2. tx[s].state = "open" /\ tx[s].db \in Databases
    BY <2>1 DEF HasPlan, Running, ServerShape, Transactions
  <2>3. CASE r \in table[tx[s].db]
    <3>1. r \in Row /\ Known(r)
      BY <2>2, <2>3 DEF KnownInv, ServerShape
    <3> QED
      BY <3>1, KnownLater
  <2>4. CASE r \in tx[s].add
    <3>1. r.ver = s
      BY <2>2, <2>4 DEF LockInv, Active
    <3>2. s \in twice'
      BY <2>1, <2>4, OwnRows, MonoStep
    <3>3. Settled(s)'
      BY <2>1 DEF Settled
    <3>4. PICK n \in Nat : n = turns'
      BY UserFrames DEF UserFrame, UserShape
    <3>5. s \in Nat /\ -n <= s
      BY EditAssumption
    <3>6. -turns' <= r.ver
      BY <3>1, <3>4, <3>5
    <3> QED
      BY <3>1, <3>2, <3>3, <3>6 DEF Known, Settled
  <2> QED
    BY <2>1, <2>3, <2>4 DEF View
<1>4. ASSUME NEW o \in Saves,
             \/ Advances(o) \/ Forgets(o) \/ OpenPreview(o)
             \/ PlanConflicts(o) \/ PlanInserts(o) \/ PlanApplies(o)
      PROVE  clash'[s] = clash[s] \/ clash'[s] = NoClash \/ PlanConflicts(s)
  <2>1. CASE PlanInserts(o) \/ PlanApplies(o)
    BY <2>1 DEF PlanInserts, PlanApplies, Writes
  <2>2. CASE Advances(o) \/ Forgets(o) \/ OpenPreview(o) \/ PlanConflicts(o)
    <3>1. /\ Only(o) /\ (Advances(o) \/ OpenPreview(o) => clash'[o] = clash[o])
          /\ Forgets(o) => clash'[o] = NoClash
      BY <2>2, OpenFacts, ClashFacts DEF Advances, Moves, Forgets, Forgotten
    <3> QED
      BY <2>2, <3>1 DEF Only, Same
  <2> QED
    BY <1>4, <2>1, <2>2
<1> QED
  BY <1>1, <1>2, <1>3, <1>4, AllMoves DEF SavesMove, AllSame, Same

(* A change set was built from rows. *)
LEMMA SeenRows ==
    ASSUME Shape, NEW s \in Saves, NEW i \in 1..Len(req[s].plans), NEW o \in req[s].plans[i].seen
    PROVE  o \in Row
<1>1. req[s].plans \in Seq(Plan)
  BY DEF Shape, SaveShape, SaveRequests
<1>2. req[s].plans[i] \in Plan
  BY <1>1
<1> QED
  BY <1>2 DEF Plan

LEMMA KnownStep ==
    ASSUME Shape, DraftInv, OutcomeInv, DatabaseInv, LockInv, PlansInv, DoneInv, WriteInv,
           KnownInv, [Next]_vars
    PROVE  KnownInv'
<1>0. Shape'
  BY ShapeStep
<1>1. \A d \in Databases : \A r \in table'[d] : Known(r)' /\ r \in history'
  BY KnownTables
<1>2. ASSUME NEW i \in 1..Len(grid') PROVE Known(grid[i])'
  <2>1. PICK r \in Row : r = grid'[i]
    BY <1>0 DEF Shape, GridShape
  <2>2. Known(r)'
    BY <2>1, KnownGrid
  <2> QED
    BY <2>1, <2>2 DEF Known, Settled
<1>3. \A s \in Saves : \A r \in clash'[s].current : Known(r)'
  BY KnownClash
<1>4. ASSUME NEW c \in conflict', NEW r \in c.current PROVE Known(r)'
  <2>1. c \in conflict \/ \E s \in Saves : c = clash[s]
    BY UserFrames DEF UserFrame, HandleOutcome, BarLearns
  <2>2. r \in Row /\ Known(r)
    BY <2>1 DEF KnownInv, Shape, UserShape, SaveShape, Clashes
  <2> QED
    BY <2>2, KnownLater
<1>5. ASSUME NEW s \in Saves, NEW i \in 1..Len(req'[s].plans), NEW o \in req'[s].plans[i].seen
      PROVE  Known(o)'
  <2>1. CASE OpenPreview(s)
    <3>1. PICK B \in Seq(Plan) : B = BuildRowChanges
      BY BuiltPlans DEF Shape
    <3>2. OfGrid(B) /\ req'[s].plans = B
      BY <2>1, <3>1, BuiltPlans, OpenFacts DEF Shape
    <3>3. PICK k \in 1..Len(grid) : o = grid[k]
      BY <3>2 DEF OfGrid
    <3>4. o \in Row /\ Known(o)
      BY <3>3 DEF KnownInv, Shape, GridShape
    <3> QED
      BY <3>4, KnownLater
  <2>2. CASE Forgets(s)
    <3>1. req'[s].plans = <<>>
      BY <2>2, NoSaveType DEF Forgets, Forgotten
    <3> QED
      BY <3>1
  <2>3. CASE PlansStay(s)
    <3>1. req'[s].plans = req[s].plans
      BY <2>3 DEF PlansStay
    <3>2. i \in 1..Len(req[s].plans) /\ o \in req[s].plans[i].seen
      BY <3>1
    <3>3. o \in Row /\ Known(o)
      BY <3>2, SeenRows DEF KnownInv
    <3> QED
      BY <3>3, KnownLater
  <2> QED
    BY <2>1, <2>2, <2>3, PlanMoves
<1> QED
  BY <1>1, <1>2, <1>3, <1>4, <1>5 DEF KnownInv

-----------------------------------------------------------------------------
(* The versions a permanent save replaced. *)

(* A save becomes permanent by the server's commit, and stays so. *)
LEMMA Permanent ==
    ASSUME Shape, DraftInv, OutcomeInv, [Next]_vars, NEW s \in Saves, tx'[s].state = "committed"
    PROVE  /\ ServerCommits(s) \/ (tx'[s] = tx[s] /\ tx[s].state = "committed")
           /\ req'[s].plans = req[s].plans /\ tx'[s].db = tx[s].db
<1>1. ~PlanInserts(s) /\ ~PlanApplies(s)
  <2> SUFFICES ASSUME PlanInserts(s) \/ PlanApplies(s) PROVE FALSE
    OBVIOUS
  <2>1. \E gone, come \in SUBSET Row : HasPlan(s) /\ Writes(s, gone, come)
    BY ZenonT(120), InsertFacts, ApplyFacts DEF Shape
  <2>2. \E gone, come \in SUBSET Row : Wrote(s, gone, come)
    BY <2>1, WriteFacts DEF Shape
  <2> QED
    BY <2>2 DEF Wrote
<1>2. ServerCommits(s) \/ (tx'[s] = tx[s] /\ tx[s].state = "committed")
  BY <1>1, TxFates DEF TxFate
<1>3. ServerCommits(s) => tx'[s].db = tx[s].db
  BY CommitFacts DEF Shape
<1> QED
  BY <1>2, <1>3, BusyMoves

(* What a commit replaces is what the user saw, and was there until now. *)
LEMMA CommitReplaces ==
    ASSUME Shape, LockInv, PlansInv, DoneInv, WriteInv, NEW s \in Saves,
           tx[s].state = "committing", Apart(s),
           NEW i \in 1..Len(req[s].plans), NEW o \in req[s].plans[i].seen
    PROVE  \E r \in tx[s].del : /\ r \in table[tx[s].db]
                                /\ r.key = o.key /\ SameVersion(r, o)
<1>1. Active(s) /\ Len(done[s]) = Len(req[s].plans)
  BY DEF Active, DoneInv
<1>2. PICK r \in tx[s].del : r.key = o.key /\ SameVersion(r, o)
  BY <1>1 DEF WriteInv
<1> QED
  BY <1>1, <1>2 DEF LockInv

LEMMA SpentStep ==
    ASSUME Shape, DraftInv, OutcomeInv, LockInv, PlansInv, DoneInv, WriteInv,
           KnownInv, SpentInv, [Next]_vars
    PROVE  SpentInv'
<1> SUFFICES ASSUME lockMode' = "xmin", NEW s \in Saves, tx'[s].state = "committed",
                    NEW i \in 1..Len(req'[s].plans), NEW o \in req'[s].plans[i].seen,
                    NEW r \in table'[tx'[s].db], r.key = o.key, r.ver = o.ver
             PROVE  FALSE
  BY DEF SpentInv
<1>1. /\ req'[s].plans = req[s].plans /\ tx'[s].db = tx[s].db /\ lockMode = "xmin"
      /\ tx[s].db \in Databases
  BY Permanent, MonoStep DEF Shape, ServerShape, Transactions
<1> DEFINE d == tx[s].db
<1>2. o.ver # s /\ Known(o) /\ turns \in Nat /\ o.ver \in Int
  <2>1. i \in 1..Len(req[s].plans) /\ o \in req[s].plans[i].seen
    BY <1>1
  <2>2. o \in Row
    BY <2>1, SeenRows
  <2> QED
    BY <2>1, <2>2 DEF PlansInv, KnownInv, Shape, UserShape, Row
<1>3. CASE ServerCommits(s)
  <2>1. /\ tx[s].state = "committing"
        /\ table'[d] = (table[d] \ tx[s].del) \cup tx[s].add
    BY <1>3, CommitFacts DEF Shape
  <2>2. PICK q \in tx[s].del : q \in table[d] /\ q.key = o.key /\ q.ver = o.ver
    BY <1>1, <2>1, CommitReplaces DEF Apart, SameVersion
  <2>3. CASE r \in table[d] \ tx[s].del
    BY <1>1, <2>2, <2>3 DEF LockInv, OneRowPerKey
  <2>4. CASE r \in tx[s].add
    <3>1. r.ver = s
      BY <2>1, <2>4 DEF LockInv, Active
    <3> QED
      BY <1>2, <3>1
  <2> QED
    BY <1>1, <2>1, <2>3, <2>4
<1>4. CASE tx'[s] = tx[s] /\ tx[s].state = "committed"
  <2>1. r \notin table[d]
    BY <1>1, <1>4 DEF SpentInv
  <2>2. CASE UNCHANGED <<table, history>>
    BY <1>1, <2>1, <2>2
  <2>3. CASE OtherStep
    <3>1. CASE OtherAlters
      BY <1>1, <2>1, <3>1 DEF OtherAlters
    <3>2. ASSUME NEW gone \in SUBSET Row, NEW come \in SUBSET Row, NEW k \in Keys,
                 OtherRow(gone, come, k)
          PROVE  FALSE
      <4>1. /\ table'[database] = (table[database] \ gone) \cup come
            /\ \A x \in Databases \ {database} : table'[x] = table[x]
        BY <3>2, OtherFacts DEF OtherRow, Shape
      <4>2. r \in come
        BY <1>1, <2>1, <4>1
      <4>3. r.ver = -(turns + 1)
        BY <3>2, <4>2 DEF OtherRow
      <4>4. -turns <= o.ver
        BY <1>2 DEF Known
      <4> QED
        BY <1>2, <4>3, <4>4
    <3> QED
      BY <2>3, <3>1, <3>2, OtherRows DEF Shape
  <2>4. ASSUME NEW x \in Saves, ServerCommits(x) PROVE FALSE
    <3>1. /\ tx[x].state = "committing"
          /\ table'[tx[x].db] = (table[tx[x].db] \ tx[x].del) \cup tx[x].add
          /\ \A e \in Databases \ {tx[x].db} : table'[e] = table[e]
      BY <2>4, CommitFacts DEF Shape
    <3>2. r \in tx[x].add
      BY <1>1, <2>1, <3>1
    <3>3. r.ver = x
      BY <3>1, <3>2 DEF LockInv, Active
    <3> QED
      BY <1>2, <3>1, <3>3 DEF Known, Settled
  <2> QED
    BY <2>2, <2>3, <2>4, TableFrame
<1> QED
  BY <1>3, <1>4, Permanent

LEMMA RetryStep ==
    ASSUME Shape, DraftInv, OutcomeInv, LockInv, PlansInv, DoneInv, WriteInv,
           SpentInv, RetryAppliesOnce, [Next]_vars
    PROVE  RetryAppliesOnce'
<1> SUFFICES ASSUME lockMode' = "xmin", NEW s \in Saves, NEW o \in Saves, s # o,
                    tx'[s].state = "committed", tx'[o].state = "committed",
                    tx'[s].db = tx'[o].db,
                    NEW i \in DOMAIN req'[s].plans, NEW j \in DOMAIN req'[o].plans,
                    NEW q \in req'[s].plans[i].seen, q \in req'[o].plans[j].seen
             PROVE  FALSE
  BY DEF RetryAppliesOnce
<1>1. /\ req'[s].plans = req[s].plans /\ tx'[s].db = tx[s].db
      /\ req'[o].plans = req[o].plans /\ tx'[o].db = tx[o].db
      /\ lockMode = "xmin"
  BY Permanent, MonoStep
<1>2. req[s].plans \in Seq(Plan) /\ req[o].plans \in Seq(Plan)
  BY DEF Shape, SaveShape, SaveRequests
<1>3. i \in 1..Len(req[s].plans) /\ j \in 1..Len(req[o].plans)
  BY <1>1, <1>2
<1>4. ASSUME NEW a \in Saves, NEW b \in Saves, a # b, ServerCommits(b),
             tx'[a].state = "committed", tx'[a].db = tx'[b].db,
             NEW m \in 1..Len(req[a].plans), NEW n \in 1..Len(req[b].plans),
             q \in req[a].plans[m].seen, q \in req[b].plans[n].seen
      PROVE  FALSE
  <2>1. tx[b].state = "committing" /\ tx'[b].db = tx[b].db /\ tx'[a] = tx[a]
    BY <1>4, CommitFacts DEF Shape, OnlyTx
  <2>2. PICK r \in table[tx[b].db] : r.key = q.key /\ r.ver = q.ver
    BY <1>1, <1>4, <2>1, CommitReplaces DEF Apart, SameVersion
  <2> QED
    BY <1>1, <1>4, <2>1, <2>2 DEF SpentInv
<1>5. CASE ServerCommits(o)
  BY <1>1, <1>3, <1>4, <1>5
<1>6. CASE ServerCommits(s)
  BY <1>1, <1>3, <1>4, <1>6
<1>7. CASE tx[s].state = "committed" /\ tx[o].state = "committed"
  BY <1>1, <1>7 DEF RetryAppliesOnce
<1> QED
  BY <1>5, <1>6, <1>7, Permanent

-----------------------------------------------------------------------------
(* The invariant holds. *)

LEMMA InitShape ==
    ASSUME Init
    PROVE  Shape
<1>0. 1 \in Databases
  BY EditAssumption DEF Databases
<1> DEFINE rows == {[key |-> k, ver |-> 0, val |-> InitialVal] : k \in InitialKeys}
<1>1. rows \in SUBSET Row
  BY EditAssumption DEF Row
<1>2. table = [d \in Databases |-> rows] /\ history = table[1]
  BY DEF Init
<1> HIDE DEF rows
<1>3. ServerShape
  <2>1. /\ schema = [d \in Databases |-> 0] /\ tx = [s \in Saves |-> NoTx]
    BY DEF Init
  <2> QED
    BY <1>0, <1>1, <1>2, <2>1, NoTxType DEF ServerShape
<1>4. CoreShape
  <2>1. IsFiniteSet({}) /\ Cardinality({}) = 0
    BY FS_EmptySet
  <2>2. /\ database = 1 /\ store = TRUE /\ changeSets = {} /\ offset = PageSize
    BY DEF Init
  <2> QED
    BY <1>0, <2>1, <2>2, EditAssumption DEF CoreShape
<1>5. SaveShape
  <2>1. /\ step = [s \in Saves |-> "unused"] /\ req = [s \in Saves |-> NoSave]
        /\ done = [s \in Saves |-> <<>>] /\ event = [s \in Saves |-> "none"]
        /\ clash = [s \in Saves |-> NoClash]
    BY DEF Init
  <2>2. "unused" \in Steps /\ "none" \in Outcomes /\ NoClash \in Clashes /\ <<>> \in Seq(Results)
    BY DEF Steps, Outcomes, NoClash, Clashes
  <2> QED
    BY <2>1, <2>2, NoSaveType DEF SaveShape
<1>6. GridShape
  <2>1. /\ grid = PageAt(0) /\ gen = 0 /\ gridDb = 1 /\ status = "completed" /\ database = 1
    BY DEF Init
  <2>2. PageAt(0) \in Seq(table[database])
    BY <1>0, <1>3, <2>1, PageType
  <2>3. table[database] \subseteq Row
    BY <1>0, <1>3, <2>1 DEF ServerShape
  <2> QED
    BY <1>0, <2>1, <2>2, <2>3 DEF GridShape
<1>7. DraftShape
  BY FS_EmptySet DEF Init, DraftShape
<1>8. UserShape
  <2>1. IsFiniteSet({}) /\ Cardinality({}) = 0
    BY FS_EmptySet
  <2>2. locked \in BOOLEAN /\ mounted \in BOOLEAN
    BY DEF Init
  <2>3. /\ conflict = {} /\ turns = 0 /\ mount = 1 /\ shown = None /\ switching = "no" /\ twice = {}
        /\ lockMode \in {"xmin", "displayed"}
    BY EditAssumption DEF Init
  <2>4. /\ mount \in Nat /\ turns \in Nat /\ shown \in Saves \cup {None} /\ twice \subseteq Saves
        /\ conflict \subseteq Clashes /\ IsFiniteSet(conflict) /\ Cardinality(conflict) <= 1
        /\ switching \in {"no", "asked", "switched"}
    BY <2>1, <2>3
  <2> QED
    BY <2>2, <2>3, <2>4 DEF UserShape
<1> QED
  BY <1>3, <1>4, <1>5, <1>6, <1>7, <1>8 DEF Shape

LEMMA InitKnown ==
    ASSUME Init
    PROVE  KnownInv /\ LockInv
<1>0. 1 \in Databases /\ database = 1 /\ turns = 0 /\ 0 \notin Saves
  BY EditAssumption DEF Databases, Init
<1> DEFINE rows == {[key |-> k, ver |-> 0, val |-> InitialVal] : k \in InitialKeys}
<1>1. \A r \in rows : r.ver = 0
  OBVIOUS
<1>2. OneRowPerKey(rows)
  BY DEF OneRowPerKey
<1>3. table = [d \in Databases |-> rows] /\ history = table[1]
  BY DEF Init
<1> HIDE DEF rows
<1>4. (\A d \in Databases : table[d] = rows) /\ history = rows
  BY <1>0, <1>3
<1>5. \A r \in rows : Known(r)
  BY <1>0, <1>1, <1>4 DEF Known
<1>6. \A i \in 1..Len(grid) : grid[i] \in rows
  <2>1. grid = PageAt(0)
    BY DEF Init
  <2>2. PageAt(0) \in Seq(table[database])
    BY <1>0, InitShape, PageType DEF Shape
  <2>3. grid \in Seq(rows)
    BY <1>0, <1>4, <2>1, <2>2
  <2> QED
    BY <2>3
<1>7. /\ \A s \in Saves : clash[s].current = {} /\ req[s].plans = <<>> /\ tx[s].state = "none"
      /\ conflict = {}
  BY NoSaveType, NoTxType DEF Init, NoClash
<1>8. KnownInv
  BY <1>4, <1>5, <1>6, <1>7 DEF KnownInv
<1>9. LockInv
  BY <1>2, <1>4, <1>7 DEF LockInv, Active
<1> QED
  BY <1>8, <1>9

LEMMA InitInv == Init => Inv
<1> SUFFICES ASSUME Init PROVE Inv
  OBVIOUS
<1>1. Shape /\ KnownInv /\ LockInv
  BY InitShape, InitKnown
<1>2. \A s \in Saves : /\ req[s].plans = <<>> /\ tx[s].state = "none" /\ req[s].mount = 0
                       /\ step[s] = "unused" /\ event[s] = "none" /\ done[s] = <<>>
  BY NoSaveType, NoTxType DEF Init
<1>3. OutcomeInv
  BY <1>2 DEF OutcomeInv
<1>4. DatabaseInv
  BY <1>2 DEF DatabaseInv, Init
<1>5. PlansInv
  BY <1>2 DEF PlansInv, ChangesTwice
<1>6. DoneInv
  BY <1>2 DEF DoneInv
<1>7. WriteInv
  BY <1>2 DEF WriteInv, Active
<1>8. SpentInv /\ RetryAppliesOnce
  BY <1>2 DEF SpentInv, RetryAppliesOnce
<1>9. DraftInv
  BY DEF DraftInv, DraftsFollowRows, Init
<1> QED
  BY <1>1, <1>3, <1>4, <1>5, <1>6, <1>7, <1>8, <1>9 DEF Inv

LEMMA InvStep == Inv /\ [Next]_vars => Inv'
<1> SUFFICES ASSUME Inv, [Next]_vars PROVE Inv'
  OBVIOUS
<1>0. /\ Shape /\ OutcomeInv /\ DatabaseInv /\ LockInv /\ PlansInv /\ DoneInv /\ WriteInv
      /\ KnownInv /\ SpentInv /\ DraftInv /\ RetryAppliesOnce
  BY DEF Inv
<1>1. Shape' /\ OutcomeInv' /\ DatabaseInv' /\ DraftInv'
  BY <1>0, ShapeStep, OutcomeStep, DatabaseStep, DraftStep
<1>2. LockInv' /\ PlansInv' /\ DoneInv' /\ WriteInv'
  BY <1>0, LockStep, PlansStep, DoneStep, WriteStep
<1>3. KnownInv' /\ SpentInv' /\ RetryAppliesOnce'
  BY <1>0, KnownStep, SpentStep, RetryStep
<1> QED
  BY <1>1, <1>2, <1>3 DEF Inv

(* The inductive invariant of a result tab's saves: the state keeps its shape, what a  *)
(* save is told, what its statements wrote and which rows it locks agree, and rows on  *)
(* display, in conflicts and in change sets were on the server.                        *)
THEOREM InvHolds == Spec => []Inv
<1>1. Init => Inv
  BY InitInv
<1>2. Inv /\ [Next]_vars => Inv'
  BY InvStep
<1> QED
  BY <1>1, <1>2, PTL DEF Spec

(* What the user is told of a save is true: completed means committed, and failed or   *)
(* in conflict means that it is not and will not be (commit, COMMIT_OUTCOME_UNKNOWN).   *)
THEOREM OutcomesAreTrue == Spec => []OutcomeIsTrue
<1>1. Inv => OutcomeIsTrue
  BY DEF Inv, OutcomeInv, OutcomeIsTrue
<1> QED
  BY <1>1, InvHolds, PTL

(* The core keeps at most MaxPending change sets, drafts are on rows on display, and no *)
(* save writes to another database than the one its rows came from (preview, commit,    *)
(* switch_database).                                                                    *)
THEOREM SavesStayInTheirDatabase == Spec => []ChangeSetsAreGuarded
<1>1. ASSUME Inv PROVE TypeOK
  <2>0. Shape /\ DraftsFollowRows
    BY <1>1 DEF Inv, DraftInv
  <2> USE DEF Shape
  <2>1. \A d \in Databases : table[d] \subseteq Row
    BY <2>0 DEF ServerShape
  <2>2. ASSUME NEW s \in Saves, NEW i \in DOMAIN req[s].plans PROVE req[s].plans[i] \in Plan
    <3>1. req[s].plans \in Seq(Plan)
      BY <2>0 DEF SaveShape, SaveRequests
    <3> QED
      BY <2>2, <3>1
  <2>3. \A s \in Saves : step[s] \in Steps
    BY <2>0 DEF SaveShape
  <2>4. \A i \in DOMAIN grid : grid[i] \in Row
    BY <2>0 DEF GridShape
  <2>5. ASSUME NEW u \in updates PROVE u \in [at : DOMAIN grid, of : Keys, val : Vals]
    <3>1. u \in [at : Nat, of : Keys, val : Vals] /\ u.at \in DOMAIN grid
      BY <2>0 DEF DraftShape, UpdateDrafts, DraftsFollowRows
    <3> QED
      BY <3>1
  <2>6. ASSUME NEW d \in deletes PROVE d \in [at : DOMAIN grid, of : Keys]
    <3>1. d \in [at : Nat, of : Keys] /\ d.at \in DOMAIN grid
      BY <2>0 DEF DraftShape, DeleteDrafts, DraftsFollowRows
    <3> QED
      BY <3>1
  <2>7. /\ changeSets \subseteq Saves /\ Cardinality(changeSets) <= MaxPending
        /\ offset \in Nat /\ shown \in Saves \cup {None} /\ Cardinality(conflict) <= 1
    BY <2>0 DEF CoreShape, UserShape
  <2>8. locked \in BOOLEAN
    BY <2>0 DEF UserShape
  <2> QED
    BY <2>1, <2>2, <2>3, <2>4, <2>5, <2>6, <2>7, <2>8 DEF TypeOK
<1>2. Inv => RowsOfThisDatabase
  BY DEF Inv, DatabaseInv, RowsOfThisDatabase
<1>3. Inv => ChangeSetsAreGuarded
  BY <1>1, <1>2 DEF ChangeSetsAreGuarded
<1> QED
  BY <1>3, InvHolds, PTL

(* With row versions, two saves that both become permanent never replace the same       *)
(* version of a row: a retry after an unknown outcome is refused (where_clause).         *)
THEOREM RetriesApplyOnce == Spec => []RetryAppliesOnce
<1>1. Inv => RetryAppliesOnce
  BY DEF Inv
<1> QED
  BY <1>1, InvHolds, PTL

(* A draft stays on the row it was made on, whatever rows are removed above it            *)
(* (resolveRows, removeRows).                                                             *)
THEOREM DraftsStayOnRows == Spec => []DraftsFollowRows
<1>1. Inv => DraftsFollowRows
  BY DEF Inv, DraftInv
<1> QED
  BY <1>1, InvHolds, PTL

(* The grid shows rows that were committed at some time, never what a save wrote and       *)
(* rolled back (applyUpdatedRows, applyServerValues).                                      *)
THEOREM GridIsCommitted == Spec => []GridShowsCommitted
<1>1. ASSUME Inv, NEW i \in DOMAIN grid PROVE grid[i] \in history \/ grid[i].ver \in twice
  <2>1. i \in 1..Len(grid)
    BY <1>1 DEF Inv, Shape, GridShape
  <2> QED
    BY <1>1, <2>1 DEF Inv, KnownInv, Known
<1>2. Inv => GridShowsCommitted
  BY <1>1 DEF GridShowsCommitted
<1> QED
  BY <1>2, InvHolds, PTL

(* Only the server's commit makes a save permanent. *)
LEMMA CommitsOnce ==
    ASSUME Inv, [Next]_vars, NEW s \in Saves, Commits(s)
    PROVE  ServerCommits(s) /\ tx[s].state = "committing"
<1>1. ServerCommits(s)
  BY Permanent DEF Commits, Inv
<1> QED
  BY <1>1 DEF ServerCommits

(* No lost update: what a save replaces when it becomes permanent is what its user saw     *)
(* (the WHERE clause of plan_update and plan_delete, the rows-affected check of commit).   *)
THEOREM NoLostUpdate == Spec => SeenIsReplaced
<1> DEFINE Replaced == \A s \in Saves : Commits(s) /\ Apart(s) =>
              \A i \in DOMAIN req[s].plans : \A o \in req[s].plans[i].seen :
                 \E r \in table[tx[s].db] : r.key = o.key /\ SameVersion(r, o)
<1>1. ASSUME Inv, [Next]_vars PROVE Replaced
  <2> SUFFICES ASSUME NEW s \in Saves, Commits(s), Apart(s), NEW i \in DOMAIN req[s].plans,
                      NEW o \in req[s].plans[i].seen
               PROVE  \E r \in table[tx[s].db] : r.key = o.key /\ SameVersion(r, o)
    OBVIOUS
  <2>1. tx[s].state = "committing"
    BY <1>1, CommitsOnce
  <2>2. req[s].plans \in Seq(Plan)
    BY <1>1 DEF Inv, Shape, SaveShape, SaveRequests
  <2>3. i \in 1..Len(req[s].plans)
    BY <2>2
  <2> QED
    BY <1>1, <2>1, <2>3, CommitReplaces DEF Inv
<1>2. Inv /\ [Next]_vars => [Replaced]_vars
  BY <1>1
<1> HIDE DEF Replaced
<1>3. Spec => [][Replaced]_vars
  BY <1>2, InvHolds, PTL DEF Spec
<1> QED
  BY <1>3 DEF SeenIsReplaced, Replaced

(* A change set is saved whole or not at all ("Applies one change set atomically",          *)
(* commit): every change of it is in the table the commit leaves.                           *)
THEOREM SetsAreSavedWhole == Spec => SavesWholeSet
<1> DEFINE Whole == \A s \in Saves : Commits(s) =>
          /\ Len(done[s]) = Len(req[s].plans)
          /\ Apart(s) => \A i \in DOMAIN done[s] : LET p == req[s].plans[i] IN
                /\ p.op # "delete" =>
                      \E r \in table'[tx[s].db] : r.ver = s /\ r.val = p.val
                /\ p.op = "delete" => \A o \in p.seen : o \notin table'[tx[s].db]
<1>1. ASSUME Inv, [Next]_vars PROVE Whole
  <2> SUFFICES ASSUME NEW s \in Saves, Commits(s)
               PROVE  /\ Len(done[s]) = Len(req[s].plans)
                      /\ Apart(s) => \A i \in DOMAIN done[s] :
                           /\ req[s].plans[i].op # "delete" =>
                                 \E r \in table'[tx[s].db] : r.ver = s /\ r.val = req[s].plans[i].val
                           /\ req[s].plans[i].op = "delete" =>
                                 \A o \in req[s].plans[i].seen : o \notin table'[tx[s].db]
    OBVIOUS
  <2>0. Shape /\ LockInv /\ PlansInv /\ DoneInv /\ WriteInv
    BY <1>1 DEF Inv
  <2>1. ServerCommits(s) /\ tx[s].state = "committing" /\ Active(s)
    BY <1>1, CommitsOnce DEF Active
  <2>2. Len(done[s]) = Len(req[s].plans)
    BY <2>0, <2>1 DEF DoneInv
  <2>3. /\ table'[tx[s].db] = (table[tx[s].db] \ tx[s].del) \cup tx[s].add
        /\ tx[s].db \in Databases
    BY <2>0, <2>1, CommitFacts DEF Shape
  <2>4. ASSUME Apart(s), NEW i \in DOMAIN done[s], req[s].plans[i].op # "delete"
        PROVE  \E r \in table'[tx[s].db] : r.ver = s /\ r.val = req[s].plans[i].val
    <3>1. i \in 1..Len(done[s])
      BY <2>0 DEF Shape, SaveShape
    <3>2. /\ done[s][i].row # {} /\ \A r \in done[s][i].row : r.ver = s /\ r.val = req[s].plans[i].val
      BY <2>0, <2>4, <3>1 DEF DoneInv
    <3>3. done[s][i].row \subseteq tx[s].add
      BY <2>0, <2>1, <2>4, <3>1 DEF WriteInv
    <3> QED
      BY <2>3, <3>2, <3>3
  <2>5. ASSUME Apart(s), NEW i \in DOMAIN done[s], req[s].plans[i].op = "delete",
               NEW o \in req[s].plans[i].seen
        PROVE  o \notin table'[tx[s].db]
    <3>1. i \in 1..Len(req[s].plans)
      BY <2>0, <2>2 DEF Shape, SaveShape
    <3>2. PICK r \in tx[s].del : r \in table[tx[s].db] /\ r.key = o.key
      BY <2>0, <2>1, <2>5, <3>1, CommitReplaces
    <3>3. o \notin tx[s].add
      BY <2>0, <2>1, <3>1 DEF LockInv, PlansInv
    <3>4. o \in table[tx[s].db] => o = r
      BY <2>0, <2>3, <3>2 DEF LockInv, OneRowPerKey
    <3> QED
      BY <2>3, <3>2, <3>3, <3>4
  <2> QED
    BY <2>2, <2>4, <2>5
<1>2. Inv /\ [Next]_vars => [Whole]_vars
  BY <1>1
<1> HIDE DEF Whole
<1>3. Spec => [][Whole]_vars
  BY <1>2, InvHolds, PTL DEF Spec
<1> QED
  BY <1>3 DEF SavesWholeSet, Whole

=============================================================================
