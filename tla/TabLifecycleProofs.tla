------------------------- MODULE TabLifecycleProofs -------------------------
(***************************************************************************)
(* The query tabs of a workspace, for any number of tabs, results and      *)
(* sessions, when the user leaves alone what is being closed.              *)
(***************************************************************************)
EXTENDS TabLifecycle, FiniteSetTheorems, NaturalsInduction, WellFoundedInduction, TLAPS

Marks == {"none", "pending", "live"}
Shown == Results \cup {NoResult}
TabStates == [open : BOOLEAN, resultTabs : Seq(Results), activeResultTabId : Shown,
              runningExecutionId : Marks, sessionId : Nat, inTransaction : BOOLEAN]
Calls == [res : Shown, current : BOOLEAN, accepted : Nat, started : BOOLEAN, ended : BOOLEAN, answered : BOOLEAN]
Captures == [id : Tabs, resultTabs : Seq(Results), shown : Shown, session : Nat, exec : Marks, open : BOOLEAN]
OfTabs == {"run", "refresh", "closeResult", "close"}
Flows == [op : OfTabs \cup Leaving, todo : Seq(Captures), res : Shown \cup {"replace", "new-result"},
          step : {"asking", "closing", "releasing", "released", "saving"}]

TypeInv ==
    /\ tab \in [Tabs -> TabStates]
    /\ known \subseteq Results
    /\ call \in [Tabs -> Calls]
    /\ flows \subseteq Flows
    /\ session \in [Tabs -> Nat]
    /\ opened \in Nat

Has(t) == Range(tab[t].resultTabs)

(* A result belongs to one tab, and a tab shows one of its own.              *)
ResultInv ==
    /\ \A t, u \in Tabs : t # u => Has(t) \cap Has(u) = {}
    /\ \A t \in Tabs : tab[t].activeResultTabId \in Has(t) \cup {NoResult}

(* A tab is marked as running exactly while the outcome of its call is to    *)
(* come, and the rows of that call are those of a running result it shows.   *)
CallInv ==
    \A t \in Tabs :
      /\ (InCall(t) /\ call[t].current) => /\ tab[t].open
                                           /\ tab[t].runningExecutionId # "none"
                                           /\ call[t].res \in Has(t) \cap running
      /\ (InCall(t) /\ tab[t].open) => call[t].current
      /\ tab[t].runningExecutionId # "none" => tab[t].open /\ InCall(t)

(* What a handler captured is still so.                                      *)
Current(f) ==
    \A i \in 1..Len(f.todo) :
      /\ tab[f.todo[i].id].open
      /\ f.todo[i].resultTabs = tab[f.todo[i].id].resultTabs
      /\ \A j \in 1..Len(f.todo) : f.todo[i].id = f.todo[j].id => i = j

Good(f) ==
    /\ Current(f)
    /\ f.op \in OfTabs => f.todo # <<>>
    /\ f.op = "refresh" => f.res \in Has(f.todo[1].id)
    /\ f.op = "closeResult" => f.res \in Has(f.todo[1].id) \ running
    /\ f.op \in Leaving => OpenTabs \subseteq Touched(f)
    /\ f.op = "switch" => \A t \in OpenTabs : tab[t].runningExecutionId = "none" /\ ~tab[t].inTransaction

FlowInv == \A f \in flows : Good(f)

(* No two handlers wait over one tab.                                        *)
ApartInv == \A f, g \in flows : f # g => Touched(f) \cap Touched(g) = {}

TabInv == TypeInv /\ ResultInv /\ CallInv /\ FlowInv /\ ApartInv

----------------------------------------------------------------------------
(* Every set of numbers that is not empty has a least one.                   *)
LEMMA LeastNumber ==
    ASSUME NEW T \in SUBSET Nat, T # {}
    PROVE  \E n \in T : \A m \in T : n <= m
<1> DEFINE R == {ss \in Nat \X Nat : ss[1] < ss[2]}
<1>1. IsWellFoundedOn(R, Nat)
  BY NatLessThanWellFounded, SMT DEF OpToRel
<1>2. PICK n \in T : \A m \in T : ~(<<m, n>> \in R)
  <2> HIDE DEF R
  <2>1. T \subseteq Nat
    OBVIOUS
  <2> QED BY <1>1, <2>1, WFMin, Zenon
<1>3. \A m \in T : ~(m < n)
  BY <1>2
<1> QED BY <1>3

(* The first position of a member of a sequence, and what is left without it.*)
LEMMA RemoveAtFacts ==
    ASSUME NEW S, NEW s \in Seq(S), NEW at \in 1..Len(s)
    PROVE  /\ RemoveAt(s, at) \in Seq(S)
           /\ Len(RemoveAt(s, at)) = Len(s) - 1
           /\ \A i \in 1..Len(s) - 1 : RemoveAt(s, at)[i] = IF i < at THEN s[i] ELSE s[i + 1]
<1> DEFINE a == SubSeq(s, 1, at - 1)
           b == SubSeq(s, at + 1, Len(s))
<1>1. /\ a \in Seq(S) /\ Len(a) = at - 1 /\ \A i \in 1..at - 1 : a[i] = s[i]
      /\ b \in Seq(S) /\ Len(b) = Len(s) - at /\ \A i \in 1..Len(s) - at : b[i] = s[i + at]
  BY SMTT(60)
<1>2. RemoveAt(s, at) = a \o b
  BY DEF RemoveAt
<1> HIDE DEF a, b
<1>3. a \o b \in Seq(S) /\ Len(a \o b) = Len(s) - 1
  <2>1. a \in Seq(S) /\ b \in Seq(S)
    BY <1>1
  <2>2. a \o b \in Seq(S) /\ Len(a \o b) = Len(a) + Len(b)
    BY <2>1
  <2> QED BY <1>1, <2>2
<1>4. \A i \in 1..Len(s) - 1 : (a \o b)[i] = IF i < at THEN s[i] ELSE s[i + 1]
  BY SMTT(60), <1>1, <1>3
<1> QED BY <1>2, <1>3, <1>4

FirstAt(s, e) ==
    LET I == {i \in 1..Len(s) : s[i] = e} IN IF I # {} THEN Min(I) ELSE 0

(* A sequence without the first occurrence of one of its members.            *)
LEMMA RemoveFirstFacts ==
    ASSUME NEW S, NEW s \in Seq(S), NEW e \in S, e \in Range(s)
    PROVE  /\ FirstAt(s, e) \in 1..Len(s)
           /\ RemoveFirst(s, e) \in Seq(S)
           /\ Len(RemoveFirst(s, e)) = Len(s) - 1
           /\ Range(RemoveFirst(s, e)) \subseteq Range(s)
           /\ Range(s) \ {e} \subseteq Range(RemoveFirst(s, e))
<1> DEFINE I == {i \in 1..Len(s) : s[i] = e}
           at == Min(I)
<1>1. I # {} /\ I \in SUBSET Nat /\ \E i \in 1..Len(s) : s[i] = e
  BY DEF Range
<1>2. \E n \in I : \A m \in I : n <= m
  <2> HIDE DEF I
  <2> QED BY <1>1, LeastNumber
<1>3. at \in I
  <2> HIDE DEF I
  <2> QED BY <1>2 DEF Min
<1>4. at \in 1..Len(s) /\ s[at] = e
  BY <1>3
<1>5. SelectInSeq(s, LAMBDA x : x = e) = at
  BY <1>1 DEF SelectInSeq
<1>5a. FirstAt(s, e) = at
  BY <1>1 DEF FirstAt
<1>6. RemoveFirst(s, e) = RemoveAt(s, at)
  BY <1>1, <1>5 DEF RemoveFirst
<1> DEFINE t == RemoveAt(s, at)
<1> HIDE DEF at, I
<1>7. t \in Seq(S) /\ Len(t) = Len(s) - 1 /\ \A i \in 1..Len(s) - 1 : t[i] = IF i < at THEN s[i] ELSE s[i + 1]
  BY <1>4, RemoveAtFacts
<1> HIDE DEF t
<1>8. ASSUME NEW x \in Range(t) PROVE x \in Range(s)
  <2>1. PICK j \in 1..Len(s) - 1 : t[j] = x
    BY <1>7 DEF Range
  <2>2. j \in 1..Len(s) /\ j + 1 \in 1..Len(s) /\ (x = s[j] \/ x = s[j + 1])
    BY SMTT(60), <1>7, <2>1
  <2> QED BY <2>2 DEF Range
<1>9. ASSUME NEW x \in Range(s), x # e PROVE x \in Range(t)
  <2>1. PICK j \in 1..Len(s) : s[j] = x
    BY DEF Range
  <2>2. CASE j < at
    BY SMTT(60), <1>4, <1>7, <2>1, <2>2 DEF Range
  <2>3. CASE j > at
    <3>1. j - 1 \in 1..Len(s) - 1 /\ t[j - 1] = x
      BY <1>4, <1>7, <2>1, <2>3
    <3> QED BY <1>7, <3>1 DEF Range
  <2> QED BY <1>4, <1>9, <2>1, <2>2, <2>3
<1> QED BY <1>4, <1>5a, <1>6, <1>7, <1>8, <1>9 DEF t

(* A finite set as a sequence.                                               *)
LEMMA SetToSeqFacts ==
    ASSUME NEW S, IsFiniteSet(S)
    PROVE  /\ SetToSeq(S) \in Seq(S)
           /\ \A i, j \in 1..Len(SetToSeq(S)) : i # j => SetToSeq(S)[i] # SetToSeq(S)[j]
           /\ Range(SetToSeq(S)) = S
<1>1. Cardinality(S) \in Nat /\ ExistsBijection(1..Cardinality(S), S)
  BY FS_CardinalityType
<1>2. \E f \in [1..Cardinality(S) -> S] : IsInjective(f)
  BY <1>1 DEF ExistsBijection, Bijection, Injection, IsInjective
<1>3. SetToSeq(S) \in [1..Cardinality(S) -> S] /\ IsInjective(SetToSeq(S))
  BY <1>2 DEF SetToSeq
<1>4. SetToSeq(S) \in Seq(S) /\ Len(SetToSeq(S)) = Cardinality(S)
  BY <1>1, <1>3
<1>5. \A i, j \in 1..Len(SetToSeq(S)) : i # j => SetToSeq(S)[i] # SetToSeq(S)[j]
  BY <1>3, <1>4 DEF IsInjective
<1> DEFINE q == SetToSeq(S)
           n == Cardinality(S)
           T == Range(q)
<1>6. q \in [1..n -> S] /\ \A i, j \in 1..n : q[i] = q[j] => i = j
  BY <1>3 DEF IsInjective
<1> HIDE DEF q, n
<1>7. T \in SUBSET S /\ q \in Bijection(1..n, T)
  <2>1. T \in SUBSET S /\ q \in [1..n -> T]
    BY <1>6 DEF Range
  <2>2. \A x \in T : \E i \in 1..n : q[i] = x
    BY <1>6 DEF Range
  <2> HIDE DEF T
  <2>3. q \in Injection(1..n, T) /\ q \in Surjection(1..n, T)
    BY <1>6, <2>1, <2>2 DEF Injection, Surjection, IsInjective
  <2> QED BY <2>1, <2>3 DEF Bijection
<1>8. Cardinality(T) = Cardinality(1..n) /\ Cardinality(1..n) = n
  <2>1. IsFiniteSet(1..n) /\ Cardinality(1..n) = n
    BY <1>1, FS_Interval DEF n
  <2>2. ExistsBijection(1..n, T)
    BY <1>7 DEF ExistsBijection
  <2> QED BY <2>1, <2>2, FS_Bijection
<1>9. T = S
  BY <1>7, <1>8, FS_Subset DEF n
<1> QED BY <1>4, <1>5, <1>9 DEF q

----------------------------------------------------------------------------
(* A handler has its type and its tabs are tabs.                             *)
LEMMA FlowType ==
    ASSUME NEW f \in Flows
    PROVE  /\ f.todo \in Seq(Captures)
           /\ Len(f.todo) \in Nat
           /\ \A i \in 1..Len(f.todo) : f.todo[i] \in Captures /\ f.todo[i].id \in Tabs
           /\ \A i \in 1..Len(f.todo) : f.todo[i].id \in Touched(f)
           /\ Touched(f) = {f.todo[i].id : i \in 1..Len(f.todo)}
           /\ Touched(f) \subseteq Tabs
           /\ f.todo # <<>> => 1 \in 1..Len(f.todo)
<1>2. f.todo \in Seq(Captures)
  BY DEF Flows
<1>3. /\ Len(f.todo) \in Nat /\ DOMAIN f.todo = 1..Len(f.todo)
      /\ \A i \in 1..Len(f.todo) : f.todo[i] \in Captures
      /\ f.todo # <<>> => 1 \in 1..Len(f.todo)
  BY <1>2
<1>4. \A i \in 1..Len(f.todo) : f.todo[i].id \in Tabs
  BY <1>3 DEF Captures
<1>5. Touched(f) = {f.todo[i].id : i \in 1..Len(f.todo)}
  BY <1>3 DEF Touched
<1> QED BY <1>2, <1>3, <1>4, <1>5

(* The same of a handler that waits.                                         *)
LEMMA FlowFacts ==
    ASSUME TypeInv, NEW f \in flows
    PROVE  /\ f \in Flows
           /\ f.todo \in Seq(Captures)
           /\ Len(f.todo) \in Nat
           /\ \A i \in 1..Len(f.todo) : f.todo[i] \in Captures /\ f.todo[i].id \in Tabs
           /\ \A i \in 1..Len(f.todo) : f.todo[i].id \in Touched(f)
           /\ Touched(f) = {f.todo[i].id : i \in 1..Len(f.todo)}
           /\ Touched(f) \subseteq Tabs
           /\ f.todo # <<>> => 1 \in 1..Len(f.todo)
<1>1. f \in Flows
  BY DEF TypeInv
<1> QED BY <1>1, FlowType

(* Nothing of the screen and of the calls changes.                           *)
Still == UNCHANGED <<tab, running, known, call>>

(* Then every part of the invariant about tabs and calls is as it was.       *)
LEMMA StillFacts ==
    ASSUME Still, ResultInv, CallInv
    PROVE  /\ ResultInv' /\ CallInv'
           /\ \A f : Good(f)' <=> Good(f)
<1>1. tab' = tab /\ running' = running /\ call' = call
  BY DEF Still
<1>2. ResultInv'
  BY <1>1 DEF ResultInv, Has
<1>3. CallInv'
  BY <1>1 DEF CallInv, Has, InCall
<1>4. \A f : Good(f)' <=> Good(f)
  BY <1>1 DEF Good, Current, Has, OpenTabs, Touched
<1> QED BY <1>2, <1>3, <1>4

(* A handler goes on to its next step, ...                                   *)
LEMMA GoKeeps ==
    ASSUME TabInv, Still, NEW f \in flows,
           NEW step \in {"asking", "closing", "releasing", "released", "saving"}, Go(f, step),
           session' \in [Tabs -> Nat], opened' \in Nat
    PROVE  TabInv'
<1> DEFINE g == [f EXCEPT !.step = step]
<1>0. TypeInv /\ f \in Flows
  BY FlowFacts DEF TabInv
<1>1. flows' = (flows \ {f}) \cup {g}
  BY DEF Go
<1>2. g \in Flows /\ g.op = f.op /\ g.todo = f.todo /\ g.res = f.res
  BY <1>0 DEF Flows
<1> HIDE DEF g
<1>3. ResultInv' /\ CallInv' /\ \A h : Good(h)' <=> Good(h)
  BY StillFacts DEF TabInv
<1>4. Good(g)
  <2>1. Good(f)
    BY DEF TabInv, FlowInv
  <2> QED BY SMTT(60), <1>2, <2>1 DEF Good, Current, Touched
<1>5. FlowInv'
  BY <1>1, <1>3, <1>4 DEF TabInv, FlowInv
<1>6. ApartInv'
  <2>1. Touched(g) = Touched(f)
    BY <1>2 DEF Touched
  <2> SUFFICES ASSUME NEW x \in flows', NEW y \in flows', x # y
               PROVE  Touched(x) \cap Touched(y) = {}
    BY DEF ApartInv, Touched
  <2>2. \A h, k \in flows : h # k => Touched(h) \cap Touched(k) = {}
    BY DEF TabInv, ApartInv
  <2>3. CASE x = g
    BY <1>1, <2>1, <2>2, <2>3
  <2>4. CASE x # g
    BY <1>1, <2>1, <2>2, <2>4
  <2> QED BY <2>3, <2>4
<1>7. TypeInv'
  BY <1>0, <1>1, <1>2 DEF TypeInv, Still
<1> QED BY <1>3, <1>5, <1>6, <1>7 DEF TabInv

(* ... ends ...                                                              *)
LEMMA EndKeeps ==
    ASSUME TabInv, Still, flows' \subseteq flows, session' \in [Tabs -> Nat], opened' \in Nat
    PROVE  TabInv'
<1>1. ResultInv' /\ CallInv' /\ \A h : Good(h)' <=> Good(h)
  BY StillFacts DEF TabInv
<1>2. FlowInv'
  BY <1>1 DEF TabInv, FlowInv
<1>3. ApartInv'
  BY DEF TabInv, ApartInv, Touched
<1>4. TypeInv'
  BY DEF TabInv, TypeInv, Still
<1> QED BY <1>1, <1>2, <1>3, <1>4 DEF TabInv

(* ... or begins, over tabs that no other handler waits for.                 *)
LEMMA BeginKeeps ==
    ASSUME TabInv, Still, NEW f \in Flows, Begin(f), Good(f),
           \A g \in flows : Touched(f) \cap Touched(g) = {},
           session' \in [Tabs -> Nat], opened' \in Nat
    PROVE  TabInv'
<1>0. flows' = flows \cup {f}
  BY DEF Begin
<1>1. ResultInv' /\ CallInv' /\ \A h : Good(h)' <=> Good(h)
  BY StillFacts DEF TabInv
<1>2. FlowInv'
  BY <1>0, <1>1 DEF TabInv, FlowInv
<1>3. ApartInv'
  <2> SUFFICES ASSUME NEW x \in flows', NEW y \in flows', x # y
               PROVE  Touched(x) \cap Touched(y) = {}
    BY DEF ApartInv, Touched
  <2>1. \A h, k \in flows : h # k => Touched(h) \cap Touched(k) = {}
    BY DEF TabInv, ApartInv
  <2> QED BY <1>0, <2>1
<1>4. TypeInv'
  BY <1>0 DEF TabInv, TypeInv, Still
<1> QED BY <1>1, <1>2, <1>3, <1>4 DEF TabInv

(* The tabs a handler captures when it begins.                               *)
LEMMA CaptureFacts ==
    ASSUME TypeInv, NEW t \in Tabs
    PROVE  /\ Capture(t) \in Captures /\ Capture(t).id = t
           /\ Capture(t).resultTabs = tab[t].resultTabs
           /\ Capture(t).shown = tab[t].activeResultTabId
           /\ <<Capture(t)>> \in Seq(Captures)
           /\ Len(<<Capture(t)>>) = 1 /\ <<Capture(t)>>[1] = Capture(t) /\ <<Capture(t)>> # <<>>
<1>1. tab[t] \in TabStates
  BY DEF TypeInv
<1>2. Capture(t) \in Captures /\ Capture(t).id = t /\ Capture(t).resultTabs = tab[t].resultTabs
      /\ Capture(t).shown = tab[t].activeResultTabId
  BY <1>1 DEF Capture, Captures, TabStates
<1> HIDE DEF Capture
<1> QED BY <1>2

Captured(S) == LET order == SetToSeq(S) IN [i \in DOMAIN order |-> Capture(order[i])]

(* The captured tabs are those of S, each once and as it is now.             *)
LEMMA CapturedFacts ==
    ASSUME TypeInv, NEW S \in SUBSET Tabs
    PROVE  /\ Captured(S) \in Seq(Captures)
           /\ \A i \in 1..Len(Captured(S)) :
                /\ Captured(S)[i].id \in S
                /\ Captured(S)[i].resultTabs = tab[Captured(S)[i].id].resultTabs
                /\ \A j \in 1..Len(Captured(S)) : Captured(S)[i].id = Captured(S)[j].id => i = j
           /\ \A t \in S : \E i \in 1..Len(Captured(S)) : Captured(S)[i].id = t
           /\ Captured(S) = <<>> => S = {}
<1> DEFINE q == SetToSeq(S)
           c == Captured(S)
<1>1. IsFiniteSet(S)
  BY SessionsAssumption, FS_Subset
<1>2. q \in Seq(S) /\ Range(q) = S /\ \A i, j \in 1..Len(q) : i # j => q[i] # q[j]
  BY <1>1, SetToSeqFacts
<1>3. Len(q) \in Nat /\ DOMAIN q = 1..Len(q) /\ \A i \in 1..Len(q) : q[i] \in S
  BY <1>2
<1>4. c = [i \in 1..Len(q) |-> Capture(q[i])]
  BY <1>3 DEF Captured
<1> HIDE DEF q, c
<1>5. \A i \in 1..Len(q) : c[i] \in Captures /\ c[i].id = q[i] /\ c[i].resultTabs = tab[q[i]].resultTabs
  BY <1>3, <1>4, CaptureFacts
<1>6. c \in Seq(Captures) /\ Len(c) = Len(q)
  BY <1>3, <1>4, <1>5
<1>7. \A t \in S : \E i \in 1..Len(q) : q[i] = t
  BY <1>2, <1>3 DEF Range
<1>8. c = <<>> => S = {}
  BY <1>6, <1>7
<1> QED BY SMTT(60), <1>2, <1>3, <1>5, <1>6, <1>7, <1>8 DEF c

(* A handler over the tabs S, as they are when it begins.                    *)
LEMMA NewFlow ==
    ASSUME TypeInv, NEW S \in SUBSET Tabs, \A t \in S : tab[t].open,
           NEW op \in {"close"} \cup Leaving, NEW step \in {"asking", "closing", "saving"}
    PROVE  LET f == Flow(op, Captured(S), NoResult, step)
           IN  /\ f \in Flows /\ f.op = op /\ f.todo = Captured(S)
               /\ Current(f)
               /\ Touched(f) = S
<1> DEFINE c == Captured(S)
           f == Flow(op, c, NoResult, step)
<1>1. /\ c \in Seq(Captures)
      /\ \A i \in 1..Len(c) : /\ c[i].id \in S
                              /\ c[i].resultTabs = tab[c[i].id].resultTabs
                              /\ \A j \in 1..Len(c) : c[i].id = c[j].id => i = j
      /\ \A t \in S : \E i \in 1..Len(c) : c[i].id = t
  BY CapturedFacts
<1> HIDE DEF c
<1>2. f \in Flows /\ f.op = op /\ f.todo = c
  BY <1>1 DEF Flow, Flows, OfTabs, Shown
<1>3. DOMAIN c = 1..Len(c)
  BY <1>1
<1> HIDE DEF f
<1>4. Current(f)
  BY <1>1, <1>2 DEF Current
<1>5. Touched(f) = S
  BY <1>1, <1>2, <1>3 DEF Touched
<1> QED BY <1>2, <1>4, <1>5 DEF f, c

(* A handler over one tab.                                                   *)
LEMMA OneFlow ==
    ASSUME TypeInv, NEW t \in Tabs, tab[t].open, NEW op \in {"run", "refresh", "closeResult"},
           NEW res \in Shown \cup {"replace", "new-result"}, NEW step \in {"asking", "releasing"}
    PROVE  LET f == Flow(op, <<Capture(t)>>, res, step)
           IN  /\ f \in Flows /\ f.op = op /\ f.res = res /\ f.todo # <<>> /\ f.todo[1].id = t
               /\ Touched(f) = {t} /\ Current(f)
<1> DEFINE c == <<Capture(t)>>
           f == Flow(op, c, res, step)
<1>1. c \in Seq(Captures) /\ Len(c) = 1 /\ c # <<>> /\ c[1].id = t /\ c[1].resultTabs = tab[t].resultTabs
  BY CaptureFacts
<1> HIDE DEF c
<1>2. f \in Flows /\ f.op = op /\ f.todo = c /\ f.res = res
  BY <1>1 DEF Flow, Flows, OfTabs
<1> HIDE DEF f
<1>3. DOMAIN c = 1..1 /\ \A i \in 1..Len(c) : i = 1
  BY <1>1
<1>4. Touched(f) = {t}
  BY <1>1, <1>2, <1>3 DEF Touched
<1>5. Current(f)
  BY <1>1, <1>2, <1>3 DEF Current
<1> QED BY <1>1, <1>2, <1>4, <1>5 DEF f, c

(* What the user may touch, no handler waits for.                            *)
LEMMA MayUseFacts ==
    ASSUME Patient, NEW t \in Tabs, MayUse(t)
    PROVE  tab[t].open /\ \A f \in flows : t \notin Touched(f)
  BY DEF MayUse

(* closeQueryTabs and closeResultTab begin.                                  *)
LEMMA CloseTabsKeeps ==
    ASSUME Patient, TabInv, NEW S \in SUBSET Tabs, S # {}, CloseTabs(S)
    PROVE  TabInv'
<1>0. TypeInv /\ session' \in [Tabs -> Nat] /\ opened' \in Nat /\ Still
  BY DEF TabInv, TypeInv, CloseTabs, backend, webview, Still
<1>1. \A t \in S : tab[t].open /\ \A f \in flows : t \notin Touched(f)
  BY MayUseFacts DEF CloseTabs
<1>2. PICK step \in {"asking", "closing"} : Begin(Flow("close", Captured(S), NoResult, step))
  BY DEF CloseTabs, Captured
<1> DEFINE f == Flow("close", Captured(S), NoResult, step)
<1>3. f \in Flows /\ f.op = "close" /\ f.todo = Captured(S) /\ Current(f) /\ Touched(f) = S
  BY <1>0, <1>1, NewFlow
<1>4. f.todo # <<>>
  BY <1>0, <1>3, CapturedFacts
<1>5. Begin(f)
  BY <1>2
<1> HIDE DEF f
<1>6. Good(f)
  BY <1>3, <1>4 DEF Good, Leaving, OfTabs
<1> QED BY <1>0, <1>1, <1>3, <1>5, <1>6, BeginKeeps

(* A result that is not running begins to close: closeResultTab.             *)
LEMMA CloseResultKeeps ==
    ASSUME Patient, TabInv, NEW t \in Tabs, CloseResult(t)
    PROVE  TabInv'
<1>0. TypeInv /\ session' \in [Tabs -> Nat] /\ opened' \in Nat /\ Still
  BY DEF TabInv, TypeInv, CloseResult, backend, webview, Still
<1>1. tab[t].open /\ \A f \in flows : t \notin Touched(f)
  BY MayUseFacts DEF CloseResult
<1>2. PICK r \in Has(t) \ running : \E step \in {"asking", "releasing"} :
        Begin(Flow("closeResult", <<Capture(t)>>, r, step))
  BY DEF CloseResult, Has
<1>3. PICK step \in {"asking", "releasing"} : Begin(Flow("closeResult", <<Capture(t)>>, r, step))
  BY <1>2
<1> DEFINE f == Flow("closeResult", <<Capture(t)>>, r, step)
<1>4. r \in Results
  BY <1>0, <1>2 DEF Has, Range, TypeInv, TabStates
<1>5. Begin(f)
  BY <1>3
<1>6. /\ f \in Flows /\ f.op = "closeResult" /\ f.res = r /\ f.todo # <<>> /\ f.todo[1].id = t
      /\ Touched(f) = {t} /\ Current(f)
  BY SMTT(60), <1>0, <1>1, <1>4, OneFlow DEF Shown
<1> HIDE DEF f
<1>7. Good(f)
  BY <1>2, <1>6 DEF Good, Leaving
<1> QED BY <1>0, <1>1, <1>5, <1>6, <1>7, BeginKeeps

(* A change of database, a reconnect, a disconnect or quitting begins.       *)
LEMMA LeavingKeeps ==
    ASSUME Patient, TabInv, ChangeDatabase \/ Reconnect \/ Disconnect("disconnect") \/ Quit
    PROVE  TabInv'
<1>0. TypeInv /\ session' \in [Tabs -> Nat] /\ opened' \in Nat /\ Still /\ flows = {}
  <2>0. TypeInv /\ session \in [Tabs -> Nat] /\ opened \in Nat
    BY DEF TabInv, TypeInv
  <2>1. CASE ChangeDatabase
    BY <2>0, <2>1 DEF ChangeDatabase, backend, webview, Still
  <2>2. CASE Reconnect
    BY <2>0, <2>2 DEF Reconnect, backend, webview, Still
  <2>3. CASE Disconnect("disconnect") \/ Quit
    BY <2>0, <2>3 DEF Disconnect, Quit, backend, webview, Still
  <2> QED BY <2>1, <2>2, <2>3
<1>1. AllTabs = Captured(OpenTabs) /\ OpenTabs \in SUBSET Tabs /\ \A t \in OpenTabs : tab[t].open
  BY DEF AllTabs, Captured, OpenTabs
<1>2. ASSUME NEW op \in Leaving, NEW step \in {"asking", "saving"}, Begin(Flow(op, AllTabs, NoResult, step)),
             op = "switch" => \A t \in OpenTabs : tab[t].runningExecutionId = "none" /\ ~tab[t].inTransaction
      PROVE  TabInv'
  <2> DEFINE f == Flow(op, AllTabs, NoResult, step)
  <2>1. f \in Flows /\ f.op = op /\ Current(f) /\ Touched(f) = OpenTabs
    <3>1. op \in {"close"} \cup Leaving /\ step \in {"asking", "closing", "saving"}
      OBVIOUS
    <3>2. f = Flow(op, Captured(OpenTabs), NoResult, step)
      BY <1>1
    <3> HIDE DEF f
    <3> QED BY <1>0, <1>1, <3>1, <3>2, NewFlow
  <2>2. Begin(f)
    BY <1>2
  <2> HIDE DEF f
  <2>3. Good(f)
    BY <1>2, <2>1 DEF Good, Leaving, OfTabs
  <2> QED BY <1>0, <2>1, <2>2, <2>3, BeginKeeps
<1>3. CASE ChangeDatabase
  <2>1. PICK step \in {"asking", "saving"} : Begin(Flow("switch", AllTabs, NoResult, step))
    <3> HIDE DEF AllTabs
    <3>1. CASE AllResults(AllTabs) \cap edits # {}
      <4>1. Begin(Flow("switch", AllTabs, NoResult, "asking"))
        BY <1>3, <3>1 DEF ChangeDatabase
      <4> QED BY <4>1
    <3>2. CASE AllResults(AllTabs) \cap edits = {}
      <4>1. Begin(Flow("switch", AllTabs, NoResult, "saving"))
        BY <1>3, <3>2 DEF ChangeDatabase
      <4> QED BY <4>1
    <3> QED BY <3>1, <3>2
  <2>2. ASSUME NEW t \in OpenTabs PROVE tab[t].runningExecutionId = "none" /\ ~tab[t].inTransaction
    <3> DEFINE c == AllTabs
    <3>1. c \in Seq(Captures) /\ \E i \in 1..Len(c) : c[i].id = t
      BY <1>0, <1>1, CapturedFacts
    <3>2. \A i \in DOMAIN c : tab[c[i].id].runningExecutionId = "none" /\ ~tab[c[i].id].inTransaction
      BY <1>3 DEF ChangeDatabase, SwitchAllowed
    <3> HIDE DEF c
    <3> QED BY <3>1, <3>2
  <2> QED BY <1>2, <2>1, <2>2 DEF Leaving
<1>4. CASE Reconnect
  BY <1>2, <1>4 DEF Reconnect, Leaving
<1>5. ASSUME NEW op \in {"disconnect", "quit"}, Disconnect(op) PROVE TabInv'
  <2>1. PICK step \in {"asking", "saving"} : Begin(Flow(op, AllTabs, NoResult, step))
    BY <1>5 DEF Disconnect
  <2> QED BY <1>2, <2>1 DEF Leaving
<1> QED BY <1>3, <1>4, <1>5 DEF Quit

(* The steps of a handler that only ask, wait or talk to the backend.        *)
LEMMA WaitKeeps ==
    ASSUME TabInv, NEW f \in flows,
           \/ CloseSession(f) \/ ReleaseOfTab(f) \/ ReleaseOfResult(f)
           \/ LeaveFails(f) \/ Consent(f) \/ Decline(f)
    PROVE  TabInv'
<1>0. TypeInv /\ session \in [Tabs -> Nat] /\ opened \in Nat
  BY DEF TabInv, TypeInv
<1>1. Still /\ opened' = opened
  BY DEF CloseSession, ReleaseOfTab, ReleaseOfResult, LeaveFails, Consent, Decline, webview, backend, Still
<1>2. session' \in [Tabs -> Nat]
  BY <1>0 DEF CloseSession, ReleaseOfTab, ReleaseOfResult, LeaveFails, Consent, Decline, backend
<1>3. \/ End(f)
      \/ \E step \in {"closing", "releasing", "released", "saving"} : Go(f, step)
  BY DEF CloseSession, ReleaseOfTab, ReleaseOfResult, Released, LeaveFails, Consent, Decline
<1>4. CASE End(f)
  BY <1>0, <1>1, <1>2, <1>4, EndKeeps DEF End
<1>5. ASSUME NEW step \in {"closing", "releasing", "released", "saving"}, Go(f, step) PROVE TabInv'
  BY <1>0, <1>1, <1>2, <1>5, GoKeeps
<1> QED BY <1>3, <1>4, <1>5

----------------------------------------------------------------------------
(* A handler stays good when its own tabs keep what it captured.             *)
LEMMA GoodFrame ==
    ASSUME TypeInv, NEW f \in Flows, Good(f),
           \A t \in Tabs : tab'[t].open => tab[t].open,
           \A t \in Touched(f) :
             /\ tab'[t].open = tab[t].open
             /\ tab'[t].resultTabs = tab[t].resultTabs
             /\ Has(t) \cap running' \subseteq running
             /\ (tab[t].runningExecutionId = "none" /\ ~tab[t].inTransaction) =>
                  (tab'[t].runningExecutionId = "none" /\ ~tab'[t].inTransaction)
    PROVE  Good(f)'
<1>1. /\ \A i \in 1..Len(f.todo) : f.todo[i].id \in Tabs /\ f.todo[i].id \in Touched(f)
      /\ f.todo # <<>> => 1 \in 1..Len(f.todo)
  BY FlowType
<1>2. Current(f)'
  BY <1>1 DEF Good, Current
<1>3. f.op \in OfTabs => f.todo # <<>>
  BY DEF Good
<1>4. f.op = "refresh" => f.res \in Has(f.todo[1].id)'
  BY <1>1, <1>3 DEF Good, Has, OfTabs
<1>5. f.op = "closeResult" => f.res \in Has(f.todo[1].id)' \ running'
  <2> SUFFICES ASSUME f.op = "closeResult" PROVE f.res \in Has(f.todo[1].id)' \ running'
    OBVIOUS
  <2>1. f.todo[1].id \in Touched(f)
    BY <1>1, <1>3 DEF OfTabs
  <2>2. f.res \in Has(f.todo[1].id) /\ f.res \notin running
    BY DEF Good
  <2>3. Has(f.todo[1].id)' = Has(f.todo[1].id)
    BY <2>1 DEF Has
  <2> QED BY <2>1, <2>2, <2>3
<1>6. OpenTabs' \subseteq OpenTabs
  BY DEF OpenTabs
<1>7. f.op \in Leaving => OpenTabs' \subseteq Touched(f)
  BY <1>6 DEF Good
<1>8. f.op = "switch" => \A t \in OpenTabs' : tab'[t].runningExecutionId = "none" /\ ~tab'[t].inTransaction
  BY <1>6, <1>7 DEF Good, Leaving
<1>9. Touched(f)' = Touched(f)
  BY DEF Touched
<1> QED BY <1>2, <1>3, <1>4, <1>5, <1>7, <1>8, <1>9 DEF Good

(* Handlers that stay were apart before.                                     *)
LEMMA ApartFrame ==
    ASSUME ApartInv, flows' \subseteq flows
    PROVE  ApartInv'
  BY DEF ApartInv, Touched

----------------------------------------------------------------------------
(* The shown result is chosen: RESULT_ACTIVATED and RESULT_CYCLED.           *)
LEMMA ShowFacts ==
    ASSUME TabInv, NEW t \in Tabs, ResultActivated(t) \/ ResultCycled(t)
    PROVE  \E r \in Has(t) : tab' = [tab EXCEPT ![t].activeResultTabId = r]
<1>1. CASE ResultActivated(t)
  BY <1>1 DEF ResultActivated, Has
<1>2. CASE ResultCycled(t)
  <2> DEFINE s == tab[t].resultTabs
             e == tab[t].activeResultTabId
             at == SelectInSeq(s, LAMBDA x : x = e)
  <2>1. /\ Len(s) > 1 /\ at # 0
        /\ \E step \in {1, Len(s) - 1} :
             tab' = [tab EXCEPT ![t].activeResultTabId = s[((at - 1 + step) % Len(s)) + 1]]
    BY <1>2 DEF ResultCycled
  <2>2. s \in Seq(Results) /\ (e \in Range(s) \/ (e = NoResult /\ e \notin Results))
    BY SessionsAssumption DEF TabInv, TypeInv, TabStates, ResultInv, Has, NoResult
  <2>3. e \in Range(s) /\ e \in Results
    <3>1. CASE e \notin Results
      <4>1. \A i \in 1..Len(s) : s[i] # e
        BY <2>2, <3>1
      <4>2. {i \in 1..Len(s) : s[i] = e} = {}
        BY <4>1
      <4>3. at = 0
        BY <4>2 DEF SelectInSeq
      <4> QED BY <2>1, <4>3
    <3> QED BY <2>2, <3>1 DEF Range
  <2>4. at \in 1..Len(s)
    <3> HIDE DEF s, e
    <3>1. FirstAt(s, e) \in 1..Len(s)
      BY <2>2, <2>3, RemoveFirstFacts
    <3>2. at = FirstAt(s, e)
      BY SMTT(60) DEF SelectInSeq, FirstAt
    <3> QED BY <3>1, <3>2
  <2>5. PICK step \in {1, Len(s) - 1} :
          tab' = [tab EXCEPT ![t].activeResultTabId = s[((at - 1 + step) % Len(s)) + 1]]
    BY <2>1
  <2> HIDE DEF at
  <2>6. ((at - 1 + step) % Len(s)) + 1 \in 1..Len(s)
    BY SMTT(60), <2>1, <2>2, <2>4
  <2>7. s[((at - 1 + step) % Len(s)) + 1] \in Has(t)
    BY <2>2, <2>6 DEF Has, Range
  <2> QED BY <2>5, <2>7
<1> QED BY <1>1, <1>2

(* So choosing the shown result keeps the invariant.                         *)
LEMMA ShowKeeps ==
    ASSUME TabInv, NEW t \in Tabs, ResultActivated(t) \/ ResultCycled(t)
    PROVE  TabInv'
<1>1. UNCHANGED <<running, known, call, flows, session, opened>>
  BY DEF ResultActivated, ResultCycled, backend
<1>2. PICK r \in Has(t) : tab' = [tab EXCEPT ![t].activeResultTabId = r]
  BY ShowFacts
<1>3. TypeInv /\ r \in Results /\ tab \in [Tabs -> TabStates]
  BY DEF TabInv, TypeInv, TabStates, Has, Range
<1>4. /\ tab' \in [Tabs -> TabStates]
      /\ \A u \in Tabs : /\ tab'[u].open = tab[u].open
                         /\ tab'[u].resultTabs = tab[u].resultTabs
                         /\ tab'[u].runningExecutionId = tab[u].runningExecutionId
                         /\ tab'[u].inTransaction = tab[u].inTransaction
                         /\ tab'[u].activeResultTabId = IF u = t THEN r ELSE tab[u].activeResultTabId
  BY ZenonT(120), <1>2, <1>3 DEF TabStates, Shown
<1>5. TypeInv'
  BY <1>1, <1>3, <1>4 DEF TypeInv
<1>6. \A u \in Tabs : Has(u)' = Has(u) /\ InCall(u)' = InCall(u)
  BY <1>1, <1>4 DEF Has, InCall
<1>7. ResultInv'
  BY <1>4, <1>6 DEF TabInv, ResultInv
<1>8. CallInv'
  BY <1>1, <1>4, <1>6 DEF TabInv, CallInv
<1>9. ASSUME NEW f \in flows' PROVE Good(f)'
  <2>1. f \in Flows /\ Good(f) /\ \A u \in Touched(f) : u \in Tabs
    BY <1>1, <1>3, FlowFacts DEF TabInv, FlowInv
  <2> QED BY <1>1, <1>3, <1>4, <2>1, GoodFrame
<1>10. FlowInv' /\ ApartInv'
  BY <1>1, <1>9, ApartFrame DEF TabInv, FlowInv
<1> QED BY <1>5, <1>7, <1>8, <1>10 DEF TabInv

(* Pinning, editing and saving touch neither tabs nor calls.                 *)
LEMMA EditKeeps ==
    ASSUME TabInv, NEW t \in Tabs, PinToggled(t) \/ EditOrSave(t)
    PROVE  TabInv'
<1>1. Still /\ flows' = flows /\ session' = session /\ opened' = opened
  <2>1. CASE PinToggled(t)
    BY <2>1 DEF PinToggled, Still, backend
  <2>2. CASE EditOrSave(t)
    BY <2>2 DEF EditOrSave, Still, backend
  <2> QED BY <2>1, <2>2
<1> QED BY <1>1, EndKeeps DEF TabInv, TypeInv

----------------------------------------------------------------------------
(* What an answer or an event of the backend changes: the mark, the session  *)
(* and the transaction of one tab, and the end of its running result.        *)
LEMMA OutcomeKeeps ==
    ASSUME TabInv, NEW t \in Tabs,
           tab' \in [Tabs -> TabStates], call' \in [Tabs -> Calls],
           \A u \in Tabs \ {t} : tab'[u] = tab[u] /\ call'[u] = call[u],
           tab'[t].open = tab[t].open, tab'[t].resultTabs = tab[t].resultTabs,
           tab'[t].activeResultTabId = tab[t].activeResultTabId,
           \/ running' = running
           \/ InCall(t) /\ call[t].current /\ running' = running \ {call[t].res} /\ ~InCall(t)',
           UNCHANGED <<flows, known>>, session' \in [Tabs -> Nat], opened' \in Nat,
           (tab[t].open /\ tab[t].runningExecutionId = "none" /\ ~tab[t].inTransaction) =>
             (tab'[t].runningExecutionId = "none" /\ ~tab'[t].inTransaction),
           InCall(t)' => /\ InCall(t) /\ call'[t].current = call[t].current /\ call'[t].res = call[t].res
                         /\ call'[t].current => tab'[t].runningExecutionId # "none",
           tab'[t].runningExecutionId # "none" => tab'[t].open /\ InCall(t)'
    PROVE  TabInv'
<1>0. TypeInv /\ ResultInv /\ CallInv /\ FlowInv /\ ApartInv
  BY DEF TabInv
<1>1. TypeInv'
  BY <1>0 DEF TypeInv
<1>2. \A u \in Tabs : /\ tab'[u].open = tab[u].open
                      /\ tab'[u].resultTabs = tab[u].resultTabs
                      /\ tab'[u].activeResultTabId = tab[u].activeResultTabId
  OBVIOUS
<1>3. \A u \in Tabs : Has(u)' = Has(u)
  BY <1>2 DEF Has
<1>4. ResultInv'
  BY <1>0, <1>2, <1>3 DEF ResultInv
<1>5. CallInv'
  <2> SUFFICES ASSUME NEW u \in Tabs
               PROVE  /\ (InCall(u) /\ call[u].current)' =>
                           /\ tab'[u].open /\ tab'[u].runningExecutionId # "none"
                           /\ call'[u].res \in Has(u)' \cap running'
                      /\ (InCall(u) /\ tab[u].open)' => call'[u].current
                      /\ tab'[u].runningExecutionId # "none" => tab'[u].open /\ InCall(u)'
    BY DEF CallInv
  <2>1. CASE u = t
    BY <1>0, <1>2, <1>3, <2>1 DEF CallInv
  <2>2. CASE u # t
    <3>1. InCall(u)' = InCall(u) /\ call'[u] = call[u] /\ tab'[u] = tab[u]
      BY <2>2 DEF InCall
    <3>2. (InCall(u) /\ call[u].current) => call[u].res \in running'
      BY <1>0, <2>2 DEF CallInv, ResultInv
    <3> QED BY <1>0, <1>3, <3>1, <3>2 DEF CallInv
  <2> QED BY <2>1, <2>2
<1>6. ASSUME NEW f \in flows' PROVE Good(f)'
  <2>0. f \in flows
    OBVIOUS
  <2>1. f \in Flows /\ Good(f) /\ \A u \in Touched(f) : u \in Tabs
    <3>1. Good(f)
      BY <1>0, <2>0 DEF FlowInv
    <3> QED BY <1>0, <2>0, <3>1, FlowFacts
  <2>2. \A u \in Touched(f) : tab[u].open
    BY SMTT(60), <1>0, <2>1, FlowType DEF Good, Current
  <2>3. running' \subseteq running
    OBVIOUS
  <2>4. \A u \in Touched(f) : (tab[u].runningExecutionId = "none" /\ ~tab[u].inTransaction) =>
                                (tab'[u].runningExecutionId = "none" /\ ~tab'[u].inTransaction)
    BY <2>1, <2>2
  <2> QED BY <1>0, <1>2, <2>1, <2>3, <2>4, GoodFrame
<1>7. FlowInv' /\ ApartInv'
  BY <1>0, <1>6, ApartFrame DEF FlowInv
<1> QED BY <1>1, <1>4, <1>5, <1>7 DEF TabInv

(* What the invariant says of one tab and its call.                          *)
LEMMA OfTab ==
    ASSUME TabInv, NEW t \in Tabs
    PROVE  /\ tab \in [Tabs -> TabStates] /\ tab[t] \in TabStates
           /\ call \in [Tabs -> Calls] /\ call[t] \in Calls
           /\ NoCall \in Calls
           /\ session \in [Tabs -> Nat] /\ opened \in Nat
           /\ (InCall(t) /\ call[t].current) => tab[t].open /\ tab[t].runningExecutionId # "none"
           /\ (InCall(t) /\ tab[t].open) => call[t].current
           /\ tab[t].runningExecutionId # "none" => tab[t].open /\ InCall(t)
  BY DEF TabInv, TypeInv, CallInv, NoCall, Calls, Shown

(* The backend accepts a call and has a session for it.                      *)
LEMMA AcceptedKeeps ==
    ASSUME TabInv, NEW t \in Tabs, Accepted(t)
    PROVE  TabInv'
<1>0. /\ InCall(t) /\ call[t].accepted = 0
      /\ call' = [call EXCEPT ![t].accepted = session'[t]]
      /\ UNCHANGED <<tab, running, flows, known>>
  BY DEF Accepted, webview
<1>1. session' \in [Tabs -> Nat] /\ opened' \in Nat /\ session'[t] \in Nat \ {0}
  BY OfTab DEF Accepted
<1>2. /\ call' \in [Tabs -> Calls] /\ \A u \in Tabs \ {t} : call'[u] = call[u]
      /\ call'[t] = [call[t] EXCEPT !.accepted = session'[t]]
  BY SMTT(60), <1>0, <1>1, OfTab DEF Calls
<1>3. /\ call'[t].accepted # 0 /\ call'[t].ended = call[t].ended
      /\ call'[t].current = call[t].current /\ call'[t].res = call[t].res
  BY <1>1, <1>2, OfTab DEF Calls
<1>4. InCall(t)'
  BY <1>0, <1>3 DEF InCall, NoCall
<1> QED BY <1>0, <1>1, <1>2, <1>3, <1>4, OfTab, OutcomeKeeps

(* EXECUTION_STARTED marks the tab of a current call as live.                *)
LEMMA StartedKeeps ==
    ASSUME TabInv, NEW t \in Tabs, Started(t)
    PROVE  TabInv'
<1>0. /\ InCall(t) /\ call' = [call EXCEPT ![t].started = TRUE]
      /\ tab' = IF call[t].current THEN ExecutionStarted(t) ELSE tab
      /\ UNCHANGED <<running, flows, known, session, opened>>
  BY DEF Started, backend
<1>1. /\ call' \in [Tabs -> Calls] /\ \A u \in Tabs \ {t} : call'[u] = call[u]
      /\ call'[t].started /\ call'[t].ended = call[t].ended
      /\ call'[t].current = call[t].current /\ call'[t].res = call[t].res
  BY ZenonT(120), <1>0, OfTab DEF Calls
<1>2. InCall(t)'
  BY <1>0, <1>1 DEF InCall, NoCall
<1>3. /\ tab' \in [Tabs -> TabStates] /\ \A u \in Tabs \ {t} : tab'[u] = tab[u]
      /\ tab'[t].open = tab[t].open /\ tab'[t].resultTabs = tab[t].resultTabs
      /\ tab'[t].activeResultTabId = tab[t].activeResultTabId
      /\ tab'[t].inTransaction = tab[t].inTransaction
      /\ tab'[t].runningExecutionId = IF call[t].current THEN "live" ELSE tab[t].runningExecutionId
  BY ZenonT(120), <1>0, OfTab DEF ExecutionStarted, TabStates, Marks
<1>4. (tab[t].open /\ tab[t].runningExecutionId = "none" /\ ~tab[t].inTransaction) =>
        (tab'[t].runningExecutionId = "none" /\ ~tab'[t].inTransaction)
  BY <1>0, <1>3, OfTab
<1>5. call'[t].current => tab'[t].runningExecutionId # "none"
  BY <1>1, <1>3
<1>6. tab'[t].runningExecutionId # "none" => tab'[t].open
  BY <1>0, <1>3, OfTab
<1>7. session' \in [Tabs -> Nat] /\ opened' \in Nat
  BY <1>0, OfTab
<1> QED BY ZenonT(120), <1>0, <1>1, <1>2, <1>3, <1>4, <1>5, <1>6, <1>7, OutcomeKeeps

(* The outcome of an execution, or the refusal of its call.                  *)
LEMMA FinishedKeeps ==
    ASSUME TabInv, NEW t \in Tabs, NEW txn \in BOOLEAN, InCall(t), Finished(t, txn),
           call' \in [Tabs -> Calls], \A u \in Tabs \ {t} : call'[u] = call[u], ~InCall(t)',
           UNCHANGED <<flows, known, session, opened>>
    PROVE  TabInv'
<1>1. CASE call[t].current
  <2>1. running' = running \ {call[t].res} /\ tab' = ExecutionEnded(t, txn)
    BY <1>1 DEF Finished
  <2>2. /\ tab' \in [Tabs -> TabStates] /\ \A u \in Tabs \ {t} : tab'[u] = tab[u]
        /\ tab'[t].open = tab[t].open /\ tab'[t].resultTabs = tab[t].resultTabs
        /\ tab'[t].activeResultTabId = tab[t].activeResultTabId
        /\ tab'[t].runningExecutionId = "none"
    <3> DEFINE b == tab[t].open /\ txn
    <3>1. b \in BOOLEAN
      OBVIOUS
    <3>2. tab' = [tab EXCEPT ![t].runningExecutionId = "none", ![t].inTransaction = b]
      BY <2>1 DEF ExecutionEnded
    <3> HIDE DEF b
    <3> QED BY ZenonT(120), <3>1, <3>2, OfTab DEF TabStates, Marks
  <2> QED BY <1>1, <2>1, <2>2, OfTab, OutcomeKeeps
<1>2. CASE ~call[t].current
  <2>1. running' = running /\ tab' = tab
    BY <1>2 DEF Finished
  <2>2. tab[t].runningExecutionId = "none"
    BY <1>2, OfTab
  <2> QED BY <1>2, <2>1, <2>2, OfTab, OutcomeKeeps
<1> QED BY <1>1, <1>2

(* The last event of an execution, or the refusal of its invoke.             *)
LEMMA EndedKeeps ==
    ASSUME TabInv, NEW t \in Tabs, Terminal(t) \/ Refused(t)
    PROVE  TabInv'
<1>1. CASE Terminal(t)
  <2>1. PICK txn \in BOOLEAN : Finished(t, txn)
    BY <1>1 DEF Terminal
  <2>2. /\ InCall(t) /\ UNCHANGED <<flows, known, session, opened>>
        /\ call' = IF call[t].answered THEN [call EXCEPT ![t] = NoCall] ELSE [call EXCEPT ![t].ended = TRUE]
    BY <1>1 DEF Terminal, backend
  <2>3. /\ call' \in [Tabs -> Calls] /\ \A u \in Tabs \ {t} : call'[u] = call[u]
        /\ call'[t] = NoCall \/ call'[t].ended
    BY ZenonT(120), <2>2, OfTab DEF Calls
  <2>4. ~InCall(t)'
    BY <2>3 DEF InCall
  <2> QED BY <2>1, <2>2, <2>3, <2>4, FinishedKeeps
<1>2. CASE Refused(t)
  <2>1. /\ InCall(t) /\ UNCHANGED <<flows, known, session, opened>> /\ call' = [call EXCEPT ![t] = NoCall]
        /\ Finished(t, tab[t].inTransaction)
    BY <1>2 DEF Refused, backend
  <2>2. tab[t].inTransaction \in BOOLEAN
    BY OfTab DEF TabStates
  <2>3. call' \in [Tabs -> Calls] /\ (\A u \in Tabs \ {t} : call'[u] = call[u]) /\ call'[t] = NoCall
    BY <2>1, OfTab
  <2>4. ~InCall(t)'
    BY <2>3 DEF InCall
  <2> QED BY <2>1, <2>2, <2>3, <2>4, FinishedKeeps
<1> QED BY <1>1, <1>2

(* The invoke's answer names the session, before or after the last event.    *)
LEMMA AnsweredKeeps ==
    ASSUME TabInv, NEW t \in Tabs, Answered(t)
    PROVE  TabInv'
<1> DEFINE named == [tab EXCEPT ![t].sessionId = IF tab[t].open THEN call[t].accepted ELSE 0]
<1>0. /\ tab' = IF ~call[t].ended /\ call[t].current /\ tab[t].open
                THEN [named EXCEPT ![t].runningExecutionId = "live"] ELSE named
      /\ call' = IF call[t].ended THEN [call EXCEPT ![t] = NoCall] ELSE [call EXCEPT ![t].answered = TRUE]
      /\ call[t] # NoCall
      /\ UNCHANGED <<running, flows, known, session, opened>>
  BY DEF Answered, backend
<1>1. call[t].accepted \in Nat
  BY OfTab DEF Calls
<1>2. /\ named \in [Tabs -> TabStates] /\ \A u \in Tabs \ {t} : named[u] = tab[u]
      /\ named[t].open = tab[t].open /\ named[t].resultTabs = tab[t].resultTabs
      /\ named[t].activeResultTabId = tab[t].activeResultTabId
      /\ named[t].inTransaction = tab[t].inTransaction
      /\ named[t].runningExecutionId = tab[t].runningExecutionId
  BY ZenonT(120), <1>1, OfTab DEF TabStates
<1> HIDE DEF named
<1>3. /\ tab' \in [Tabs -> TabStates] /\ \A u \in Tabs \ {t} : tab'[u] = tab[u]
      /\ tab'[t].open = tab[t].open /\ tab'[t].resultTabs = tab[t].resultTabs
      /\ tab'[t].activeResultTabId = tab[t].activeResultTabId
      /\ tab'[t].inTransaction = tab[t].inTransaction
      /\ tab'[t].runningExecutionId = IF ~call[t].ended /\ call[t].current /\ tab[t].open THEN "live"
                                      ELSE tab[t].runningExecutionId
  BY ZenonT(120), <1>0, <1>2 DEF TabStates, Marks
<1>4. CASE call[t].ended
  <2>1. call' \in [Tabs -> Calls] /\ (\A u \in Tabs \ {t} : call'[u] = call[u]) /\ call'[t] = NoCall
    BY <1>0, <1>4, OfTab
  <2>2. ~InCall(t)' /\ ~InCall(t)
    BY <1>4, <2>1 DEF InCall
  <2> QED BY <1>0, <1>3, <1>4, <2>1, <2>2, OfTab, OutcomeKeeps
<1>5. CASE ~call[t].ended
  <2>1. /\ call' \in [Tabs -> Calls] /\ \A u \in Tabs \ {t} : call'[u] = call[u]
        /\ call'[t].answered /\ call'[t].ended = call[t].ended
        /\ call'[t].current = call[t].current /\ call'[t].res = call[t].res
    BY ZenonT(120), <1>0, <1>5, OfTab DEF Calls
  <2>2. InCall(t)' /\ InCall(t)
    BY <1>0, <1>5, <2>1 DEF InCall, NoCall
  <2>3. (tab[t].open /\ tab[t].runningExecutionId = "none" /\ ~tab[t].inTransaction) =>
          (tab'[t].runningExecutionId = "none" /\ ~tab'[t].inTransaction)
    BY <1>3, <2>2, OfTab
  <2>4. call'[t].current => tab'[t].runningExecutionId # "none"
    BY <1>3, <1>5, <2>1, <2>2, OfTab
  <2>5. tab'[t].runningExecutionId # "none" => tab'[t].open
    BY <1>3, OfTab
  <2>6. session' \in [Tabs -> Nat] /\ opened' \in Nat
    BY <1>0, OfTab
  <2> QED BY ZenonT(120), <1>0, <1>3, <2>1, <2>2, <2>3, <2>4, <2>5, <2>6, OutcomeKeeps
<1> QED BY <1>4, <1>5

----------------------------------------------------------------------------
(* start() of a run into r, a result of the tab already or a new one of it.  *)
LEMMA StartKeeps ==
    ASSUME TabInv, NEW t \in Tabs, tab[t].open, NEW r \in Results, NEW tabs \in [Tabs -> TabStates],
           \A u \in Tabs \ {t} : tabs[u] = tab[u] /\ r \notin Has(u),
           tabs[t].open = tab[t].open, tabs[t].runningExecutionId = tab[t].runningExecutionId,
           Range(tabs[t].resultTabs) = Has(t) \cup {r},
           tabs[t].activeResultTabId \in Has(t) \cup {r, NoResult},
           StartCall(t, r, tabs), flows' \subseteq flows, \A f \in flows' : t \notin Touched(f),
           UNCHANGED <<session, opened>>
    PROVE  TabInv'
<1>0. TypeInv /\ ResultInv /\ CallInv /\ FlowInv /\ ApartInv
  BY DEF TabInv
<1>1. /\ tab' \in [Tabs -> TabStates] /\ call' \in [Tabs -> Calls]
      /\ \A u \in Tabs \ {t} : tab'[u] = tab[u] /\ call'[u] = call[u]
      /\ tab'[t].open /\ tab'[t].resultTabs = tabs[t].resultTabs
      /\ tab'[t].activeResultTabId = tabs[t].activeResultTabId
      /\ running \subseteq running' /\ running' \subseteq running \cup {r}
      /\ known' \subseteq Results
      /\ \/ call' = call /\ tab'[t].runningExecutionId = tab[t].runningExecutionId
         \/ /\ call'[t].res = r /\ call'[t].current /\ call'[t].started = FALSE /\ ~call'[t].ended
            /\ tab'[t].runningExecutionId = "pending" /\ r \in running'
  <2>1. CASE tab[t].runningExecutionId # "none" \/ ~Creates(r)
    BY <1>0, <2>1 DEF StartCall, TypeInv
  <2>2. CASE ~(tab[t].runningExecutionId # "none" \/ ~Creates(r))
    <3> DEFINE new == [res |-> r, current |-> TRUE, accepted |-> 0,
                       started |-> FALSE, ended |-> FALSE, answered |-> FALSE]
    <3>1. /\ tab' = [tabs EXCEPT ![t].runningExecutionId = "pending"]
          /\ running' = running \cup {r} /\ known' = known \cup {r}
          /\ call' = [call EXCEPT ![t] = new]
      BY <2>2 DEF StartCall
    <3>2. new \in Calls /\ new.res = r /\ new.current /\ new.started = FALSE /\ ~new.ended
      BY DEF Calls, Shown
    <3> HIDE DEF new
    <3>3. /\ call' \in [Tabs -> Calls] /\ call'[t] = new /\ \A u \in Tabs \ {t} : call'[u] = call[u]
      BY <1>0, <3>1, <3>2 DEF TypeInv
    <3>4. /\ tab' \in [Tabs -> TabStates] /\ \A u \in Tabs \ {t} : tab'[u] = tab[u]
          /\ tab'[t].open = tab[t].open /\ tab'[t].resultTabs = tabs[t].resultTabs
          /\ tab'[t].activeResultTabId = tabs[t].activeResultTabId
          /\ tab'[t].runningExecutionId = "pending"
      BY ZenonT(120), <3>1 DEF TabStates, Marks
    <3>5. known' \subseteq Results
      BY <1>0, <3>1 DEF TypeInv
    <3> QED BY <3>1, <3>2, <3>3, <3>4, <3>5
  <2> QED BY <2>1, <2>2
<1>2. TypeInv'
  BY <1>0, <1>1 DEF TypeInv
<1>3. Has(t)' = Has(t) \cup {r} /\ \A u \in Tabs \ {t} : Has(u)' = Has(u)
  BY <1>1 DEF Has
<1>4. ResultInv'
  <2> SUFFICES /\ \A u, v \in Tabs : u # v => Has(u)' \cap Has(v)' = {}
               /\ \A u \in Tabs : tab'[u].activeResultTabId \in Has(u)' \cup {NoResult}
    BY DEF ResultInv
  <2>1. \A u, v \in Tabs : u # v => Has(u)' \cap Has(v)' = {}
    BY <1>0, <1>3 DEF ResultInv
  <2>2. \A u \in Tabs : tab'[u].activeResultTabId \in Has(u)' \cup {NoResult}
    BY <1>0, <1>1, <1>3 DEF ResultInv
  <2> QED BY <2>1, <2>2
<1>5. CallInv'
  <2> SUFFICES ASSUME NEW u \in Tabs
               PROVE  /\ (InCall(u) /\ call[u].current)' =>
                           /\ tab'[u].open /\ tab'[u].runningExecutionId # "none"
                           /\ call'[u].res \in Has(u)' \cap running'
                      /\ (InCall(u) /\ tab[u].open)' => call'[u].current
                      /\ tab'[u].runningExecutionId # "none" => tab'[u].open /\ InCall(u)'
    BY DEF CallInv
  <2>1. CASE u # t
    <3>1. InCall(u)' = InCall(u) /\ call'[u] = call[u] /\ tab'[u] = tab[u]
      BY <1>1, <2>1 DEF InCall
    <3> QED BY <1>0, <1>1, <1>3, <2>1, <3>1 DEF CallInv
  <2>2. CASE u = t /\ call' = call /\ tab'[t].runningExecutionId = tab[t].runningExecutionId
    <3>1. InCall(t)' = InCall(t)
      BY <2>2 DEF InCall
    <3> QED BY <1>0, <1>1, <1>3, <2>2, <3>1 DEF CallInv
  <2>3. CASE /\ u = t /\ call'[t].res = r /\ call'[t].current /\ ~call'[t].ended
             /\ tab'[t].runningExecutionId = "pending" /\ r \in running'
    <3>1. InCall(t)'
      BY <2>3 DEF InCall, NoCall
    <3> QED BY <1>1, <1>3, <2>3, <3>1
  <2> QED BY <1>1, <2>1, <2>2, <2>3
<1>6. ASSUME NEW f \in flows' PROVE Good(f)'
  <2>0. f \in flows
    OBVIOUS
  <2>1. Good(f)
    BY <1>0, <2>0 DEF FlowInv
  <2>2. f \in Flows /\ Touched(f) \subseteq Tabs \ {t}
    BY <1>0, <2>0, FlowFacts
  <2>3. \A u \in Touched(f) : tab'[u] = tab[u] /\ Has(u) \cap running' \subseteq running
    BY <1>1, <2>2
  <2>4. \A u \in Tabs : tab'[u].open => tab[u].open
    BY <1>1
  <2> QED BY <1>0, <2>1, <2>2, <2>3, <2>4, GoodFrame
<1>7. FlowInv' /\ ApartInv'
  BY <1>0, <1>6, ApartFrame DEF FlowInv
<1> QED BY <1>2, <1>4, <1>5, <1>7 DEF TabInv

(* A run into a result that the tab has.                                     *)
LEMMA IntoOwnKeeps ==
    ASSUME TabInv, NEW t \in Tabs, tab[t].open, NEW r \in Has(t),
           StartCall(t, r, tab), flows' \subseteq flows, \A f \in flows' : t \notin Touched(f),
           UNCHANGED <<session, opened>>
    PROVE  TabInv'
<1>1. r \in Results /\ tab \in [Tabs -> TabStates]
  BY DEF TabInv, TypeInv, TabStates, Has, Range
<1>2. \A u \in Tabs \ {t} : r \notin Has(u)
  BY DEF TabInv, ResultInv
<1>3. Range(tab[t].resultTabs) = Has(t) \cup {r} /\ tab[t].activeResultTabId \in Has(t) \cup {r, NoResult}
  BY DEF TabInv, ResultInv, Has
<1> QED BY <1>1, <1>2, <1>3, StartKeeps

(* A run into a new result, which no tab has.                                *)
LEMMA IntoNewKeeps ==
    ASSUME TabInv, NEW t \in Tabs, tab[t].open, NEW r \in Results \ Used,
           StartCall(t, r, ResultAdded(t, r)), flows' \subseteq flows, \A f \in flows' : t \notin Touched(f),
           UNCHANGED <<session, opened>>
    PROVE  TabInv'
<1> DEFINE tabs == ResultAdded(t, r)
<1>0. tab \in [Tabs -> TabStates] /\ tab[t] \in TabStates /\ tab[t].resultTabs \in Seq(Results)
  BY DEF TabInv, TypeInv, TabStates
<1>1. ASSUME NEW u \in Tabs PROVE r \notin Has(u)
  <2> DEFINE G == {Range(tab[v].resultTabs) \cup {call[v].res} : v \in Tabs}
  <2>1. r \notin UNION G
    BY DEF Used
  <2>2. Has(u) \cup {call[u].res} \in G
    BY DEF Has
  <2> HIDE DEF G
  <2> QED BY <2>1, <2>2
<1> DEFINE s == tab[t].resultTabs
           more == Append(s, r)
<1>2. more \in Seq(Results) /\ Len(more) = Len(s) + 1 /\ more[Len(s) + 1] = r
      /\ Len(s) \in Nat /\ \A i \in 1..Len(s) : more[i] = s[i]
  BY <1>0
<1>3. Range(more) = Range(s) \cup {r}
  <2>1. DOMAIN s = 1..Len(s) /\ DOMAIN more = 1..Len(s) + 1
    BY <1>0, <1>2
  <2> HIDE DEF s, more
  <2>2. \A i \in 1..Len(s) + 1 : i \in 1..Len(s) \/ i = Len(s) + 1
    BY <1>2
  <2>3. 1..Len(s) \subseteq 1..Len(s) + 1 /\ Len(s) + 1 \in 1..Len(s) + 1
    BY <1>2
  <2> QED BY <1>2, <2>1, <2>2, <2>3 DEF Range
<1>4. /\ tabs \in [Tabs -> TabStates] /\ \A u \in Tabs \ {t} : tabs[u] = tab[u]
      /\ tabs[t].open = tab[t].open /\ tabs[t].runningExecutionId = tab[t].runningExecutionId
      /\ tabs[t].resultTabs = more /\ tabs[t].activeResultTabId = r
  <2>1. tabs = [tab EXCEPT ![t].resultTabs = more, ![t].activeResultTabId = r]
    BY DEF ResultAdded
  <2> HIDE DEF tabs, more
  <2> QED BY <1>0, <1>2, <2>1 DEF TabStates, Shown
<1>5. StartCall(t, r, tabs)
  OBVIOUS
<1> HIDE DEF tabs, more
<1> QED BY <1>1, <1>3, <1>4, <1>5, StartKeeps DEF Has

(* A run over the tab as it was captured, which is how it still is.          *)
LEMMA RunIntoKeeps ==
    ASSUME TabInv, NEW c, NEW mode, c.id \in Tabs, tab[c.id].open, c.resultTabs = tab[c.id].resultTabs,
           RunInto(c, mode), flows' \subseteq flows, \A f \in flows' : c.id \notin Touched(f),
           UNCHANGED <<session, opened>>
    PROVE  TabInv'
<1>1. \/ c.shown \in Has(c.id) /\ StartCall(c.id, c.shown, tab)
      \/ \E r \in Results \ Used : StartCall(c.id, r, ResultAdded(c.id, r))
  BY DEF RunInto, Has
<1> QED BY <1>1, IntoOwnKeeps, IntoNewKeeps

(* Run: at once, or after a dangerous statement was asked about.             *)
LEMMA RunKeeps ==
    ASSUME Patient, TabInv, NEW t \in Tabs, NEW mode \in {"replace", "new-result"}, Run(t, mode)
    PROVE  TabInv'
<1>0. TypeInv /\ session' = session /\ opened' = opened /\ session \in [Tabs -> Nat] /\ opened \in Nat
  BY DEF TabInv, TypeInv, Run, backend
<1>1. tab[t].open /\ \A f \in flows : t \notin Touched(f)
  BY MayUseFacts DEF Run
<1>2. CASE RunInto(Capture(t), mode) /\ UNCHANGED flows
  <2> DEFINE c == Capture(t)
  <2>1. c.id = t /\ c.resultTabs = tab[t].resultTabs
    BY <1>0, CaptureFacts
  <2>2. RunInto(c, mode)
    BY <1>2
  <2> HIDE DEF c
  <2> QED BY <1>0, <1>1, <1>2, <2>1, <2>2, RunIntoKeeps
<1>3. CASE Begin(Flow("run", <<Capture(t)>>, mode, "asking")) /\ UNCHANGED <<tab, running, known, call>>
  <2> DEFINE f == Flow("run", <<Capture(t)>>, mode, "asking")
  <2>1. /\ f \in Flows /\ f.op = "run" /\ f.todo # <<>> /\ Touched(f) = {t} /\ Current(f)
    BY SMTT(60), <1>0, <1>1, OneFlow
  <2>2. Begin(f) /\ Still
    BY <1>3 DEF Still
  <2> HIDE DEF f
  <2>3. Good(f)
    BY <2>1 DEF Good, Leaving
  <2> QED BY <1>0, <1>1, <2>1, <2>2, <2>3, BeginKeeps
<1> QED BY <1>2, <1>3 DEF Run

(* The tabs of a handler that ends are no other handler's.                   *)
LEMMA EndsAlone ==
    ASSUME TabInv, NEW f \in flows, f.op \in OfTabs, End(f)
    PROVE  /\ f.todo[1].id \in Tabs /\ tab[f.todo[1].id].open
           /\ f.todo[1].resultTabs = tab[f.todo[1].id].resultTabs
           /\ flows' \subseteq flows /\ \A g \in flows' : f.todo[1].id \notin Touched(g)
<1>1. Good(f) /\ 1 \in 1..Len(f.todo) /\ f.todo[1].id \in Tabs /\ f.todo[1].id \in Touched(f)
  <2>1. Good(f) /\ f.todo # <<>>
    BY DEF TabInv, FlowInv, Good
  <2> QED BY <2>1, FlowFacts DEF TabInv
<1>2. tab[f.todo[1].id].open /\ f.todo[1].resultTabs = tab[f.todo[1].id].resultTabs
  BY <1>1 DEF Good, Current
<1>3. flows' = flows \ {f}
  BY DEF End
<1>4. \A g \in flows : g # f => f.todo[1].id \notin Touched(g)
  BY <1>1 DEF TabInv, ApartInv
<1> QED BY <1>1, <1>2, <1>3, <1>4

(* The question about a dangerous statement is answered.                     *)
LEMMA RunConfirmedKeeps ==
    ASSUME TabInv, NEW f \in flows, RunConfirmed(f)
    PROVE  TabInv'
<1>0. /\ f.op \in OfTabs /\ End(f) /\ session' = session /\ opened' = opened
      /\ session \in [Tabs -> Nat] /\ opened \in Nat
  BY DEF TabInv, TypeInv, RunConfirmed, backend, OfTabs
<1>1. CASE UNCHANGED <<tab, running, known, call>>
  BY <1>0, <1>1, EndKeeps DEF End, Still
<1>2. CASE RunInto(f.todo[1], f.res)
  BY <1>0, <1>2, EndsAlone, RunIntoKeeps
<1> QED BY <1>1, <1>2 DEF RunConfirmed

(* The question about the edits a refresh drops is answered.                 *)
LEMMA RefreshConfirmedKeeps ==
    ASSUME TabInv, NEW f \in flows, RefreshConfirmed(f)
    PROVE  TabInv'
<1>0. /\ f.op \in OfTabs /\ f.op = "refresh" /\ End(f) /\ session' = session /\ opened' = opened
      /\ session \in [Tabs -> Nat] /\ opened \in Nat
  BY DEF TabInv, TypeInv, RefreshConfirmed, backend, OfTabs
<1>1. CASE UNCHANGED <<tab, running, known, call>>
  BY <1>0, <1>1, EndKeeps DEF End, Still
<1>2. CASE StartCall(f.todo[1].id, f.res, tab)
  <2>1. f.res \in Has(f.todo[1].id)
    BY <1>0 DEF TabInv, FlowInv, Good
  <2> QED BY <1>0, <1>2, <2>1, EndsAlone, IntoOwnKeeps
<1> QED BY <1>1, <1>2 DEF RefreshConfirmed

(* Refresh of the shown result: at once, or after asking.                    *)
LEMMA RefreshKeeps ==
    ASSUME Patient, TabInv, NEW t \in Tabs, RefreshResult(t)
    PROVE  TabInv'
<1> DEFINE r == tab[t].activeResultTabId
<1>0. TypeInv /\ session' = session /\ opened' = opened /\ session \in [Tabs -> Nat] /\ opened \in Nat
  BY DEF TabInv, TypeInv, RefreshResult, backend
<1>1. tab[t].open /\ \A f \in flows : t \notin Touched(f)
  BY MayUseFacts DEF RefreshResult
<1>2. r \in Has(t) /\ r \in Results
  BY SessionsAssumption DEF RefreshResult, TabInv, TypeInv, ResultInv, NoResult
<1>3. CASE RefreshAllowed(r)
  <2>1. StartCall(t, r, tab) /\ UNCHANGED flows
    BY <1>3 DEF RefreshResult
  <2> HIDE DEF r
  <2> QED BY <1>0, <1>1, <1>2, <2>1, IntoOwnKeeps
<1>4. CASE ~RefreshAllowed(r)
  <2> DEFINE f == Flow("refresh", <<Capture(t)>>, r, "asking")
  <2>1. Begin(f) /\ Still
    BY <1>4 DEF RefreshResult, Still
  <2> HIDE DEF r
  <2>2. /\ f \in Flows /\ f.op = "refresh" /\ f.res = r /\ f.todo # <<>> /\ f.todo[1].id = t
        /\ Touched(f) = {t} /\ Current(f)
    BY <1>0, <1>1, <1>2, OneFlow DEF Shown
  <2> HIDE DEF f
  <2>3. Good(f)
    BY <1>2, <2>2 DEF Good, Leaving
  <2> QED BY <1>0, <1>1, <2>1, <2>2, <2>3, BeginKeeps
<1> QED BY <1>3, <1>4

----------------------------------------------------------------------------
(* What disposeTab and resultStore.dispose leave of the calls.               *)
LEMMA DisposedFacts ==
    ASSUME TypeInv, NEW rs, Disposed(rs)
    PROVE  /\ call' \in [Tabs -> Calls] /\ known' \subseteq Results
           /\ \A u \in Tabs :
                /\ call[u].res \notin rs => call'[u] = call[u]
                /\ InCall(u)' => InCall(u)
                /\ call'[u].current => call[u].current
                /\ (InCall(u) /\ call[u].res \in rs) => ~call'[u].current
<1>0. call \in [Tabs -> Calls] /\ known \subseteq Results
  BY DEF TypeInv
<1>1. /\ known' = known \ rs
      /\ call' = [u \in Tabs |-> IF call[u] # NoCall /\ call[u].res \in rs
                                 THEN [call[u] EXCEPT !.current = FALSE] ELSE call[u]]
  BY DEF Disposed
<1>2. ASSUME NEW u \in Tabs
      PROVE  /\ call'[u] \in Calls
             /\ call[u].res \notin rs => call'[u] = call[u]
             /\ (call'[u] # NoCall /\ ~call'[u].ended) => InCall(u)
             /\ call'[u].current => call[u].current
             /\ (InCall(u) /\ call[u].res \in rs) => ~call'[u].current
  <2>1. CASE call[u] # NoCall /\ call[u].res \in rs
    <3>1. call'[u] = [call[u] EXCEPT !.current = FALSE] /\ call[u] \in Calls
      BY <1>0, <1>1, <2>1
    <3>2. call'[u] \in Calls /\ call'[u].ended = call[u].ended /\ call'[u].current = FALSE
      BY <3>1 DEF Calls
    <3> QED BY <2>1, <3>2 DEF InCall
  <2>2. CASE ~(call[u] # NoCall /\ call[u].res \in rs)
    <3>1. call'[u] = call[u] /\ call[u] \in Calls
      BY <1>0, <1>1, <2>2
    <3> QED BY <2>2, <3>1 DEF InCall
  <2> QED BY <2>1, <2>2
<1>3. \A u \in Tabs : InCall(u)' => InCall(u)
  BY <1>2 DEF InCall
<1>4. call' \in [Tabs -> Calls]
  BY <1>1, <1>2
<1> QED BY <1>0, <1>1, <1>2, <1>3, <1>4

(* The calls of the other tabs, when results of t are disposed of.           *)
LEMMA OthersKeep ==
    ASSUME TabInv, NEW t \in Tabs, NEW u \in Tabs \ {t}, tab'[u] = tab[u],
           NEW rs \in SUBSET Has(t), Disposed(rs), running \ Has(t) \subseteq running'
    PROVE  /\ (InCall(u) /\ call[u].current)' => /\ tab'[u].open /\ tab'[u].runningExecutionId # "none"
                                                 /\ call'[u].res \in Has(u)' \cap running'
           /\ (InCall(u) /\ tab[u].open)' => call'[u].current
           /\ tab'[u].runningExecutionId # "none" => tab'[u].open /\ InCall(u)'
<1>1. TypeInv /\ ResultInv /\ CallInv
  BY DEF TabInv
<1>2. /\ call[u].res \notin rs => call'[u] = call[u]
      /\ InCall(u)' => InCall(u)
      /\ call'[u].current => call[u].current
  BY <1>1, DisposedFacts
<1>3. Has(u)' = Has(u) /\ Has(u) \cap Has(t) = {}
  BY <1>1 DEF Has, ResultInv
<1>4. CASE InCall(u) /\ call[u].current
  <2>1. call[u].res \in Has(u) \cap running /\ tab[u].open /\ tab[u].runningExecutionId # "none"
    BY <1>1, <1>4 DEF CallInv
  <2>2. call'[u] = call[u] /\ call[u].res \in running'
    BY <1>2, <1>3, <2>1
  <2>3. InCall(u)'
    BY <1>4, <2>2 DEF InCall
  <2> QED BY <1>3, <1>4, <2>1, <2>2, <2>3
<1>5. CASE ~(InCall(u) /\ call[u].current)
  <2>1. ~(InCall(u) /\ tab[u].open) /\ tab[u].runningExecutionId = "none"
    BY <1>1, <1>5 DEF CallInv
  <2> QED BY <1>2, <1>5, <2>1
<1> QED BY <1>4, <1>5

(* RESULT_CLOSED, when closeResultTab got the backend's answer.              *)
LEMMA ResultClosedFacts ==
    ASSUME TabInv, NEW t \in Tabs, NEW r \in Has(t), tab' = ResultClosed(t, r)
    PROVE  /\ tab' \in [Tabs -> TabStates] /\ \A u \in Tabs \ {t} : tab'[u] = tab[u]
           /\ tab'[t].open = tab[t].open
           /\ tab'[t].runningExecutionId = tab[t].runningExecutionId
           /\ Has(t)' \subseteq Has(t) /\ Has(t) \ {r} \subseteq Has(t)'
           /\ tab'[t].activeResultTabId \in Has(t)' \cup {NoResult}
<1> DEFINE s == tab[t].resultTabs
           e == tab[t].activeResultTabId
           rest == RemoveFirst(s, r)
           at == FirstAt(s, r)
           next == IF e # r THEN e ELSE IF rest = <<>> THEN NoResult
                   ELSE rest[IF at > Len(rest) THEN Len(rest) ELSE at]
<1>1. tab' = [tab EXCEPT ![t].resultTabs = rest, ![t].activeResultTabId = next]
  BY DEF ResultClosed, FirstAt, SelectInSeq
<1>2. /\ tab \in [Tabs -> TabStates] /\ s \in Seq(Results) /\ r \in Results /\ r \in Range(s)
      /\ e \in Range(s) \cup {NoResult}
  BY DEF TabInv, TypeInv, TabStates, ResultInv, Has, Range
<1>3. /\ at \in 1..Len(s) /\ rest \in Seq(Results) /\ Len(rest) = Len(s) - 1
      /\ Range(rest) \subseteq Range(s) /\ Range(s) \ {r} \subseteq Range(rest)
  <2> HIDE DEF s
  <2> QED BY <1>2, RemoveFirstFacts
<1> HIDE DEF rest, at
<1>4. next \in Range(rest) \cup {NoResult}
  <2>1. CASE e # r
    BY <1>2, <1>3, <2>1
  <2>2. CASE e = r /\ rest = <<>>
    BY <2>2
  <2>3. CASE e = r /\ rest # <<>>
    <3> DEFINE i == IF at > Len(rest) THEN Len(rest) ELSE at
    <3>1. next = rest[i]
      BY <2>3
    <3>2. i \in 1..Len(rest)
      BY <1>3, <2>3
    <3> HIDE DEF i, next
    <3>3. i \in DOMAIN rest
      BY <1>3, <3>2
    <3> QED BY <3>1, <3>3 DEF Range
  <2> QED BY <2>1, <2>2, <2>3
<1>5. next \in Shown
  BY SMTT(60), <1>2, <1>3, <1>4 DEF Shown, Range
<1> HIDE DEF next
<1>6. /\ tab' \in [Tabs -> TabStates] /\ \A u \in Tabs \ {t} : tab'[u] = tab[u]
      /\ tab'[t].open = tab[t].open
      /\ tab'[t].runningExecutionId = tab[t].runningExecutionId
      /\ tab'[t].resultTabs = rest /\ tab'[t].activeResultTabId = next
  <2>1. tab \in [Tabs -> TabStates] /\ rest \in Seq(Results)
    BY <1>2, <1>3
  <2> HIDE DEF s, e
  <2> QED BY ZenonT(120), <1>1, <1>5, <2>1 DEF TabStates
<1>7. Has(t)' = Range(rest) /\ Has(t) = Range(s)
  BY <1>6 DEF Has
<1> QED BY <1>3, <1>4, <1>6, <1>7

(* The other handlers wait for other tabs, and what runs is not what closes. *)
LEMMA ResultClosesKeeps ==
    ASSUME TabInv, NEW f \in flows, ResultCloses(f)
    PROVE  TabInv'
<1> DEFINE t == f.todo[1].id
           r == f.res
<1>0. TypeInv /\ ResultInv /\ CallInv /\ FlowInv /\ ApartInv
  BY DEF TabInv
<1>1. /\ f.op = "closeResult" /\ Disposed({r}) /\ tab' = ResultClosed(t, r) /\ End(f)
      /\ running' = running \ {r} /\ session' = session /\ opened' = opened
  BY DEF ResultCloses, backend
<1>2. /\ t \in Tabs /\ flows' \subseteq flows /\ \A g \in flows' : t \notin Touched(g)
  BY <1>1, EndsAlone DEF OfTabs
<1>3. r \in Has(t) /\ r \notin running
  BY <1>0, <1>1 DEF FlowInv, Good
<1> HIDE DEF t, r
<1>4. /\ tab' \in [Tabs -> TabStates] /\ \A u \in Tabs \ {t} : tab'[u] = tab[u]
      /\ tab'[t].open = tab[t].open
      /\ tab'[t].runningExecutionId = tab[t].runningExecutionId
      /\ Has(t)' \subseteq Has(t) /\ Has(t) \ {r} \subseteq Has(t)'
      /\ tab'[t].activeResultTabId \in Has(t)' \cup {NoResult}
  BY <1>1, <1>2, <1>3, ResultClosedFacts
<1>5. /\ call' \in [Tabs -> Calls] /\ known' \subseteq Results
      /\ call[t].res # r => call'[t] = call[t]
      /\ InCall(t)' => InCall(t)
      /\ call'[t].current => call[t].current
  BY <1>0, <1>1, <1>2, DisposedFacts
<1>6. TypeInv'
  BY <1>0, <1>1, <1>2, <1>4, <1>5 DEF TypeInv
<1>7. \A u \in Tabs \ {t} : Has(u)' = Has(u)
  BY <1>4 DEF Has
<1>8. ResultInv'
  <2> SUFFICES /\ \A u, v \in Tabs : u # v => Has(u)' \cap Has(v)' = {}
               /\ \A u \in Tabs : tab'[u].activeResultTabId \in Has(u)' \cup {NoResult}
    BY DEF ResultInv
  <2>1. \A u, v \in Tabs : u # v => Has(u)' \cap Has(v)' = {}
    BY <1>0, <1>4, <1>7 DEF ResultInv
  <2>2. \A u \in Tabs : tab'[u].activeResultTabId \in Has(u)' \cup {NoResult}
    BY <1>0, <1>4, <1>7 DEF ResultInv
  <2> QED BY <2>1, <2>2
<1>9. CallInv'
  <2> SUFFICES ASSUME NEW u \in Tabs
               PROVE  /\ (InCall(u) /\ call[u].current)' =>
                           /\ tab'[u].open /\ tab'[u].runningExecutionId # "none"
                           /\ call'[u].res \in Has(u)' \cap running'
                      /\ (InCall(u) /\ tab[u].open)' => call'[u].current
                      /\ tab'[u].runningExecutionId # "none" => tab'[u].open /\ InCall(u)'
    BY DEF CallInv
  <2>1. CASE u # t
    <3>1. {r} \in SUBSET Has(t) /\ running \ Has(t) \subseteq running'
      BY <1>1, <1>3
    <3> QED BY <1>1, <1>2, <1>4, <2>1, <3>1, OthersKeep
  <2>2. CASE u = t /\ InCall(t) /\ call[t].current
    <3>1. call[t].res \in Has(t) \cap running /\ tab[t].open /\ tab[t].runningExecutionId # "none"
      BY <1>0, <1>2, <2>2 DEF CallInv
    <3>2. call'[t] = call[t] /\ call[t].res \in Has(t)' \cap running'
      BY <1>1, <1>3, <1>4, <1>5, <3>1
    <3>3. InCall(t)'
      BY <2>2, <3>2 DEF InCall
    <3> QED BY <1>4, <2>2, <3>1, <3>2, <3>3
  <2>3. CASE u = t /\ ~(InCall(t) /\ call[t].current)
    <3>1. ~(InCall(t) /\ tab[t].open) /\ tab[t].runningExecutionId = "none"
      BY <1>0, <1>2, <2>3 DEF CallInv
    <3> QED BY <1>4, <1>5, <2>3, <3>1
  <2> QED BY <2>1, <2>2, <2>3
<1>10. ASSUME NEW g \in flows' PROVE Good(g)'
  <2>0. g \in flows /\ Good(g)
    BY <1>0, <1>2 DEF FlowInv
  <2>2. g \in Flows /\ Touched(g) \subseteq Tabs \ {t}
    BY <1>0, <1>2, <2>0, FlowFacts
  <2>3. \A u \in Touched(g) : tab'[u] = tab[u] /\ Has(u) \cap running' \subseteq running
    BY <1>1, <1>4, <2>2
  <2>4. \A u \in Tabs : tab'[u].open => tab[u].open
    BY <1>4
  <2> QED BY <1>0, <2>0, <2>2, <2>3, <2>4, GoodFrame
<1>11. FlowInv' /\ ApartInv'
  BY <1>0, <1>2, <1>10, ApartFrame DEF FlowInv
<1> QED BY <1>6, <1>8, <1>9, <1>11 DEF TabInv

(* TAB_CLOSED, and the handler goes on with the rest of its tabs.            *)
LEMMA TailGood ==
    ASSUME TabInv, NEW f \in flows, f.op = "close", Len(f.todo) # 1
    PROVE  LET g == [f EXCEPT !.todo = Tail(@), !.step = "closing"]
           IN  g \in Flows /\ Good(g) /\ Touched(g) \subseteq Touched(f) \ {f.todo[1].id}
<1> DEFINE g == [f EXCEPT !.todo = Tail(@), !.step = "closing"]
           s == f.todo
<1>1. f \in Flows /\ s \in Seq(Captures) /\ Len(s) \in Nat /\ (s # <<>> => 1 \in 1..Len(s))
  BY FlowFacts DEF TabInv
<1>2. Good(f) /\ s # <<>>
  BY DEF TabInv, FlowInv, Good, OfTabs
<1>3. Current(f)
  BY <1>2 DEF Good
<1>4. Len(s) > 1
  <2>1. PICK n \in Nat : n = Len(s)
    BY <1>1
  <2>2. 1 \in 1..n /\ n # 1
    BY <1>1, <1>2, <2>1
  <2>3. n > 1
    BY <2>2
  <2> QED BY <2>1, <2>3
<1>5. /\ Tail(s) \in Seq(Captures) /\ Len(Tail(s)) = Len(s) - 1 /\ DOMAIN Tail(s) = 1..Len(s) - 1
      /\ \A i \in 1..Len(s) - 1 : Tail(s)[i] = s[i + 1] /\ i + 1 \in 1..Len(s)
  BY <1>1, <1>4
<1>6. g \in Flows /\ g.op = "close" /\ g.todo = Tail(s)
  BY <1>1, <1>5 DEF Flows
<1> HIDE DEF g
<1>7. Current(g)
  <2> SUFFICES ASSUME NEW i \in 1..Len(s) - 1
               PROVE  /\ tab[g.todo[i].id].open
                      /\ g.todo[i].resultTabs = tab[g.todo[i].id].resultTabs
                      /\ \A j \in 1..Len(s) - 1 : g.todo[i].id = g.todo[j].id => i = j
    BY <1>5, <1>6 DEF Current
  <2>1. g.todo[i] = s[i + 1] /\ i + 1 \in 1..Len(s)
    BY <1>5, <1>6
  <2>2. \A j \in 1..Len(s) - 1 : g.todo[j] = s[j + 1] /\ j + 1 \in 1..Len(s)
    BY <1>5, <1>6
  <2>3. tab[s[i + 1].id].open /\ s[i + 1].resultTabs = tab[s[i + 1].id].resultTabs
    BY <1>3, <2>1 DEF Current
  <2>4. ASSUME NEW j \in 1..Len(s) - 1, s[i + 1].id = s[j + 1].id PROVE i = j
    <3>1. i + 1 = j + 1
      BY <1>3, <2>1, <2>2, <2>4 DEF Current
    <3> QED BY <1>1, <3>1
  <2> QED BY <2>1, <2>2, <2>3, <2>4
<1>8. g.todo # <<>>
  BY SMTT(60), <1>1, <1>4, <1>5, <1>6
<1>9. Good(g)
  BY <1>6, <1>7, <1>8 DEF Good, Leaving
<1>10. Touched(g) \subseteq Touched(f) \ {s[1].id}
  <2> SUFFICES ASSUME NEW i \in 1..Len(s) - 1 PROVE g.todo[i].id \in Touched(f) \ {s[1].id}
    BY <1>5, <1>6 DEF Touched
  <2>1. g.todo[i] = s[i + 1] /\ i + 1 \in 1..Len(s) /\ i + 1 # 1 /\ 1 \in 1..Len(s)
    BY <1>1, <1>4, <1>5, <1>6
  <2>2. s[i + 1].id # s[1].id
    BY <1>3, <2>1 DEF Current
  <2>3. s[i + 1].id \in Touched(f)
    BY <2>1, FlowFacts DEF TabInv
  <2> QED BY <2>1, <2>2, <2>3
<1> QED BY <1>6, <1>9, <1>10 DEF g

ClosedTab == [open |-> FALSE, resultTabs |-> <<>>, activeResultTabId |-> NoResult,
              runningExecutionId |-> "none", sessionId |-> 0, inTransaction |-> FALSE]

(* A closed tab has nothing and runs nothing.                                *)
LEMMA ClosedTabFacts ==
    /\ ClosedTab \in TabStates /\ ~ClosedTab.open /\ ClosedTab.runningExecutionId = "none"
    /\ Range(ClosedTab.resultTabs) = {} /\ ClosedTab.activeResultTabId = NoResult
<1>1. /\ ClosedTab \in TabStates /\ ~ClosedTab.open /\ ClosedTab.runningExecutionId = "none"
      /\ ClosedTab.activeResultTabId = NoResult /\ ClosedTab.resultTabs = <<>>
  BY DEF ClosedTab, TabStates, Shown, Marks
<1>2. Range(<<>>) = {}
  BY DEF Range
<1> QED BY <1>1, <1>2

(* The calls of the closed tab are no longer current; those of others are.   *)
LEMMA TabClosesKeeps ==
    ASSUME TabInv, NEW f \in flows, TabCloses(f)
    PROVE  TabInv'
<1> DEFINE t == f.todo[1].id
           h == [f EXCEPT !.todo = Tail(@), !.step = "closing"]
<1>0. TypeInv /\ ResultInv /\ CallInv /\ FlowInv /\ ApartInv
  BY DEF TabInv
<1>1. /\ f.op = "close" /\ Disposed(Range(f.todo[1].resultTabs)) /\ tab' = [tab EXCEPT ![t] = ClosedTab]
      /\ flows' = (flows \ {f}) \cup (IF Len(f.todo) = 1 THEN {} ELSE {h})
      /\ running' = running \ Has(t) /\ session' = session /\ opened' = opened
  BY DEF TabCloses, backend, ClosedTab, Has, ResultsOf
<1>2. /\ t \in Tabs /\ t \in Touched(f) /\ f.todo[1].resultTabs = tab[t].resultTabs
  <2>1. Good(f) /\ f.todo # <<>>
    BY <1>0, <1>1 DEF FlowInv, Good, OfTabs
  <2>2. 1 \in 1..Len(f.todo) /\ t \in Tabs /\ t \in Touched(f)
    BY <1>0, <2>1, FlowFacts
  <2> QED BY <2>1, <2>2 DEF Good, Current
<1>3. Disposed(Has(t))
  BY <1>1, <1>2 DEF Has
<1>4. Len(f.todo) # 1 => h \in Flows /\ Good(h) /\ Touched(h) \subseteq Touched(f) \ {t}
  BY <1>1, TailGood
<1> HIDE DEF t, h
<1>5. /\ tab' \in [Tabs -> TabStates] /\ \A u \in Tabs \ {t} : tab'[u] = tab[u]
      /\ tab'[t] = ClosedTab
  BY <1>0, <1>1, <1>2, ClosedTabFacts DEF TypeInv
<1>6. Has(t)' = {} /\ \A u \in Tabs \ {t} : Has(u)' = Has(u)
  BY <1>5, ClosedTabFacts DEF Has
<1>7. /\ call' \in [Tabs -> Calls] /\ known' \subseteq Results
      /\ InCall(t)' => InCall(t)
      /\ call'[t].current => call[t].current
      /\ (InCall(t) /\ call[t].res \in Has(t)) => ~call'[t].current
  BY <1>0, <1>2, <1>3, DisposedFacts
<1>8. TypeInv'
  <2>1. flows' \subseteq Flows
    BY <1>0, <1>1, <1>4 DEF TypeInv
  <2> QED BY <1>0, <1>1, <1>5, <1>7, <2>1 DEF TypeInv
<1>9. ResultInv'
  <2> SUFFICES /\ \A u, v \in Tabs : u # v => Has(u)' \cap Has(v)' = {}
               /\ \A u \in Tabs : tab'[u].activeResultTabId \in Has(u)' \cup {NoResult}
    BY DEF ResultInv
  <2>1. \A u, v \in Tabs : u # v => Has(u)' \cap Has(v)' = {}
    BY <1>0, <1>6 DEF ResultInv
  <2>2. \A u \in Tabs : tab'[u].activeResultTabId \in Has(u)' \cup {NoResult}
    BY <1>0, <1>5, <1>6, ClosedTabFacts DEF ResultInv
  <2> QED BY <2>1, <2>2
<1>10. CallInv'
  <2> SUFFICES ASSUME NEW u \in Tabs
               PROVE  /\ (InCall(u) /\ call[u].current)' =>
                           /\ tab'[u].open /\ tab'[u].runningExecutionId # "none"
                           /\ call'[u].res \in Has(u)' \cap running'
                      /\ (InCall(u) /\ tab[u].open)' => call'[u].current
                      /\ tab'[u].runningExecutionId # "none" => tab'[u].open /\ InCall(u)'
    BY DEF CallInv
  <2>1. CASE u # t
    <3>1. Has(t) \in SUBSET Has(t) /\ running \ Has(t) \subseteq running'
      BY <1>1
    <3> QED BY <1>2, <1>3, <1>5, <2>1, <3>1, OthersKeep
  <2>2. CASE u = t
    <3>1. ~(InCall(t)' /\ call'[t].current)
      BY <1>0, <1>2, <1>7 DEF CallInv
    <3> QED BY <1>5, <2>2, <3>1, ClosedTabFacts
  <2> QED BY <2>1, <2>2
<1>11. \A g \in flows \ {f} : Touched(g) \cap Touched(f) = {}
  BY <1>0 DEF ApartInv
<1>12. ASSUME NEW g \in flows' PROVE Good(g)'
  <2>1. g \in Flows /\ Good(g) /\ Touched(g) \subseteq Tabs \ {t}
    <3>1. CASE g \in flows \ {f}
      <4>1. Good(g)
        BY <1>0, <3>1 DEF FlowInv
      <4>2. g \in Flows /\ Touched(g) \subseteq Tabs
        BY <1>0, <3>1, FlowFacts
      <4> QED BY <1>2, <1>11, <3>1, <4>1, <4>2
    <3>2. CASE g = h /\ Len(f.todo) # 1
      <4>1. Touched(f) \subseteq Tabs
        BY <1>0, FlowFacts
      <4> QED BY <1>4, <3>2, <4>1
    <3> QED BY <1>1, <3>1, <3>2
  <2>2. \A u \in Touched(g) : tab'[u] = tab[u] /\ Has(u) \cap running' \subseteq running
    BY <1>1, <1>5, <2>1
  <2>3. \A u \in Tabs : tab'[u].open => tab[u].open
    BY <1>5, ClosedTabFacts
  <2> QED BY <1>0, <2>1, <2>2, <2>3, GoodFrame
<1>13. FlowInv'
  BY <1>12 DEF FlowInv
<1>14. ApartInv'
  <2> SUFFICES ASSUME NEW x \in flows', NEW y \in flows', x # y
               PROVE  Touched(x) \cap Touched(y) = {}
    BY DEF ApartInv, Touched
  <2>1. \A a, b \in flows : a # b => Touched(a) \cap Touched(b) = {}
    BY <1>0 DEF ApartInv
  <2>2. x \in flows \ {f} \/ (x = h /\ Len(f.todo) # 1)
    BY <1>1
  <2>3. y \in flows \ {f} \/ (y = h /\ Len(f.todo) # 1)
    BY <1>1
  <2>4. CASE x \in flows \ {f} /\ y \in flows \ {f}
    BY <2>1, <2>4
  <2>5. CASE x \in flows \ {f} /\ y = h /\ Len(f.todo) # 1
    BY <1>4, <1>11, <2>5
  <2>6. CASE y \in flows \ {f} /\ x = h /\ Len(f.todo) # 1
    BY <1>4, <1>11, <2>6
  <2> QED BY <2>2, <2>3, <2>4, <2>5, <2>6
<1> QED BY <1>8, <1>9, <1>10, <1>13, <1>14 DEF TabInv

(* The workspace is left: every tab closes at once.                          *)
LEMMA LeaveKeeps ==
    ASSUME TabInv, NEW f \in flows, Leave(f)
    PROVE  TabInv'
<1> DEFINE rs == AllResults(f.todo)
<1>0. TypeInv /\ ResultInv /\ CallInv /\ FlowInv /\ ApartInv
  BY DEF TabInv
<1>1. /\ f.op \in Leaving /\ Disposed(rs) /\ tab' = [u \in Tabs |-> ClosedTab]
      /\ flows' = {} /\ session' = [u \in Tabs |-> 0] /\ opened' = opened
  BY DEF Leave, ClosedTab
<1>2. ASSUME NEW u \in Tabs, InCall(u), call[u].current PROVE call[u].res \in rs
  <2>1. u \in OpenTabs /\ call[u].res \in Has(u)
    BY <1>0, <1>2 DEF CallInv, OpenTabs
  <2>2. Good(f)
    BY <1>0 DEF FlowInv
  <2>3. u \in Touched(f)
    BY <1>1, <2>1, <2>2 DEF Good
  <2>4. Touched(f) = {f.todo[i].id : i \in 1..Len(f.todo)} /\ f.todo \in Seq(Captures)
    BY <1>0, FlowFacts
  <2>5. PICK i \in 1..Len(f.todo) : f.todo[i].id = u
    BY <2>3, <2>4
  <2>6. f.todo[i].resultTabs = tab[u].resultTabs /\ i \in DOMAIN f.todo
    BY <2>2, <2>4, <2>5 DEF Good, Current
  <2>7. call[u].res \in ResultsOf(f.todo[i])
    BY <2>1, <2>6 DEF Has, ResultsOf
  <2> QED BY <2>6, <2>7 DEF AllResults
<1> HIDE DEF rs
<1>3. /\ call' \in [Tabs -> Calls] /\ known' \subseteq Results
      /\ \A u \in Tabs : ~(InCall(u)' /\ call'[u].current)
  BY <1>0, <1>1, <1>2, DisposedFacts
<1>4. tab' \in [Tabs -> TabStates] /\ \A u \in Tabs : tab'[u] = ClosedTab
  BY <1>1, ClosedTabFacts
<1>5. TypeInv'
  BY <1>0, <1>1, <1>3, <1>4 DEF TypeInv
<1>6. \A u \in Tabs : Has(u)' = {}
  BY <1>4, ClosedTabFacts DEF Has
<1>7. ResultInv'
  BY <1>4, <1>6, ClosedTabFacts DEF ResultInv
<1>8. CallInv'
  BY <1>3, <1>4, ClosedTabFacts DEF CallInv
<1>9. FlowInv' /\ ApartInv'
  BY <1>1 DEF FlowInv, ApartInv
<1> QED BY <1>5, <1>7, <1>8, <1>9 DEF TabInv

----------------------------------------------------------------------------
(* The invariant holds when the workspace opens, ...                         *)
LEMMA InitTabs == Init => TabInv
<1> SUFFICES ASSUME Init PROVE TabInv
  OBVIOUS
<1> DEFINE fresh == [open |-> TRUE, resultTabs |-> <<>>, activeResultTabId |-> NoResult,
                     runningExecutionId |-> "none", sessionId |-> 0, inTransaction |-> FALSE]
<1>0. /\ tab = [t \in Tabs |-> fresh] /\ known = {} /\ call = [t \in Tabs |-> NoCall]
      /\ flows = {} /\ session = [t \in Tabs |-> 0] /\ opened = 0
  BY DEF Init
<1>1. fresh \in TabStates /\ fresh.resultTabs = <<>> /\ fresh.activeResultTabId = NoResult
      /\ fresh.runningExecutionId = "none"
  BY DEF TabStates, Shown, Marks
<1>2. NoCall \in Calls
  BY DEF NoCall, Calls, Shown
<1> HIDE DEF fresh
<1>3. TypeInv
  BY <1>0, <1>1, <1>2 DEF TypeInv
<1>4. \A t \in Tabs : tab[t] = fresh /\ call[t] = NoCall
  BY <1>0
<1>5. Range(<<>>) = {}
  BY DEF Range
<1>6. \A t \in Tabs : Has(t) = {} /\ ~InCall(t)
  BY <1>1, <1>4, <1>5 DEF Has, InCall
<1>7. ResultInv
  BY <1>1, <1>4, <1>6 DEF ResultInv
<1>8. CallInv
  BY <1>1, <1>4, <1>6 DEF CallInv
<1>9. FlowInv /\ ApartInv
  BY <1>0 DEF FlowInv, ApartInv
<1> QED BY <1>3, <1>7, <1>8, <1>9 DEF TabInv

(* ... and every step keeps it.                                              *)
LEMMA NextTabs ==
    ASSUME Patient, TabInv, [Next]_vars
    PROVE  TabInv'
<1>1. CASE UNCHANGED vars
  <2>1. Still /\ flows' = flows /\ session' = session /\ opened' = opened
    BY <1>1 DEF vars, Still
  <2> QED BY <2>1, EndKeeps DEF TabInv, TypeInv
<1>2. ASSUME NEW t \in Tabs, CloseTabs({t}) PROVE TabInv'
  BY <1>2, CloseTabsKeeps
<1>3. CASE CloseTabs(Tabs)
  BY <1>3, SessionsAssumption, CloseTabsKeeps
<1>4. CASE ChangeDatabase \/ Reconnect \/ Disconnect("disconnect") \/ Quit
  BY <1>4, LeavingKeeps
<1>5. ASSUME NEW t \in Tabs,
             \/ ResultActivated(t) \/ ResultCycled(t) \/ PinToggled(t) \/ EditOrSave(t)
             \/ Run(t, "replace") \/ Run(t, "new-result") \/ RefreshResult(t)
             \/ Accepted(t) \/ Started(t) \/ Terminal(t) \/ Refused(t) \/ Answered(t)
             \/ CloseResult(t)
      PROVE  TabInv'
  BY <1>5, ShowKeeps, EditKeeps, RunKeeps, RefreshKeeps, AcceptedKeeps, StartedKeeps, EndedKeeps,
     AnsweredKeeps, CloseResultKeeps
<1>6. ASSUME NEW f \in flows,
             \/ RunConfirmed(f) \/ RefreshConfirmed(f) \/ CloseSession(f) \/ ReleaseOfTab(f)
             \/ TabCloses(f) \/ ReleaseOfResult(f) \/ ResultCloses(f)
             \/ LeaveFails(f) \/ Leave(f) \/ Consent(f) \/ Decline(f)
      PROVE  TabInv'
  BY <1>6, RunConfirmedKeeps, RefreshConfirmedKeeps, WaitKeeps, TabClosesKeeps, ResultClosesKeeps, LeaveKeeps
<1> QED BY <1>1, <1>2, <1>3, <1>4, <1>5, <1>6 DEF Next

(* When the user leaves alone what is being closed, a tab marked as running  *)
(* has an outcome to come that takes the mark away, and the rows of an       *)
(* execution of an open tab belong to a result that tab shows: whatever      *)
(* closes, runs, reloads, leaves and answers in between (start() of          *)
(* queryChannel.ts, runQuery, closeQueryTabs and closeResultTab of           *)
(* WorkspacePage.tsx), for any number of tabs, results and sessions.         *)
THEOREM TabsTellTheTruth ==
    ASSUME Patient
    PROVE  Spec => []RunningIsTrue
<1>1. Init => TabInv
  BY InitTabs
<1>2. TabInv /\ [Next]_vars => TabInv'
  BY NextTabs
<1>3. TabInv => RunningIsTrue
  <2> SUFFICES ASSUME TabInv PROVE RunningIsTrue
    OBVIOUS
  <2>1. ASSUME NEW t \in OpenTabs, tab[t].runningExecutionId # "none"
        PROVE  call[t] # NoCall /\ call[t].current /\ ~call[t].ended
    BY <2>1 DEF TabInv, CallInv, OpenTabs, InCall
  <2>2. ASSUME NEW t \in OpenTabs, InCall(t) PROVE call[t].res \in Range(tab[t].resultTabs)
    BY <2>2 DEF TabInv, CallInv, OpenTabs, Has
  <2> QED BY <2>1, <2>2 DEF RunningIsTrue, RunningWillEnd, RunningIsShown
<1> QED BY <1>1, <1>2, <1>3, PTL DEF Spec

(* No step interrupts a tab or drops edits without having asked.             *)
LEMMA NextLoses ==
    ASSUME TabInv, ~lost, [Next]_vars
    PROVE  ~lost'
<1>1. CASE UNCHANGED vars
  BY <1>1 DEF vars
<1>2. ASSUME NEW f \in flows, Leave(f) PROVE ~lost'
  <2>1. lost' = (lost \/ (f.op = "switch" /\ Interrupted))
    BY <1>2 DEF Leave
  <2>2. ASSUME f.op = "switch", Interrupted PROVE FALSE
    <3>1. PICK t \in OpenTabs : tab[t].inTransaction \/ (InCall(t) /\ call[t].current)
      BY <2>2 DEF Interrupted
    <3>2. tab[t].runningExecutionId = "none" /\ ~tab[t].inTransaction
      BY <2>2 DEF TabInv, FlowInv, Good
    <3> QED BY <3>1, <3>2 DEF TabInv, CallInv, OpenTabs
  <2> QED BY <2>1, <2>2
<1>3. ASSUME NEW t \in Tabs, RefreshResult(t) PROVE ~lost'
  <2>1. CASE RefreshAllowed(tab[t].activeResultTabId)
    BY <1>3, <2>1 DEF RefreshResult, RefreshAllowed
  <2>2. CASE ~RefreshAllowed(tab[t].activeResultTabId)
    BY <1>3, <2>2 DEF RefreshResult
  <2> QED BY <2>1, <2>2
<1>4. ASSUME NEW t \in Tabs,
             \/ ResultActivated(t) \/ ResultCycled(t) \/ PinToggled(t) \/ EditOrSave(t)
             \/ Run(t, "replace") \/ Run(t, "new-result") \/ CloseResult(t) \/ CloseTabs({t})
      PROVE  ~lost'
  BY <1>4 DEF ResultActivated, ResultCycled, PinToggled, EditOrSave, Run, CloseResult, CloseTabs
<1>5. ASSUME NEW t \in Tabs, Accepted(t) \/ Started(t) \/ Terminal(t) \/ Refused(t) \/ Answered(t)
      PROVE  ~lost'
  BY <1>5 DEF Accepted, Started, Terminal, Refused, Answered
<1>6. CASE CloseTabs(Tabs) \/ ChangeDatabase \/ Reconnect \/ Disconnect("disconnect") \/ Quit
  BY SMTT(60), <1>6 DEF CloseTabs, ChangeDatabase, Reconnect, Disconnect, Quit
<1>7. ASSUME NEW f \in flows,
             \/ RunConfirmed(f) \/ RefreshConfirmed(f) \/ CloseSession(f) \/ ReleaseOfTab(f)
             \/ TabCloses(f) \/ ReleaseOfResult(f) \/ ResultCloses(f)
      PROVE  ~lost'
  BY <1>7 DEF RunConfirmed, RefreshConfirmed, CloseSession, ReleaseOfTab, TabCloses, ReleaseOfResult, ResultCloses
<1>8. ASSUME NEW f \in flows, LeaveFails(f) \/ Consent(f) \/ Decline(f) PROVE ~lost'
  BY <1>8 DEF LeaveFails, Consent, Decline
<1> QED BY <1>1, <1>2, <1>3, <1>4, <1>5, <1>6, <1>7, <1>8 DEF Next

(* When the user leaves alone what is being closed, a change of database     *)
(* that goes through ends no execution and no open transaction of a tab:     *)
(* what it checked before saving the workspace is still so when the backend  *)
(* answers (changeDatabase of WorkspacePage.tsx); and a refresh that was not *)
(* asked about drops no edits.                                               *)
THEOREM NothingIsLost ==
    ASSUME Patient
    PROVE  Spec => []NothingLostUnasked
<1>1. Init => TabInv /\ ~lost
  <2>1. Init => ~lost
    BY DEF Init
  <2> QED BY <2>1, InitTabs
<1>2. TabInv /\ ~lost /\ [Next]_vars => TabInv' /\ ~lost'
  BY NextTabs, NextLoses
<1>3. TabInv /\ ~lost => NothingLostUnasked
  BY DEF NothingLostUnasked
<1> QED BY <1>1, <1>2, <1>3, PTL DEF Spec

=============================================================================
