---------------------------- MODULE DraftsProofs ----------------------------
(***************************************************************************)
(* Drafts and saved queries, for any number of workspaces, saved queries,  *)
(* texts and queued saves: what the run of Drafts checks on two workspaces *)
(* and one saved query holds for all of them.                              *)
(***************************************************************************)
EXTENDS Drafts, TLAPS

Drafted == Texts \cup {Empty}
Ids == Queries \cup {NoQuery}
Shown == [sql : Drafted, savedQueryId : Ids]
Tabs == Shown \cup {NoDrafts}
Lists == UNION {[D -> Texts] : D \in SUBSET Queries}
Snaps == [drafts : [Profiles -> Tabs], queries : Lists]
Thens == [kind : {"auto", "leave", "list", "query"}, tab : Profiles \cup {Nobody}, query : Ids,
          sql : Drafted, previous : Drafted, before : Lists]
Writes == [snap : Snaps, then : Thens]

TypeInv ==
    /\ disk \in Snaps
    /\ loaded \in {"no", "yes", "failed"}
    /\ open \subseteq Profiles
    /\ leaving \subseteq Profiles
    /\ draft \in [Profiles -> Drafted]
    /\ bound \in [Profiles -> Ids]
    /\ own \in [Profiles -> Owners]
    /\ entries \in Lists
    /\ chain \in Seq(Writes)
    /\ had \in [Profiles -> Tabs]
    /\ seen \subseteq Profiles

(* Nothing is queued before the snapshot was read, and nothing is listed.    *)
LoadInv ==
    /\ loaded = "no" => open = {}
    /\ loaded # "yes" => chain = <<>> /\ DOMAIN entries = {}
    /\ open \subseteq seen
    /\ leaving \subseteq open

(* A profile not opened yet has the same drafts in the file and in every     *)
(* save that is still to be written.                                         *)
UnopenedInv ==
    \A p \in Profiles \ seen :
      /\ disk.drafts[p] = had[p]
      /\ \A i \in 1..Len(chain) : chain[i].snap.drafts[p] = had[p]

(* Unless a save is due, the last one there was has the tabs as they are.    *)
SavedInv ==
    (loaded = "yes" /\ ~timer) =>
      IF chain = <<>> THEN ~error => \A p \in open : disk.drafts[p] = TabOf(p)
      ELSE \A p \in open : chain[Len(chain)].snap.drafts[p] = TabOf(p)

(* A workspace is left once, and is open until then.                         *)
LeaveInv ==
    \A i \in 1..Len(chain) : chain[i].then.kind = "leave" =>
      /\ chain[i].then = Leave(chain[i].then.tab)
      /\ chain[i].then.tab \in open \ leaving
      /\ \A j \in 1..Len(chain) : chain[j].then = chain[i].then => i = j

(* The user's text is in the save that leaving waits for, in those after it  *)
(* and then in the file.                                                     *)
KeptInv ==
    \A p \in open : own[p] = "user" =>
      /\ p \in leaving => /\ disk.drafts[p].sql = draft[p]
                          /\ \A j \in 1..Len(chain) : chain[j].snap.drafts[p].sql = draft[p]
      /\ \A i \in 1..Len(chain) : chain[i].then = Leave(p) =>
           \A j \in i..Len(chain) : chain[j].snap.drafts[p].sql = draft[p]

DraftInv == TypeInv /\ LoadInv /\ UnopenedInv /\ SavedInv /\ LeaveInv /\ KeptInv

----------------------------------------------------------------------------
(* The list of saved queries in the file once i of the queued saves have been*)
(* written.                                                                  *)
ListAt(i) == IF i = 0 THEN disk.queries ELSE chain[i].snap.queries

(* What the save at i makes of the list.                                     *)
Overwrites(i) ==
    LET w == chain[i].then
    IN  /\ w.before = ListAt(i - 1)
        /\ w.tab \in Profiles /\ w.query \in Queries /\ w.sql \in Texts
        /\ DOMAIN ListAt(i) = DOMAIN ListAt(i - 1) \cup {w.query}
        /\ ListAt(i)[w.query] = w.sql
        /\ \A x \in DOMAIN ListAt(i - 1) : x # w.query => ListAt(i)[x] = ListAt(i - 1)[x]
        /\ w.query \in DOMAIN ListAt(i - 1) => w.previous = ListAt(i - 1)[w.query]

Shortens(i) ==
    /\ chain[i].then.before = ListAt(i - 1)
    /\ DOMAIN ListAt(i) \subseteq DOMAIN ListAt(i - 1)
    /\ \A x \in DOMAIN ListAt(i) : ListAt(i)[x] = ListAt(i - 1)[x]

ChangeInv ==
    \A i \in 1..Len(chain) :
      /\ chain[i].then.kind = "query" => Overwrites(i)
      /\ chain[i].then.kind = "list" => Shortens(i)
      /\ chain[i].then.kind \in {"auto", "leave"} => ListAt(i) = ListAt(i - 1)

ShownInv == loaded = "yes" => entries = ListAt(Len(chain))

(* An id that was removed does not come back in a queued save.               *)
RemovedInv ==
    loaded = "yes" =>
      \A i \in 0..Len(chain) : \A q \in DOMAIN ListAt(i) : q \in DOMAIN entries =>
        \A j \in i..Len(chain) : q \in DOMAIN ListAt(j)

(* A tab with the text of its saved query has it from the file or from a save*)
(* that is queued, and follows from there.                                   *)
FollowInv ==
    loaded = "yes" =>
      \A p \in open : (own[p] = "entry" /\ bound[p] \in DOMAIN entries) =>
        \E k \in 0..Len(chain) : /\ bound[p] \in DOMAIN ListAt(k)
                                 /\ draft[p] = ListAt(k)[bound[p]]

ListInv == ChangeInv /\ ShownInv /\ RemovedInv /\ FollowInv

----------------------------------------------------------------------------
(* The next-state relation, one disjunct for each kind of step.             *)
Stays == UNCHANGED vars
Steps ==
    \/ Load \/ AutoSave \/ Written \/ WriteFails \/ Restart \/ Stays
    \/ \E p \in Profiles : Open(p) \/ CloseTab(p) \/ SaveQueryTab(p) \/ Disconnect(p) \/ Left(p)
    \/ \E p \in Profiles, text \in Texts : Type(p, text)
    \/ \E p \in Profiles, q \in Queries : OpenSaved(p, q)
    \/ \E q \in Queries : RemoveQuery(q) \/ RenameQuery(q)

(* Every step is one of them.                                               *)
LEMMA StepsCover == [Next]_vars => Steps
  BY DEF Next, Steps, Stays

(* A list is a function from ids to texts.                                  *)
LEMMA ListFacts ==
    /\ NoEntries \in Lists /\ DOMAIN NoEntries = {}
    /\ \A l \in Lists : DOMAIN l \subseteq Queries /\ \A q \in DOMAIN l : l[q] \in Texts
    /\ \A D \in SUBSET Queries : \A l \in [D -> Texts] : l \in Lists
<1>1. NoEntries \in [{} -> Texts] /\ DOMAIN NoEntries = {}
  BY DEF NoEntries
<1>2. \A D \in SUBSET Queries : [D -> Texts] \subseteq Lists
  BY DEF Lists
<1>3. ASSUME NEW l \in Lists PROVE DOMAIN l \subseteq Queries /\ \A q \in DOMAIN l : l[q] \in Texts
  <2>1. PICK D \in SUBSET Queries : l \in [D -> Texts]
    BY DEF Lists
  <2> QED BY <2>1
<1> QED BY <1>1, <1>2, <1>3

(* What waits for a save has its type.                                      *)
LEMMA ThenFacts ==
    /\ Nothing \in Thens /\ Nothing.kind = "auto"
    /\ \A p \in Profiles : Leave(p) \in Thens /\ Leave(p).kind = "leave" /\ Leave(p).tab = p
    /\ \A l \in Lists : List(l) \in Thens /\ List(l).kind = "list" /\ List(l).before = l
  BY ListFacts DEF Nothing, Leave, List, Waiting, Thens, Ids, Drafted

(* buildSnapshot gives open profiles what their tabs show and the others     *)
(* what was read or written last.                                            *)
LEMMA SnapFacts ==
    ASSUME TypeInv, loaded = "yes", NEW list \in Lists
    PROVE  LET snap == BuildSnapshot(list)
           IN  /\ snap \in Snaps
               /\ snap.queries = list
               /\ \A p \in open : snap.drafts[p] = TabOf(p)
               /\ \A p \in Profiles \ open : snap.drafts[p] = disk.drafts[p]
<1>1. \A p \in Profiles : TabOf(p) \in Tabs
  BY DEF TypeInv, TabOf, Tabs, Shown
<1>2. \A p \in Profiles : disk.drafts[p] \in Tabs /\ Cached(p) = disk.drafts[p]
  BY DEF TypeInv, Snaps, Cached
<1> QED BY <1>1, <1>2 DEF BuildSnapshot, Snaps, TypeInv

(* saveWorkspaceNow puts one save at the end of the queue.                   *)
LEMMA SaveFacts ==
    ASSUME TypeInv, NEW list \in Lists, NEW then \in Thens, Save(list, then)
    PROVE  /\ loaded = "yes"
           /\ timer' = FALSE
           /\ chain' \in Seq(Writes)
           /\ Len(chain') = Len(chain) + 1
           /\ Len(chain) \in Nat
           /\ chain' # <<>>
           /\ \A i \in 1..Len(chain) : chain'[i] = chain[i]
           /\ chain'[Len(chain) + 1].then = then
           /\ chain'[Len(chain) + 1].snap.queries = list
           /\ \A p \in open : chain'[Len(chain) + 1].snap.drafts[p] = TabOf(p)
           /\ \A p \in Profiles \ open : chain'[Len(chain) + 1].snap.drafts[p] = disk.drafts[p]
<1> DEFINE w == [snap |-> BuildSnapshot(list), then |-> then]
<1>1. loaded = "yes" /\ timer' = FALSE /\ chain' = Append(chain, w)
  BY DEF Save
<1>2. w \in Writes /\ w.then = then /\ w.snap = BuildSnapshot(list)
  BY <1>1, SnapFacts DEF Writes
<1>3. /\ w.snap.queries = list
      /\ \A p \in open : w.snap.drafts[p] = TabOf(p)
      /\ \A p \in Profiles \ open : w.snap.drafts[p] = disk.drafts[p]
  BY <1>1, <1>2, SnapFacts
<1> HIDE DEF w
<1>4. chain \in Seq(Writes)
  BY DEF TypeInv
<1>5. /\ chain' \in Seq(Writes) /\ Len(chain') = Len(chain) + 1 /\ Len(chain) \in Nat
      /\ \A i \in 1..Len(chain) : chain'[i] = chain[i]
      /\ chain'[Len(chain) + 1] = w
  BY <1>1, <1>2, <1>4
<1>6. chain' # <<>>
  BY <1>1, <1>4
<1> QED BY <1>1, <1>2, <1>3, <1>5, <1>6

(* The first save of the queue, and those behind it.                         *)
LEMMA TailFacts ==
    ASSUME TypeInv, chain # <<>>
    PROVE  /\ Head(chain) = chain[1]
           /\ Head(chain) \in Writes
           /\ Head(chain).snap \in Snaps
           /\ Head(chain).then \in Thens
           /\ Len(chain) \in Nat /\ Len(chain) >= 1
           /\ Tail(chain) \in Seq(Writes)
           /\ Len(Tail(chain)) = Len(chain) - 1
           /\ \A i \in 1..Len(chain) - 1 : Tail(chain)[i] = chain[i + 1]
           /\ Tail(chain) = <<>> <=> Len(chain) = 1
<1>1. chain \in Seq(Writes)
  BY DEF TypeInv
<1>2. /\ Head(chain) = chain[1] /\ Head(chain) \in Writes
      /\ Len(chain) \in Nat /\ Len(chain) >= 1
      /\ Tail(chain) \in Seq(Writes)
      /\ Len(Tail(chain)) = Len(chain) - 1
      /\ \A i \in 1..Len(chain) - 1 : Tail(chain)[i] = chain[i + 1]
  BY <1>1
<1>3. Tail(chain) = <<>> <=> Len(chain) = 1
  BY <1>2
<1> QED BY <1>2, <1>3 DEF Writes

----------------------------------------------------------------------------
(* The draft and the binding that a workspace opens with.                    *)
LEMMA RestoredFacts ==
    ASSUME TypeInv, NEW p \in Profiles
    PROVE  Restored(p) \in Shown
<1>1. disk.drafts[p] \in Tabs
  BY DEF TypeInv, Snaps
<1>2. Cached(p) \in Tabs
  BY <1>1 DEF Cached, Tabs
<1> QED BY <1>2 DEF Restored, Tabs, Shown, Drafted, Ids

(* A list with one entry changed or removed.                                 *)
LEMMA ChangedList ==
    ASSUME NEW l \in Lists, NEW q \in Queries, NEW text \in Texts
    PROVE  /\ [x \in DOMAIN l \cup {q} |-> IF x = q THEN text ELSE l[x]] \in Lists
           /\ [x \in DOMAIN l \ {q} |-> l[x]] \in Lists
<1>1. DOMAIN l \subseteq Queries /\ \A x \in DOMAIN l : l[x] \in Texts
  BY ListFacts
<1> DEFINE D1 == DOMAIN l \cup {q}
           D2 == DOMAIN l \ {q}
           l1 == [x \in D1 |-> IF x = q THEN text ELSE l[x]]
           l2 == [x \in D2 |-> l[x]]
<1>2. D1 \in SUBSET Queries /\ D2 \in SUBSET Queries
  BY <1>1
<1>3. l1 \in [D1 -> Texts] /\ l2 \in [D2 -> Texts]
  BY <1>1
<1> HIDE DEF l1, l2
<1>4. l1 \in Lists /\ l2 \in Lists
  BY <1>2, <1>3, ListFacts
<1> QED BY <1>4 DEF l1, l2

(* saveQueryTab: the save it queues and the list it shows.                   *)
SavesQuery(p, q) ==
    /\ p \in open /\ Hands(p)
    /\ q \in Queries /\ draft[p] \in Texts
    /\ q \in DOMAIN entries \/ q \notin Referred
    /\ entries' \in Lists
    /\ DOMAIN entries' = DOMAIN entries \cup {q}
    /\ entries'[q] = draft[p]
    /\ \A x \in DOMAIN entries : x # q => entries'[x] = entries[x]
    /\ LET previous == IF q \in DOMAIN entries THEN entries[q] ELSE Empty
           w == Waiting("query", p, q, draft[p], previous, entries)
       IN  w \in Thens /\ Save(entries', w)
    /\ UNCHANGED <<disk, loaded, open, leaving, draft, bound, own, error, restarts, had, seen>>

(* saveQueryTab is such a step, whichever entry it saves to.                 *)
LEMMA SaveQueryFacts ==
    ASSUME TypeInv, NEW p \in Profiles, SaveQueryTab(p)
    PROVE  \E q \in Queries : SavesQuery(p, q)
<1>1. p \in open /\ Hands(p) /\ draft[p] # Empty
  BY DEF SaveQueryTab, Hands
<1>2. draft[p] \in Texts /\ draft[p] \in Drafted
  BY <1>1 DEF TypeInv, Drafted
<1>3. entries \in Lists /\ DOMAIN entries \subseteq Queries /\ \A x \in DOMAIN entries : entries[x] \in Texts
  BY ListFacts DEF TypeInv
<1> DEFINE Previous(q) == IF q \in DOMAIN entries THEN entries[q] ELSE Empty
           Changed(q) == [x \in DOMAIN entries \cup {q} |-> IF x = q THEN draft[p] ELSE entries[x]]
<1>4. PICK q \in IF bound[p] \in DOMAIN entries THEN {bound[p]} ELSE DOMAIN entries \cup (Queries \ Referred) :
        Commit(Changed(q), Waiting("query", p, q, draft[p], Previous(q), entries))
  BY DEF SaveQueryTab
<1>5. q \in Queries /\ (q \in DOMAIN entries \/ q \notin Referred)
  BY <1>3, <1>4
<1>6. entries' = Changed(q) /\ Save(Changed(q), Waiting("query", p, q, draft[p], Previous(q), entries))
  BY <1>4 DEF Commit
<1>7. Changed(q) \in Lists
  BY <1>2, <1>3, <1>5, ChangedList
<1>8. Previous(q) \in Drafted
  BY <1>3 DEF Drafted
<1>9. Waiting("query", p, q, draft[p], Previous(q), entries) \in Thens
  BY <1>2, <1>3, <1>5, <1>8 DEF Waiting, Thens, Ids
<1>10. /\ DOMAIN entries' = DOMAIN entries \cup {q}
       /\ entries'[q] = draft[p]
       /\ \A x \in DOMAIN entries : x # q => entries'[x] = entries[x]
  BY <1>6
<1>11. Save(entries', Waiting("query", p, q, draft[p], Previous(q), entries))
  BY <1>6
<1>12. UNCHANGED <<disk, loaded, open, leaving, draft, bound, own, error, restarts, had, seen>>
  BY DEF SaveQueryTab
<1> QED BY <1>1, <1>2, <1>5, <1>6, <1>7, <1>9, <1>10, <1>11, <1>12 DEF SavesQuery

(* remove and rename: the list they show, and the save.                      *)
ShortensList ==
    /\ entries' \in Lists
    /\ DOMAIN entries' \subseteq DOMAIN entries
    /\ \A x \in DOMAIN entries' : entries'[x] = entries[x]
    /\ Save(entries', List(entries))
    /\ UNCHANGED <<disk, loaded, open, leaving, draft, bound, own, error, restarts, had, seen>>

(* Both are: a rename keeps every entry, a removal all but one.              *)
LEMMA ShortenFacts ==
    ASSUME TypeInv, NEW q \in Queries, RemoveQuery(q) \/ RenameQuery(q)
    PROVE  ShortensList
<1>1. entries \in Lists
  BY DEF TypeInv
<1>2. CASE RenameQuery(q)
  <2>1. entries' = entries /\ Save(entries, List(entries))
    BY <1>2 DEF RenameQuery, Commit
  <2>2. UNCHANGED <<disk, loaded, open, leaving, draft, bound, own, error, restarts, had, seen>>
    BY <1>2 DEF RenameQuery
  <2> QED BY <1>1, <2>1, <2>2 DEF ShortensList
<1>3. CASE RemoveQuery(q)
  <2> DEFINE l == [x \in DOMAIN entries \ {q} |-> entries[x]]
  <2>1. entries' = l /\ Save(l, List(entries))
    BY <1>3 DEF RemoveQuery, Commit
  <2>2. UNCHANGED <<disk, loaded, open, leaving, draft, bound, own, error, restarts, had, seen>>
    BY <1>3 DEF RemoveQuery
  <2>3. l \in Lists
    BY <1>1, ChangedList, DraftsAssumption
  <2>4. DOMAIN l \subseteq DOMAIN entries /\ \A x \in DOMAIN l : l[x] = entries[x]
    OBVIOUS
  <2> HIDE DEF l
  <2> QED BY <2>1, <2>2, <2>3, <2>4 DEF ShortensList
<1> QED BY <1>2, <1>3

(* The steps that queue a save.                                              *)
Queues(then) ==
    /\ entries' \in Lists
    /\ then \in Thens
    /\ then.kind = "leave" => /\ then.tab \in Profiles
                              /\ then = Leave(then.tab)
                              /\ Hands(then.tab)
    /\ Save(entries', then)
    /\ UNCHANGED <<disk, loaded, open, leaving, draft, bound, own, error, had, seen>>

QueueStep ==
    \/ \E p \in Profiles : SaveQueryTab(p) \/ Disconnect(p)
    \/ \E q \in Queries : RemoveQuery(q) \/ RenameQuery(q)
    \/ AutoSave /\ loaded = "yes"

(* Each of them queues one save and changes nothing else but the list.       *)
LEMMA QueueFacts ==
    ASSUME TypeInv, QueueStep
    PROVE  \E then \in Thens : Queues(then)
<1>1. entries \in Lists
  BY DEF TypeInv
<1>2. CASE \E p \in Profiles : SaveQueryTab(p)
  <2>1. PICK p \in Profiles : SaveQueryTab(p)
    BY <1>2
  <2>2. PICK q \in Queries : SavesQuery(p, q)
    BY <2>1, SaveQueryFacts
  <2> DEFINE previous == IF q \in DOMAIN entries THEN entries[q] ELSE Empty
             w == Waiting("query", p, q, draft[p], previous, entries)
  <2>3. w \in Thens /\ Save(entries', w)
    BY <2>2 DEF SavesQuery
  <2>4. w.kind = "query"
    BY DEF Waiting
  <2>5. entries' \in Lists /\ UNCHANGED <<disk, loaded, open, leaving, draft, bound, own, error, had, seen>>
    BY <2>2 DEF SavesQuery
  <2> HIDE DEF w
  <2> QED BY <2>3, <2>4, <2>5 DEF Queues
<1>3. CASE \E p \in Profiles : Disconnect(p)
  <2>1. PICK p \in Profiles : Disconnect(p)
    BY <1>3
  <2>2. /\ Hands(p) /\ Save(entries, Leave(p)) /\ entries' = entries
        /\ UNCHANGED <<disk, loaded, open, leaving, draft, bound, own, error, had, seen>>
    BY <2>1 DEF Disconnect
  <2> QED BY <1>1, <2>2, ThenFacts DEF Queues
<1>4. CASE \E q \in Queries : RemoveQuery(q) \/ RenameQuery(q)
  <2>1. ShortensList
    BY <1>4, ShortenFacts
  <2> QED BY <1>1, <2>1, ThenFacts DEF ShortensList, Queues
<1>5. CASE AutoSave /\ loaded = "yes"
  <2>1. /\ Save(entries, Nothing) /\ entries' = entries
        /\ UNCHANGED <<disk, loaded, open, leaving, draft, bound, own, error, had, seen>>
    BY <1>5 DEF AutoSave, history
  <2> QED BY <1>1, <2>1, ThenFacts DEF Queues
<1> QED BY <1>2, <1>3, <1>4, <1>5 DEF QueueStep

(* The steps that leave the file, the list and the queue alone: the user's   *)
(* in a tab, a workspace that opens or is left, and a debounced save refused.*)
TabStep ==
    \/ \E p \in Profiles : Open(p) \/ CloseTab(p) \/ Left(p)
    \/ \E p \in Profiles, text \in Texts : Type(p, text)
    \/ \E p \in Profiles, q \in Queries : OpenSaved(p, q)
    \/ AutoSave /\ loaded # "yes"
    \/ Stays

(* They do leave them alone.                                                 *)
LEMMA TabStepFrame ==
    ASSUME TabStep
    PROVE  UNCHANGED <<disk, loaded, entries, chain, error, had>>
  BY DEF TabStep, Open, CloseTab, Left, Type, OpenSaved, AutoSave, Stays, vars, memory, history, Save

(* The kinds of steps that the proofs tell apart.                            *)
LEMMA StepKinds ==
    ASSUME [Next]_vars
    PROVE  Load \/ Written \/ WriteFails \/ Restart \/ QueueStep \/ TabStep
  BY StepsCover DEF Steps, QueueStep, TabStep

(* The first start.                                                          *)
LEMMA InitType == Init => TypeInv
<1> SUFFICES ASSUME Init PROVE TypeInv
  OBVIOUS
<1>1. (CHOOSE x \in Texts : TRUE) \in Texts
  BY DraftsAssumption
<1> DEFINE tab == [sql |-> CHOOSE x \in Texts : TRUE, savedQueryId |-> NoQuery]
<1>2. NoDrafts \in Tabs /\ tab \in Tabs
  BY <1>1 DEF Tabs, Shown, Drafted, Ids
<1>a. \/ disk = [drafts |-> [p \in Profiles |-> NoDrafts], queries |-> NoEntries]
      \/ disk = [drafts |-> [p \in Profiles |-> tab], queries |-> NoEntries]
  BY DEF Init
<1>b. NoEntries \in Lists
  BY ListFacts
<1> HIDE DEF tab
<1>3. disk \in Snaps
  BY <1>2, <1>a, <1>b DEF Snaps
<1>4. had \in [Profiles -> Tabs]
  BY <1>3 DEF Init, Snaps
<1> QED BY <1>3, <1>4, ListFacts DEF Init, TypeInv, Drafted, Ids, Owners

(* What a save that was written changes in the tabs: those that move to the  *)
(* text just saved, and the tab it was saved from.                           *)
Lands ==
    LET w == Head(chain).then
    IN  /\ \A x \in Profiles : \/ draft'[x] = draft[x]
                               \/ Moves(x, w.tab, w.query, w.previous) /\ draft'[x] = w.sql
        /\ \A x \in Profiles : own'[x] = "user" => own[x] = "user" /\ draft'[x] = draft[x]

(* What a save that was written leaves behind.                               *)
LEMMA WrittenFacts ==
    ASSUME TypeInv, Written
    PROVE  /\ chain # <<>>
           /\ disk' = chain[1].snap
           /\ chain' = Tail(chain)
           /\ chain' \in Seq(Writes)
           /\ Len(chain) \in Nat /\ Len(chain) >= 1
           /\ Len(chain') = Len(chain) - 1
           /\ \A i \in 1..Len(chain) - 1 : chain'[i] = chain[i + 1]
           /\ chain' = <<>> <=> Len(chain) = 1
           /\ Head(chain) = chain[1] /\ chain[1].then \in Thens /\ chain[1].snap \in Snaps
           /\ UNCHANGED <<loaded, open, entries, had, seen>>
           /\ leaving' = IF chain[1].then.kind = "leave" THEN leaving \cup {chain[1].then.tab} ELSE leaving
           /\ chain[1].then.kind # "query" => UNCHANGED <<bound, draft, own, timer>>
           /\ chain[1].then.kind = "query" => timer' = TRUE
           /\ draft' \in [Profiles -> Drafted]
           /\ bound' \in [Profiles -> Ids]
           /\ own' \in [Profiles -> Owners]
           /\ Lands
<1>1. chain # <<>> /\ chain' = Tail(chain) /\ disk' = Head(chain).snap
  BY DEF Written
<1>2. Head(chain) = chain[1] /\ chain[1].then \in Thens
  BY <1>1, TailFacts
<1> DEFINE w == chain[1].then
<1>3. /\ UNCHANGED <<loaded, open, entries, had, seen>>
      /\ leaving' = IF w.kind = "leave" THEN leaving \cup {w.tab} ELSE leaving
      /\ w.kind # "query" => UNCHANGED <<bound, draft, own, timer>>
      /\ w.kind = "query" => Saved(w.tab, w.query, w.sql, w.previous)
  BY <1>2 DEF Written, history
<1>4. w.sql \in Drafted /\ w.query \in Ids
  BY <1>2 DEF Thens
<1> HIDE DEF w
<1>5. CASE w.kind # "query"
  BY SMTT(60), <1>1, <1>2, <1>3, <1>5, TailFacts DEF TypeInv, Lands, w
<1>6. CASE w.kind = "query"
  <2>1. /\ bound' = IF w.tab \in open THEN [bound EXCEPT ![w.tab] = w.query] ELSE bound
        /\ draft' = [x \in Profiles |-> IF Moves(x, w.tab, w.query, w.previous) THEN w.sql ELSE draft[x]]
        /\ own' = [x \in Profiles |-> IF x = w.tab THEN OwnerAfter(w.tab, draft[w.tab] = w.sql)
                                      ELSE IF Moves(x, w.tab, w.query, w.previous) THEN "entry" ELSE own[x]]
        /\ timer' = TRUE
    BY <1>3, <1>6 DEF Saved
  <2>2. draft' \in [Profiles -> Drafted] /\ bound' \in [Profiles -> Ids]
    BY <1>4, <2>1 DEF TypeInv
  <2>4. OwnerAfter(w.tab, draft[w.tab] = w.sql) \in Owners /\ (OwnerAfter(w.tab, draft[w.tab] = w.sql) = "user" => own[w.tab] = "user")
    BY DEF OwnerAfter, Owners
  <2>5. own' \in [Profiles -> Owners]
    BY <2>1, <2>4 DEF TypeInv, Owners
  <2>6. \A x \in Profiles : own'[x] = "user" => own[x] = "user" /\ ~Moves(x, w.tab, w.query, w.previous)
    BY <2>1, <2>4 DEF Moves
  <2>7. Lands
    BY <1>2, <2>1, <2>6 DEF Lands, w
  <2> QED BY <1>1, <1>2, <1>3, <1>6, <2>1, <2>2, <2>5, <2>7, TailFacts DEF w
<1> QED BY <1>5, <1>6

(* What a save that failed changes.                                          *)
LEMMA FailsFacts ==
    ASSUME TypeInv, WriteFails
    PROVE  /\ chain # <<>>
           /\ chain' = Tail(chain)
           /\ chain' \in Seq(Writes)
           /\ Len(chain) \in Nat /\ Len(chain) >= 1
           /\ Len(chain') = Len(chain) - 1
           /\ \A i \in 1..Len(chain) - 1 : chain'[i] = chain[i + 1]
           /\ chain' = <<>> <=> Len(chain) = 1
           /\ chain[1].then \in Thens
           /\ UNCHANGED <<disk, loaded, open, leaving, draft, bound, timer, had, seen>>
           /\ error' = TRUE
           /\ entries' = Rollback(chain[1].then)
           /\ entries' \in Lists
           /\ own' \in [Profiles -> Owners]
           /\ \A p \in Profiles : own'[p] = "user" => own[p] = "user"
<1>1. chain # <<>> /\ chain' = Tail(chain) /\ entries' = Rollback(Head(chain).then)
  BY DEF WriteFails
<1>2. Head(chain) = chain[1] /\ chain[1].then \in Thens
  BY <1>1, TailFacts
<1>3. Rollback(chain[1].then) \in Lists
  BY <1>2 DEF Rollback, Thens, TypeInv
<1>4. own' \in [Profiles -> Owners] /\ \A p \in Profiles : own'[p] = "user" => own[p] = "user"
  BY DEF WriteFails, TypeInv, Owners
<1>5. UNCHANGED <<disk, loaded, open, leaving, draft, bound, timer, had, seen>> /\ error' = TRUE
  BY DEF WriteFails, history
<1> QED BY <1>1, <1>2, <1>3, <1>4, <1>5, TailFacts

(* What the steps in a tab keep of the types.                                *)
LEMMA TabFacts ==
    ASSUME TypeInv, TabStep
    PROVE  TypeInv'
<1>1. UNCHANGED <<disk, loaded, entries, chain, error, had>>
  BY TabStepFrame
<1>2. ASSUME NEW p \in Profiles, Open(p) PROVE TypeInv'
  <2>1. Restored(p).sql \in Drafted /\ Restored(p).savedQueryId \in Ids
    BY RestoredFacts DEF Shown
  <2> QED BY <1>1, <1>2, <2>1 DEF Open, TypeInv, Owners
<1>3. ASSUME NEW p \in Profiles, CloseTab(p) PROVE TypeInv'
  BY <1>1, <1>3 DEF CloseTab, TypeInv, Owners, Drafted, Ids
<1>4. ASSUME NEW p \in Profiles, Left(p) PROVE TypeInv'
  BY <1>1, <1>4 DEF Left, TypeInv, Owners, Drafted, Ids, history
<1>5. ASSUME NEW p \in Profiles, NEW text \in Texts, Type(p, text) PROVE TypeInv'
  BY <1>1, <1>5 DEF Type, TypeInv, Owners, Drafted
<1>6. ASSUME NEW p \in Profiles, NEW q \in Queries, OpenSaved(p, q) PROVE TypeInv'
  <2>1. q \in DOMAIN entries /\ entries \in Lists
    BY <1>6 DEF OpenSaved, TypeInv
  <2>2. entries[q] \in Drafted
    BY <2>1, ListFacts DEF Drafted
  <2> QED BY <1>1, <1>6, <2>2 DEF OpenSaved, TypeInv, Owners, Ids
<1>7. CASE AutoSave
  BY <1>1, <1>7 DEF AutoSave, TypeInv, history
<1>8. CASE Stays
  BY <1>1, <1>8 DEF Stays, TypeInv, vars, memory, history
<1> QED BY <1>2, <1>3, <1>4, <1>5, <1>6, <1>7, <1>8 DEF TabStep

(* Every step keeps the types.                                               *)
LEMMA TypeStep == TypeInv /\ LeaveInv /\ [Next]_vars => TypeInv'
<1> SUFFICES ASSUME TypeInv, LeaveInv, [Next]_vars PROVE TypeInv'
  OBVIOUS
<1>1. CASE Load
  <2>1. disk.queries \in Lists
    BY DEF TypeInv, Snaps
  <2> QED BY <1>1, <2>1 DEF Load, TypeInv, history
<1>2. CASE Written
  <2>1. chain[1].then.kind = "leave" => chain[1].then.tab \in Profiles
    BY <1>2, WrittenFacts DEF LeaveInv, TypeInv
  <2> QED BY <1>2, <2>1, WrittenFacts DEF TypeInv
<1>3. CASE WriteFails
  BY <1>3, FailsFacts DEF TypeInv
<1>4. CASE Restart
  <2>1. disk.drafts \in [Profiles -> Tabs]
    BY DEF TypeInv, Snaps
  <2> QED BY <1>4, <2>1, ListFacts DEF Restart, TypeInv, Drafted, Ids, Owners
<1>5. CASE QueueStep
  <2>1. PICK then \in Thens : Queues(then)
    BY <1>5, QueueFacts
  <2>2. chain' \in Seq(Writes)
    BY <2>1, SaveFacts DEF Queues
  <2> QED BY <2>1, <2>2 DEF Queues, TypeInv
<1>6. CASE TabStep
  BY <1>6, TabFacts
<1> QED BY <1>1, <1>2, <1>3, <1>4, <1>5, <1>6, StepKinds

----------------------------------------------------------------------------
(* The rest of the invariant at the first start.                             *)
LEMMA InitDraft == Init => DraftInv
<1> SUFFICES ASSUME Init PROVE DraftInv
  OBVIOUS
<1>1. TypeInv
  BY InitType
<1>2. chain = <<>> /\ open = {} /\ leaving = {} /\ loaded = "no" /\ had = disk.drafts /\ entries = NoEntries
  BY DEF Init
<1>3. Len(chain) = 0 /\ 1..Len(chain) = {}
  BY <1>2
<1> QED BY <1>1, <1>2, <1>3, ListFacts DEF DraftInv, LoadInv, UnopenedInv, SavedInv, LeaveInv, KeptInv

(* Queueing a save keeps the invariant of the drafts.                        *)
LEMMA QueueDraft ==
    ASSUME DraftInv, NEW then \in Thens, Queues(then)
    PROVE  LoadInv' /\ UnopenedInv' /\ SavedInv' /\ LeaveInv' /\ KeptInv'
<1> DEFINE n == Len(chain)
<1>1. /\ loaded = "yes" /\ Len(chain') = n + 1 /\ n \in Nat /\ chain' # <<>>
      /\ \A i \in 1..n : chain'[i] = chain[i]
      /\ chain'[n + 1].then = then
      /\ \A p \in open : chain'[n + 1].snap.drafts[p] = TabOf(p)
      /\ \A p \in Profiles \ open : chain'[n + 1].snap.drafts[p] = disk.drafts[p]
  BY SaveFacts DEF Queues, DraftInv
<1>2. UNCHANGED <<disk, loaded, open, leaving, draft, bound, own, error, had, seen>>
  BY DEF Queues
<1>3. open \subseteq Profiles /\ open \subseteq seen /\ leaving \subseteq open
  BY DEF DraftInv, TypeInv, LoadInv
<1>4. \A p \in Profiles : TabOf(p)' = TabOf(p) /\ TabOf(p).sql = draft[p]
  BY <1>2 DEF TabOf
<1> HIDE DEF n
<1>5. LoadInv'
  BY <1>1, <1>2 DEF DraftInv, LoadInv
<1>6. UnopenedInv'
  BY <1>1, <1>2, <1>3 DEF DraftInv, UnopenedInv, n
<1>7. SavedInv'
  BY <1>1, <1>2, <1>3, <1>4 DEF SavedInv
<1>8. LeaveInv'
  <2> SUFFICES ASSUME NEW i \in 1..n + 1, chain'[i].then.kind = "leave"
               PROVE  /\ chain'[i].then = Leave(chain'[i].then.tab)
                      /\ chain'[i].then.tab \in open \ leaving
                      /\ \A j \in 1..n + 1 : chain'[j].then = chain'[i].then => i = j
    BY <1>1, <1>2 DEF LeaveInv
  <2>1. then.kind = "leave" => /\ then = Leave(then.tab) /\ then.tab \in open \ leaving
                               /\ \A j \in 1..n : chain[j].then # then
    BY DEF Queues, Hands, n
  <2>2. CASE i = n + 1
    BY <1>1, <2>1, <2>2
  <2>3. CASE i \in 1..n
    BY SMTT(60), <1>1, <2>1, <2>3 DEF DraftInv, LeaveInv, n
  <2> QED BY <1>1, <2>2, <2>3
<1>9. KeptInv'
  <2> SUFFICES ASSUME NEW p \in open, own[p] = "user"
               PROVE  /\ p \in leaving => /\ disk.drafts[p].sql = draft[p]
                                          /\ \A j \in 1..n + 1 : chain'[j].snap.drafts[p].sql = draft[p]
                      /\ \A i \in 1..n + 1 : chain'[i].then = Leave(p) =>
                           \A j \in i..n + 1 : chain'[j].snap.drafts[p].sql = draft[p]
    BY <1>1, <1>2 DEF KeptInv, Leave
  <2>1. /\ p \in leaving => /\ disk.drafts[p].sql = draft[p]
                            /\ \A j \in 1..n : chain[j].snap.drafts[p].sql = draft[p]
        /\ \A i \in 1..n : chain[i].then = Leave(p) =>
             \A j \in i..n : chain[j].snap.drafts[p].sql = draft[p]
    BY DEF DraftInv, KeptInv, n
  <2>2. chain'[n + 1].snap.drafts[p].sql = draft[p]
    BY <1>1, <1>3, <1>4
  <2>3. ASSUME p \in leaving, NEW j \in 1..n + 1 PROVE chain'[j].snap.drafts[p].sql = draft[p]
    BY <1>1, <2>1, <2>2, <2>3
  <2>4. ASSUME NEW i \in 1..n + 1, chain'[i].then = Leave(p), NEW j \in i..n + 1
        PROVE  chain'[j].snap.drafts[p].sql = draft[p]
    BY <1>1, <2>1, <2>2, <2>4
  <2> QED BY <2>1, <2>3, <2>4
<1> QED BY <1>5, <1>6, <1>7, <1>8, <1>9

(* So do the outcomes of a save: written ...                                 *)
LEMMA WrittenDraft ==
    ASSUME DraftInv, Written
    PROVE  LoadInv' /\ UnopenedInv' /\ SavedInv' /\ LeaveInv' /\ KeptInv'
<1> DEFINE n == Len(chain)
           w == chain[1].then
<1>0. TypeInv
  BY DEF DraftInv
<1>1. /\ n \in Nat /\ n >= 1 /\ Len(chain') = n - 1 /\ chain # <<>>
      /\ \A i \in 1..n - 1 : chain'[i] = chain[i + 1]
      /\ chain' = <<>> <=> n = 1
      /\ disk' = chain[1].snap
  BY <1>0, WrittenFacts
<1>2. /\ UNCHANGED <<loaded, open, entries, had, seen>>
      /\ leaving' = IF w.kind = "leave" THEN leaving \cup {w.tab} ELSE leaving
      /\ w.kind # "query" => UNCHANGED <<bound, draft, own, timer>>
      /\ w.kind = "query" => timer' = TRUE
      /\ \A x \in Profiles : own'[x] = "user" => own[x] = "user" /\ draft'[x] = draft[x]
  BY <1>0, WrittenFacts DEF Lands
<1>3. open \subseteq Profiles /\ open \subseteq seen /\ leaving \subseteq open
  BY DEF DraftInv, TypeInv, LoadInv
<1>4. w.kind = "leave" => /\ w = Leave(w.tab) /\ w.tab \in open \ leaving
                          /\ \A j \in 1..n : chain[j].then = w => j = 1
  BY <1>1 DEF DraftInv, LeaveInv
<1> HIDE DEF n, w
<1>5. LoadInv'
  BY <1>1, <1>2, <1>4 DEF DraftInv, LoadInv
<1>6. UnopenedInv'
  BY <1>1, <1>2 DEF DraftInv, UnopenedInv, n
<1>7. SavedInv'
  <2>1. CASE w.kind = "query"
    BY <1>2, <2>1 DEF SavedInv
  <2>2. CASE w.kind # "query"
    <3> SUFFICES ASSUME loaded = "yes", ~timer
                 PROVE  IF n = 1 THEN \A p \in open : disk'.drafts[p] = TabOf(p)
                        ELSE \A p \in open : chain'[n - 1].snap.drafts[p] = TabOf(p)
      BY <1>1, <1>2, <2>2 DEF SavedInv, TabOf
    <3>1. \A p \in open : chain[n].snap.drafts[p] = TabOf(p)
      BY <1>1 DEF DraftInv, SavedInv, n
    <3> QED BY <1>1, <3>1
  <2> QED BY <2>1, <2>2
<1>8. LeaveInv'
  <2> SUFFICES ASSUME NEW i \in 1..n - 1, chain'[i].then.kind = "leave"
               PROVE  /\ chain'[i].then = Leave(chain'[i].then.tab)
                      /\ chain'[i].then.tab \in open \ leaving'
                      /\ \A j \in 1..n - 1 : chain'[j].then = chain'[i].then => i = j
    BY <1>1, <1>2 DEF LeaveInv
  <2>1. i + 1 \in 1..n /\ chain'[i] = chain[i + 1] /\ i + 1 # 1
    BY <1>1
  <2>2. /\ chain[i + 1].then = Leave(chain[i + 1].then.tab)
        /\ chain[i + 1].then.tab \in open \ leaving
        /\ \A j \in 1..n : chain[j].then = chain[i + 1].then => i + 1 = j
    BY <2>1 DEF DraftInv, LeaveInv, n
  <2>3. w.kind = "leave" => w.tab # chain[i + 1].then.tab
    BY <1>4, <2>1, <2>2
  <2>4. \A j \in 1..n - 1 : chain'[j].then = chain'[i].then => i = j
    BY SMTT(60), <1>1, <2>1, <2>2
  <2> QED BY <1>2, <2>1, <2>2, <2>3, <2>4
<1>9. KeptInv'
  <2> SUFFICES ASSUME NEW p \in open, own[p] = "user"
               PROVE  /\ p \in leaving' => /\ disk'.drafts[p].sql = draft[p]
                                           /\ \A j \in 1..n - 1 : chain'[j].snap.drafts[p].sql = draft[p]
                      /\ \A i \in 1..n - 1 : chain'[i].then = Leave(p) =>
                           \A j \in i..n - 1 : chain'[j].snap.drafts[p].sql = draft[p]
    BY <1>1, <1>2, <1>3 DEF KeptInv, Leave
  <2>1. /\ p \in leaving => \A j \in 1..n : chain[j].snap.drafts[p].sql = draft[p]
        /\ \A i \in 1..n : chain[i].then = Leave(p) =>
             \A j \in i..n : chain[j].snap.drafts[p].sql = draft[p]
    BY DEF DraftInv, KeptInv, n
  <2>2. ASSUME p \in leaving', NEW j \in 1..n PROVE chain[j].snap.drafts[p].sql = draft[p]
    <3>1. CASE p \in leaving
      BY <2>1, <3>1
    <3>2. CASE p \notin leaving
      <4>1. chain[1].then = Leave(p)
        BY <1>2, <1>4, <2>2, <3>2 DEF w
      <4> QED BY <1>1, <2>1, <4>1
    <3> QED BY <3>1, <3>2
  <2>3. ASSUME p \in leaving' PROVE /\ disk'.drafts[p].sql = draft[p]
                                    /\ \A j \in 1..n - 1 : chain'[j].snap.drafts[p].sql = draft[p]
    BY <1>1, <2>2, <2>3
  <2>4. ASSUME NEW i \in 1..n - 1, chain'[i].then = Leave(p), NEW j \in i..n - 1
        PROVE  chain'[j].snap.drafts[p].sql = draft[p]
    <3>1. i + 1 \in 1..n /\ j + 1 \in i + 1..n /\ chain'[i] = chain[i + 1] /\ chain'[j] = chain[j + 1]
      BY <1>1, <2>4
    <3> QED BY <2>1, <2>4, <3>1
  <2> QED BY <2>3, <2>4
<1> QED BY <1>5, <1>6, <1>7, <1>8, <1>9

(* ... or failed, with any number of saves behind it.                        *)
LEMMA FailsDraft ==
    ASSUME DraftInv, WriteFails
    PROVE  LoadInv' /\ UnopenedInv' /\ SavedInv' /\ LeaveInv' /\ KeptInv'
<1> DEFINE n == Len(chain)
<1>0. TypeInv
  BY DEF DraftInv
<1>1. /\ n \in Nat /\ n >= 1 /\ Len(chain') = n - 1 /\ chain # <<>>
      /\ \A i \in 1..n - 1 : chain'[i] = chain[i + 1]
      /\ chain' = <<>> <=> n = 1
  BY <1>0, FailsFacts
<1>2. /\ UNCHANGED <<disk, loaded, open, leaving, draft, bound, timer, had, seen>>
      /\ error' = TRUE
      /\ \A x \in Profiles : own'[x] = "user" => own[x] = "user"
  BY <1>0, FailsFacts
<1>3. open \subseteq Profiles
  BY DEF DraftInv, TypeInv
<1> HIDE DEF n
<1>5. LoadInv'
  BY <1>1, <1>2 DEF DraftInv, LoadInv
<1>6. UnopenedInv'
  BY SMTT(60), <1>1, <1>2 DEF DraftInv, UnopenedInv, n
<1>7. SavedInv'
  <2> SUFFICES ASSUME loaded = "yes", ~timer, n # 1
               PROVE  \A p \in open : chain'[n - 1].snap.drafts[p] = TabOf(p)
    BY <1>1, <1>2 DEF SavedInv, TabOf
  <2>1. \A p \in open : chain[n].snap.drafts[p] = TabOf(p)
    BY <1>1 DEF DraftInv, SavedInv, n
  <2> QED BY <1>1, <2>1
<1>8. LeaveInv'
  <2> SUFFICES ASSUME NEW i \in 1..n - 1, chain'[i].then.kind = "leave"
               PROVE  /\ chain'[i].then = Leave(chain'[i].then.tab)
                      /\ chain'[i].then.tab \in open \ leaving
                      /\ \A j \in 1..n - 1 : chain'[j].then = chain'[i].then => i = j
    BY <1>1, <1>2 DEF LeaveInv
  <2>1. i + 1 \in 1..n /\ chain'[i] = chain[i + 1] /\ i + 1 # 1
    BY <1>1
  <2>2. /\ chain[i + 1].then = Leave(chain[i + 1].then.tab)
        /\ chain[i + 1].then.tab \in open \ leaving
        /\ \A j \in 1..n : chain[j].then = chain[i + 1].then => i + 1 = j
    BY <2>1 DEF DraftInv, LeaveInv, n
  <2>3. \A j \in 1..n - 1 : chain'[j].then = chain'[i].then => i = j
    BY SMTT(60), <1>1, <2>1, <2>2
  <2> QED BY <2>1, <2>2, <2>3
<1>9. KeptInv'
  <2> SUFFICES ASSUME NEW p \in open, own[p] = "user"
               PROVE  /\ p \in leaving => /\ disk.drafts[p].sql = draft[p]
                                          /\ \A j \in 1..n - 1 : chain'[j].snap.drafts[p].sql = draft[p]
                      /\ \A i \in 1..n - 1 : chain'[i].then = Leave(p) =>
                           \A j \in i..n - 1 : chain'[j].snap.drafts[p].sql = draft[p]
    BY <1>1, <1>2, <1>3 DEF KeptInv, Leave
  <2>1. /\ p \in leaving => /\ disk.drafts[p].sql = draft[p]
                            /\ \A j \in 1..n : chain[j].snap.drafts[p].sql = draft[p]
        /\ \A i \in 1..n : chain[i].then = Leave(p) =>
             \A j \in i..n : chain[j].snap.drafts[p].sql = draft[p]
    BY DEF DraftInv, KeptInv, n
  <2>2. ASSUME p \in leaving, NEW j \in 1..n - 1 PROVE chain'[j].snap.drafts[p].sql = draft[p]
    BY SMTT(60), <1>1, <2>1, <2>2
  <2>3. ASSUME NEW i \in 1..n - 1, chain'[i].then = Leave(p), NEW j \in i..n - 1
        PROVE  chain'[j].snap.drafts[p].sql = draft[p]
    <3>1. i + 1 \in 1..n /\ j + 1 \in i + 1..n /\ chain'[i] = chain[i + 1] /\ chain'[j] = chain[j + 1]
      BY <1>1, <2>3
    <3> QED BY <2>1, <2>3, <3>1
  <2> QED BY <2>1, <2>2, <2>3
<1> QED BY <1>5, <1>6, <1>7, <1>8, <1>9

(* So do the steps in a tab: they change no tab that is being left, and what*)
(* they change is due to be saved.                                           *)
LEMMA TabDraft ==
    ASSUME DraftInv, TabStep
    PROVE  LoadInv' /\ UnopenedInv' /\ SavedInv' /\ LeaveInv' /\ KeptInv'
<1>1. UNCHANGED <<disk, loaded, entries, chain, error, had>>
  BY TabStepFrame
<1>2. /\ TypeInv /\ LoadInv /\ UnopenedInv /\ SavedInv /\ LeaveInv /\ KeptInv
      /\ open \subseteq Profiles /\ leaving \subseteq open /\ open \subseteq seen
      /\ draft \in [Profiles -> Drafted] /\ bound \in [Profiles -> Ids] /\ own \in [Profiles -> Owners]
  BY DEF DraftInv, TypeInv, LoadInv
<1>3. \A x \in Profiles : \A i \in 1..Len(chain) : chain[i].then = Leave(x) => x \in open \ leaving
  BY <1>2, ThenFacts DEF LeaveInv
<1>4. ASSUME NEW p \in Profiles, Open(p)
      PROVE  LoadInv' /\ UnopenedInv' /\ SavedInv' /\ LeaveInv' /\ KeptInv'
  <2>1. p \notin open /\ loaded # "no" /\ open' = open \cup {p} /\ seen' = seen \cup {p} /\ timer' = TRUE /\ leaving' = leaving
    BY <1>4 DEF Open
  <2>2. \A x \in Profiles \ {p} : draft'[x] = draft[x] /\ own'[x] = own[x]
    BY <1>2, <1>4 DEF Open
  <2>3. LoadInv'
    BY <1>1, <1>2, <2>1 DEF LoadInv
  <2>4. UnopenedInv'
    BY <1>1, <1>2, <2>1 DEF UnopenedInv
  <2>5. SavedInv'
    BY <2>1 DEF SavedInv
  <2>6. LeaveInv'
    BY <1>1, <1>2, <2>1 DEF LeaveInv
  <2>7. KeptInv'
    BY <1>1, <1>2, <1>3, <2>1, <2>2 DEF KeptInv
  <2> QED BY <2>3, <2>4, <2>5, <2>6, <2>7
<1>5. ASSUME NEW p \in Profiles, Hands(p), timer' = TRUE, UNCHANGED <<open, leaving, seen>>,
             \A x \in Profiles \ {p} : draft'[x] = draft[x] /\ own'[x] = own[x]
      PROVE  LoadInv' /\ UnopenedInv' /\ SavedInv' /\ LeaveInv' /\ KeptInv'
  <2>1. p \notin leaving /\ \A i \in 1..Len(chain) : chain[i].then # Leave(p)
    BY <1>2, <1>5 DEF Hands, TypeInv
  <2>2. LoadInv' /\ UnopenedInv' /\ SavedInv' /\ LeaveInv'
    BY <1>1, <1>2, <1>5 DEF LoadInv, UnopenedInv, SavedInv, LeaveInv
  <2>3. KeptInv'
    BY <1>1, <1>2, <1>5, <2>1 DEF KeptInv
  <2> QED BY <2>2, <2>3
<1>6. ASSUME NEW p \in Profiles, CloseTab(p)
      PROVE  LoadInv' /\ UnopenedInv' /\ SavedInv' /\ LeaveInv' /\ KeptInv'
  <2>1. Hands(p) /\ timer' = TRUE /\ UNCHANGED <<open, leaving, seen>>
    BY <1>6 DEF CloseTab
  <2>2. \A x \in Profiles \ {p} : draft'[x] = draft[x] /\ own'[x] = own[x]
    BY <1>2, <1>6 DEF CloseTab
  <2> QED BY <1>5, <2>1, <2>2
<1>7. ASSUME NEW p \in Profiles, NEW text \in Texts, Type(p, text)
      PROVE  LoadInv' /\ UnopenedInv' /\ SavedInv' /\ LeaveInv' /\ KeptInv'
  <2>1. Hands(p) /\ timer' = TRUE /\ UNCHANGED <<open, leaving, seen>>
    BY <1>7 DEF Type
  <2>2. \A x \in Profiles \ {p} : draft'[x] = draft[x] /\ own'[x] = own[x]
    BY <1>2, <1>7 DEF Type
  <2> QED BY <1>5, <2>1, <2>2
<1>8. ASSUME NEW p \in Profiles, NEW q \in Queries, OpenSaved(p, q)
      PROVE  LoadInv' /\ UnopenedInv' /\ SavedInv' /\ LeaveInv' /\ KeptInv'
  <2>1. Hands(p) /\ timer' = TRUE /\ UNCHANGED <<open, leaving, seen>>
    BY <1>8 DEF OpenSaved
  <2>2. \A x \in Profiles \ {p} : draft'[x] = draft[x] /\ own'[x] = own[x]
    BY <1>2, <1>8 DEF OpenSaved
  <2> QED BY <1>5, <2>1, <2>2
<1>9. ASSUME NEW p \in Profiles, Left(p)
      PROVE  LoadInv' /\ UnopenedInv' /\ SavedInv' /\ LeaveInv' /\ KeptInv'
  <2>1. p \in leaving /\ leaving' = leaving \ {p} /\ UNCHANGED <<timer, seen>>
    BY <1>9 DEF Left, history
  <2>2. \/ open' = open \ {p}
        \/ open' = open /\ draft' = draft /\ bound' = bound /\ own' = own
    BY <1>9 DEF Left
  <2>3. \A x \in Profiles \ {p} : draft'[x] = draft[x] /\ bound'[x] = bound[x] /\ own'[x] = own[x]
    BY <1>2, <1>9 DEF Left
  <2>4. \A x \in open' : draft'[x] = draft[x] /\ bound'[x] = bound[x] /\ own'[x] = own[x] /\ x \in open
    BY <1>2, <2>2, <2>3
  <2>5. LoadInv'
    BY <1>1, <1>2, <2>1, <2>2 DEF LoadInv
  <2>6. UnopenedInv'
    BY <1>1, <1>2, <2>1 DEF UnopenedInv
  <2>7. SavedInv'
    BY <1>1, <1>2, <2>1, <2>4 DEF SavedInv, TabOf
  <2>8. LeaveInv'
    BY <1>1, <1>2, <2>1, <2>2 DEF LeaveInv
  <2>9. KeptInv'
    BY <1>1, <1>2, <2>1, <2>4 DEF KeptInv
  <2> QED BY <2>5, <2>6, <2>7, <2>8, <2>9
<1>10. CASE AutoSave /\ loaded # "yes"
  <2>1. UNCHANGED <<open, leaving, draft, bound, own, seen>>
    BY <1>10 DEF AutoSave, history
  <2> QED BY <1>1, <1>2, <1>10, <2>1 DEF LoadInv, UnopenedInv, SavedInv, LeaveInv, KeptInv
<1>11. CASE Stays
  <2>1. UNCHANGED <<open, leaving, draft, bound, own, seen, timer>>
    BY <1>11 DEF Stays, vars, memory, history
  <2> QED BY <1>1, <1>2, <2>1 DEF LoadInv, UnopenedInv, SavedInv, LeaveInv, KeptInv, TabOf
<1> QED BY <1>4, <1>6, <1>7, <1>8, <1>9, <1>10, <1>11 DEF TabStep

(* Every step keeps the invariant of the drafts.                             *)
LEMMA DraftStep == DraftInv /\ [Next]_vars => DraftInv'
<1> SUFFICES ASSUME DraftInv, [Next]_vars PROVE DraftInv'
  OBVIOUS
<1>1. TypeInv'
  BY TypeStep DEF DraftInv
<1>2. CASE Load
  <2>1. /\ loaded = "no" /\ loaded' # "no" /\ UNCHANGED <<disk, open, leaving, draft, bound, own, chain, had, seen>>
        /\ loaded' # "yes" => entries' = entries
    BY <1>2 DEF Load, history
  <2>2. open = {} /\ leaving = {} /\ chain = <<>> /\ DOMAIN entries = {} /\ UnopenedInv /\ 1..Len(chain) = {}
    BY <2>1 DEF DraftInv, LoadInv
  <2> QED BY <1>1, <2>1, <2>2 DEF DraftInv, LoadInv, UnopenedInv, SavedInv, LeaveInv, KeptInv
<1>3. CASE Restart
  <2>1. /\ loaded' = "no" /\ open' = {} /\ leaving' = {} /\ entries' = NoEntries /\ chain' = <<>>
        /\ had' = disk.drafts /\ disk' = disk /\ seen' = {}
    BY <1>3 DEF Restart
  <2>2. Len(chain') = 0 /\ 1..Len(chain') = {}
    BY <2>1
  <2> QED BY <1>1, <2>1, <2>2, ListFacts DEF DraftInv, LoadInv, UnopenedInv, SavedInv, LeaveInv, KeptInv
<1>4. CASE QueueStep
  BY <1>1, <1>4, QueueFacts, QueueDraft DEF DraftInv
<1> QED BY <1>1, <1>2, <1>3, <1>4, WrittenDraft, FailsDraft, TabDraft, StepKinds DEF DraftInv

(* It holds in every behaviour, also when writes fail with others behind.    *)
LEMMA DraftInvHolds == Spec => []DraftInv
  BY InitDraft, DraftStep, PTL DEF Spec

(* buildSnapshot keeps what is cached of a profile without a workspace, and   *)
(* nothing is written when the snapshot could not be read: drafts of profiles *)
(* that were not opened are on disk as they were, whichever writes fail.      *)
THEOREM UnopenedDraftsStay == Spec => []UnopenedKeepsDrafts
<1>1. DraftInv => UnopenedKeepsDrafts
  BY DEF DraftInv, UnopenedInv, UnopenedKeepsDrafts
<1> QED BY <1>1, DraftInvHolds, PTL

(* The counters of what the user did and of the ends of the process.          *)
CountInv == ops \in Nat /\ restarts \in Nat

(* Every step keeps them numbers ...                                         *)
LEMMA CountStep == CountInv /\ [Next]_vars => CountInv'
<1> SUFFICES ASSUME CountInv, [Next]_vars PROVE CountInv'
  OBVIOUS
<1>1. UserDoes => ops' \in Nat
  BY DEF CountInv, UserDoes
<1>2. CASE Restart
  BY <1>2 DEF Restart, CountInv
<1>3. CASE Load \/ AutoSave \/ Written \/ WriteFails \/ Stays \/ \E p \in Profiles : Left(p)
  BY <1>3 DEF CountInv, Load, AutoSave, Written, WriteFails, Stays, Left, vars, history
<1>4. CASE \E p \in Profiles : Open(p) \/ CloseTab(p) \/ SaveQueryTab(p) \/ Disconnect(p)
  BY <1>1, <1>4 DEF CountInv, Open, CloseTab, SaveQueryTab, Disconnect
<1>5. CASE \E p \in Profiles, text \in Texts : Type(p, text)
  BY <1>1, <1>5 DEF CountInv, Type
<1>6. CASE \E p \in Profiles, q \in Queries : OpenSaved(p, q)
  BY <1>1, <1>6 DEF CountInv, OpenSaved
<1>7. CASE \E q \in Queries : RemoveQuery(q) \/ RenameQuery(q)
  BY <1>1, <1>7 DEF CountInv, RemoveQuery, RenameQuery
<1> QED BY <1>2, <1>3, <1>4, <1>5, <1>6, <1>7, StepsCover DEF Steps

(* ... so they always are.                                                   *)
LEMMA CountInvHolds == Spec => []CountInv
<1>1. Init => CountInv
  BY DEF Init, CountInv
<1> QED BY <1>1, CountStep, PTL DEF Spec

(* No step takes away the user's own text: a tab's draft changes without the  *)
(* user only in syncSavedQueryTabs, from what the entry had before, and a     *)
(* workspace goes (disconnect) only when its text is on disk.                 *)
THEOREM EditsStay == Spec => EditsAreKept
<1>1. ASSUME DraftInv, CountInv, [Next]_vars, NEW p \in Profiles,
             p \in open \cap open', draft'[p] # draft[p], ops' = ops, own[p] = "user"
      PROVE  bound[p] = Head(chain).then.query /\ draft[p] = Head(chain).then.previous
  <2>0. TypeInv /\ draft \in [Profiles -> Drafted]
    BY <1>1 DEF DraftInv, TypeInv
  <2>1. CASE Written
    <3>1. Lands
      BY <2>0, <2>1, WrittenFacts
    <3> DEFINE w == Head(chain).then
    <3>2. Moves(p, w.tab, w.query, w.previous)
      BY <1>1, <3>1 DEF Lands
    <3> QED BY <3>2 DEF Moves
  <2>2. CASE Load \/ WriteFails \/ Restart \/ QueueStep
    <3>1. QueueStep => draft' = draft
      BY <2>0, QueueFacts DEF Queues
    <3>2. (Load \/ WriteFails \/ Restart) => draft' = draft \/ open' = {}
      BY DEF Load, WriteFails, Restart
    <3> QED BY <1>1, <2>2, <3>1, <3>2
  <2>3. CASE TabStep
    <3>1. ASSUME UserDoes PROVE FALSE
      <4>1. ops' = ops + 1 /\ ops < MaxOps
        BY <3>1 DEF UserDoes
      <4> QED BY <1>1, <4>1 DEF CountInv
    <3>2. ASSUME NEW x \in Profiles, Left(x) PROVE FALSE
      <4>1. x # p => draft'[p] = draft[p]
        BY <2>0, <3>2 DEF Left
      <4>2. x \in open' => draft' = draft
        BY <3>2 DEF Left
      <4> QED BY <1>1, <4>1, <4>2
    <3>3. AutoSave \/ Stays => draft' = draft
      BY DEF AutoSave, Stays, vars, memory
    <3> QED BY <1>1, <2>3, <3>1, <3>2, <3>3 DEF TabStep, Open, CloseTab, Type, OpenSaved
  <2> QED BY <1>1, <2>1, <2>2, <2>3, StepKinds
<1>2. ASSUME DraftInv, CountInv, [Next]_vars, NEW p \in open \ open', restarts' = restarts, own[p] = "user"
      PROVE  disk.drafts[p].sql = draft[p]
  <2>0. TypeInv /\ p \in Profiles
    BY <1>2 DEF DraftInv, TypeInv
  <2>1. CASE Restart
    <3>1. restarts' = restarts + 1 /\ restarts < MaxRestarts
      BY <2>1 DEF Restart
    <3> QED BY <1>2, <3>1 DEF CountInv
  <2>2. CASE Load \/ Written \/ WriteFails \/ QueueStep
    <3>1. QueueStep => open' = open
      BY <2>0, QueueFacts DEF Queues
    <3> QED BY <1>2, <2>2, <3>1 DEF Load, Written, WriteFails
  <2>3. CASE TabStep
    <3>1. ASSUME NEW x \in Profiles, Left(x) PROVE disk.drafts[p].sql = draft[p]
      <4>1. x = p /\ p \in leaving
        BY <1>2, <3>1 DEF Left
      <4> QED BY <1>2, <4>1 DEF DraftInv, KeptInv
    <3>2. (\E x \in Profiles : Left(x)) \/ open \subseteq open'
      BY <2>3 DEF TabStep, Open, CloseTab, Type, OpenSaved, AutoSave, Stays, vars, memory
    <3> QED BY <1>2, <3>1, <3>2
  <2> QED BY <1>2, <2>1, <2>2, <2>3, StepKinds
<1>3. DraftInv /\ CountInv /\ [Next]_vars =>
        [\A p \in Profiles : (p \in open \cap open' /\ draft'[p] # draft[p] /\ ops' = ops) =>
           own[p] # "user" \/ (bound[p] = Head(chain).then.query /\ draft[p] = Head(chain).then.previous)]_vars
  BY <1>1
<1>4. DraftInv /\ CountInv /\ [Next]_vars =>
        [\A p \in open \ open' : (restarts' = restarts /\ own[p] = "user") => disk.drafts[p].sql = draft[p]]_vars
  BY <1>2
<1> QED BY <1>3, <1>4, DraftInvHolds, CountInvHolds, PTL DEF EditsAreKept, OwnEditsKept, LeavingKeepsDrafts, Spec

----------------------------------------------------------------------------
(* The lists of the queue behind a save that was added ...                   *)
LEMMA ListAtAppend ==
    ASSUME TypeInv, NEW then \in Thens, Queues(then)
    PROVE  /\ \A i \in 0..Len(chain) : ListAt(i)' = ListAt(i)
           /\ \A k \in Nat : k = Len(chain) + 1 => ListAt(k)' = entries'
           /\ Len(chain') = Len(chain) + 1 /\ Len(chain) \in Nat
<1>1. /\ Len(chain') = Len(chain) + 1 /\ Len(chain) \in Nat
      /\ \A i \in 1..Len(chain) : chain'[i] = chain[i]
      /\ chain'[Len(chain) + 1].snap.queries = entries'
      /\ disk' = disk
  BY SaveFacts DEF Queues
<1> QED BY <1>1 DEF ListAt

(* ... and when the first one has been written.                              *)
LEMMA ListAtTail ==
    ASSUME TypeInv, Written
    PROVE  \A i \in 0..Len(chain) - 1 : ListAt(i)' = ListAt(i + 1)
<1>1. /\ Len(chain) \in Nat /\ Len(chain) >= 1
      /\ \A i \in 1..Len(chain) - 1 : chain'[i] = chain[i + 1]
      /\ disk' = chain[1].snap
  BY WrittenFacts
<1> QED BY <1>1 DEF ListAt

(* Every list of the queue is one.                                           *)
LEMMA ListAtFacts ==
    ASSUME TypeInv
    PROVE  /\ Len(chain) \in Nat
           /\ \A i \in 0..Len(chain) : ListAt(i) \in Lists /\ \A q \in DOMAIN ListAt(i) : ListAt(i)[q] \in Texts
<1>a. Len(chain) \in Nat /\ \A i \in 1..Len(chain) : chain[i] \in Writes
  BY DEF TypeInv
<1>1. Len(chain) \in Nat /\ \A i \in 1..Len(chain) : chain[i].snap.queries \in Lists
  BY <1>a DEF Writes, Snaps
<1>2. disk.queries \in Lists
  BY DEF TypeInv, Snaps
<1>3. \A i \in 0..Len(chain) : ListAt(i) \in Lists
  BY <1>1, <1>2 DEF ListAt
<1> QED BY <1>1, <1>3, ListFacts

(* An id that is in a list of the queue is referred to.                      *)
LEMMA ListedIsReferred ==
    ASSUME TypeInv
    PROVE  /\ \A i \in 0..Len(chain) : DOMAIN ListAt(i) \subseteq Referred
           /\ \A p \in Profiles : bound[p] \in Referred
  BY DEF TypeInv, Referred, ListAt

(* A commit that is queued: the lists before it stay, the one it shows is the*)
(* last, and what it changes is what its kind says.                          *)
LEMMA QueueList ==
    ASSUME DraftInv, ListInv, NEW then \in Thens, Queues(then),
           then.kind \in {"auto", "leave"} => entries' = entries,
           then.kind = "list" => /\ then.before = entries
                                 /\ DOMAIN entries' \subseteq DOMAIN entries
                                 /\ \A x \in DOMAIN entries' : entries'[x] = entries[x],
           then.kind = "query" => /\ then.before = entries
                                  /\ then.tab \in Profiles /\ then.query \in Queries /\ then.sql \in Texts
                                  /\ then.query \in DOMAIN entries \/ then.query \notin Referred
                                  /\ DOMAIN entries' = DOMAIN entries \cup {then.query}
                                  /\ entries'[then.query] = then.sql
                                  /\ \A x \in DOMAIN entries : x # then.query => entries'[x] = entries[x]
                                  /\ then.query \in DOMAIN entries => then.previous = entries[then.query]
    PROVE  ListInv'
<1>0. TypeInv /\ Len(chain) \in Nat
  BY DEF DraftInv, TypeInv
<1> PICK n \in Nat : n = Len(chain)
  BY <1>0
<1>1. /\ n \in Nat /\ Len(chain') = n + 1
      /\ \A i \in 0..n : ListAt(i)' = ListAt(i)
      /\ ListAt(n + 1)' = entries'
  BY <1>0, ListAtAppend
<1>2. /\ loaded = "yes" /\ loaded' = loaded
      /\ \A i \in 1..n : chain'[i] = chain[i]
      /\ chain'[n + 1].then = then
      /\ UNCHANGED <<open, own, bound, draft>>
  BY <1>0, SaveFacts DEF Queues
<1>3. entries = ListAt(n)
  BY <1>2 DEF ListInv, ShownInv
<1>4. \A q \in DOMAIN entries' : \/ q \in DOMAIN entries
                                 \/ /\ \A i \in 0..n : q \notin DOMAIN ListAt(i)
                                    /\ \A p \in Profiles : bound[p] # q
  <2>1. \A q \in DOMAIN entries' : q \in DOMAIN entries \/ q \notin Referred
    BY DEF Thens
  <2> QED BY <1>0, <2>1, ListedIsReferred
<1>5. ShownInv'
  BY <1>1 DEF ShownInv
<1>6. ChangeInv'
  <2> SUFFICES ASSUME NEW i \in 1..n + 1
               PROVE  /\ chain'[i].then.kind = "query" => Overwrites(i)'
                      /\ chain'[i].then.kind = "list" => Shortens(i)'
                      /\ chain'[i].then.kind \in {"auto", "leave"} => ListAt(i)' = ListAt(i - 1)'
    BY <1>1 DEF ChangeInv
  <2>1. CASE i \in 1..n
    <3>1. chain'[i] = chain[i] /\ ListAt(i)' = ListAt(i) /\ ListAt(i - 1)' = ListAt(i - 1)
      BY <1>1, <1>2, <2>1
    <3>2. /\ chain[i].then.kind = "query" => Overwrites(i)
          /\ chain[i].then.kind = "list" => Shortens(i)
          /\ chain[i].then.kind \in {"auto", "leave"} => ListAt(i) = ListAt(i - 1)
      BY <2>1 DEF ListInv, ChangeInv
    <3> QED BY ZenonT(120), <3>1, <3>2 DEF Overwrites, Shortens
  <2>2. CASE i = n + 1
    <3>1. chain'[i].then = then /\ ListAt(i)' = entries' /\ ListAt(i - 1)' = entries
      BY <1>1, <1>2, <1>3, <2>2
    <3> QED BY <3>1 DEF Overwrites, Shortens
  <2> QED BY <1>1, <2>1, <2>2
<1>7. RemovedInv'
  <2> SUFFICES ASSUME NEW i \in 0..n + 1, NEW q \in DOMAIN ListAt(i)', q \in DOMAIN entries', NEW j \in i..n + 1
               PROVE  q \in DOMAIN ListAt(j)'
    BY <1>1 DEF RemovedInv
  <2>1. CASE j = n + 1
    BY <1>1, <2>1
  <2>2. CASE j \in i..n
    <3>1. i \in 0..n /\ j \in 0..n /\ q \in DOMAIN ListAt(i)
      BY <1>1, <2>2
    <3>2. q \in DOMAIN entries
      BY <1>4, <3>1
    <3>3. q \in DOMAIN ListAt(j)
      BY <1>2, <2>2, <3>1, <3>2 DEF ListInv, RemovedInv
    <3> QED BY <1>1, <3>1, <3>3
  <2> QED BY <1>1, <2>1, <2>2
<1>8. FollowInv'
  <2> SUFFICES ASSUME NEW p \in open, own[p] = "entry", bound[p] \in DOMAIN entries'
               PROVE  \E k \in 0..n + 1 : bound[p] \in DOMAIN ListAt(k)' /\ draft[p] = ListAt(k)'[bound[p]]
    BY <1>1, <1>2 DEF FollowInv
  <2>1. p \in Profiles
    BY <1>0 DEF TypeInv
  <2>2. bound[p] \in DOMAIN entries
    BY <1>4, <2>1
  <2>3. PICK k \in 0..n : bound[p] \in DOMAIN ListAt(k) /\ draft[p] = ListAt(k)[bound[p]]
    BY <1>2, <2>2 DEF ListInv, FollowInv
  <2> QED BY <1>1, <2>3
<1> QED BY <1>5, <1>6, <1>7, <1>8 DEF ListInv

(* The steps that queue a save are such commits.                             *)
LEMMA QueueStepList ==
    ASSUME DraftInv, ListInv, QueueStep
    PROVE  ListInv'
<1>0. TypeInv /\ entries \in Lists
  BY DEF DraftInv, TypeInv
<1>1. ASSUME NEW p \in Profiles, SaveQueryTab(p) PROVE ListInv'
  <2>1. PICK q \in Queries : SavesQuery(p, q)
    BY <1>0, <1>1, SaveQueryFacts
  <2> DEFINE previous == IF q \in DOMAIN entries THEN entries[q] ELSE Empty
             w == Waiting("query", p, q, draft[p], previous, entries)
  <2>2. w \in Thens /\ Save(entries', w)
    BY <2>1 DEF SavesQuery
  <2>3. w.kind = "query" /\ w.tab = p /\ w.query = q /\ w.sql = draft[p] /\ w.previous = previous /\ w.before = entries
    BY DEF Waiting
  <2>4. /\ entries' \in Lists
        /\ UNCHANGED <<disk, loaded, open, leaving, draft, bound, own, error, had, seen>>
        /\ draft[p] \in Texts
        /\ q \in DOMAIN entries \/ q \notin Referred
        /\ DOMAIN entries' = DOMAIN entries \cup {q}
        /\ entries'[q] = draft[p]
        /\ \A x \in DOMAIN entries : x # q => entries'[x] = entries[x]
    BY <2>1 DEF SavesQuery
  <2> HIDE DEF w
  <2>5. Queues(w)
    BY <2>2, <2>3, <2>4 DEF Queues
  <2> QED BY <2>2, <2>3, <2>4, <2>5, QueueList
<1>2. ASSUME NEW p \in Profiles, Disconnect(p) PROVE ListInv'
  <2>1. /\ Hands(p) /\ Save(entries, Leave(p)) /\ entries' = entries
        /\ UNCHANGED <<disk, loaded, open, leaving, draft, bound, own, error, had, seen>>
    BY <1>2 DEF Disconnect
  <2>2. Leave(p) \in Thens /\ Leave(p).kind = "leave" /\ Leave(p).tab = p
    BY ThenFacts
  <2>3. Queues(Leave(p))
    BY <1>0, <2>1, <2>2 DEF Queues
  <2> QED BY <2>1, <2>2, <2>3, QueueList
<1>3. ASSUME NEW q \in Queries, RemoveQuery(q) \/ RenameQuery(q) PROVE ListInv'
  <2>1. ShortensList
    BY <1>0, <1>3, ShortenFacts
  <2>2. List(entries) \in Thens /\ List(entries).kind = "list" /\ List(entries).before = entries
    BY <1>0, ThenFacts
  <2>3. Queues(List(entries))
    BY <2>1, <2>2 DEF Queues, ShortensList
  <2> QED BY <2>1, <2>2, <2>3, QueueList DEF ShortensList
<1>4. CASE AutoSave /\ loaded = "yes"
  <2>1. /\ Save(entries, Nothing) /\ entries' = entries
        /\ UNCHANGED <<disk, loaded, open, leaving, draft, bound, own, error, had, seen>>
    BY <1>4 DEF AutoSave, history
  <2>2. Nothing \in Thens /\ Nothing.kind = "auto"
    BY ThenFacts
  <2>3. Queues(Nothing)
    BY <1>0, <2>1, <2>2 DEF Queues
  <2> QED BY <2>1, <2>2, <2>3, QueueList
<1> QED BY <1>1, <1>2, <1>3, <1>4 DEF QueueStep

(* A tab that shows the text of its saved query in the file follows the save *)
(* that is written, so that it shows a text that is still queued or the one  *)
(* in the file.                                                              *)
LEMMA WrittenFollows ==
    ASSUME DraftInv, ListInv, Written, NEW x \in open, own'[x] = "entry", bound'[x] \in DOMAIN entries
    PROVE  \E k \in 1..Len(chain) : bound'[x] \in DOMAIN ListAt(k) /\ draft'[x] = ListAt(k)[bound'[x]]
<1> DEFINE n == Len(chain)
           w == chain[1].then
<1>0. TypeInv /\ x \in Profiles /\ draft \in [Profiles -> Drafted] /\ bound \in [Profiles -> Ids]
  BY DEF DraftInv, TypeInv
<1>1. /\ n \in Nat /\ n >= 1 /\ 1 \in 1..n /\ chain # <<>> /\ Head(chain) = chain[1] /\ w \in Thens
      /\ w.kind # "query" => UNCHANGED <<bound, draft, own>>
  BY <1>0, WrittenFacts
<1>2. loaded = "yes"
  BY <1>1 DEF DraftInv, LoadInv
<1>3. /\ w.kind = "query" => Overwrites(1)
      /\ w.kind = "list" => Shortens(1)
      /\ w.kind \in {"auto", "leave"} => ListAt(1) = ListAt(1 - 1)
  BY <1>1 DEF ListInv, ChangeInv
<1>4. w.kind \in {"auto", "leave", "list", "query"} /\ 1 - 1 = 0
  BY <1>1 DEF Thens
<1>5. ASSUME own[x] = "entry", bound[x] \in DOMAIN entries
      PROVE  \/ \E k \in 1..n : bound[x] \in DOMAIN ListAt(k) /\ draft[x] = ListAt(k)[bound[x]]
             \/ /\ bound[x] \in DOMAIN ListAt(0) /\ draft[x] = ListAt(0)[bound[x]]
                /\ bound[x] \in DOMAIN ListAt(1)
  <2>1. PICK k \in 0..n : bound[x] \in DOMAIN ListAt(k) /\ draft[x] = ListAt(k)[bound[x]]
    BY <1>2, <1>5 DEF ListInv, FollowInv
  <2>2. CASE k \in 1..n
    BY <2>1, <2>2
  <2>3. CASE k = 0
    <3>1. 0 \in 0..n /\ 1 \in 0..n
      BY <1>1
    <3>2. bound[x] \in DOMAIN ListAt(1)
      BY <1>2, <1>5, <2>1, <2>3, <3>1 DEF ListInv, RemovedInv
    <3> QED BY <2>1, <2>3, <3>2
  <2> QED BY <1>1, <2>2, <2>3
<1>6. CASE w.kind # "query"
  <2>1. own[x] = "entry" /\ bound'[x] = bound[x] /\ draft'[x] = draft[x]
    BY <1>1, <1>6
  <2>2. \A q \in DOMAIN ListAt(1) : ListAt(1)[q] = ListAt(0)[q]
    BY <1>3, <1>4, <1>6 DEF Shortens
  <2> QED BY <1>1, <1>5, <2>1, <2>2
<1>7. CASE w.kind = "query"
  <2>1. Saved(w.tab, w.query, w.sql, w.previous)
    BY <1>1, <1>7 DEF Written
  <2>2. /\ bound' = IF w.tab \in open THEN [bound EXCEPT ![w.tab] = w.query] ELSE bound
        /\ draft' = [y \in Profiles |-> IF Moves(y, w.tab, w.query, w.previous) THEN w.sql ELSE draft[y]]
        /\ own' = [y \in Profiles |-> IF y = w.tab THEN OwnerAfter(w.tab, draft[w.tab] = w.sql)
                                      ELSE IF Moves(y, w.tab, w.query, w.previous) THEN "entry" ELSE own[y]]
    BY <2>1 DEF Saved
  <2>3. /\ w.query \in DOMAIN ListAt(1) /\ ListAt(1)[w.query] = w.sql
        /\ \A q \in DOMAIN ListAt(0) : q # w.query => ListAt(1)[q] = ListAt(0)[q]
        /\ w.query \in DOMAIN ListAt(0) => w.previous = ListAt(0)[w.query]
    BY <1>3, <1>4, <1>7 DEF Overwrites
  <2> HIDE DEF w
  <2>4. CASE x = w.tab
    <3>1. draft[x] = w.sql
      <4>1. OwnerAfter(x, draft[x] = w.sql) = "entry"
        BY <1>0, <2>2, <2>4
      <4> QED BY <4>1 DEF OwnerAfter
    <3>2. bound'[x] = w.query /\ draft'[x] = w.sql
      BY <1>0, <2>2, <2>4, <3>1 DEF Moves
    <3> QED BY <1>1, <2>3, <3>2
  <2>5. CASE x # w.tab /\ Moves(x, w.tab, w.query, w.previous)
    <3>1. bound'[x] = w.query /\ draft'[x] = w.sql
      BY <1>0, <2>2, <2>5 DEF Moves
    <3> QED BY <1>1, <2>3, <3>1
  <2>6. CASE x # w.tab /\ ~Moves(x, w.tab, w.query, w.previous)
    <3>1. bound'[x] = bound[x] /\ draft'[x] = draft[x] /\ own[x] = "entry"
      BY <1>0, <2>2, <2>6
    <3>2. CASE \E k \in 1..n : bound[x] \in DOMAIN ListAt(k) /\ draft[x] = ListAt(k)[bound[x]]
      BY <3>1, <3>2
    <3>3. CASE bound[x] \in DOMAIN ListAt(0) /\ draft[x] = ListAt(0)[bound[x]] /\ bound[x] \in DOMAIN ListAt(1)
      <4>1. ListAt(0)[bound[x]] \in Texts
        BY <1>0, <1>1, <3>3, ListAtFacts
      <4>2. bound[x] # w.query
        BY <2>3, <2>6, <3>3, <4>1, DraftsAssumption DEF Moves, Empty
      <4> QED BY <1>1, <2>3, <3>1, <3>3, <4>2
    <3> QED BY <1>5, <3>1, <3>2, <3>3
  <2> QED BY <2>4, <2>5, <2>6
<1> QED BY <1>6, <1>7

(* The first save of the queue is written.                                   *)
LEMMA WrittenList ==
    ASSUME DraftInv, ListInv, Written
    PROVE  ListInv'
<1>0. TypeInv /\ Len(chain) \in Nat
  BY DEF DraftInv, TypeInv
<1> PICK n \in Nat : n = Len(chain)
  BY <1>0
<1>1. /\ n >= 1 /\ Len(chain') = n - 1 /\ chain # <<>>
      /\ \A i \in 1..n - 1 : chain'[i] = chain[i + 1]
      /\ UNCHANGED <<loaded, open, entries>>
  BY <1>0, WrittenFacts
<1>2. \A i \in 0..n - 1 : ListAt(i)' = ListAt(i + 1)
  BY <1>0, ListAtTail
<1>3. loaded = "yes" /\ entries = ListAt(n)
  BY <1>1 DEF DraftInv, LoadInv, ListInv, ShownInv
<1>4. ShownInv'
  <2>1. \A k \in Nat : k = n - 1 => ListAt(k)' = ListAt(n)
    BY <1>1, <1>2
  <2> QED BY <1>1, <1>3, <2>1 DEF ShownInv
<1>5. ChangeInv'
  <2> SUFFICES ASSUME NEW i \in 1..n - 1
               PROVE  /\ chain'[i].then.kind = "query" => Overwrites(i)'
                      /\ chain'[i].then.kind = "list" => Shortens(i)'
                      /\ chain'[i].then.kind \in {"auto", "leave"} => ListAt(i)' = ListAt(i - 1)'
    BY <1>1 DEF ChangeInv
  <2>1. PICK m \in 1..n : m = i + 1
    BY <1>1
  <2>2. chain'[i] = chain[m] /\ ListAt(i)' = ListAt(m) /\ ListAt(i - 1)' = ListAt(m - 1)
    <3>1. i - 1 \in 0..n - 1 /\ (i - 1) + 1 = m - 1 /\ i \in 0..n - 1
      BY <1>1, <2>1
    <3> QED BY <1>1, <1>2, <2>1, <3>1
  <2>3. /\ chain[m].then.kind = "query" => Overwrites(m)
        /\ chain[m].then.kind = "list" => Shortens(m)
        /\ chain[m].then.kind \in {"auto", "leave"} => ListAt(m) = ListAt(m - 1)
    BY DEF ListInv, ChangeInv
  <2> QED BY <2>2, <2>3 DEF Overwrites, Shortens
<1>6. RemovedInv'
  <2> SUFFICES ASSUME NEW i \in 0..n - 1, NEW q \in DOMAIN ListAt(i)', q \in DOMAIN entries, NEW j \in i..n - 1
               PROVE  q \in DOMAIN ListAt(j)'
    BY <1>1 DEF RemovedInv
  <2>1. ListAt(i)' = ListAt(i + 1) /\ ListAt(j)' = ListAt(j + 1) /\ i + 1 \in 0..n /\ j + 1 \in i + 1..n
    BY <1>1, <1>2
  <2>2. q \in DOMAIN ListAt(j + 1)
    BY <1>3, <2>1 DEF ListInv, RemovedInv
  <2> QED BY <2>1, <2>2
<1>7. FollowInv'
  <2> SUFFICES ASSUME NEW p \in open, own'[p] = "entry", bound'[p] \in DOMAIN entries
               PROVE  \E k \in 0..n - 1 : bound'[p] \in DOMAIN ListAt(k)' /\ draft'[p] = ListAt(k)'[bound'[p]]
    BY <1>1 DEF FollowInv
  <2>1. PICK k \in 1..n : bound'[p] \in DOMAIN ListAt(k) /\ draft'[p] = ListAt(k)[bound'[p]]
    BY WrittenFollows
  <2>2. PICK m \in 0..n - 1 : k = m + 1
    BY <1>1
  <2>3. ListAt(m)' = ListAt(k)
    BY <1>2, <2>2
  <2> QED BY <2>1, <2>2, <2>3
<1> QED BY <1>4, <1>5, <1>6, <1>7 DEF ListInv

(* The only save of the queue fails: the list of before is the file's.       *)
LEMMA FailsList ==
    ASSUME DraftInv, ListInv, WriteFails, Len(chain) = 1
    PROVE  ListInv'
<1> DEFINE w == chain[1].then
<1>0. TypeInv
  BY DEF DraftInv
<1>1. /\ chain # <<>> /\ chain' = <<>> /\ Len(chain') = 0 /\ w \in Thens /\ entries' = Rollback(w)
      /\ UNCHANGED <<disk, loaded, open, draft, bound>>
  BY <1>0, FailsFacts
<1>2. loaded = "yes" /\ entries = ListAt(1)
  BY <1>1 DEF DraftInv, LoadInv, ListInv, ShownInv
<1>3. /\ w.kind = "query" => Overwrites(1)
      /\ w.kind = "list" => Shortens(1)
      /\ w.kind \in {"auto", "leave"} => ListAt(1) = ListAt(1 - 1)
  BY DEF ListInv, ChangeInv
<1>4. ListAt(1 - 1) = disk.queries /\ w.kind \in {"auto", "leave", "list", "query"}
  BY <1>1 DEF ListAt, Thens
<1>5. entries' = disk.queries
  <2>1. w.kind \in {"query", "list"} => w.before = disk.queries
    BY <1>3, <1>4 DEF Overwrites, Shortens
  <2> QED BY <1>1, <1>2, <1>3, <1>4, <2>1 DEF Rollback
<1>6. \A k \in Nat : k = 0 => ListAt(k)' = entries'
  BY <1>1, <1>5 DEF ListAt
<1>7. \A p \in Profiles : (own'[p] = "entry" /\ bound[p] \in DOMAIN entries') => draft[p] = entries'[bound[p]]
  BY DEF WriteFails
<1>8. FollowInv'
  <2> SUFFICES ASSUME NEW p \in open, own'[p] = "entry", bound[p] \in DOMAIN entries'
               PROVE  \E k \in 0..0 : bound[p] \in DOMAIN ListAt(k)' /\ draft[p] = ListAt(k)'[bound[p]]
    BY <1>1 DEF FollowInv
  <2>1. p \in Profiles
    BY <1>0 DEF TypeInv
  <2> QED BY <1>6, <1>7, <2>1
<1>9. ShownInv' /\ ChangeInv' /\ RemovedInv'
  BY <1>1, <1>6 DEF ShownInv, ChangeInv, RemovedInv
<1> QED BY <1>8, <1>9 DEF ListInv

(* The steps in a tab leave the lists alone; a tab gets the text of a saved  *)
(* query from the list that is shown.                                        *)
LEMMA TabList ==
    ASSUME DraftInv, ListInv, TabStep
    PROVE  ListInv'
<1>0. /\ TypeInv /\ open \subseteq Profiles /\ Len(chain) \in Nat
      /\ draft \in [Profiles -> Drafted] /\ bound \in [Profiles -> Ids] /\ own \in [Profiles -> Owners]
  BY DEF DraftInv, TypeInv
<1>1. UNCHANGED <<disk, loaded, entries, chain>>
  BY TabStepFrame
<1>2. \A i \in 0..Len(chain) : ListAt(i)' = ListAt(i)
  BY <1>1 DEF ListAt
<1>3. ShownInv' /\ ChangeInv' /\ RemovedInv'
  <2>1. ShownInv'
    BY SMTT(60), <1>1 DEF ListInv, ShownInv, ListAt
  <2>2. ChangeInv'
    BY <1>1 DEF ListInv, ChangeInv, Overwrites, Shortens, ListAt
  <2>3. RemovedInv'
    BY <1>1 DEF ListInv, RemovedInv, ListAt
  <2> QED BY <2>1, <2>2, <2>3
<1>4. \A p \in open' : \/ own'[p] # "entry"
                       \/ p \in open /\ own'[p] = own[p] /\ bound'[p] = bound[p] /\ draft'[p] = draft[p]
                       \/ bound'[p] \in DOMAIN entries /\ draft'[p] = entries[bound'[p]]
  <2>1. ASSUME NEW p \in Profiles, Open(p) \/ CloseTab(p) PROVE own'[p] = "user"
    BY <1>0, <2>1 DEF Open, CloseTab
  <2>2. ASSUME NEW p \in Profiles, Open(p) \/ CloseTab(p), NEW x \in open', x # p
        PROVE  x \in open /\ own'[x] = own[x] /\ bound'[x] = bound[x] /\ draft'[x] = draft[x]
    BY <1>0, <2>2 DEF Open, CloseTab
  <2>3. ASSUME NEW p \in Profiles, Left(p), NEW x \in open'
        PROVE  x \in open /\ own'[x] = own[x] /\ bound'[x] = bound[x] /\ draft'[x] = draft[x]
    BY <1>0, <2>3 DEF Left
  <2>4. ASSUME NEW p \in Profiles, NEW text \in Texts, Type(p, text), NEW x \in open'
        PROVE  \/ own'[x] # "entry"
               \/ x \in open /\ own'[x] = own[x] /\ bound'[x] = bound[x] /\ draft'[x] = draft[x]
    BY <1>0, <2>4 DEF Type
  <2>5. ASSUME NEW p \in Profiles, NEW q \in Queries, OpenSaved(p, q), NEW x \in open'
        PROVE  \/ x \in open /\ own'[x] = own[x] /\ bound'[x] = bound[x] /\ draft'[x] = draft[x]
               \/ bound'[x] \in DOMAIN entries /\ draft'[x] = entries[bound'[x]]
    BY <1>0, <2>5 DEF OpenSaved
  <2>6. AutoSave \/ Stays => UNCHANGED <<open, own, bound, draft>>
    BY DEF AutoSave, Stays, vars, memory
  <2>7. ASSUME NEW p \in open', ~(own'[p] # "entry")
        PROVE  \/ p \in open /\ own'[p] = own[p] /\ bound'[p] = bound[p] /\ draft'[p] = draft[p]
               \/ bound'[p] \in DOMAIN entries /\ draft'[p] = entries[bound'[p]]
    BY <2>1, <2>2, <2>3, <2>4, <2>5, <2>6, <2>7 DEF TabStep
  <2> QED BY <2>7
<1>5. FollowInv'
  <2> SUFFICES ASSUME loaded = "yes", NEW p \in open', own'[p] = "entry", bound'[p] \in DOMAIN entries
               PROVE  \E k \in 0..Len(chain) : bound'[p] \in DOMAIN ListAt(k)' /\ draft'[p] = ListAt(k)'[bound'[p]]
    BY <1>1 DEF FollowInv
  <2>1. \E k \in 0..Len(chain) : bound'[p] \in DOMAIN ListAt(k) /\ draft'[p] = ListAt(k)[bound'[p]]
    <3>1. CASE p \in open /\ own'[p] = own[p] /\ bound'[p] = bound[p] /\ draft'[p] = draft[p]
      BY <3>1 DEF ListInv, FollowInv
    <3>2. CASE draft'[p] = entries[bound'[p]]
      BY <1>0, <3>2 DEF ListInv, ShownInv
    <3> QED BY <1>4, <3>1, <3>2
  <2> QED BY <1>2, <2>1
<1> QED BY <1>3, <1>5 DEF ListInv

(* Every step keeps the invariant of the lists, unless a write fails with    *)
(* others behind it.                                                         *)
LEMMA ListStep == ~AnyFails /\ DraftInv /\ ListInv /\ [Next]_vars => ListInv'
<1> SUFFICES ASSUME ~AnyFails, DraftInv, ListInv, [Next]_vars PROVE ListInv'
  OBVIOUS
<1>1. CASE Load
  <2>1. /\ loaded = "no" /\ (loaded' = "yes" => entries' = disk.queries)
        /\ UNCHANGED <<disk, open, chain>>
    BY <1>1 DEF Load
  <2>2. open = {} /\ chain = <<>> /\ Len(chain) = 0 /\ 1..Len(chain) = {}
    BY <2>1 DEF DraftInv, LoadInv
  <2>3. \A k \in Nat : k = 0 => ListAt(k)' = disk.queries
    BY <2>1 DEF ListAt
  <2> QED BY <2>1, <2>2, <2>3 DEF ListInv, ShownInv, ChangeInv, RemovedInv, FollowInv
<1>2. CASE Restart
  <2>1. loaded' = "no" /\ chain' = <<>> /\ Len(chain') = 0
    BY <1>2 DEF Restart
  <2> QED BY <2>1 DEF ListInv, ShownInv, ChangeInv, RemovedInv, FollowInv
<1>3. CASE WriteFails
  <2>1. Len(chain) = 1
    BY <1>3 DEF WriteFails
  <2> QED BY <1>3, <2>1, FailsList
<1> QED BY <1>1, <1>2, <1>3, WrittenList, QueueStepList, TabList, StepKinds

(* ... and holds in every behaviour.                                         *)
LEMMA ListInvHolds ==
    ASSUME ~AnyFails
    PROVE  Spec => []ListInv
<1>1. Init => ListInv
  <2> SUFFICES ASSUME Init PROVE ListInv
    OBVIOUS
  <2>1. loaded = "no" /\ chain = <<>> /\ Len(chain) = 0
    BY DEF Init
  <2> QED BY <2>1 DEF ListInv, ShownInv, ChangeInv, RemovedInv, FollowInv
<1>2. ListInv /\ DraftInv /\ [Next]_vars => ListInv'
  BY ListStep
<1> QED BY <1>1, <1>2, DraftInvHolds, PTL DEF Spec

(* Once nothing is queued or due, the file has the list of saved queries and, *)
(* unless an error is displayed, the draft and the binding of every open tab; *)
(* drafts of profiles not opened stay as they were (saveWorkspaceNow,         *)
(* buildSnapshot, commit), provided no write fails while others wait.         *)
THEOREM DraftsAreOnDisk ==
    ASSUME ~AnyFails
    PROVE  Spec => []DraftsSurvive
<1>1. DraftInv /\ ListInv => DraftsSurvive
  <2> SUFFICES ASSUME DraftInv, ListInv PROVE DraftsSurvive
    OBVIOUS
  <2>1. UnopenedKeepsDrafts
    BY DEF DraftInv, UnopenedInv, UnopenedKeepsDrafts
  <2>2. ASSUME Quiet PROVE entries = disk.queries /\ (~error => \A p \in open : disk.drafts[p] = TabOf(p))
    <3>1. loaded = "yes" /\ chain = <<>> /\ Len(chain) = 0 /\ ~timer
      BY <2>2 DEF Quiet
    <3>2. entries = disk.queries
      BY <3>1 DEF ListInv, ShownInv, ListAt
    <3> QED BY <3>1, <3>2 DEF DraftInv, SavedInv
  <2> QED BY <2>1, <2>2 DEF DraftsSurvive, QuietMeansSaved
<1> QED BY <1>1, DraftInvHolds, ListInvHolds, PTL

(* Once nothing is queued, a tab that has the text of its saved query, opened *)
(* from the list, saved to it or moved to it by syncSavedQueryTabs, shows what*)
(* the entry holds, whatever was saved, removed or rolled back in between.    *)
THEOREM TabsFollowTheirQuery ==
    ASSUME ~AnyFails
    PROVE  Spec => []BoundTabsFollow
<1>1. DraftInv /\ ListInv => BoundTabsFollow
  <2> SUFFICES ASSUME DraftInv, ListInv, chain = <<>>, NEW p \in open,
                      bound[p] \in DOMAIN entries, own[p] = "entry"
               PROVE  draft[p] = entries[bound[p]]
    BY DEF BoundTabsFollow
  <2>1. loaded = "yes"
    BY DEF DraftInv, LoadInv
  <2>2. Len(chain) = 0
    OBVIOUS
  <2>3. PICK k \in 0..Len(chain) : draft[p] = ListAt(k)[bound[p]]
    BY <2>1 DEF ListInv, FollowInv
  <2>4. k = 0 /\ entries = ListAt(0)
    BY <2>1, <2>2 DEF ListInv, ShownInv
  <2> QED BY <2>3, <2>4
<1> QED BY <1>1, DraftInvHolds, ListInvHolds, PTL

=============================================================================
