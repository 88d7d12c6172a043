---------------------------- MODULE Connections ----------------------------
(***************************************************************************)
(* Connection profiles and open connections: the home page (ConnectionsPage *)
(* .tsx) and the rail (AppShell.tsx) with their calls under way, profiles   *)
(* in memory, on disk and in the keychain (connection_service.rs,           *)
(* profiles.rs), and the workspaces of the core.                            *)
(*                                                                         *)
(* The profile commands are synchronous and run one at a time on the main   *)
(* thread; connection_open and connection_close are asynchronous and run    *)
(* between their critical sections.  What a page's call may change when its *)
(* answer comes depends on whether that page is still on the screen.  The   *)
(* list is a query of react-query: invalidating it fetches it again if the  *)
(* page is on the screen, and so does coming back to the page, unless a     *)
(* fetch is already under way.                                             *)
(***************************************************************************)
EXTENDS Integers, Sequences, FiniteSets, SequencesExt

CONSTANTS
    MaxProfiles,   \* Bound on the profiles; their ids are 1 .. MaxProfiles.
    None,
    MaxCalls,      \* Bound on the calls the user makes.
    MaxRestarts

VARIABLES
    store,      \* ProfileStore.profiles: records of id, version and has_stored_credential.
    file,       \* profiles.json.
    keys,       \* The profiles with a password in the keychain.
    work,       \* AppState.workspaces: the profile of each open connection.
    main,       \* The call whose command the main thread is in, or None.
    calls,      \* The calls of the webview under way.
    made,       \* How many calls were made.
    list,       \* profiles.data.
    fetch,      \* NoFetch, Asked, or an answer with the list read.
    editing,    \* The profile in the form, or None.
    rail,       \* openConnections.map: connections and the profiles shown, as they were opened.
    order,      \* openConnections.order.
    at,         \* The route: Home, Settings or a connection.
    previous,   \* previousConnection.
    restarts,
    asked,      \* History: the profiles the user asked to delete.
    loose       \* History: a write failed, or the page was left with a call under way, since
                \* the last fetch began.

core == <<store, file, keys, work>>
page == <<list, fetch, editing, rail, order, at, previous>>
vars == <<core, page, main, calls, made, restarts, asked, loose>>

Profiles == 1 .. MaxProfiles

(* Routes: a connection has the number of the call that opened it. *)
Home == 0
Settings == -1

NoFetch == [step |-> "none"]
Asked == [step |-> "asked"]
Answer(l) == [step |-> "answer", list |-> l]

Ids(s) == [i \in DOMAIN s |-> s[i].id]
Known(s, id) == \E i \in DOMAIN s : s[i].id = id
Of(s, id) == s[CHOOSE i \in DOMAIN s : s[i].id = id]
Without(s, id) == IF Known(s, id) THEN RemoveAt(s, CHOOSE i \in DOMAIN s : s[i].id = id) ELSE s
OnRail(c) == \E i \in DOMAIN rail : rail[i].conn = c
Live(id) == \E i \in DOMAIN rail : rail[i].profile.id = id
Open(id) == \E c \in DOMAIN work : work[c].id = id

----------------------------------------------------------------------------
(* useState and useMutation: a page knows of the calls made since it came  *)
(* on the screen.                                                          *)
Pending(ops) == \E c \in calls : c.mine /\ c.op \in ops
OrderBusy == Pending({"save", "delete", "reorder"})

Call(c) ==
    /\ made < MaxCalls
    /\ made' = made + 1
    /\ calls' = calls \cup {c}

Becomes(c, phase) == calls' = (calls \ {c}) \cup {[c EXCEPT !.phase = phase]}
Ended(c) == calls' = calls \ {c}

(* openConnections.setOrder in the effect of a page on the screen. *)
SetList(l) == list' = l /\ order' = IF at = Home THEN Ids(l) ELSE order

(* invalidateQueries. *)
Invalidate ==
    /\ fetch' = IF at = Home THEN Asked ELSE fetch
    /\ loose' = IF at = Home THEN FALSE ELSE loose

----------------------------------------------------------------------------
(* Moving between pages: the home page forgets its calls when it is left,  *)
(* and asks for the list when it is entered.                               *)
Go(to, rest) ==
    /\ at' = to
    /\ previous' = IF to \in {Home, Settings} THEN previous ELSE to
    /\ \/ /\ at = Home /\ to # Home
          /\ calls' = {[c EXCEPT !.mine = FALSE] : c \in rest}
          /\ editing' = None
          /\ loose' = (loose \/ rest # {} \/ fetch # NoFetch)
          /\ UNCHANGED <<list, order, fetch>>
       \/ /\ at # Home /\ to = Home
          /\ fetch' = IF fetch = NoFetch THEN Asked ELSE fetch
          /\ loose' = (loose /\ fetch # NoFetch)
          /\ order' = Ids(list)
          /\ calls' = rest
          /\ UNCHANGED <<editing, list>>
       \/ /\ (at = Home) = (to = Home)
          /\ calls' = rest
          /\ UNCHANGED <<editing, list, order, fetch, loose>>

(* The links of the rail, and the keys that open the home page and settings. *)
GoHome == at # Home /\ Go(Home, calls) /\ UNCHANGED <<core, main, made, rail, restarts, asked>>
GoSettings ==
    at # Settings /\ Go(Settings, calls) /\ UNCHANGED <<core, main, made, rail, restarts, asked>>

(* openConnections.changed: in the order of the list, the rest as opened. *)
Rank(i) ==
    IF rail[i].profile.id \in Range(order)
    THEN CHOOSE k \in DOMAIN order : order[k] = rail[i].profile.id
    ELSE Len(order) + 1

(* How many entries are shown above an entry of the rail. *)
Above(i) == Cardinality({j \in DOMAIN rail : Rank(j) < Rank(i) \/ (Rank(j) = Rank(i) /\ j < i)})

(* previousConnection and nextConnection of onKey. *)
CycleConnection(step) ==
    LET n == Len(rail)
        here == {i \in DOMAIN rail : rail[i].conn = at}
        from == IF here # {} THEN Above(CHOOSE i \in here : TRUE) ELSE IF step > 0 THEN -1 ELSE 0
    IN  /\ n > 0
        /\ \E i \in DOMAIN rail : Above(i) = (from + step + n) % n /\ Go(rail[i].conn, calls)
        /\ UNCHANGED <<core, main, made, rail, restarts, asked>>

(* closeTab on the home page returns to the connection it was opened from. *)
Back ==
    /\ at = Home /\ OnRail(previous)
    /\ Go(previous, calls)
    /\ UNCHANGED <<core, main, made, rail, restarts, asked>>

----------------------------------------------------------------------------
(* The form and the buttons of the list. *)
EditProfile(p) ==
    /\ at = Home /\ ~Pending({"save"}) /\ ~Live(p.id)
    /\ editing' = p
    /\ UNCHANGED <<core, main, calls, made, list, fetch, rail, order, at, previous, restarts,
                   asked, loose>>

CancelEdit ==
    /\ at = Home /\ editing # None /\ ~OrderBusy
    /\ editing' = None
    /\ UNCHANGED <<core, main, calls, made, list, fetch, rail, order, at, previous, restarts,
                   asked, loose>>

(* A new profile gets an id the keychain and the store never saw. *)
Fresh == Profiles \ (Range(Ids(store)) \cup Range(Ids(file)) \cup keys \cup asked
                       \cup {c.id : c \in {d \in calls : d.op = "save"}})

SecretMode(password) ==
    IF password THEN "replace" ELSE IF editing # None THEN "keep-existing" ELSE "prompt-each-time"

Submit(password) ==
    /\ at = Home /\ ~OrderBusy
    /\ \E id \in IF editing = None THEN Fresh ELSE {editing.id} :
           Call([op |-> "save", n |-> made + 1, mine |-> TRUE, phase |-> "sent",
                 id |-> id, new |-> editing = None, secret |-> SecretMode(password)])
    /\ UNCHANGED <<core, page, main, restarts, asked, loose>>

RemoveProfile(p) ==
    /\ at = Home /\ ~OrderBusy
    /\ Call([op |-> "delete", n |-> made + 1, mine |-> TRUE, phase |-> "sent", id |-> p.id])
    /\ asked' = asked \cup {p.id}
    /\ UNCHANGED <<core, page, main, restarts, loose>>

(* moveProfile and reorder.onMutate. *)
MoveProfile(from, to) ==
    /\ at = Home /\ ~OrderBusy /\ from # to
    /\ LET ordered == InsertAt(RemoveAt(list, from), to, list[from])
       IN  /\ Call([op |-> "reorder", n |-> made + 1, mine |-> TRUE, phase |-> "sent",
                    ids |-> Ids(ordered), list |-> list])
           /\ SetList(ordered)
    /\ fetch' = NoFetch
    /\ UNCHANGED <<core, main, editing, rail, at, previous, restarts, asked, loose>>

(* An arrow key on a handle, or a handle dropped on another row. *)
KeyMoves(i, step) == i + step \in DOMAIN list /\ MoveProfile(i, i + step)
DropMoves(from, to) == MoveProfile(from, to)

(* The password dialog: an empty password is one too. *)
AsksPassword(p) == ~p.cred

Connect(p) ==
    /\ at = Home /\ ~Pending({"open"})
    /\ Call([op |-> "open", n |-> made + 1, mine |-> TRUE, phase |-> "sent",
             id |-> p.id, given |-> AsksPassword(p), profile |-> p, read |-> None, conn |-> None])
    /\ UNCHANGED <<core, page, main, restarts, asked, loose>>

(* disconnect of the workspace on the screen. *)
Disconnect ==
    /\ OnRail(at)
    /\ Call([op |-> "close", n |-> made + 1, mine |-> TRUE, phase |-> "sent", conn |-> at])
    /\ UNCHANGED <<core, page, main, restarts, asked, loose>>

----------------------------------------------------------------------------
(* The commands on the main thread.  Writing profiles.json and the keychain *)
(* may fail.                                                                *)
MainTakes(c, op) == main = None /\ c.op = op /\ c.phase = "sent"
MainIn(c, op, phase) == main = c.n /\ c.op = op /\ c.phase = phase

(* profile_save looks at the workspaces, and gives their lock up again. *)
SaveChecks(c) ==
    /\ MainTakes(c, "save")
    /\ IF ~c.new /\ Open(c.id)
       THEN Becomes(c, "failed") /\ UNCHANGED main
       ELSE Becomes(c, "checked") /\ main' = c.n
    /\ UNCHANGED <<core, page, made, restarts, asked, loose>>

(* The secret first, then ProfileStore::upsert. *)
HasCredential(c) ==
    CASE c.secret = "replace" -> TRUE
      [] c.secret = "keep-existing" -> Of(store, c.id).cred
      [] OTHER -> FALSE

Upsert(p) ==
    IF Known(store, p.id)
    THEN [i \in DOMAIN store |-> IF store[i].id = p.id THEN p ELSE store[i]]
    ELSE Append(store, p)

Persist(c, profiles) ==
    /\ store' = profiles
    /\ \/ file' = profiles /\ Becomes(c, "ok") /\ UNCHANGED loose
       \/ Becomes(c, "failed") /\ loose' = TRUE /\ UNCHANGED file

SaveWrites(c) ==
    /\ MainIn(c, "save", "checked")
    /\ c.new \/ Known(store, c.id)
    /\ keys' = CASE c.secret = "replace" -> keys \cup {c.id}
                [] c.secret = "keep-existing" -> keys
                [] OTHER -> keys \ {c.id}
    /\ Persist(c, Upsert([id |-> c.id, ver |-> c.n, cred |-> HasCredential(c)]))
    /\ main' = None
    /\ UNCHANGED <<work, page, made, restarts, asked>>

SaveFails(c) ==
    /\ MainIn(c, "save", "checked")
    /\ (~c.new /\ ~Known(store, c.id)) \/ c.secret # "keep-existing"
    /\ Becomes(c, "failed")
    /\ main' = None
    /\ UNCHANGED <<core, page, made, restarts, asked, loose>>

DeleteChecks(c) ==
    /\ MainTakes(c, "delete")
    /\ IF Open(c.id)
       THEN Becomes(c, "failed") /\ UNCHANGED main
       ELSE Becomes(c, "checked") /\ main' = c.n
    /\ UNCHANGED <<core, page, made, restarts, asked, loose>>

DeletePassword(c) ==
    /\ MainIn(c, "delete", "checked")
    /\ \/ /\ keys' = keys \ {c.id}
          /\ Becomes(c, "keyless") /\ UNCHANGED main
       \/ Becomes(c, "failed") /\ main' = None /\ UNCHANGED keys
    /\ UNCHANGED <<store, file, work, page, made, restarts, asked, loose>>

DeleteRemoves(c) ==
    /\ MainIn(c, "delete", "keyless")
    /\ Persist(c, Without(store, c.id))
    /\ main' = None
    /\ UNCHANGED <<keys, work, page, made, restarts, asked>>

(* ProfileStore::reorder: every profile exactly once, undone when it cannot be written. *)
Reorders(c) ==
    /\ MainTakes(c, "reorder")
    /\ Len(c.ids) = Len(store) /\ Range(c.ids) = Range(Ids(store))
    /\ store' = [i \in DOMAIN c.ids |-> Of(store, c.ids[i])]
    /\ file' = store'
    /\ Becomes(c, "ok")
    /\ UNCHANGED <<keys, work, page, main, made, restarts, asked, loose>>

ReorderFails(c) ==
    /\ MainTakes(c, "reorder")
    /\ Becomes(c, "failed")
    /\ UNCHANGED <<core, page, main, made, restarts, asked, loose>>

ListReads ==
    /\ main = None /\ fetch = Asked
    /\ fetch' = Answer(store)
    /\ UNCHANGED <<core, main, calls, made, list, editing, rail, order, at, previous, restarts,
                   asked, loose>>

----------------------------------------------------------------------------
(* connection_open and connection_close. *)
OpenReads(c) ==
    /\ c.op = "open" /\ c.phase = "sent"
    /\ Known(store, c.id)
    /\ c.given \/ ~Of(store, c.id).cred \/ c.id \in keys
    /\ calls' = (calls \ {c}) \cup {[c EXCEPT !.phase = "read", !.read = Of(store, c.id)]}
    /\ UNCHANGED <<core, page, main, made, restarts, asked, loose>>

(* An unknown profile, or a password the keychain does not hand out. *)
OpenRefused(c) ==
    /\ c.op = "open" /\ c.phase = "sent"
    /\ Known(store, c.id) => ~c.given /\ Of(store, c.id).cred
    /\ Becomes(c, "failed")
    /\ UNCHANGED <<core, page, main, made, restarts, asked, loose>>

Answered(c, conn) == calls' = (calls \ {c}) \cup {[c EXCEPT !.phase = "ok", !.conn = conn]}

(* One connection per profile: an open one is the answer. *)
OpenFinds(c) ==
    /\ c.op = "open" /\ c.phase = "read"
    /\ IF Open(c.id)
       THEN \E d \in DOMAIN work : work[d].id = c.id /\ Answered(c, d)
       ELSE Becomes(c, "connecting")
    /\ UNCHANGED <<core, page, main, made, restarts, asked, loose>>

Added(conn, p) == [d \in DOMAIN work \cup {conn} |-> IF d = conn THEN p ELSE work[d]]

(* Mutated form of OpenInserts: the workspaces are not looked at again. *)
OpenInsertsAnyway(c) ==
    /\ c.op = "open" /\ c.phase = "connecting"
    /\ work' = Added(c.n, c.read) /\ Answered(c, c.n)
    /\ UNCHANGED <<store, file, keys, page, main, made, restarts, asked, loose>>

(* Connected: the workspaces are looked at again before this one is added. *)
OpenInserts(c) ==
    /\ c.op = "open" /\ c.phase = "connecting"
    /\ IF Open(c.id)
       THEN /\ \E d \in DOMAIN work : work[d].id = c.id /\ Answered(c, d)
            /\ UNCHANGED work
       ELSE work' = Added(c.n, c.read) /\ Answered(c, c.n)
    /\ UNCHANGED <<store, file, keys, page, main, made, restarts, asked, loose>>

OpenFails(c) ==
    /\ c.op = "open" /\ c.phase = "connecting"
    /\ Becomes(c, "failed")
    /\ UNCHANGED <<core, page, main, made, restarts, asked, loose>>

CloseRemoves(c) ==
    /\ c.op = "close" /\ c.phase = "sent"
    /\ work' = [d \in DOMAIN work \ {c.conn} |-> work[d]]
    /\ Becomes(c, "ok")
    /\ UNCHANGED <<store, file, keys, page, main, made, restarts, asked, loose>>

----------------------------------------------------------------------------
(* What the webview does with an answer. *)
ListArrives ==
    /\ fetch.step = "answer"
    /\ SetList(fetch.list)
    /\ fetch' = NoFetch
    /\ UNCHANGED <<core, main, calls, made, editing, rail, at, previous, restarts, asked, loose>>

(* onSubmit after profileSave, remove.onSuccess and onError. *)
SaveOrDeleteReplies(c) ==
    /\ c.op \in {"save", "delete"} /\ c.phase \in {"ok", "failed"}
    /\ Ended(c)
    /\ editing' = IF c.mine /\ c.op = "save" /\ c.phase = "ok" THEN None ELSE editing
    /\ IF c.phase = "ok" THEN Invalidate ELSE UNCHANGED <<fetch, loose>>
    /\ UNCHANGED <<core, main, made, list, rail, order, at, previous, restarts, asked>>

(* reorder.onError and onSettled. *)
ReorderReplies(c) ==
    /\ c.op = "reorder" /\ c.phase \in {"ok", "failed"}
    /\ Ended(c)
    /\ IF c.phase = "failed" THEN SetList(c.list) ELSE UNCHANGED <<list, order>>
    /\ Invalidate
    /\ UNCHANGED <<core, main, made, editing, rail, at, previous, restarts, asked>>

(* openConnections.set: an entry keeps its place. *)
RailSet(c, p) ==
    IF OnRail(c)
    THEN [i \in DOMAIN rail |-> IF rail[i].conn = c THEN [conn |-> c, profile |-> p] ELSE rail[i]]
    ELSE Append(rail, [conn |-> c, profile |-> p])

(* connectProfile after connectionOpen: the profile is the one of the list clicked in. *)
OpenReplies(c) ==
    /\ c.op = "open" /\ c.phase = "ok"
    /\ rail' = RailSet(c.conn, c.profile)
    /\ Go(c.conn, calls \ {c})
    /\ UNCHANGED <<core, main, made, restarts, asked>>

OpenReportsFailure(c) ==
    /\ c.op = "open" /\ c.phase = "failed"
    /\ Ended(c)
    /\ UNCHANGED <<core, page, main, made, restarts, asked, loose>>

(* disconnect after connectionClose. *)
CloseReplies(c) ==
    /\ c.op = "close" /\ c.phase = "ok"
    /\ rail' = IF OnRail(c.conn)
               THEN RemoveAt(rail, CHOOSE i \in DOMAIN rail : rail[i].conn = c.conn)
               ELSE rail
    /\ Go(Home, calls \ {c})
    /\ UNCHANGED <<core, main, made, restarts, asked>>

(* The process ends anywhere and starts again. *)
Restart ==
    /\ restarts < MaxRestarts
    /\ restarts' = restarts + 1
    /\ store' = file /\ work' = <<>> /\ main' = None /\ calls' = {}
    /\ list' = <<>> /\ fetch' = Asked /\ editing' = None
    /\ rail' = <<>> /\ order' = <<>> /\ at' = Home /\ previous' = Settings
    /\ loose' = FALSE
    /\ UNCHANGED <<file, keys, made, asked>>

----------------------------------------------------------------------------
Init ==
    /\ store \in {[i \in 1 .. n |-> [id |-> i, ver |-> 0, cred |-> cred]] :
                    n \in Profiles, cred \in BOOLEAN}
    /\ file = store
    /\ keys = {store[i].id : i \in {j \in DOMAIN store : store[j].cred}}
    /\ work = <<>> /\ main = None /\ calls = {} /\ made = 0
    /\ list = <<>> /\ fetch = Asked /\ editing = None
    /\ rail = <<>> /\ order = <<>> /\ at = Home /\ previous = Settings
    /\ restarts = 0 /\ asked = {} /\ loose = FALSE

UserStep ==
    \/ GoHome \/ GoSettings \/ Back \/ CancelEdit \/ Disconnect
    \/ \E step \in {-1, 1} : CycleConnection(step)
    \/ \E p \in Range(list) : EditProfile(p) \/ RemoveProfile(p) \/ Connect(p)
    \/ \E password \in BOOLEAN : Submit(password)
    \/ \E from \in DOMAIN list :
          \/ \E step \in {-1, 1} : KeyMoves(from, step)
          \/ \E to \in DOMAIN list : DropMoves(from, to)

CoreStep(c) ==
    \/ SaveChecks(c) \/ SaveWrites(c) \/ SaveFails(c)
    \/ DeleteChecks(c) \/ DeletePassword(c) \/ DeleteRemoves(c)
    \/ Reorders(c) \/ ReorderFails(c)
    \/ OpenReads(c) \/ OpenRefused(c) \/ OpenFinds(c) \/ OpenInserts(c) \/ OpenFails(c)
    \/ CloseRemoves(c)

Reply(c) ==
    \/ SaveOrDeleteReplies(c) \/ ReorderReplies(c)
    \/ OpenReplies(c) \/ OpenReportsFailure(c) \/ CloseReplies(c)

Next ==
    \/ UserStep \/ ListReads \/ ListArrives \/ Restart
    \/ \E c \in calls : CoreStep(c) \/ Reply(c)

Spec == Init /\ [][Next]_vars

----------------------------------------------------------------------------
(* However often a profile is connected to at the same time, there is one  *)
(* connection for it ("One connection item per profile",                   *)
(* connection_service.rs:378).                                             *)
OneConnectionPerProfile ==
    \A c, d \in DOMAIN work : work[c].id = work[d].id => c = d

(* A connection the core keeps open is on the rail or about to be put      *)
(* there, also when the page that opened it was left: otherwise nothing    *)
(* could close it.                                                         *)
NoConnectionLeaked ==
    \A c \in DOMAIN work :
        OnRail(c) \/ \E d \in calls : d.op = "open" /\ d.phase = "ok" /\ d.conn = c

(* The workspace on the screen belongs to a connection of the rail,        *)
(* whatever was closed or opened behind it.                                *)
ShownIsOnRail == at \notin {Home, Settings} => OnRail(at)

(* A profile that counts on a stored password has it, over every failure   *)
(* and restart, unless the user asked for it to be deleted.                *)
NoCredentialLost ==
    \A p \in Range(store) \cup Range(file) : p.cred => p.id \in keys \cup asked

(* With nothing of its own under way the home page lists the profiles of   *)
(* the store in their order, although moves are shown before they are      *)
(* saved, fetches are cancelled and answers overtake each other; unless a  *)
(* write failed or the page was left in between.                           *)
ListIsTrue ==
    /\ at = Home /\ fetch = NoFetch /\ ~loose
    /\ \A c \in calls : c.op \in {"open", "close"}
    => list = store

(* Profiles and connections are what the page and the rail show. *)
ConnectionsAreWhole ==
    /\ OneConnectionPerProfile /\ NoConnectionLeaked /\ ShownIsOnRail
    /\ NoCredentialLost /\ ListIsTrue

=============================================================================
