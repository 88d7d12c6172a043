--------------------------- MODULE QuerySessions ---------------------------
(***************************************************************************)
(* The registries of AppState that decide which execution runs where:       *)
(* workspaces and their sessions, the live executions and the result        *)
(* stores, and the commands that change them (query_service.rs and the      *)
(* session side of connection_service.rs).                                  *)
(*                                                                         *)
(* A command is one action per critical section: between two locks another  *)
(* command may run.  query_execute and result_release are synchronous       *)
(* Tauri commands and share the main thread; the others run beside them.    *)
(* What a session does with an execution it took up, and query_cancel, are  *)
(* ExecutionStream's matter: here it runs and then finishes.  The pending    *)
(* change sets that the same handlers sweep are left to the edit service.    *)
(***************************************************************************)
EXTENDS Integers, Sequences, FiniteSets

CONSTANTS
    Conns, Tabs, Results,      \* connection, query tab and result tab ids
    Sessions, Execs,           \* bound: session and execution ids ever made
    Pages,                     \* bound: table page requests ever made
    Kinds,                     \* commands that start an execution
    None,                      \* no session, no store
    MaxMailbox,                \* capacity of the session's channel
    MaxSessions,               \* MAX_SESSIONS_PER_CONNECTION
    MaxSwitches,               \* bound: changes of database per connection
    MaxClosings                \* bound: closes, reconnects and changes of database

ASSUME RegistryAssumption ==
    /\ Kinds \subseteq {"query", "table"}
    /\ None \notin Execs \cup Sessions
    /\ MaxMailbox \in Nat /\ MaxMailbox >= 3
    /\ MaxSessions \in Nat \ {0}
    /\ MaxSwitches \in Nat /\ MaxClosings \in Nat

VARIABLES
    workspace,   \* the workspace of a connection, and connection_close on it
    database,    \* ws.profile.database
    session,     \* ws.sessions, and the close command of a session
    closings,    \* how many commands have closed sessions
    home,        \* connection, tab and database a session was opened for
    busy,        \* sessions whose busy flag is set
    mailbox, task,     \* the session's channel, and the message being handled
    releasing,   \* results session_close has still to release
    step,        \* how far the execution, and the command that made it, is
    request,     \* what was asked for
    sessionId,   \* ExecutionState.session_id
    handle,      \* the session the execution claimed
    executions,  \* AppState.executions
    cancelled, terminal,   \* the flags of ExecutionState
    interrupted, \* executions cut short by a command that promised not to
    largeValues, \* AppState.large_values
    attaching,   \* table_data_execute calls before set_table_source
    source,      \* stores with a TablePageSource
    page         \* table_data_fetch_page calls

connVars == <<workspace, database, closings>>
sessVars == <<session, home, releasing>>
actorVars == <<mailbox, task>>
execVars == <<step, request, sessionId, handle, executions, cancelled, terminal, interrupted>>
storeVars == <<largeValues, attaching, source>>
vars == <<connVars, sessVars, busy, actorVars, execVars, storeVars, page>>

Execute(e)   == [kind |-> "execute", id |-> e]
FetchPage(p) == [kind |-> "page", id |-> p]
Close(s)     == [kind |-> "close", id |-> s]
Messages == {Execute(e) : e \in Execs} \cup {FetchPage(p) : p \in Pages}
              \cup {Close(s) : s \in Sessions}
Idle    == [kind |-> "idle", id |-> None]
Stopped == [kind |-> "stopped", id |-> None]

OpenSessions(c) == {s \in Sessions : session[s] = "open" /\ home[s].conn = c}
SessionOf(c, t) == {s \in OpenSessions(c) : home[s].tab = t}

(* A synchronous command is inside its body, and the main thread with it. *)
MainThreadBusy ==
    \E e \in Execs : request[e].kind = "query" /\ step[e] \in {"opened", "claimed", "registered"}

(* Executions the registry would cancel: the others are out of reach. *)
Cancel(E) ==
    /\ cancelled' = cancelled \cup (executions \cap E)
    /\ executions' = executions \ E

-----------------------------------------------------------------------------
(* execute_with_paging *)

(* session_open: the tab's session, or a fresh one under the limit. *)
SessionOpen(c, t, s) ==
    /\ workspace[c] = "open"
    /\ \/ s \in SessionOf(c, t) /\ UNCHANGED <<session, home>>
       \/ /\ SessionOf(c, t) = {}
          /\ session[s] = "unused"
          /\ Cardinality(OpenSessions(c)) < MaxSessions
          /\ session' = [session EXCEPT ![s] = "open"]
          /\ home' = [home EXCEPT ![s] = [conn |-> c, tab |-> t, db |-> database[c]]]

(* query_session_open, ahead of the first execution. *)
SessionOpens(s) ==
    /\ ~MainThreadBusy
    /\ \E c \in Conns, t \in Tabs : SessionOf(c, t) = {} /\ SessionOpen(c, t, s)
    /\ UNCHANGED <<connVars, releasing, busy, actorVars, execVars, storeVars, page>>

ExecuteOpens(e) ==
    /\ step[e] = "new"
    /\ \E k \in Kinds, c \in Conns, t \in Tabs, r \in Results, s \in Sessions :
         /\ k = "query" => ~MainThreadBusy
         /\ SessionOpen(c, t, s)
         /\ request' = [request EXCEPT ![e] = [kind |-> k, conn |-> c, tab |-> t, result |-> r]]
         /\ sessionId' = [sessionId EXCEPT ![e] = s]
    /\ step' = [step EXCEPT ![e] = "opened"]
    /\ UNCHANGED <<connVars, releasing, busy, actorVars, handle, executions, cancelled,
                   terminal, interrupted, storeVars, page>>

OwnResult(e) ==
    LET old == largeValues[request[e].result] IN
      old # None => /\ request[old].conn = request[e].conn
                       /\ request[old].tab = request[e].tab

(* Mutated form of ExecuteClaims: the session is looked up once, when opened.*)
ExecuteClaimsOpened(e) ==
    /\ step[e] = "opened"
    /\ OwnResult(e)
    /\ sessionId[e] \notin busy
    /\ busy' = busy \cup {sessionId[e]}
    /\ handle' = [handle EXCEPT ![e] = sessionId[e]]
    /\ largeValues' = [largeValues EXCEPT ![request[e].result] = e]
    /\ step' = [step EXCEPT ![e] = "claimed"]
    /\ UNCHANGED <<connVars, sessVars, actorVars, request, sessionId, executions, cancelled,
                   terminal, interrupted, attaching, source, page>>

(* Under the workspace lock: claim the session and replace the result. *)
ExecuteClaims(e) ==
    /\ step[e] = "opened"
    /\ workspace[request[e].conn] = "open"
    /\ OwnResult(e)
    /\ \E s \in SessionOf(request[e].conn, request[e].tab) :
         /\ s \notin busy
         /\ busy' = busy \cup {s}
         /\ handle' = [handle EXCEPT ![e] = s]
    /\ largeValues' = [largeValues EXCEPT ![request[e].result] = e]
    /\ step' = [step EXCEPT ![e] = "claimed"]
    /\ UNCHANGED <<connVars, sessVars, actorVars, request, sessionId, executions, cancelled,
                   terminal, interrupted, attaching, source, page>>

(* Unknown connection or session, a foreign result, QUERY_ALREADY_RUNNING. *)
ExecuteRefused(e) ==
    /\ step[e] = "opened"
    /\ \/ workspace[request[e].conn] # "open"
       \/ SessionOf(request[e].conn, request[e].tab) \subseteq busy
       \/ ~OwnResult(e)
    /\ step' = [step EXCEPT ![e] = "refused"]
    /\ UNCHANGED <<connVars, sessVars, busy, actorVars, request, sessionId, handle, executions,
                   cancelled, terminal, interrupted, storeVars, page>>

ExecuteRegisters(e) ==
    /\ step[e] = "claimed"
    /\ executions' = executions \cup {e}
    /\ step' = [step EXCEPT ![e] = "registered"]
    /\ UNCHANGED <<connVars, sessVars, busy, actorVars, request, sessionId, handle, cancelled,
                   terminal, interrupted, storeVars, page>>

CanSend(s) == task[s] # Stopped /\ Len(mailbox[s]) < MaxMailbox

(* try_send: the session has the execution, and the caller its id. *)
ExecuteSends(e) ==
    /\ step[e] = "registered"
    /\ CanSend(handle[e])
    /\ mailbox' = [mailbox EXCEPT ![handle[e]] = Append(@, Execute(e))]
    /\ attaching' = IF request[e].kind = "table" THEN attaching \cup {e} ELSE attaching
    /\ step' = [step EXCEPT ![e] = "sent"]
    /\ UNCHANGED <<connVars, sessVars, busy, task, request, sessionId, handle, executions,
                   cancelled, terminal, interrupted, largeValues, source, page>>

(* try_send fails: undo the claim and the registration. *)
ExecuteUnsent(e) ==
    /\ step[e] = "registered"
    /\ ~CanSend(handle[e])
    /\ busy' = busy \ {handle[e]}
    /\ executions' = executions \ {e}
    /\ step' = [step EXCEPT ![e] = "refused"]
    /\ UNCHANGED <<connVars, sessVars, actorVars, request, sessionId, handle, cancelled,
                   terminal, interrupted, storeVars, page>>

(* table_data_execute goes on after execute returned: how to continue. *)
AttachSource(e) ==
    /\ e \in attaching
    /\ attaching' = attaching \ {e}
    /\ source' = IF largeValues[request[e].result] = e THEN source \cup {e} ELSE source
    /\ UNCHANGED <<connVars, sessVars, busy, actorVars, execVars, largeValues, page>>

-----------------------------------------------------------------------------
(* table_data_fetch_page, for an execution the webview knows was accepted. *)

PageTakesHandle(p) ==
    /\ page[p].step = "new"
    /\ \E c \in Conns, e \in Execs :
         /\ workspace[c] = "open"
         /\ step[e] \in {"sent", "terminal", "freed", "answered"}
         /\ \E s \in SessionOf(c, request[e].tab) :
              page' = [page EXCEPT ![p] = [step |-> "handle", conn |-> c,
                                           exec |-> e, session |-> s]]
    /\ UNCHANGED <<connVars, sessVars, busy, actorVars, execVars, storeVars>>

(* Mutated form of PageClaims: busy is stored, not swapped. *)
PageClaimsUnchecked(p) ==
    /\ page[p].step = "handle"
    /\ page' = [page EXCEPT ![p].step = "claimed"]
    /\ busy' = busy \cup {page[p].session}
    /\ UNCHANGED <<connVars, sessVars, actorVars, execVars, storeVars>>

(* Claimed outside the workspace lock: the session may be gone by now. *)
PageClaims(p) ==
    /\ page[p].step = "handle"
    /\ IF page[p].session \in busy
         THEN page' = [page EXCEPT ![p].step = "done"] /\ UNCHANGED busy
         ELSE /\ page' = [page EXCEPT ![p].step = "claimed"]
              /\ busy' = busy \cup {page[p].session}
    /\ UNCHANGED <<connVars, sessVars, actorVars, execVars, storeVars>>

(* The store asked for is still the tab's, and it can be continued. *)
PageFindsStore(p) ==
    /\ page[p].step = "claimed"
    /\ LET e == page[p].exec IN
         /\ largeValues[request[e].result] = e
         /\ e \in source
         /\ request[e].conn = page[p].conn
    /\ page' = [page EXCEPT ![p].step = "ready"]
    /\ UNCHANGED <<connVars, sessVars, busy, actorVars, execVars, storeVars>>

(* A stale result, a queued page, a failed catalog read or a closed mailbox: *)
(* SessionClaim is dropped.                                                   *)
PageReturns(p) ==
    /\ page[p].step \in {"claimed", "ready"}
    /\ page' = [page EXCEPT ![p].step = "done"]
    /\ busy' = busy \ {page[p].session}
    /\ UNCHANGED <<connVars, sessVars, actorVars, execVars, storeVars>>

(* The page query is handed to the session, which releases the claim. *)
PageSends(p) ==
    /\ page[p].step = "ready"
    /\ CanSend(page[p].session)
    /\ mailbox' = [mailbox EXCEPT ![page[p].session] = Append(@, FetchPage(p))]
    /\ page' = [page EXCEPT ![p].step = "sent"]
    /\ UNCHANGED <<connVars, sessVars, busy, task, execVars, storeVars>>

-----------------------------------------------------------------------------
(* The session actor *)

(* rx.recv(): one message at a time.  Close ends the loop, and what is still *)
(* queued behind it is dropped with the channel.                             *)
ActorTakes(s) ==
    /\ task[s] = Idle /\ mailbox[s] # <<>>
    /\ Head(mailbox[s]).kind # "close"
    /\ task' = [task EXCEPT ![s] = Head(mailbox[s])]
    /\ mailbox' = [mailbox EXCEPT ![s] = Tail(@)]
    /\ UNCHANGED <<connVars, sessVars, busy, execVars, storeVars, page>>

(* Mutated form of ActorEndsExecution: the terminal flag is never set. *)
ActorEndsUnmarked(s) ==
    /\ task[s].kind = "execute" /\ step[task[s].id] = "sent"
    /\ step' = [step EXCEPT ![task[s].id] = "terminal"]
    /\ UNCHANGED <<connVars, sessVars, busy, actorVars, request, sessionId, handle, executions,
                   cancelled, terminal, interrupted, storeVars, page>>

(* execution.terminal.store(true) *)
ActorEndsExecution(s) ==
    /\ task[s].kind = "execute" /\ step[task[s].id] = "sent"
    /\ terminal' = terminal \cup {task[s].id}
    /\ step' = [step EXCEPT ![task[s].id] = "terminal"]
    /\ UNCHANGED <<connVars, sessVars, busy, actorVars, request, sessionId, handle, executions,
                   cancelled, interrupted, storeVars, page>>

(* busy.store(false) *)
ActorFrees(s) ==
    /\ task[s].kind = "execute" /\ step[task[s].id] = "terminal"
    /\ busy' = busy \ {s}
    /\ step' = [step EXCEPT ![task[s].id] = "freed"]
    /\ UNCHANGED <<connVars, sessVars, actorVars, request, sessionId, handle, executions,
                   cancelled, terminal, interrupted, storeVars, page>>

(* Mutated form of ActorAnswers: only a registered execution is answered. *)
ActorAnswersRegistered(s) ==
    /\ task[s].kind = "execute" /\ step[task[s].id] = "freed"
    /\ task[s].id \in executions
    /\ executions' = executions \ {task[s].id}
    /\ step' = [step EXCEPT ![task[s].id] = "answered"]
    /\ task' = [task EXCEPT ![s] = Idle]
    /\ UNCHANGED <<connVars, sessVars, busy, mailbox, request, sessionId, handle, cancelled,
                   terminal, interrupted, storeVars, page>>

(* sink(terminal): the event is delivered and the execution forgotten. *)
ActorAnswers(s) ==
    /\ task[s].kind = "execute" /\ step[task[s].id] = "freed"
    /\ executions' = executions \ {task[s].id}
    /\ step' = [step EXCEPT ![task[s].id] = "answered"]
    /\ task' = [task EXCEPT ![s] = Idle]
    /\ UNCHANGED <<connVars, sessVars, busy, mailbox, request, sessionId, handle, cancelled,
                   terminal, interrupted, storeVars, page>>

(* Mutated form of ActorEndsPage: the session stays claimed. *)
ActorEndsPageHolding(s) ==
    /\ task[s].kind = "page"
    /\ page' = [page EXCEPT ![task[s].id].step = "done"]
    /\ task' = [task EXCEPT ![s] = Idle]
    /\ UNCHANGED <<connVars, sessVars, busy, mailbox, execVars, storeVars>>

(* The page query ended, well or not. *)
ActorEndsPage(s) ==
    /\ task[s].kind = "page"
    /\ busy' = busy \ {s}
    /\ page' = [page EXCEPT ![task[s].id].step = "done"]
    /\ task' = [task EXCEPT ![s] = Idle]
    /\ UNCHANGED <<connVars, sessVars, mailbox, execVars, storeVars>>

(* What is still queued behind the message being taken. *)
Dropped(s) == {mailbox[s][i] : i \in 2..Len(mailbox[s])}

ActorCloses(s) ==
    /\ task[s] = Idle /\ mailbox[s] # <<>>
    /\ Head(mailbox[s]).kind = "close"
    /\ task' = [task EXCEPT ![s] = Stopped]
    /\ mailbox' = [mailbox EXCEPT ![s] = <<>>]
    /\ session' = IF session[s] = "waiting" THEN [session EXCEPT ![s] = "confirmed"] ELSE session
    /\ step' = [e \in Execs |-> IF Execute(e) \in Dropped(s) THEN "lost" ELSE step[e]]
    /\ page' = [p \in Pages |-> IF FetchPage(p) \in Dropped(s)
                                  THEN [page[p] EXCEPT !.step = "done"] ELSE page[p]]
    /\ UNCHANGED <<connVars, home, releasing, busy, request, sessionId, handle, executions,
                   cancelled, terminal, interrupted, storeVars>>

-----------------------------------------------------------------------------
(* session_close *)

CountClosing == closings < MaxClosings /\ closings' = closings + 1

SessionCloseRemoves(s) ==
    /\ session[s] = "open"
    /\ CountClosing
    /\ \E rollback \in BOOLEAN :
         /\ rollback \/ s \notin busy
         /\ session' = [session EXCEPT ![s] = IF rollback THEN "removed" ELSE "removedIdle"]
    /\ UNCHANGED <<workspace, database, home, releasing, busy, actorVars, execVars, storeVars, page>>

OfSession(s) == {e \in Execs : sessionId[e] = s}
Unfinished(E) == {e \in E : e \notin terminal}

(* Stop a running execution first so Close isn't stuck behind it. *)
SessionCloseCancels(s) ==
    /\ session[s] \in {"removed", "removedIdle"}
    /\ Cancel(OfSession(s))
    /\ interrupted' = IF session[s] = "removedIdle"
                        THEN interrupted \cup Unfinished(executions \cap OfSession(s))
                        ELSE interrupted
    /\ session' = [session EXCEPT ![s] = "swept"]
    /\ UNCHANGED <<connVars, home, releasing, busy, actorVars, step, request, sessionId, handle,
                   terminal, storeVars, page>>

(* Close is sent; session_close waits for its reply, close_sessions moves on.*)
SendClose(s) ==
    /\ session[s] \in {"swept", "taken"}
    /\ CanSend(s)
    /\ mailbox' = [mailbox EXCEPT ![s] = Append(@, Close(s))]
    /\ session' = [session EXCEPT ![s] = IF @ = "swept" THEN "waiting" ELSE "closed"]
    /\ UNCHANGED <<connVars, home, releasing, busy, task, execVars, storeVars, page>>

SessionCloseTimesOut(s) ==
    /\ session[s] = "waiting"
    /\ session' = [session EXCEPT ![s] = "closed"]
    /\ UNCHANGED <<connVars, home, releasing, busy, actorVars, execVars, storeVars, page>>

(* Confirmed: every result of the tab is to be released. *)
SessionCloseCollects(s) ==
    /\ session[s] = "confirmed"
    /\ session' = [session EXCEPT ![s] = "closed"]
    /\ releasing' = [releasing EXCEPT ![s] =
         {r \in Results : largeValues[r] # None /\ request[largeValues[r]].tab = home[s].tab}]
    /\ UNCHANGED <<connVars, home, busy, actorVars, execVars, storeVars, page>>

(* "cancel execution before releasing its result" *)
Releasable(r) == largeValues[r] \notin Unfinished(executions)

SessionCloseReleases(s, r) ==
    /\ r \in releasing[s]
    /\ IF Releasable(r)
         THEN /\ largeValues' = [largeValues EXCEPT ![r] = None]
              /\ releasing' = [releasing EXCEPT ![s] = @ \ {r}]
         ELSE releasing' = [releasing EXCEPT ![s] = {}] /\ UNCHANGED largeValues
    /\ UNCHANGED <<connVars, session, home, busy, actorVars, execVars, attaching, source, page>>

(* result_release *)
ResultRelease(r) ==
    /\ ~MainThreadBusy
    /\ largeValues[r] # None
    /\ Releasable(r)
    /\ largeValues' = [largeValues EXCEPT ![r] = None]
    /\ UNCHANGED <<connVars, sessVars, busy, actorVars, execVars, attaching, source, page>>

-----------------------------------------------------------------------------
(* connection_open, connection_close, connection_reconnect and               *)
(* connection_switch_database.                                               *)

(* One workspace per profile: a connection id is made when none is open. *)
ConnectionOpen(c) ==
    /\ workspace[c] = "new"
    /\ \A d \in Conns : workspace[d] # "open"
    /\ workspace' = [workspace EXCEPT ![c] = "open"]
    /\ UNCHANGED <<database, closings, sessVars, busy, actorVars, execVars, storeVars, page>>

OfConn(c) == {e \in Execs : request[e].conn = c /\ step[e] # "new"}

WithoutStores(E) == [r \in Results |-> IF largeValues[r] \in E THEN None ELSE largeValues[r]]

(* The sessions of c leave the registry; `to` is what becomes of them. *)
Detach(c, to) ==
    session' = [s \in Sessions |-> IF s \in OpenSessions(c) THEN to ELSE session[s]]

ConnectionCloseRemoves(c) ==
    /\ workspace[c] = "open"
    /\ CountClosing
    /\ workspace' = [workspace EXCEPT ![c] = "removed"]
    /\ Detach(c, "detached")
    /\ UNCHANGED <<database, home, releasing, busy, actorVars, execVars, storeVars, page>>

ConnectionCloseDrops(c) ==
    /\ workspace[c] = "removed"
    /\ workspace' = [workspace EXCEPT ![c] = "dropped"]
    /\ largeValues' = WithoutStores(OfConn(c))
    /\ UNCHANGED <<database, closings, sessVars, busy, actorVars, execVars, attaching, source, page>>

ConnectionCloseCancels(c) ==
    /\ workspace[c] = "dropped"
    /\ workspace' = [workspace EXCEPT ![c] = "closed"]
    /\ Cancel(OfConn(c))
    /\ session' = [s \in Sessions |-> IF session[s] = "detached" /\ home[s].conn = c
                                        THEN "taken" ELSE session[s]]
    /\ UNCHANGED <<database, closings, home, releasing, busy, actorVars, step, request, sessionId, handle,
                   terminal, interrupted, storeVars, page>>

(* switch_database once the new control connection is up: one critical       *)
(* section.  A reconnect interrupts; a change of database is refused while   *)
(* a session is busy.                                                        *)
Reconnect(c) ==
    /\ workspace[c] = "open"
    /\ CountClosing
    /\ Detach(c, "taken")
    /\ largeValues' = WithoutStores(OfConn(c))
    /\ Cancel(OfConn(c))
    /\ UNCHANGED <<workspace, database, home, releasing, busy, actorVars, step, request, sessionId, handle,
                   terminal, interrupted, attaching, source, page>>

(* Mutated form of SwitchDatabase: the results of the old database stay. *)
SwitchDatabaseKeepingResults(c) ==
    /\ workspace[c] = "open"
    /\ CountClosing
    /\ OpenSessions(c) \cap busy = {}
    /\ database[c] < MaxSwitches
    /\ database' = [database EXCEPT ![c] = @ + 1]
    /\ Detach(c, "taken")
    /\ Cancel(OfConn(c))
    /\ interrupted' = interrupted \cup
         {e \in Unfinished(executions \cap OfConn(c)) : session[handle[e]] = "open"}
    /\ UNCHANGED <<workspace, home, releasing, busy, actorVars, step, request, sessionId, handle,
                   terminal, storeVars, page>>

SwitchDatabase(c) ==
    /\ workspace[c] = "open"
    /\ CountClosing
    /\ OpenSessions(c) \cap busy = {}
    /\ database[c] < MaxSwitches
    /\ database' = [database EXCEPT ![c] = @ + 1]
    /\ Detach(c, "taken")
    /\ largeValues' = WithoutStores(OfConn(c))
    /\ Cancel(OfConn(c))
    /\ interrupted' = interrupted \cup
         {e \in Unfinished(executions \cap OfConn(c)) : session[handle[e]] = "open"}
    /\ UNCHANGED <<workspace, home, releasing, busy, actorVars, step, request, sessionId, handle,
                   terminal, attaching, source, page>>

-----------------------------------------------------------------------------
ExecuteStep(e) ==
    \/ ExecuteOpens(e) \/ ExecuteClaims(e) \/ ExecuteRefused(e)
    \/ ExecuteRegisters(e) \/ ExecuteSends(e) \/ ExecuteUnsent(e)
    \/ AttachSource(e)

PageStep(p) ==
    \/ PageTakesHandle(p) \/ PageClaims(p) \/ PageFindsStore(p)
    \/ PageReturns(p) \/ PageSends(p)

ActorStep(s) ==
    \/ ActorTakes(s) \/ ActorEndsExecution(s) \/ ActorFrees(s) \/ ActorAnswers(s)
    \/ ActorEndsPage(s) \/ ActorCloses(s)

CloseStep(s) ==
    \/ SessionOpens(s) \/ SessionCloseRemoves(s) \/ SessionCloseCancels(s) \/ SendClose(s)
    \/ SessionCloseTimesOut(s) \/ SessionCloseCollects(s)
    \/ \E r \in Results : SessionCloseReleases(s, r)

ConnStep(c) ==
    \/ ConnectionOpen(c) \/ ConnectionCloseRemoves(c) \/ ConnectionCloseDrops(c)
    \/ ConnectionCloseCancels(c) \/ Reconnect(c) \/ SwitchDatabase(c)

Next ==
    \/ \E e \in Execs : ExecuteStep(e)
    \/ \E p \in Pages : PageStep(p)
    \/ \E s \in Sessions : ActorStep(s) \/ CloseStep(s)
    \/ \E r \in Results : ResultRelease(r)
    \/ \E c \in Conns : ConnStep(c)

Init ==
    /\ workspace = [c \in Conns |-> "new"]
    /\ database = [c \in Conns |-> 0] /\ closings = 0
    /\ session = [s \in Sessions |-> "unused"]
    /\ home = [s \in Sessions |-> [conn |-> None, tab |-> None, db |-> 0]]
    /\ busy = {}
    /\ mailbox = [s \in Sessions |-> <<>>]
    /\ task = [s \in Sessions |-> Idle]
    /\ releasing = [s \in Sessions |-> {}]
    /\ step = [e \in Execs |-> "new"]
    /\ request = [e \in Execs |-> [kind |-> "none", conn |-> None, tab |-> None, result |-> None]]
    /\ sessionId = [e \in Execs |-> None]
    /\ handle = [e \in Execs |-> None]
    /\ executions = {} /\ cancelled = {} /\ terminal = {} /\ interrupted = {}
    /\ largeValues = [r \in Results |-> None]
    /\ attaching = {} /\ source = {}
    /\ page = [p \in Pages |-> [step |-> "new", conn |-> None, exec |-> None, session |-> None]]

Spec == Init /\ [][Next]_vars

(* The runtime polls every task; a command that entered its body leaves it, *)
(* and an execution a session took up ends (ExecutionStream, AlwaysEnds).    *)
(* Nothing is assumed of the user, who may never close or cancel anything.   *)
Fairness ==
    /\ \A e \in Execs : /\ WF_vars(ExecuteClaims(e) \/ ExecuteRefused(e))
                        /\ WF_vars(ExecuteRegisters(e))
                        /\ WF_vars(ExecuteSends(e) \/ ExecuteUnsent(e))
    /\ \A p \in Pages : /\ WF_vars(PageClaims(p))
                        /\ WF_vars(PageReturns(p) \/ PageSends(p))
    /\ \A s \in Sessions : WF_vars(ActorStep(s)) /\ WF_vars(SessionCloseCancels(s))
                             /\ WF_vars(SendClose(s))
    /\ \A c \in Conns : WF_vars(ConnectionCloseDrops(c)) /\ WF_vars(ConnectionCloseCancels(c))

FairSpec == Spec /\ Fairness

-----------------------------------------------------------------------------
(* Properties *)

MaybeSession == Sessions \cup {None}
PageSteps == {"new", "handle", "claimed", "ready", "sent", "done"}
PageCalls == [step : PageSteps, conn : Conns \cup {None}, exec : Execs \cup {None},
              session : MaybeSession]

SessionStates == {"unused", "open", "removed", "removedIdle", "swept", "detached", "taken",
                  "waiting", "confirmed", "closed"}
ExecSteps == {"new", "opened", "claimed", "registered", "sent", "terminal", "freed",
              "answered", "refused", "lost"}
Homes == [conn : Conns \cup {None}, tab : Tabs \cup {None}, db : 0..MaxSwitches]
Requests == [kind : Kinds \cup {"none"}, conn : Conns \cup {None}, tab : Tabs \cup {None},
             result : Results \cup {None}]

(* Registries, flags and requests keep their shape. *)
TypeOK ==
    /\ workspace \in [Conns -> {"new", "open", "removed", "dropped", "closed"}]
    /\ database \in [Conns -> 0..MaxSwitches] /\ closings \in 0..MaxClosings
    /\ session \in [Sessions -> SessionStates] /\ home \in [Sessions -> Homes]
    /\ busy \in SUBSET Sessions
    /\ mailbox \in [Sessions -> Seq(Messages)]
    /\ task \in [Sessions -> Messages \cup {Idle, Stopped}]
    /\ releasing \in [Sessions -> SUBSET Results]
    /\ step \in [Execs -> ExecSteps] /\ request \in [Execs -> Requests]
    /\ sessionId \in [Execs -> MaybeSession] /\ handle \in [Execs -> MaybeSession]
    /\ executions \in SUBSET Execs /\ cancelled \in SUBSET Execs
    /\ terminal \in SUBSET Execs /\ interrupted \in SUBSET Execs
    /\ largeValues \in [Results -> Execs \cup {None}]
    /\ attaching \in SUBSET Execs /\ source \in SUBSET Execs
    /\ page \in [Pages -> PageCalls]

(* Who set a session's busy flag and has not handed it back. *)
HoldingExecs(s) ==
    {e \in Execs : handle[e] = s /\ step[e] \in {"claimed", "registered", "sent", "terminal"}}
HoldingPages(s) ==
    {p \in Pages : page[p].session = s /\ page[p].step \in {"claimed", "ready", "sent"}}

(* An execution or a page request has a session to itself from its claim to  *)
(* its release, although pages claim outside the workspace lock and the      *)
(* actor, the caller and a dropped SessionClaim all clear the same flag.     *)
ClaimIsExclusive ==
    \A s \in Sessions :
      /\ \A d, e \in HoldingExecs(s) : d = e
      /\ \A p, q \in HoldingPages(s) : p = q
      /\ HoldingExecs(s) = {} \/ HoldingPages(s) = {}
      /\ HoldingExecs(s) \cup HoldingPages(s) # {} => s \in busy

(* No error path leaks the flag: a session that can still be used is busy    *)
(* only while somebody holds it, or its tab would refuse queries for ever.   *)
BusyIsHeld ==
    \A s \in busy : session[s] = "open" => HoldingExecs(s) \cup HoldingPages(s) # {}

(* A mailbox holds at most one request and one Close: try_send fails only    *)
(* on a session that is gone, and Close never waits for room.                *)
MailboxHasRoom == \A s \in Sessions : Len(mailbox[s]) <= 2

(* connection_close leaves no result behind, although an execution may be    *)
(* claiming its store while the workspace goes away.                         *)
StoresOfOpenConnections ==
    \A r \in Results : largeValues[r] # None =>
      workspace[request[largeValues[r]].conn] \in {"open", "removed"}

(* "Old results cannot be confused with new DB sessions": a result that can  *)
(* be read, paged or edited comes from the database its connection shows.    *)
ResultsOfThisDatabase ==
    \A r \in Results : LET e == largeValues[r] IN
      e # None => home[handle[e]].db = database[request[e].conn]

(* A further table page is read from the database its result came from. *)
PageFromSameDatabase ==
    \A p \in Pages : page[p].step = "sent" =>
      home[page[p].session].db = home[handle[page[p].exec]].db

(* A close the user did not confirm, or a change of database, never cuts an  *)
(* execution short that runs in the session it was accepted for: busy         *)
(* outlives the execution's own work.  (One accepted under a session that    *)
(* was replaced before the claim keeps the old id, and can be cut short.)    *)
NothingInterrupted == \A e \in interrupted : sessionId[e] # handle[e]

(* The registry holds live executions only: not what was refused, and not    *)
(* what was answered.                                                        *)
OnlyLiveRegistered ==
    \A e \in executions : step[e] \in {"registered", "sent", "terminal", "freed", "lost"}

(* The registries, the busy flags, the mailboxes and the requests under way  *)
(* are in shape and tell one story, between any two critical sections.       *)
RegistriesAgree ==
    TypeOK /\ ClaimIsExclusive /\ BusyIsHeld /\ MailboxHasRoom /\ OnlyLiveRegistered

(* Results and further pages are of the database their connection shows, and *)
(* of no other (switch_database, table_data_fetch_page).                     *)
OnlyThisDatabase == ResultsOfThisDatabase /\ PageFromSameDatabase

(* A session in use becomes free again whatever happens to the request that  *)
(* claimed it.                                                               *)
BusySessionFrees ==
    \A s \in Sessions : (session[s] = "open" /\ s \in busy) ~> (session[s] # "open" \/ s \notin busy)

(* A session taken out of the registry ends its actor, and with it its       *)
(* connection to the server.                                                 *)
ClosedSessionStops ==
    \A s \in Sessions : (session[s] \notin {"unused", "open"}) ~> (task[s] = Stopped)

(* Sessions do not stay as they are: a claimed one is freed and a closed one *)
(* ends (the actor's loop, close_sessions).                                  *)
SessionsSettle == BusySessionFrees /\ ClosedSessionStops

(* An execution in a mailbox is answered, unless Close was there before it.  *)
SentIsAnswered ==
    \A e \in Execs : (step[e] = "sent") ~> (step[e] \in {"answered", "lost"})

(* "Exactly one terminal event": no accepted execution is forgotten. *)
AcceptedIsAnswered == \A e \in Execs : step[e] # "lost"
=============================================================================
