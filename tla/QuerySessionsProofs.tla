------------------------ MODULE QuerySessionsProofs ------------------------
(***************************************************************************)
(* The registries of AppState, for any number of connections, tabs,         *)
(* sessions, executions and page requests: what the runs of QuerySessions   *)
(* check on two of each holds for all of them.                              *)
(***************************************************************************)
EXTENDS QuerySessions, TLAPS

(* Steps of an execution after its claim, and after it reached a session.    *)
Sent == {"sent", "terminal", "freed", "answered", "lost"}
Claimed == {"claimed", "registered"} \cup Sent

(* An open session is one of an open workspace, on the database it shows.    *)
OpenInv ==
    \A s \in Sessions : session[s] = "open" =>
      /\ home[s].conn \in Conns
      /\ workspace[home[s].conn] = "open"
      /\ home[s].db = database[home[s].conn]

(* Nobody refers to a session that was not made yet, so that nobody sees its *)
(* home change: a busy session, an execution's and a page's session.         *)
Used(s) == s \in Sessions /\ session[s] # "unused"

ExecInv ==
    \A e \in Execs :
      /\ step[e] # "new" => request[e].result \in Results
      /\ step[e] \in Claimed => Used(handle[e]) /\ home[handle[e]].conn = request[e].conn
      /\ step[e] = "lost" => session[handle[e]] \in {"confirmed", "closed"}
      /\ e \in terminal <=> step[e] \in {"terminal", "freed", "answered"}

PageInv ==
    \A p \in Pages : page[p].step # "new" =>
      /\ Used(page[p].session)
      /\ page[p].exec \in Execs
      /\ step[page[p].exec] \in Sent

(* A message in a mailbox is there once, its request knows it, and nothing   *)
(* else has it; Close is sent once, by the close of that session.            *)
MailboxInv ==
    \A s \in Sessions : \A i \in 1..Len(mailbox[s]) :
      /\ mailbox[s][i] # task[s]
      /\ \A j \in 1..Len(mailbox[s]) : mailbox[s][i] = mailbox[s][j] => i = j
      /\ \A e \in Execs : mailbox[s][i] = Execute(e) => handle[e] = s /\ step[e] = "sent"
      /\ \A p \in Pages : mailbox[s][i] = FetchPage(p) => page[p].session = s /\ page[p].step = "sent"
      /\ \A t \in Sessions : mailbox[s][i] = Close(t) => t = s /\ session[s] \in {"waiting", "closed"}

TaskInv ==
    \A s \in Sessions :
      /\ \A e \in Execs : task[s] = Execute(e) => handle[e] = s /\ step[e] \in {"sent", "terminal", "freed"}
      /\ \A p \in Pages : task[s] = FetchPage(p) => page[p].session = s /\ page[p].step = "sent"
      /\ task[s].kind # "close"

(* The busy flag has at most one holder, and a session that can be used or   *)
(* was closed as idle is not held by anybody else.                           *)
HolderInv ==
    /\ ClaimIsExclusive
    /\ BusyIsHeld
    /\ \A s \in busy : Used(s)
    /\ \A s \in Sessions : session[s] = "removedIdle" => HoldingExecs(s) = {}

(* A store belongs to an execution that claimed a session of the database    *)
(* the connection still shows.                                               *)
StoreInv ==
    \A r \in Results : LET e == largeValues[r] IN e # None =>
      /\ step[e] \notin {"new", "opened"}
      /\ Used(handle[e])
      /\ home[handle[e]].conn = request[e].conn
      /\ workspace[request[e].conn] \in {"open", "removed"}
      /\ home[handle[e]].db = database[request[e].conn]

(* A page request found its session before it looked for the store: they are *)
(* of one database if the store is still there, and stay so once it is found.*)
SamePage(p) == home[page[p].session].db = home[handle[page[p].exec]].db

PagingInv ==
    \A p \in Pages :
      /\ page[p].step \in {"handle", "claimed"}
           /\ largeValues[request[page[p].exec].result] = page[p].exec
           /\ request[page[p].exec].conn = page[p].conn => SamePage(p)
      /\ page[p].step \in {"ready", "sent"} => SamePage(p)

(* What a command cut short had claimed another session than it asked for.   *)
InterruptInv ==
    \A e \in interrupted : sessionId[e] # handle[e] /\ step[e] \notin {"new", "opened", "claimed"}

Inv ==
    /\ TypeOK /\ OpenInv /\ ExecInv /\ PageInv /\ MailboxInv /\ TaskInv
    /\ HolderInv /\ StoreInv /\ PagingInv /\ OnlyLiveRegistered /\ InterruptInv

-----------------------------------------------------------------------------
(* A message is a request or a Close with its id, and can be told apart.     *)
LEMMA MadeMessages ==
    /\ \A e \in Execs : Execute(e) \in Messages /\ Execute(e).kind = "execute" /\ Execute(e).id = e
    /\ \A p \in Pages : FetchPage(p) \in Messages /\ FetchPage(p).kind = "page" /\ FetchPage(p).id = p
    /\ \A s \in Sessions : Close(s) \in Messages /\ Close(s).kind = "close" /\ Close(s).id = s
    /\ Idle.kind = "idle" /\ Stopped.kind = "stopped"
BY DEF Messages, Execute, FetchPage, Close, Idle, Stopped

LEMMA MessageKinds ==
    ASSUME NEW m \in Messages \cup {Idle, Stopped}
    PROVE  /\ m.kind = "execute" => m.id \in Execs /\ m = Execute(m.id)
           /\ m.kind = "page" => m.id \in Pages /\ m = FetchPage(m.id)
           /\ m.kind = "close" => m.id \in Sessions /\ m = Close(m.id)
           /\ m \in Messages <=> m.kind \in {"execute", "page", "close"}
<1>1. CASE \E e \in Execs : m = Execute(e)
  BY <1>1 DEF Execute, Messages
<1>2. CASE \E p \in Pages : m = FetchPage(p)
  BY <1>2 DEF FetchPage, Messages
<1>3. CASE \E s \in Sessions : m = Close(s)
  BY <1>3 DEF Close, Messages
<1>4. CASE m \in {Idle, Stopped}
  BY <1>4 DEF Idle, Stopped, Messages, Execute, FetchPage, Close
<1> QED
  BY <1>1, <1>2, <1>3, <1>4 DEF Messages

(* A page request that moves on keeps what it asked for. *)
LEMMA PageMoves ==
    ASSUME TypeOK, NEW p \in Pages, NEW to \in PageSteps, page' = [page EXCEPT ![p].step = to]
    PROVE  /\ page' \in [Pages -> PageCalls]
           /\ page'[p].step = to
           /\ \A x \in Pages : /\ page'[x].conn = page[x].conn
                               /\ page'[x].exec = page[x].exec
                               /\ page'[x].session = page[x].session
                               /\ x # p => page'[x] = page[x]
<1> DEFINE R == [page[p] EXCEPT !.step = to]
<1>1. /\ R \in PageCalls /\ R.step = to
      /\ R.conn = page[p].conn /\ R.exec = page[p].exec /\ R.session = page[p].session
  BY ZenonT(120) DEF TypeOK, PageCalls
<1>2. page' = [page EXCEPT ![p] = R]
  OBVIOUS
<1> HIDE DEF R
<1> QED
  BY ZenonT(120), <1>1, <1>2 DEF TypeOK

(* A message goes to the end of the mailbox it is sent to. *)
LEMMA MailboxGrows ==
    ASSUME TypeOK, NEW s \in Sessions, NEW m \in Messages,
           mailbox' = [mailbox EXCEPT ![s] = Append(@, m)]
    PROVE  /\ mailbox' \in [Sessions -> Seq(Messages)]
           /\ Len(mailbox'[s]) = Len(mailbox[s]) + 1
           /\ \A i \in 1..Len(mailbox[s]) : mailbox'[s][i] = mailbox[s][i]
           /\ mailbox'[s][Len(mailbox[s]) + 1] = m
           /\ \A t \in Sessions : t # s => mailbox'[t] = mailbox[t]
<1>1. mailbox[s] \in Seq(Messages) /\ mailbox'[s] = Append(mailbox[s], m)
  BY DEF TypeOK
<1>2. mailbox'[s] \in Seq(Messages)
  BY <1>1
<1> QED
  BY <1>1, <1>2 DEF TypeOK

(* session_open finds a session or makes one, and changes no other. *)
LEMMA NewHome ==
    ASSUME TypeOK, NEW c \in Conns, NEW t \in Tabs, NEW s \in Sessions, SessionOpen(c, t, s)
    PROVE  /\ home' \in [Sessions -> Homes] /\ session' \in [Sessions -> SessionStates]
           /\ session'[s] = "open" /\ session'[s] # "unused"
           /\ home'[s].conn = c /\ workspace[c] = "open"
           /\ session[s] = "open" \/ home'[s].db = database[c]
           /\ session[s] # "unused" => session'[s] = session[s] /\ home'[s] = home[s]
           /\ \A x \in Sessions : x # s => session'[x] = session[x] /\ home'[x] = home[x]
<1>1. CASE UNCHANGED <<session, home>>
  BY <1>1 DEF SessionOpen, SessionOf, OpenSessions, TypeOK
<1>2. CASE /\ session[s] = "unused"
           /\ session' = [session EXCEPT ![s] = "open"]
           /\ home' = [home EXCEPT ![s] = [conn |-> c, tab |-> t, db |-> database[c]]]
  BY <1>2 DEF SessionOpen, TypeOK, Homes, SessionStates
<1> QED
  BY <1>1, <1>2 DEF SessionOpen

LEMMA InitInv == Init => Inv
<1> SUFFICES ASSUME Init PROVE Inv
  OBVIOUS
<1>1. TypeOK
  <2>1. home \in [Sessions -> Homes] /\ request \in [Execs -> Requests] /\ page \in [Pages -> PageCalls]
    BY RegistryAssumption DEF Init, Homes, Requests, PageCalls, PageSteps, MaybeSession
  <2>2. mailbox \in [Sessions -> Seq(Messages)]
    BY DEF Init
  <2> QED
    BY <2>1, <2>2, RegistryAssumption DEF Init, TypeOK, SessionStates, ExecSteps, MaybeSession
<1>2. OpenInv /\ ExecInv /\ PageInv /\ StoreInv /\ PagingInv /\ OnlyLiveRegistered /\ InterruptInv
  BY DEF Init, OpenInv, ExecInv, PageInv, StoreInv, PagingInv, OnlyLiveRegistered, InterruptInv, Claimed, Sent
<1>3. MailboxInv
  BY DEF Init, MailboxInv
<1>4. TaskInv
  BY MadeMessages DEF Init, TaskInv
<1>5. HolderInv
  BY DEF Init, HolderInv, ClaimIsExclusive, BusyIsHeld, HoldingExecs, HoldingPages
<1> QED
  BY <1>1, <1>2, <1>3, <1>4, <1>5 DEF Inv

-----------------------------------------------------------------------------
(* Every command and every step of an actor keeps the registries in shape.   *)
(* A page request only frees or claims the session it was given.             *)
LEMMA TypeStep == ASSUME TypeOK, ExecInv, PageInv, Next PROVE TypeOK'
<1> USE RegistryAssumption DEF connVars, sessVars, actorVars, execVars, storeVars
<1>1. ASSUME NEW e \in Execs, ExecuteOpens(e) PROVE TypeOK'
  <2>1. PICK k \in Kinds, c \in Conns, t \in Tabs, r \in Results, s \in Sessions :
          /\ SessionOpen(c, t, s)
          /\ request' = [request EXCEPT ![e] = [kind |-> k, conn |-> c, tab |-> t, result |-> r]]
          /\ sessionId' = [sessionId EXCEPT ![e] = s]
    BY <1>1 DEF ExecuteOpens
  <2>2. request' \in [Execs -> Requests] /\ sessionId' \in [Execs -> MaybeSession]
    BY <2>1 DEF TypeOK, Requests, MaybeSession
  <2>3. home' \in [Sessions -> Homes] /\ session' \in [Sessions -> SessionStates]
    BY <2>1, NewHome
  <2>4. step' \in [Execs -> ExecSteps]
    BY <1>1 DEF TypeOK, ExecuteOpens, ExecSteps
  <2> QED
    BY <1>1, <2>2, <2>3, <2>4 DEF TypeOK, ExecuteOpens
<1>2. ASSUME NEW e \in Execs, ExecuteClaims(e) PROVE TypeOK'
  <2>1. busy' \in SUBSET Sessions /\ handle' \in [Execs -> MaybeSession]
    BY <1>2 DEF TypeOK, ExecuteClaims, SessionOf, OpenSessions, MaybeSession
  <2>2. step' \in [Execs -> ExecSteps] /\ largeValues' \in [Results -> Execs \cup {None}]
    BY <1>2 DEF TypeOK, ExecuteClaims, ExecSteps
  <2> QED
    BY <1>2, <2>1, <2>2 DEF TypeOK, ExecuteClaims
<1>3. ASSUME NEW e \in Execs, ExecuteRefused(e) PROVE TypeOK'
  BY <1>3 DEF TypeOK, ExecuteRefused, ExecSteps
<1>4. ASSUME NEW e \in Execs, ExecuteRegisters(e) PROVE TypeOK'
  BY <1>4 DEF TypeOK, ExecuteRegisters, ExecSteps
<1>5. ASSUME NEW e \in Execs, ExecuteSends(e) PROVE TypeOK'
  <2>1. mailbox' \in [Sessions -> Seq(Messages)]
    BY <1>5, MadeMessages, MailboxGrows DEF ExecuteSends, ExecInv, Claimed, Used
  <2>2. attaching' \in SUBSET Execs /\ step' \in [Execs -> ExecSteps]
    BY <1>5 DEF TypeOK, ExecuteSends, ExecSteps
  <2> QED
    BY <1>5, <2>1, <2>2 DEF TypeOK, ExecuteSends
<1>6. ASSUME NEW e \in Execs, ExecuteUnsent(e) PROVE TypeOK'
  BY <1>6 DEF TypeOK, ExecuteUnsent, ExecSteps
<1>7. ASSUME NEW e \in Execs, AttachSource(e) PROVE TypeOK'
  BY <1>7 DEF TypeOK, AttachSource
<1>8. ASSUME NEW p \in Pages, PageTakesHandle(p) PROVE TypeOK'
  <2>1. page' \in [Pages -> PageCalls]
    BY <1>8 DEF TypeOK, PageTakesHandle, SessionOf, OpenSessions, MaybeSession, PageCalls, PageSteps
  <2> QED
    BY <1>8, <2>1 DEF TypeOK, PageTakesHandle
<1>9. ASSUME NEW p \in Pages, PageClaims(p) PROVE TypeOK'
  <2>1. page' \in [Pages -> PageCalls]
    BY <1>9, PageMoves DEF PageClaims, PageSteps
  <2>2. busy' \in SUBSET Sessions
    BY <1>9 DEF TypeOK, PageClaims, PageInv, Used
  <2> QED
    BY <1>9, <2>1, <2>2 DEF TypeOK, PageClaims
<1>10. ASSUME NEW p \in Pages, PageFindsStore(p) PROVE TypeOK'
  <2>1. page' \in [Pages -> PageCalls]
    BY <1>10, PageMoves DEF PageFindsStore, PageSteps
  <2> QED
    BY SMTT(60), <1>10, <2>1 DEF TypeOK, PageFindsStore
<1>11. ASSUME NEW p \in Pages, PageReturns(p) PROVE TypeOK'
  <2>1. page' \in [Pages -> PageCalls]
    BY <1>11, PageMoves DEF PageReturns, PageSteps
  <2> QED
    BY SMTT(60), <1>11, <2>1 DEF TypeOK, PageReturns
<1>12. ASSUME NEW p \in Pages, PageSends(p) PROVE TypeOK'
  <2>1. page' \in [Pages -> PageCalls]
    BY <1>12, PageMoves DEF PageSends, PageSteps
  <2>2. mailbox' \in [Sessions -> Seq(Messages)]
    BY <1>12, MadeMessages, MailboxGrows DEF PageSends, PageInv, Used
  <2> QED
    BY <1>12, <2>1, <2>2 DEF TypeOK, PageSends
<1>13. ASSUME NEW s \in Sessions, ActorTakes(s) PROVE TypeOK'
  <2>1. task' \in [Sessions -> Messages \cup {Idle, Stopped}]
    BY <1>13 DEF TypeOK, ActorTakes
  <2>2. mailbox' \in [Sessions -> Seq(Messages)]
    BY <1>13 DEF TypeOK, ActorTakes
  <2> QED
    BY <1>13, <2>1, <2>2 DEF TypeOK, ActorTakes
<1>14. ASSUME NEW s \in Sessions, task[s].kind = "execute" PROVE task[s].id \in Execs
  BY <1>14, MessageKinds DEF TypeOK
<1>15. ASSUME NEW s \in Sessions, ActorEndsExecution(s) PROVE TypeOK'
  BY <1>14, <1>15 DEF TypeOK, ActorEndsExecution, ExecSteps
<1>16. ASSUME NEW s \in Sessions, ActorFrees(s) PROVE TypeOK'
  BY <1>14, <1>16 DEF TypeOK, ActorFrees, ExecSteps
<1>17. ASSUME NEW s \in Sessions, ActorAnswers(s) PROVE TypeOK'
  BY <1>14, <1>17 DEF TypeOK, ActorAnswers, ExecSteps
<1>18. ASSUME NEW s \in Sessions, ActorEndsPage(s) PROVE TypeOK'
  <2>1. task[s].id \in Pages
    BY <1>18, MessageKinds DEF TypeOK, ActorEndsPage
  <2>2. page' \in [Pages -> PageCalls]
    BY <1>18, <2>1, PageMoves DEF ActorEndsPage, PageSteps
  <2> QED
    BY SMTT(60), <1>18, <2>2 DEF TypeOK, ActorEndsPage
<1>19. ASSUME NEW s \in Sessions, ActorCloses(s) PROVE TypeOK'
  <2>1. page' \in [Pages -> PageCalls]
    <3>0. \A r \in PageCalls : [r EXCEPT !.step = "done"] \in PageCalls
      BY DEF PageCalls, PageSteps
    <3>1. ASSUME NEW p \in Pages PROVE page[p] \in PageCalls /\ [page[p] EXCEPT !.step = "done"] \in PageCalls
      BY <3>0 DEF TypeOK
    <3> QED
      BY <1>19, <3>1 DEF ActorCloses
  <2>2. mailbox' \in [Sessions -> Seq(Messages)]
    BY <1>19 DEF TypeOK, ActorCloses
  <2>3. session' \in [Sessions -> SessionStates] /\ step' \in [Execs -> ExecSteps]
    BY <1>19 DEF TypeOK, ActorCloses, SessionStates, ExecSteps
  <2> QED
    BY <1>19, <2>1, <2>2, <2>3 DEF TypeOK, ActorCloses
<1>20. ASSUME NEW s \in Sessions, SessionOpens(s) PROVE TypeOK'
  <2>1. home' \in [Sessions -> Homes] /\ session' \in [Sessions -> SessionStates]
    BY <1>20, NewHome DEF SessionOpens
  <2> QED
    BY <1>20, <2>1 DEF TypeOK, SessionOpens
<1>21. ASSUME NEW s \in Sessions, SessionCloseRemoves(s) PROVE TypeOK'
  <2>1. session' \in [Sessions -> SessionStates]
    BY <1>21 DEF TypeOK, SessionCloseRemoves, SessionStates
  <2>2. closings' \in 0..MaxClosings
    BY <1>21 DEF TypeOK, SessionCloseRemoves, CountClosing
  <2> QED
    BY <1>21, <2>1, <2>2 DEF TypeOK, SessionCloseRemoves
<1>22. ASSUME NEW s \in Sessions, SessionCloseCancels(s) PROVE TypeOK'
  <2>1. cancelled' \in SUBSET Execs /\ executions' \in SUBSET Execs /\ interrupted' \in SUBSET Execs
    BY <1>22 DEF TypeOK, SessionCloseCancels, Cancel, Unfinished
  <2>2. session' \in [Sessions -> SessionStates]
    BY <1>22 DEF TypeOK, SessionCloseCancels, SessionStates
  <2> QED
    BY <1>22, <2>1, <2>2 DEF TypeOK, SessionCloseCancels
<1>23. ASSUME NEW s \in Sessions, SessionCloseCollects(s) PROVE TypeOK'
  BY <1>23 DEF TypeOK, SessionCloseCollects, SessionStates
<1>24. ASSUME NEW s \in Sessions, SendClose(s) PROVE TypeOK'
  <2>1. mailbox' \in [Sessions -> Seq(Messages)]
    BY <1>24, MadeMessages, MailboxGrows DEF SendClose
  <2>2. session' \in [Sessions -> SessionStates]
    BY <1>24 DEF TypeOK, SendClose, SessionStates
  <2> QED
    BY <1>24, <2>1, <2>2 DEF TypeOK, SendClose
<1>25. ASSUME NEW s \in Sessions, SessionCloseTimesOut(s) PROVE TypeOK'
  BY <1>25 DEF TypeOK, SessionCloseTimesOut, SessionStates
<1>26. ASSUME NEW s \in Sessions, NEW r \in Results, SessionCloseReleases(s, r) PROVE TypeOK'
  <2>1. releasing' \in [Sessions -> SUBSET Results]
    <3>1. releasing' = [releasing EXCEPT ![s] = @ \ {r}] \/ releasing' = [releasing EXCEPT ![s] = {}]
      BY <1>26 DEF SessionCloseReleases
    <3>2. releasing[s] \ {r} \in SUBSET Results
      BY DEF TypeOK
    <3> QED
      BY ZenonT(120), <3>1, <3>2 DEF TypeOK
  <2>2. largeValues' \in [Results -> Execs \cup {None}]
    BY <1>26 DEF TypeOK, SessionCloseReleases
  <2> QED
    BY <1>26, <2>1, <2>2 DEF TypeOK, SessionCloseReleases
<1>27. ASSUME NEW r \in Results, ResultRelease(r) PROVE TypeOK'
  BY <1>27 DEF TypeOK, ResultRelease
<1>28. ASSUME NEW c \in Conns, ConnectionOpen(c) PROVE TypeOK'
  BY <1>28 DEF TypeOK, ConnectionOpen
<1>29. ASSUME NEW c \in Conns, ConnectionCloseRemoves(c) PROVE TypeOK'
  <2>1. session' \in [Sessions -> SessionStates]
    BY <1>29 DEF TypeOK, ConnectionCloseRemoves, Detach, SessionStates
  <2>2. closings' \in 0..MaxClosings
    BY <1>29 DEF TypeOK, ConnectionCloseRemoves, CountClosing
  <2> QED
    BY <1>29, <2>1, <2>2 DEF TypeOK, ConnectionCloseRemoves
<1>30. ASSUME NEW c \in Conns, ConnectionCloseDrops(c) PROVE TypeOK'
  BY <1>30 DEF TypeOK, ConnectionCloseDrops, WithoutStores
<1>31. ASSUME NEW c \in Conns, ConnectionCloseCancels(c) PROVE TypeOK'
  BY <1>31 DEF TypeOK, ConnectionCloseCancels, Cancel, SessionStates
<1>32. ASSUME NEW c \in Conns, Reconnect(c) PROVE TypeOK'
  <2>1. session' \in [Sessions -> SessionStates]
    BY <1>32 DEF TypeOK, Reconnect, Detach, SessionStates
  <2>2. closings' \in 0..MaxClosings
    BY <1>32 DEF TypeOK, Reconnect, CountClosing
  <2> QED
    BY <1>32, <2>1, <2>2 DEF TypeOK, Reconnect, WithoutStores, Cancel
<1>33. ASSUME NEW c \in Conns, SwitchDatabase(c) PROVE TypeOK'
  <2>1. session' \in [Sessions -> SessionStates]
    BY <1>33 DEF TypeOK, SwitchDatabase, Detach, SessionStates
  <2>2. closings' \in 0..MaxClosings /\ database' \in [Conns -> 0..MaxSwitches]
    BY <1>33 DEF TypeOK, SwitchDatabase, CountClosing
  <2>3. interrupted' \in SUBSET Execs
    BY <1>33 DEF TypeOK, SwitchDatabase, Unfinished
  <2> QED
    BY <1>33, <2>1, <2>2, <2>3 DEF TypeOK, SwitchDatabase, WithoutStores, Cancel
<1> QED
  BY <1>1, <1>2, <1>3, <1>4, <1>5, <1>6, <1>7, <1>8, <1>9, <1>10, <1>11, <1>12, <1>13, <1>15,
     <1>16, <1>17, <1>18, <1>19, <1>20, <1>21, <1>22, <1>23, <1>24, <1>25, <1>26, <1>27, <1>28,
     <1>29, <1>30, <1>31, <1>32, <1>33
     DEF Next, ExecuteStep, PageStep, ActorStep, CloseStep, ConnStep

-----------------------------------------------------------------------------
(* What the closing actor's channel loses, and who had asked for the close. *)
LEMMA CloseFacts ==
    ASSUME Inv, NEW s \in Sessions, ActorCloses(s)
    PROVE  /\ session[s] \in {"waiting", "closed"} /\ session'[s] \in {"confirmed", "closed"}
           /\ \A t \in Sessions : t # s => session'[t] = session[t]
           /\ \A e \in Execs : \/ step'[e] = step[e]
                               \/ step[e] = "sent" /\ handle[e] = s /\ step'[e] = "lost"
           /\ \A p \in Pages : /\ page'[p].conn = page[p].conn
                               /\ page'[p].exec = page[p].exec
                               /\ page'[p].session = page[p].session
                               /\ \/ page'[p] = page[p]
                                  \/ /\ page[p].step = "sent" /\ page[p].session = s
                                     /\ page'[p].step = "done"
<1>1. mailbox[s] \in Seq(Messages) /\ mailbox[s] # <<>> /\ Len(mailbox[s]) \in Nat
  BY DEF Inv, TypeOK, ActorCloses
<1>2. session[s] \in {"waiting", "closed"}
  <2>1. 1 \in 1..Len(mailbox[s]) /\ Head(mailbox[s]) = mailbox[s][1] /\ mailbox[s][1] \in Messages
    BY <1>1
  <2>2. PICK t \in Sessions : mailbox[s][1] = Close(t)
    BY <2>1, MessageKinds DEF ActorCloses
  <2> QED
    BY <2>1, <2>2 DEF Inv, MailboxInv
<1>3. session'[s] \in {"confirmed", "closed"} /\ \A t \in Sessions : t # s => session'[t] = session[t]
  BY <1>2 DEF Inv, TypeOK, ActorCloses
<1>4. \A m \in Dropped(s) : \E i \in 1..Len(mailbox[s]) : m = mailbox[s][i]
  BY <1>1 DEF Dropped
<1>5. ASSUME NEW e \in Execs
      PROVE  step'[e] = step[e] \/ (step[e] = "sent" /\ handle[e] = s /\ step'[e] = "lost")
  BY <1>4 DEF Inv, MailboxInv, ActorCloses
<1>6. ASSUME NEW p \in Pages
      PROVE  /\ page'[p].conn = page[p].conn
             /\ page'[p].exec = page[p].exec
             /\ page'[p].session = page[p].session
             /\ \/ page'[p] = page[p]
                \/ page[p].step = "sent" /\ page[p].session = s /\ page'[p].step = "done"
  <2>1. page[p] \in PageCalls
    BY DEF Inv, TypeOK
  <2>2. CASE FetchPage(p) \in Dropped(s)
    <3>1. page[p].step = "sent" /\ page[p].session = s
      BY <1>4, <2>2 DEF Inv, MailboxInv
    <3>2. page'[p] = [page[p] EXCEPT !.step = "done"]
      BY <2>2 DEF ActorCloses
    <3> QED
      BY <2>1, <3>1, <3>2 DEF PageCalls
  <2>3. CASE FetchPage(p) \notin Dropped(s)
    BY <2>3 DEF ActorCloses
  <2> QED
    BY <2>2, <2>3
<1> QED
  BY <1>2, <1>3, <1>5, <1>6

(* The message a session is at is that of one request, which knows it. *)
LEMMA TaskFacts ==
    ASSUME Inv, NEW s \in Sessions
    PROVE  /\ task[s].kind = "execute" =>
                /\ task[s].id \in Execs /\ task[s] = Execute(task[s].id)
                /\ handle[task[s].id] = s
                /\ step[task[s].id] \in {"sent", "terminal", "freed"}
           /\ task[s].kind = "page" =>
                /\ task[s].id \in Pages /\ task[s] = FetchPage(task[s].id)
                /\ page[task[s].id].session = s
                /\ page[task[s].id].step = "sent"
<1>1. task[s] \in Messages \cup {Idle, Stopped}
  BY DEF Inv, TypeOK
<1> QED
  BY <1>1, MessageKinds DEF Inv, TaskInv

(* A session that was made stays made and keeps its home, and a session  *)
(* whose actor took Close stays closed.                                      *)
LEMMA SessionsLast ==
    ASSUME Inv, Next
    PROVE  \A s \in Sessions :
             /\ session[s] # "unused" => session'[s] # "unused" /\ home'[s] = home[s]
             /\ session[s] \in {"confirmed", "closed"} => session'[s] \in {"confirmed", "closed"}
<1> USE DEF connVars, sessVars, actorVars, execVars, storeVars
<1> SUFFICES ASSUME NEW x \in Sessions, session[x] # "unused"
             PROVE  /\ session'[x] # "unused" /\ home'[x] = home[x]
                    /\ session[x] \in {"confirmed", "closed"} => session'[x] \in {"confirmed", "closed"}
  OBVIOUS
<1> DEFINE Goal == /\ session'[x] # "unused" /\ home'[x] = home[x]
                   /\ session[x] \in {"confirmed", "closed"}
                        => session'[x] \in {"confirmed", "closed"}
<1>1. ASSUME NEW e \in Execs, ExecuteOpens(e) PROVE Goal
  BY <1>1, NewHome DEF Inv, ExecuteOpens
<1>2. ASSUME NEW s \in Sessions, SessionOpens(s) PROVE Goal
  BY <1>2, NewHome DEF Inv, SessionOpens
<1>3. ASSUME NEW s \in Sessions, ActorCloses(s) PROVE Goal
  BY <1>3, CloseFacts DEF ActorCloses
<1>4. ASSUME NEW s \in Sessions, SessionCloseRemoves(s) PROVE Goal
  BY <1>4 DEF SessionCloseRemoves, Inv, TypeOK
<1>5. ASSUME NEW s \in Sessions, SessionCloseCancels(s) PROVE Goal
  BY <1>5 DEF SessionCloseCancels, Inv, TypeOK
<1>6. ASSUME NEW s \in Sessions, SendClose(s) PROVE Goal
  BY <1>6 DEF SendClose, Inv, TypeOK
<1>7. ASSUME NEW s \in Sessions, SessionCloseTimesOut(s) PROVE Goal
  BY <1>7 DEF SessionCloseTimesOut, Inv, TypeOK
<1>8. ASSUME NEW s \in Sessions, SessionCloseCollects(s) PROVE Goal
  BY <1>8 DEF SessionCloseCollects, Inv, TypeOK
<1>9. ASSUME NEW c \in Conns, ConnectionCloseRemoves(c) PROVE Goal
  BY <1>9 DEF ConnectionCloseRemoves, Detach, OpenSessions
<1>10. ASSUME NEW c \in Conns, ConnectionCloseCancels(c) PROVE Goal
  BY <1>10 DEF ConnectionCloseCancels
<1>11. ASSUME NEW c \in Conns, Reconnect(c) PROVE Goal
  BY <1>11 DEF Reconnect, Detach, OpenSessions
<1>12. ASSUME NEW c \in Conns, SwitchDatabase(c) PROVE Goal
  BY <1>12 DEF SwitchDatabase, Detach, OpenSessions
<1>13. CASE UNCHANGED <<session, home>>
  BY <1>13
<1>14. ASSUME NEW e \in Execs, ExecuteStep(e) PROVE Goal
  BY <1>1, <1>13, <1>14 DEF ExecuteStep, ExecuteClaims, ExecuteRefused, ExecuteRegisters,
       ExecuteSends, ExecuteUnsent, AttachSource
<1>15. ASSUME NEW p \in Pages, PageStep(p) PROVE Goal
  BY <1>13, <1>15 DEF PageStep, PageTakesHandle, PageClaims, PageFindsStore, PageReturns, PageSends
<1>16. ASSUME NEW s \in Sessions, ActorStep(s) \/ CloseStep(s) PROVE Goal
  BY <1>2, <1>3, <1>4, <1>5, <1>6, <1>7, <1>8, <1>13, <1>16
     DEF ActorStep, CloseStep, ActorTakes, ActorEndsExecution, ActorFrees, ActorAnswers, ActorEndsPage,
         SessionCloseReleases
<1>17. ASSUME NEW c \in Conns, ConnStep(c) PROVE Goal
  BY <1>9, <1>10, <1>11, <1>12, <1>13, <1>17 DEF ConnStep, ConnectionOpen, ConnectionCloseDrops
<1>18. ASSUME NEW r \in Results, ResultRelease(r) PROVE Goal
  BY <1>13, <1>18 DEF ResultRelease
<1> QED
  BY <1>14, <1>15, <1>16, <1>17, <1>18 DEF Next

(* Executions only go on: what was asked for and what was claimed is kept. *)
LEMMA RequestsLast ==
    ASSUME Inv, Next, NEW x \in Execs
    PROVE  /\ step[x] # "new" => /\ step'[x] # "new"
                                 /\ request'[x] = request[x] /\ sessionId'[x] = sessionId[x]
           /\ step[x] \notin {"new", "opened"} => step'[x] \notin {"new", "opened"} /\ handle'[x] = handle[x]
           /\ step[x] \in Sent => step'[x] \in Sent
<1> USE DEF connVars, sessVars, actorVars, execVars, storeVars, Sent
<1> DEFINE Goal == /\ step[x] # "new" => /\ step'[x] # "new"
                                         /\ request'[x] = request[x] /\ sessionId'[x] = sessionId[x]
                   /\ step[x] \notin {"new", "opened"}
                        => step'[x] \notin {"new", "opened"} /\ handle'[x] = handle[x]
                   /\ step[x] \in Sent => step'[x] \in Sent
<1>1. CASE UNCHANGED <<step, request, sessionId, handle>>
  BY <1>1
<1>2. ASSUME NEW e \in Execs, ExecuteOpens(e) PROVE Goal
  BY <1>2 DEF ExecuteOpens, Inv, TypeOK
<1>3. ASSUME NEW e \in Execs, ExecuteClaims(e) PROVE Goal
  BY <1>3 DEF ExecuteClaims, Inv, TypeOK
<1>4. ASSUME NEW e \in Execs, ExecuteRefused(e) PROVE Goal
  BY <1>4 DEF ExecuteRefused, Inv, TypeOK
<1>5. ASSUME NEW e \in Execs, ExecuteRegisters(e) PROVE Goal
  BY <1>5 DEF ExecuteRegisters, Inv, TypeOK
<1>6. ASSUME NEW e \in Execs, ExecuteSends(e) PROVE Goal
  BY <1>6 DEF ExecuteSends, Inv, TypeOK
<1>7. ASSUME NEW e \in Execs, ExecuteUnsent(e) PROVE Goal
  BY <1>7 DEF ExecuteUnsent, Inv, TypeOK
<1>8. ASSUME NEW s \in Sessions, ActorEndsExecution(s) PROVE Goal
  BY <1>8, TaskFacts DEF ActorEndsExecution, Inv, TypeOK
<1>9. ASSUME NEW s \in Sessions, ActorFrees(s) PROVE Goal
  BY <1>9, TaskFacts DEF ActorFrees, Inv, TypeOK
<1>10. ASSUME NEW s \in Sessions, ActorAnswers(s) PROVE Goal
  BY <1>10, TaskFacts DEF ActorAnswers, Inv, TypeOK
<1>11. ASSUME NEW s \in Sessions, ActorCloses(s) PROVE Goal
  BY <1>11, CloseFacts DEF ActorCloses
<1>12. ASSUME NEW e \in Execs, ExecuteStep(e) PROVE Goal
  BY SMTT(60), <1>1, <1>2, <1>3, <1>4, <1>5, <1>6, <1>7, <1>12 DEF ExecuteStep, AttachSource
<1>13. ASSUME NEW p \in Pages, PageStep(p) PROVE Goal
  BY <1>1, <1>13 DEF PageStep, PageTakesHandle, PageClaims, PageFindsStore, PageReturns, PageSends
<1>14. ASSUME NEW s \in Sessions, ActorStep(s) PROVE Goal
  BY <1>1, <1>8, <1>9, <1>10, <1>11, <1>14 DEF ActorStep, ActorTakes, ActorEndsPage
<1>15. ASSUME NEW s \in Sessions, CloseStep(s) PROVE Goal
  BY <1>1, <1>15 DEF CloseStep, SessionOpens, SessionCloseRemoves, SessionCloseCancels, SendClose,
       SessionCloseTimesOut, SessionCloseCollects, SessionCloseReleases
<1>16. ASSUME NEW c \in Conns, ConnStep(c) PROVE Goal
  BY <1>1, <1>16 DEF ConnStep, ConnectionOpen, ConnectionCloseRemoves, ConnectionCloseDrops,
       ConnectionCloseCancels, Reconnect, SwitchDatabase
<1>17. ASSUME NEW r \in Results, ResultRelease(r) PROVE Goal
  BY <1>1, <1>17 DEF ResultRelease
<1> QED
  BY <1>12, <1>13, <1>14, <1>15, <1>16, <1>17 DEF Next

(* A page request keeps what it was given. *)
LEMMA PagesLast ==
    ASSUME Inv, Next, NEW x \in Pages, page[x].step # "new"
    PROVE  /\ page'[x].step # "new"
           /\ page'[x].conn = page[x].conn /\ page'[x].exec = page[x].exec
           /\ page'[x].session = page[x].session
<1> USE DEF connVars, sessVars, actorVars, execVars, storeVars, PageSteps
<1> DEFINE Goal == /\ page'[x].step # "new"
                   /\ page'[x].conn = page[x].conn /\ page'[x].exec = page[x].exec
                   /\ page'[x].session = page[x].session
<1>1. CASE UNCHANGED page
  BY <1>1
<1>2. ASSUME NEW p \in Pages, PageTakesHandle(p) PROVE Goal
  BY <1>2 DEF PageTakesHandle, Inv, TypeOK
<1>3. ASSUME NEW p \in Pages, NEW to \in PageSteps \ {"new"}, page' = [page EXCEPT ![p].step = to]
      PROVE  Goal
  <2>1. TypeOK
    BY DEF Inv
  <2>2. /\ page'[p].step = to /\ page'[x].conn = page[x].conn /\ page'[x].exec = page[x].exec
        /\ page'[x].session = page[x].session /\ (x # p => page'[x] = page[x])
    BY <1>3, <2>1, PageMoves
  <2> QED
    BY <1>3, <2>2
<1>4. ASSUME NEW p \in Pages, PageClaims(p) \/ PageFindsStore(p)
      PROVE  Goal
  <2>1. \E to \in PageSteps \ {"new"} : page' = [page EXCEPT ![p].step = to]
    BY <1>4 DEF PageClaims, PageFindsStore
  <2> QED
    BY <1>3, <2>1
<1>5. ASSUME NEW p \in Pages, PageReturns(p) PROVE Goal
  <2>1. \E to \in PageSteps \ {"new"} : page' = [page EXCEPT ![p].step = to]
    BY <1>5 DEF PageReturns
  <2> QED
    BY <1>3, <2>1
<1>6. ASSUME NEW p \in Pages, PageSends(p) PROVE Goal
  <2>1. \E to \in PageSteps \ {"new"} : page' = [page EXCEPT ![p].step = to]
    BY <1>6 DEF PageSends
  <2> QED
    BY <1>3, <2>1
<1>7. ASSUME NEW s \in Sessions, ActorEndsPage(s) PROVE Goal
  <2>1. PICK q : q = task[s].id
    OBVIOUS
  <2>2. page' = [page EXCEPT ![q].step = "done"] /\ task[s].kind = "page"
    BY <1>7, <2>1 DEF ActorEndsPage
  <2>3. q \in Pages
    BY <2>1, <2>2, TaskFacts
  <2> QED
    BY <1>3, <2>2, <2>3
<1>8. ASSUME NEW s \in Sessions, ActorCloses(s) PROVE Goal
  BY <1>8, CloseFacts
<1>9. ASSUME NEW e \in Execs, ExecuteStep(e) PROVE Goal
  BY <1>1, <1>9 DEF ExecuteStep, ExecuteOpens, ExecuteClaims, ExecuteRefused, ExecuteRegisters,
       ExecuteSends, ExecuteUnsent, AttachSource
<1>10. ASSUME NEW s \in Sessions, ActorStep(s) PROVE Goal
  BY <1>1, <1>7, <1>8, <1>10 DEF ActorStep, ActorTakes, ActorEndsExecution, ActorFrees, ActorAnswers
<1>11. ASSUME NEW s \in Sessions, CloseStep(s) PROVE Goal
  BY <1>1, <1>11 DEF CloseStep, SessionOpens, SessionCloseRemoves, SessionCloseCancels, SendClose,
       SessionCloseTimesOut, SessionCloseCollects, SessionCloseReleases
<1>12. ASSUME NEW c \in Conns, ConnStep(c) PROVE Goal
  BY <1>1, <1>12 DEF ConnStep, ConnectionOpen, ConnectionCloseRemoves, ConnectionCloseDrops,
       ConnectionCloseCancels, Reconnect, SwitchDatabase
<1>13. ASSUME NEW r \in Results, ResultRelease(r) PROVE Goal
  BY <1>1, <1>13 DEF ResultRelease
<1> QED
  BY <1>2, <1>4, <1>5, <1>6, <1>9, <1>10, <1>11, <1>12, <1>13 DEF Next, PageStep

(* Open sessions stay those of open workspaces: whoever closes a workspace   *)
(* or changes its database detaches its sessions in the same section.        *)
LEMMA OpenStep == ASSUME Inv, Next PROVE OpenInv'
<1> USE DEF connVars, sessVars, actorVars, execVars, storeVars
<1> SUFFICES ASSUME NEW x \in Sessions, session'[x] = "open"
             PROVE  /\ home'[x].conn \in Conns
                    /\ workspace'[home'[x].conn] = "open"
                    /\ home'[x].db = database'[home'[x].conn]
  BY DEF OpenInv
<1> DEFINE Goal == /\ home'[x].conn \in Conns
                   /\ workspace'[home'[x].conn] = "open"
                   /\ home'[x].db = database'[home'[x].conn]
<1>1. CASE session[x] = "open" /\ UNCHANGED <<workspace, database, home>>
  BY <1>1 DEF Inv, OpenInv
<1>2. ASSUME NEW e \in Execs, ExecuteOpens(e) PROVE Goal
  BY <1>1, <1>2, NewHome DEF ExecuteOpens, Inv, OpenInv
<1>3. ASSUME NEW s \in Sessions, SessionOpens(s) PROVE Goal
  BY <1>1, <1>3, NewHome DEF SessionOpens, Inv, OpenInv
<1>4. ASSUME NEW s \in Sessions, ActorCloses(s) PROVE Goal
  BY <1>1, <1>4, CloseFacts DEF ActorCloses
<1>5. ASSUME NEW s \in Sessions, SessionCloseRemoves(s) PROVE Goal
  BY <1>1, <1>5 DEF SessionCloseRemoves, Inv, TypeOK
<1>6. ASSUME NEW s \in Sessions, SessionCloseCancels(s) PROVE Goal
  BY <1>1, <1>6 DEF SessionCloseCancels, Inv, TypeOK
<1>7. ASSUME NEW s \in Sessions, SendClose(s) PROVE Goal
  BY <1>1, <1>7 DEF SendClose, Inv, TypeOK
<1>8. ASSUME NEW s \in Sessions, SessionCloseTimesOut(s) PROVE Goal
  BY <1>1, <1>8 DEF SessionCloseTimesOut, Inv, TypeOK
<1>9. ASSUME NEW s \in Sessions, SessionCloseCollects(s) PROVE Goal
  BY <1>1, <1>9 DEF SessionCloseCollects, Inv, TypeOK
<1>10. ASSUME NEW c \in Conns, ConnectionOpen(c) PROVE Goal
  BY <1>10 DEF ConnectionOpen, Inv, TypeOK, OpenInv
<1>11. ASSUME NEW c \in Conns, ConnectionCloseRemoves(c) PROVE Goal
  BY <1>11 DEF ConnectionCloseRemoves, Detach, OpenSessions, Inv, TypeOK, OpenInv
<1>12. ASSUME NEW c \in Conns, ConnectionCloseDrops(c) PROVE Goal
  BY <1>12 DEF ConnectionCloseDrops, Inv, TypeOK, OpenInv
<1>13. ASSUME NEW c \in Conns, ConnectionCloseCancels(c) PROVE Goal
  BY <1>13 DEF ConnectionCloseCancels, Inv, TypeOK, OpenInv
<1>14. ASSUME NEW c \in Conns, Reconnect(c) PROVE Goal
  BY <1>1, <1>14 DEF Reconnect, Detach, OpenSessions
<1>15. ASSUME NEW c \in Conns, SwitchDatabase(c) PROVE Goal
  BY <1>15 DEF SwitchDatabase, Detach, OpenSessions, Inv, TypeOK, OpenInv
<1>16. ASSUME NEW e \in Execs, ExecuteStep(e) PROVE Goal
  BY <1>1, <1>2, <1>16 DEF ExecuteStep, ExecuteClaims, ExecuteRefused, ExecuteRegisters,
       ExecuteSends, ExecuteUnsent, AttachSource
<1>17. ASSUME NEW p \in Pages, PageStep(p) PROVE Goal
  BY <1>1, <1>17 DEF PageStep, PageTakesHandle, PageClaims, PageFindsStore, PageReturns, PageSends
<1>18. ASSUME NEW s \in Sessions, ActorStep(s) PROVE Goal
  BY <1>1, <1>4, <1>18 DEF ActorStep, ActorTakes, ActorEndsExecution, ActorFrees, ActorAnswers,
       ActorEndsPage
<1>19. ASSUME NEW s \in Sessions, CloseStep(s) PROVE Goal
  BY <1>1, <1>3, <1>5, <1>6, <1>7, <1>8, <1>9, <1>19 DEF CloseStep, SessionCloseReleases
<1>20. ASSUME NEW r \in Results, ResultRelease(r) PROVE Goal
  BY <1>1, <1>20 DEF ResultRelease
<1> QED
  BY <1>10, <1>11, <1>12, <1>13, <1>14, <1>15, <1>16, <1>17, <1>18, <1>19, <1>20 DEF Next, ConnStep

(* An execution claims a session that exists, of its own connection, and its *)
(* terminal flag is set with its end and not before.                         *)
LEMMA ExecKeeps == ASSUME Inv, Next PROVE ExecInv'
<1> USE DEF connVars, sessVars, actorVars, execVars, storeVars, Claimed, Sent
<1> SUFFICES ASSUME NEW x \in Execs
             PROVE  /\ step'[x] # "new" => request'[x].result \in Results
                    /\ step'[x] \in Claimed => /\ handle'[x] \in Sessions
                                               /\ session'[handle'[x]] # "unused"
                                               /\ home'[handle'[x]].conn = request'[x].conn
                    /\ step'[x] = "lost" => session'[handle'[x]] \in {"confirmed", "closed"}
                    /\ x \in terminal' <=> step'[x] \in {"terminal", "freed", "answered"}
  BY DEF ExecInv, Used
<1> DEFINE Goal == /\ step'[x] # "new" => request'[x].result \in Results
                   /\ step'[x] \in Claimed => /\ handle'[x] \in Sessions
                                              /\ session'[handle'[x]] # "unused"
                                              /\ home'[handle'[x]].conn = request'[x].conn
                   /\ step'[x] = "lost" => session'[handle'[x]] \in {"confirmed", "closed"}
                   /\ x \in terminal' <=> step'[x] \in {"terminal", "freed", "answered"}
<1>1. step[x] \in Claimed => /\ handle'[x] \in Sessions
                             /\ session'[handle'[x]] # "unused"
                             /\ home'[handle'[x]].conn = request'[x].conn
                             /\ step[x] = "lost" => session'[handle'[x]] \in {"confirmed", "closed"}
  BY RequestsLast, SessionsLast DEF Inv, ExecInv, Used
<1>2. /\ x \in terminal <=> step[x] \in {"terminal", "freed", "answered"}
      /\ step[x] # "new" => request'[x].result \in Results
  BY RequestsLast DEF Inv, ExecInv
<1>3. CASE UNCHANGED <<step, terminal>>
  BY <1>1, <1>2, <1>3
<1>4. ASSUME NEW e \in Execs, ExecuteOpens(e) PROVE Goal
  <2>1. request'[e].result \in Results
    BY <1>4 DEF ExecuteOpens, Inv, TypeOK
  <2> QED
    BY <1>1, <1>2, <1>4, <2>1 DEF ExecuteOpens, Inv, TypeOK
<1>5. ASSUME NEW e \in Execs, ExecuteClaims(e) PROVE Goal
  BY <1>1, <1>2, <1>5 DEF ExecuteClaims, SessionOf, OpenSessions, Inv, TypeOK
<1>6. ASSUME NEW e \in Execs, ExecuteRefused(e) PROVE Goal
  BY <1>1, <1>2, <1>6 DEF ExecuteRefused, Inv, TypeOK
<1>7. ASSUME NEW e \in Execs, ExecuteRegisters(e) PROVE Goal
  BY <1>1, <1>2, <1>7 DEF ExecuteRegisters, Inv, TypeOK
<1>8. ASSUME NEW e \in Execs, ExecuteSends(e) PROVE Goal
  BY <1>1, <1>2, <1>8 DEF ExecuteSends, Inv, TypeOK
<1>9. ASSUME NEW e \in Execs, ExecuteUnsent(e) PROVE Goal
  BY <1>1, <1>2, <1>9 DEF ExecuteUnsent, Inv, TypeOK
<1>10. ASSUME NEW s \in Sessions, ActorEndsExecution(s) PROVE Goal
  BY <1>1, <1>2, <1>10, TaskFacts DEF ActorEndsExecution, Inv, TypeOK
<1>11. ASSUME NEW s \in Sessions, ActorFrees(s) PROVE Goal
  BY <1>1, <1>2, <1>11, TaskFacts DEF ActorFrees, Inv, TypeOK
<1>12. ASSUME NEW s \in Sessions, ActorAnswers(s) PROVE Goal
  BY <1>1, <1>2, <1>12, TaskFacts DEF ActorAnswers, Inv, TypeOK
<1>13. ASSUME NEW s \in Sessions, ActorCloses(s) PROVE Goal
  <2>1. UNCHANGED <<handle, terminal>>
    BY <1>13 DEF ActorCloses
  <2> QED
    BY <1>1, <1>2, <1>13, <2>1, CloseFacts
<1>14. ASSUME NEW e \in Execs, ExecuteStep(e) PROVE Goal
  BY <1>3, <1>4, <1>5, <1>6, <1>7, <1>8, <1>9, <1>14 DEF ExecuteStep, AttachSource
<1>15. ASSUME NEW p \in Pages, PageStep(p) PROVE Goal
  BY <1>3, <1>15 DEF PageStep, PageTakesHandle, PageClaims, PageFindsStore, PageReturns, PageSends
<1>16. ASSUME NEW s \in Sessions, ActorStep(s) PROVE Goal
  BY <1>3, <1>10, <1>11, <1>12, <1>13, <1>16 DEF ActorStep, ActorTakes, ActorEndsPage
<1>17. ASSUME NEW s \in Sessions, CloseStep(s) PROVE Goal
  BY <1>3, <1>17 DEF CloseStep, SessionOpens, SessionCloseRemoves, SessionCloseCancels, SendClose,
       SessionCloseTimesOut, SessionCloseCollects, SessionCloseReleases
<1>18. ASSUME NEW c \in Conns, ConnStep(c) PROVE Goal
  BY <1>3, <1>18 DEF ConnStep, ConnectionOpen, ConnectionCloseRemoves, ConnectionCloseDrops,
       ConnectionCloseCancels, Reconnect, SwitchDatabase
<1>19. ASSUME NEW r \in Results, ResultRelease(r) PROVE Goal
  BY <1>3, <1>19 DEF ResultRelease
<1> QED
  BY <1>14, <1>15, <1>16, <1>17, <1>18, <1>19 DEF Next

(* A page request is about an execution that was accepted. *)
LEMMA PageKeeps == ASSUME Inv, Next PROVE PageInv'
<1> USE DEF connVars, sessVars, actorVars, execVars, storeVars
<1> SUFFICES ASSUME NEW x \in Pages, page'[x].step # "new"
             PROVE  /\ page'[x].session \in Sessions /\ session'[page'[x].session] # "unused"
                    /\ page'[x].exec \in Execs /\ step'[page'[x].exec] \in Sent
  BY DEF PageInv, Used
<1> DEFINE Goal == /\ page'[x].session \in Sessions /\ session'[page'[x].session] # "unused"
                   /\ page'[x].exec \in Execs /\ step'[page'[x].exec] \in Sent
<1>1. CASE page[x].step # "new"
  BY <1>1, PagesLast, SessionsLast, RequestsLast DEF Inv, PageInv, Used
<1>2. CASE page[x].step = "new" /\ UNCHANGED page
  BY <1>2
<1>3. ASSUME NEW p \in Pages, PageTakesHandle(p) PROVE Goal
  BY <1>1, <1>3 DEF PageTakesHandle, SessionOf, OpenSessions, Inv, TypeOK, Sent
<1>4. ASSUME NEW p \in Pages, page[p].step # "new", NEW to \in PageSteps,
             page' = [page EXCEPT ![p].step = to]
      PROVE  Goal
  BY <1>1, <1>4, PageMoves DEF Inv
<1>5. ASSUME NEW p \in Pages, PageStep(p) PROVE Goal
  <2>1. PageTakesHandle(p) \/ page[p].step # "new"
    BY <1>5 DEF PageStep, PageClaims, PageFindsStore, PageReturns, PageSends
  <2>2. PageTakesHandle(p) \/ \E to \in PageSteps : page' = [page EXCEPT ![p].step = to]
    <3>1. CASE PageClaims(p) \/ PageFindsStore(p)
      BY <3>1 DEF PageClaims, PageFindsStore, PageSteps
    <3>2. CASE PageReturns(p)
      BY <3>2 DEF PageReturns, PageSteps
    <3>3. CASE PageSends(p)
      BY SMTT(60), <3>3 DEF PageSends, PageSteps
    <3> QED
      BY <1>5, <3>1, <3>2, <3>3 DEF PageStep
  <2> QED
    BY <1>3, <1>4, <2>1, <2>2
<1>6. ASSUME NEW s \in Sessions, ActorEndsPage(s) PROVE Goal
  BY <1>4, <1>6, TaskFacts DEF ActorEndsPage, PageSteps
<1>7. ASSUME NEW s \in Sessions, ActorCloses(s) PROVE Goal
  BY <1>1, <1>7, CloseFacts
<1>8. ASSUME NEW e \in Execs, ExecuteStep(e) PROVE Goal
  BY <1>1, <1>2, <1>8 DEF ExecuteStep, ExecuteOpens, ExecuteClaims, ExecuteRefused, ExecuteRegisters,
       ExecuteSends, ExecuteUnsent, AttachSource
<1>9. ASSUME NEW s \in Sessions, ActorStep(s) PROVE Goal
  BY <1>1, <1>2, <1>6, <1>7, <1>9 DEF ActorStep, ActorTakes, ActorEndsExecution, ActorFrees, ActorAnswers
<1>10. ASSUME NEW s \in Sessions, CloseStep(s) PROVE Goal
  BY <1>1, <1>2, <1>10 DEF CloseStep, SessionOpens, SessionCloseRemoves, SessionCloseCancels, SendClose,
       SessionCloseTimesOut, SessionCloseCollects, SessionCloseReleases
<1>11. ASSUME NEW c \in Conns, ConnStep(c) PROVE Goal
  BY <1>1, <1>2, <1>11 DEF ConnStep, ConnectionOpen, ConnectionCloseRemoves, ConnectionCloseDrops,
       ConnectionCloseCancels, Reconnect, SwitchDatabase
<1>12. ASSUME NEW r \in Results, ResultRelease(r) PROVE Goal
  BY <1>1, <1>2, <1>12 DEF ResultRelease
<1> QED
  BY <1>5, <1>8, <1>9, <1>10, <1>11, <1>12 DEF Next

(* A command changes its own request only, before it reached a session, and  *)
(* an actor only the requests of its session.                                *)
LEMMA ExecuteLocal ==
    ASSUME Inv, NEW e \in Execs, ExecuteStep(e)
    PROVE  /\ UNCHANGED <<task, page>>
           /\ UNCHANGED <<step, handle>> \/ step[e] \in {"new", "opened", "claimed", "registered"}
           /\ \A d \in Execs \ {e} : step'[d] = step[d] /\ handle'[d] = handle[d]
<1> USE DEF connVars, sessVars, actorVars, execVars, storeVars
<1>1. UNCHANGED <<task, page>>
  BY DEF ExecuteStep, ExecuteOpens, ExecuteClaims, ExecuteRefused, ExecuteRegisters, ExecuteSends,
         ExecuteUnsent, AttachSource
<1>2. UNCHANGED <<step, handle>> \/ step[e] \in {"new", "opened", "claimed", "registered"}
  BY DEF ExecuteStep, ExecuteOpens, ExecuteClaims, ExecuteRefused, ExecuteRegisters, ExecuteSends,
         ExecuteUnsent, AttachSource
<1>3. \A d \in Execs \ {e} : step'[d] = step[d] /\ handle'[d] = handle[d]
  BY DEF ExecuteStep, ExecuteOpens, ExecuteClaims, ExecuteRefused, ExecuteRegisters, ExecuteSends,
         ExecuteUnsent, AttachSource, Inv, TypeOK
<1> QED
  BY <1>1, <1>2, <1>3

LEMMA PageLocal ==
    ASSUME Inv, NEW p \in Pages, PageStep(p)
    PROVE  /\ UNCHANGED <<task, session, step, handle>>
           /\ page[p].step # "sent"
           /\ \A q \in Pages \ {p} : page'[q] = page[q]
<1> USE DEF connVars, sessVars, actorVars, execVars, storeVars
<1>1. UNCHANGED <<task, session, step, handle>> /\ page[p].step # "sent"
  BY DEF PageStep, PageTakesHandle, PageClaims, PageFindsStore, PageReturns, PageSends
<1>2. \A q \in Pages \ {p} : page'[q] = page[q]
  BY DEF PageStep, PageTakesHandle, PageClaims, PageFindsStore, PageReturns, PageSends, Inv, TypeOK
<1> QED
  BY <1>1, <1>2

LEMMA ActorLocal ==
    ASSUME Inv, NEW s \in Sessions, ActorStep(s)
    PROVE  /\ UNCHANGED handle
           /\ \A e \in Execs : handle[e] # s => step'[e] = step[e]
           /\ \A p \in Pages : page[p].session # s => page'[p] = page[p]
           /\ \A t \in Sessions \ {s} : task'[t] = task[t] /\ mailbox'[t] = mailbox[t]
<1> USE DEF connVars, sessVars, actorVars, execVars, storeVars
<1>1. UNCHANGED handle
  BY DEF ActorStep, ActorTakes, ActorEndsExecution, ActorFrees, ActorAnswers, ActorEndsPage, ActorCloses
<1>2. \A t \in Sessions \ {s} : task'[t] = task[t] /\ mailbox'[t] = mailbox[t]
  BY DEF ActorStep, ActorTakes, ActorEndsExecution, ActorFrees, ActorAnswers, ActorEndsPage,
         ActorCloses, Inv, TypeOK
<1>3. ASSUME NEW e \in Execs, handle[e] # s PROVE step'[e] = step[e]
  <2>1. CASE ActorCloses(s)
    BY <1>3, <2>1, CloseFacts
  <2>2. CASE ~ActorCloses(s)
    BY <1>3, <2>2, TaskFacts DEF ActorStep, ActorTakes, ActorEndsExecution, ActorFrees, ActorAnswers,
         ActorEndsPage, Inv, TypeOK
  <2> QED
    BY <2>1, <2>2
<1>4. ASSUME NEW p \in Pages, page[p].session # s PROVE page'[p] = page[p]
  <2>1. CASE ActorCloses(s)
    BY SMTT(60), <1>4, <2>1, CloseFacts
  <2>2. CASE ActorEndsPage(s)
    <3>1. PICK q : q = task[s].id
      OBVIOUS
    <3>2. page' = [page EXCEPT ![q].step = "done"] /\ task[s].kind = "page"
      BY <2>2, <3>1 DEF ActorEndsPage
    <3>3. q \in Pages /\ page[q].session = s
      BY <3>1, <3>2, TaskFacts
    <3>4. p # q
      BY <1>4, <3>3
    <3>5. TypeOK /\ "done" \in PageSteps
      BY DEF Inv, PageSteps
    <3> QED
      BY <3>2, <3>3, <3>4, <3>5, PageMoves
  <2>3. CASE ~ActorCloses(s) /\ ~ActorEndsPage(s)
    BY <2>3 DEF ActorStep, ActorTakes, ActorEndsExecution, ActorFrees, ActorAnswers
  <2> QED
    BY <2>1, <2>2, <2>3
<1> QED
  BY <1>1, <1>2, <1>3, <1>4

(* A session is at the message of a request that is in it. *)
LEMMA TaskKeeps == ASSUME Inv, Next PROVE TaskInv'
<1> USE DEF connVars, sessVars, actorVars, execVars, storeVars
<1> SUFFICES ASSUME NEW x \in Sessions
             PROVE  /\ \A e \in Execs : task'[x] = Execute(e)
                         => handle'[e] = x /\ step'[e] \in {"sent", "terminal", "freed"}
                    /\ \A p \in Pages : task'[x] = FetchPage(p)
                         => page'[p].session = x /\ page'[p].step = "sent"
                    /\ task'[x].kind # "close"
  BY DEF TaskInv
<1> DEFINE Goal == /\ \A e \in Execs : task'[x] = Execute(e)
                        => handle'[e] = x /\ step'[e] \in {"sent", "terminal", "freed"}
                   /\ \A p \in Pages : task'[x] = FetchPage(p)
                        => page'[p].session = x /\ page'[p].step = "sent"
                   /\ task'[x].kind # "close"
<1>1. /\ \A e \in Execs : task[x] = Execute(e)
           => handle[e] = x /\ step[e] \in {"sent", "terminal", "freed"}
      /\ \A p \in Pages : task[x] = FetchPage(p) => page[p].session = x /\ page[p].step = "sent"
      /\ task[x].kind # "close"
  BY DEF Inv, TaskInv
<1>2. CASE UNCHANGED <<task, step, handle, page>>
  BY <1>1, <1>2
<1>3. ASSUME NEW e \in Execs, ExecuteStep(e) PROVE Goal
  BY <1>1, <1>2, <1>3, ExecuteLocal
<1>4. ASSUME NEW p \in Pages, PageStep(p) PROVE Goal
  BY <1>1, <1>4, PageLocal
<1>5. ASSUME NEW s \in Sessions, ActorTakes(s) PROVE Goal
  <2>1. mailbox[s] \in Seq(Messages) /\ mailbox[s] # <<>>
    BY <1>5 DEF ActorTakes, Inv, TypeOK
  <2>2. 1 \in 1..Len(mailbox[s]) /\ Head(mailbox[s]) = mailbox[s][1]
    BY <2>1
  <2>3. task'[x] = task[x] \/ (x = s /\ task'[x] = mailbox[s][1] /\ mailbox[s][1].kind # "close")
    BY <1>5, <2>2 DEF ActorTakes, Inv, TypeOK
  <2>4. UNCHANGED <<step, handle, page>>
    BY <1>5 DEF ActorTakes
  <2> QED
    BY <1>1, <2>2, <2>3, <2>4 DEF Inv, MailboxInv
<1>6. ASSUME NEW s \in Sessions, ActorEndsExecution(s) PROVE Goal
  BY <1>1, <1>6, TaskFacts DEF ActorEndsExecution, Inv, TypeOK
<1>7. ASSUME NEW s \in Sessions, ActorFrees(s) PROVE Goal
  BY <1>1, <1>7, TaskFacts DEF ActorFrees, Inv, TypeOK
<1>8. ASSUME NEW s \in Sessions, ActorAnswers(s) PROVE Goal
  <2>1. (task'[x] = task[x] /\ x # s) \/ task'[x] = Idle
    BY <1>8 DEF ActorAnswers, Inv, TypeOK
  <2> QED
    BY <1>1, <1>8, <2>1, ActorLocal, MadeMessages DEF ActorStep
<1>9. ASSUME NEW s \in Sessions, ActorEndsPage(s) PROVE Goal
  <2>1. (task'[x] = task[x] /\ x # s) \/ task'[x] = Idle
    BY <1>9 DEF ActorEndsPage, Inv, TypeOK
  <2> QED
    BY <1>1, <1>9, <2>1, ActorLocal, MadeMessages DEF ActorStep
<1>10. ASSUME NEW s \in Sessions, ActorCloses(s) PROVE Goal
  <2>1. (task'[x] = task[x] /\ x # s) \/ task'[x] = Stopped
    BY <1>10 DEF ActorCloses, Inv, TypeOK
  <2> QED
    BY <1>1, <1>10, <2>1, ActorLocal, MadeMessages DEF ActorStep
<1>11. ASSUME NEW s \in Sessions, CloseStep(s) PROVE Goal
  BY <1>2, <1>11 DEF CloseStep, SessionOpens, SessionCloseRemoves, SessionCloseCancels, SendClose,
       SessionCloseTimesOut, SessionCloseCollects, SessionCloseReleases
<1>12. ASSUME NEW c \in Conns, ConnStep(c) PROVE Goal
  BY <1>2, <1>12 DEF ConnStep, ConnectionOpen, ConnectionCloseRemoves, ConnectionCloseDrops,
       ConnectionCloseCancels, Reconnect, SwitchDatabase
<1>13. ASSUME NEW r \in Results, ResultRelease(r) PROVE Goal
  BY <1>2, <1>13 DEF ResultRelease
<1> QED
  BY <1>3, <1>4, <1>5, <1>6, <1>7, <1>8, <1>9, <1>10, <1>11, <1>12, <1>13 DEF Next, ActorStep

(* A mailbox never holds a message twice: what sends it is past that point,  *)
(* and nobody else has it.                                                   *)
LEMMA MailboxKeeps == ASSUME Inv, Next PROVE MailboxInv'
<1> USE DEF connVars, sessVars, actorVars, execVars, storeVars
<1> DEFINE Fits(x, i) ==
             /\ mailbox[x][i] # task[x]
             /\ \A j \in 1..Len(mailbox[x]) : mailbox[x][i] = mailbox[x][j] => i = j
             /\ \A e \in Execs : mailbox[x][i] = Execute(e) => handle[e] = x /\ step[e] = "sent"
             /\ \A p \in Pages : mailbox[x][i] = FetchPage(p)
                  => page[p].session = x /\ page[p].step = "sent"
             /\ \A t \in Sessions : mailbox[x][i] = Close(t)
                  => t = x /\ session[x] \in {"waiting", "closed"}
<1> SUFFICES ASSUME NEW x \in Sessions, NEW i \in 1..Len(mailbox'[x]) PROVE Fits(x, i)'
  BY DEF MailboxInv
<1>1. \A k \in 1..Len(mailbox[x]) : Fits(x, k)
  BY DEF Inv, MailboxInv
<1>2. /\ mailbox[x] \in Seq(Messages) /\ Len(mailbox[x]) \in Nat
      /\ \A k \in 1..Len(mailbox[x]) : mailbox[x][k] \in Messages
  BY DEF Inv, TypeOK
<1>3. ASSUME mailbox'[x] = mailbox[x], task'[x] = task[x],
             session[x] \in {"waiting", "closed"} => session'[x] \in {"waiting", "closed"},
             \A e \in Execs : step[e] = "sent" /\ handle[e] = x => step'[e] = "sent" /\ handle'[e] = x,
             \A p \in Pages : page[p].step = "sent" /\ page[p].session = x => page'[p] = page[p]
      PROVE  Fits(x, i)'
  BY <1>1, <1>3
<1>4. ASSUME NEW m \in Messages, mailbox'[x] = Append(mailbox[x], m), task'[x] = task[x],
             session[x] \in {"waiting", "closed"} => session'[x] \in {"waiting", "closed"},
             \A e \in Execs : step[e] = "sent" /\ handle[e] = x => step'[e] = "sent" /\ handle'[e] = x,
             \A p \in Pages : page[p].step = "sent" /\ page[p].session = x => page'[p] = page[p],
             m # task[x], \A k \in 1..Len(mailbox[x]) : mailbox[x][k] # m,
             \A e \in Execs : m = Execute(e) => handle'[e] = x /\ step'[e] = "sent",
             \A p \in Pages : m = FetchPage(p) => page'[p].session = x /\ page'[p].step = "sent",
             \A t \in Sessions : m = Close(t) => t = x /\ session'[x] \in {"waiting", "closed"}
      PROVE  Fits(x, i)'
  <2>1. /\ Len(mailbox'[x]) = Len(mailbox[x]) + 1
        /\ \A k \in 1..Len(mailbox[x]) : mailbox'[x][k] = mailbox[x][k]
        /\ mailbox'[x][Len(mailbox[x]) + 1] = m
    BY <1>2, <1>4
  <2>2. \A k \in 1..Len(mailbox'[x]) : k \in 1..Len(mailbox[x]) \/ k = Len(mailbox[x]) + 1
    BY <1>2, <2>1
  <2> QED
    BY <1>1, <1>4, <2>1, <2>2
<1>5. ASSUME NEW e \in Execs, ExecuteStep(e) PROVE Fits(x, i)'
  <2>1. session[x] \in {"waiting", "closed"} => session'[x] \in {"waiting", "closed"}
    <3>1. CASE ExecuteOpens(e)
      BY <3>1, NewHome DEF ExecuteOpens, Inv
    <3>2. CASE UNCHANGED session
      BY <3>2
    <3> QED
      BY <1>5, <3>1, <3>2 DEF ExecuteStep, ExecuteClaims, ExecuteRefused, ExecuteRegisters,
           ExecuteSends, ExecuteUnsent, AttachSource
  <2>2. CASE ExecuteSends(e) /\ handle[e] = x
    <3>1. mailbox'[x] = Append(mailbox[x], Execute(e)) /\ handle'[e] = x /\ step'[e] = "sent"
      BY <2>2 DEF ExecuteSends, Inv, TypeOK
    <3>2. step[e] = "registered"
      BY <2>2 DEF ExecuteSends
    <3>3. Execute(e) # task[x] /\ \A k \in 1..Len(mailbox[x]) : mailbox[x][k] # Execute(e)
      BY <1>1, <3>2 DEF Inv, TaskInv
    <3>4. \A d \in Execs : Execute(e) = Execute(d) => d = e
      BY MadeMessages
    <3>5. \A y : (y \in Pages => Execute(e) # FetchPage(y)) /\ (y \in Sessions => Execute(e) # Close(y))
      BY MadeMessages
    <3> QED
      BY SMTT(60), <1>4, <1>5, <2>1, <3>1, <3>2, <3>3, <3>4, <3>5, ExecuteLocal, MadeMessages
  <2>3. CASE ~(ExecuteSends(e) /\ handle[e] = x)
    <3>1. mailbox'[x] = mailbox[x]
      BY <1>5, <2>3 DEF ExecuteStep, ExecuteOpens, ExecuteClaims, ExecuteRefused, ExecuteRegisters,
           ExecuteSends, ExecuteUnsent, AttachSource, Inv, TypeOK
    <3> QED
      BY <1>3, <1>5, <2>1, <3>1, ExecuteLocal
  <2> QED
    BY <2>2, <2>3
<1>6. ASSUME NEW p \in Pages, PageStep(p) PROVE Fits(x, i)'
  <2>1. CASE PageSends(p) /\ page[p].session = x
    <3>1. mailbox'[x] = Append(mailbox[x], FetchPage(p)) /\ page[p].step = "ready"
      BY <2>1 DEF PageSends, Inv, TypeOK
    <3>2. page'[p].session = x /\ page'[p].step = "sent"
      BY <2>1, PageMoves DEF PageSends, Inv, PageSteps
    <3>3. FetchPage(p) # task[x] /\ \A k \in 1..Len(mailbox[x]) : mailbox[x][k] # FetchPage(p)
      BY <1>1, <3>1 DEF Inv, TaskInv
    <3>4. \A q \in Pages : FetchPage(p) = FetchPage(q) => p = q
      BY MadeMessages
    <3>5. \A y : (y \in Execs => FetchPage(p) # Execute(y)) /\ (y \in Sessions => FetchPage(p) # Close(y))
      BY MadeMessages
    <3> QED
      BY <1>4, <1>6, <3>1, <3>2, <3>3, <3>4, <3>5, PageLocal, MadeMessages
  <2>2. CASE ~(PageSends(p) /\ page[p].session = x)
    <3>1. mailbox'[x] = mailbox[x]
      BY <1>6, <2>2 DEF PageStep, PageTakesHandle, PageClaims, PageFindsStore, PageReturns, PageSends,
           Inv, TypeOK
    <3> QED
      BY SMTT(60), <1>3, <1>6, <3>1, PageLocal
  <2> QED
    BY <2>1, <2>2
<1>7. ASSUME NEW s \in Sessions, ActorStep(s), x # s PROVE Fits(x, i)'
  <2>1. session'[x] = session[x]
    <3>1. CASE ActorCloses(s)
      BY <1>7, <3>1, CloseFacts
    <3>2. CASE ~ActorCloses(s)
      BY <1>7, <3>2 DEF ActorStep, ActorTakes, ActorEndsExecution, ActorFrees, ActorAnswers, ActorEndsPage
    <3> QED
      BY <3>1, <3>2
  <2> QED
    BY <1>3, <1>7, <2>1, ActorLocal
<1>8. ASSUME ActorTakes(x) PROVE Fits(x, i)'
  <2>1. mailbox[x] # <<>> /\ mailbox'[x] = Tail(mailbox[x]) /\ task'[x] = Head(mailbox[x])
    BY <1>8 DEF ActorTakes, Inv, TypeOK
  <2>2. /\ Len(mailbox'[x]) = Len(mailbox[x]) - 1 /\ Head(mailbox[x]) = mailbox[x][1]
        /\ \A k \in 1..Len(mailbox'[x]) : mailbox'[x][k] = mailbox[x][k + 1]
        /\ 1 \in 1..Len(mailbox[x])
    BY <1>2, <2>1
  <2>3. \A k \in 1..Len(mailbox'[x]) : k + 1 \in 1..Len(mailbox[x]) /\ k \in Int
    BY <1>2, <2>2
  <2>4. UNCHANGED <<step, handle, page, session>>
    BY <1>8 DEF ActorTakes
  <2>5. i + 1 \in 1..Len(mailbox[x]) /\ mailbox'[x][i] = mailbox[x][i + 1] /\ i \in Int
    BY <2>2, <2>3
  <2>6. i + 1 # 1
    BY <2>5
  <2>7. mailbox'[x][i] # task'[x]
    BY <1>1, <2>1, <2>2, <2>5, <2>6
  <2>8. ASSUME NEW j \in 1..Len(mailbox'[x]), mailbox'[x][i] = mailbox'[x][j] PROVE i = j
    <3>1. j + 1 \in 1..Len(mailbox[x]) /\ mailbox'[x][j] = mailbox[x][j + 1] /\ j \in Int
      BY <2>2, <2>3
    <3>2. i + 1 = j + 1
      BY ZenonT(120), <1>1, <2>5, <2>8, <3>1
    <3> QED
      BY <2>5, <3>1, <3>2
  <2> QED
    BY <1>1, <2>4, <2>5, <2>7, <2>8
<1>9. ASSUME ActorEndsExecution(x) \/ ActorFrees(x) PROVE Fits(x, i)'
  <2>1. UNCHANGED <<mailbox, task, session, handle, page>>
    BY <1>9 DEF ActorEndsExecution, ActorFrees
  <2>2. /\ task[x].id \in Execs /\ task[x] = Execute(task[x].id)
        /\ \A e \in Execs \ {task[x].id} : step'[e] = step[e]
    BY <1>9, TaskFacts DEF ActorEndsExecution, ActorFrees, Inv, TypeOK
  <2> QED
    BY <1>1, <2>1, <2>2
<1>10. ASSUME ActorAnswers(x) PROVE Fits(x, i)'
  <2>1. UNCHANGED <<mailbox, session, handle, page>> /\ task'[x] = Idle
    BY <1>10 DEF ActorAnswers, Inv, TypeOK
  <2>2. /\ task[x].id \in Execs /\ task[x] = Execute(task[x].id)
        /\ \A e \in Execs \ {task[x].id} : step'[e] = step[e]
    BY <1>10, TaskFacts DEF ActorAnswers, Inv, TypeOK
  <2>3. mailbox[x][i] # Idle
    BY <1>2, <2>1, MessageKinds, MadeMessages
  <2> QED
    BY <1>1, <2>1, <2>2, <2>3
<1>11. ASSUME ActorEndsPage(x) PROVE Fits(x, i)'
  <2>1. UNCHANGED <<mailbox, session, handle, step>> /\ task'[x] = Idle
    BY <1>11 DEF ActorEndsPage, Inv, TypeOK
  <2>2. /\ task[x].id \in Pages /\ task[x] = FetchPage(task[x].id)
        /\ \A p \in Pages \ {task[x].id} : page'[p] = page[p]
    BY <1>11, TaskFacts DEF ActorEndsPage, Inv, TypeOK
  <2>3. mailbox[x][i] # Idle
    BY <1>2, <2>1, MessageKinds, MadeMessages
  <2> QED
    BY <1>1, <2>1, <2>2, <2>3
<1>12. ASSUME ActorCloses(x) PROVE Fits(x, i)'
  <2>1. mailbox'[x] = <<>>
    BY <1>12 DEF ActorCloses, Inv, TypeOK
  <2> QED
    BY <2>1
<1>13. ASSUME NEW s \in Sessions, SendClose(s) PROVE Fits(x, i)'
  <2>1. UNCHANGED <<task, step, handle, page>>
    BY <1>13 DEF SendClose
  <2>2. CASE x = s
    <3>1. /\ mailbox'[x] = Append(mailbox[x], Close(x))
          /\ session[x] \in {"swept", "taken"} /\ session'[x] \in {"waiting", "closed"}
      BY <1>13, <2>2 DEF SendClose, Inv, TypeOK
    <3>2. Close(x) # task[x] /\ \A k \in 1..Len(mailbox[x]) : mailbox[x][k] # Close(x)
      BY <1>1, <3>1, MadeMessages DEF Inv, TaskInv
    <3>3. \A t \in Sessions : Close(x) = Close(t) => t = x
      BY MadeMessages
    <3>4. \A y : (y \in Execs => Close(x) # Execute(y)) /\ (y \in Pages => Close(x) # FetchPage(y))
      BY MadeMessages
    <3> QED
      BY <1>4, <2>1, <3>1, <3>2, <3>3, <3>4, MadeMessages
  <2>3. CASE x # s
    BY <1>3, <1>13, <2>1, <2>3 DEF SendClose, Inv, TypeOK
  <2> QED
    BY <2>2, <2>3
<1>14. ASSUME UNCHANGED <<mailbox, task, step, handle, page>>,
              session[x] \in {"waiting", "closed"} => session'[x] \in {"waiting", "closed"}
       PROVE  Fits(x, i)'
  BY <1>3, <1>14
<1>15. ASSUME NEW s \in Sessions, CloseStep(s), ~SendClose(s) PROVE Fits(x, i)'
  <2>1. session[x] \in {"waiting", "closed"} => session'[x] \in {"waiting", "closed"}
    <3>1. CASE SessionOpens(s)
      BY <3>1, NewHome DEF SessionOpens, Inv
    <3> QED
      BY <1>15, <3>1 DEF CloseStep, SessionCloseRemoves, SessionCloseCancels, SessionCloseTimesOut,
           SessionCloseCollects, SessionCloseReleases, Inv, TypeOK
  <2>2. UNCHANGED <<mailbox, task, step, handle, page>>
    BY <1>15 DEF CloseStep, SessionOpens, SessionCloseRemoves, SessionCloseCancels,
         SessionCloseTimesOut, SessionCloseCollects, SessionCloseReleases
  <2> QED
    BY <1>14, <2>1, <2>2
<1>16. ASSUME NEW c \in Conns, ConnStep(c) PROVE Fits(x, i)'
  <2>1. session[x] \in {"waiting", "closed"} => session'[x] \in {"waiting", "closed"}
    BY <1>16 DEF ConnStep, ConnectionOpen, ConnectionCloseRemoves, ConnectionCloseDrops,
         ConnectionCloseCancels, Reconnect, SwitchDatabase, Detach, OpenSessions
  <2>2. UNCHANGED <<mailbox, task, step, handle, page>>
    BY <1>16 DEF ConnStep, ConnectionOpen, ConnectionCloseRemoves, ConnectionCloseDrops,
         ConnectionCloseCancels, Reconnect, SwitchDatabase
  <2> QED
    BY <1>14, <2>1, <2>2
<1>17. ASSUME NEW r \in Results, ResultRelease(r) PROVE Fits(x, i)'
  BY SMTT(60), <1>14, <1>17 DEF ResultRelease
<1> QED
  BY <1>5, <1>6, <1>7, <1>8, <1>9, <1>10, <1>11, <1>12, <1>13, <1>15, <1>16, <1>17
     DEF Next, ActorStep

(* The busy flag is set by whoever takes it and cleared by that one alone. *)
LEMMA HolderKeeps == ASSUME Inv, Next PROVE HolderInv'
<1> USE DEF connVars, sessVars, actorVars, execVars, storeVars, HoldingExecs, HoldingPages
<1> DEFINE Held(x) ==
             /\ \A d, e \in HoldingExecs(x) : d = e
             /\ \A p, q \in HoldingPages(x) : p = q
             /\ HoldingExecs(x) = {} \/ HoldingPages(x) = {}
             /\ HoldingExecs(x) \cup HoldingPages(x) # {} => x \in busy
             /\ x \in busy /\ session[x] = "open" => HoldingExecs(x) \cup HoldingPages(x) # {}
             /\ x \in busy => session[x] # "unused"
             /\ session[x] = "removedIdle" => HoldingExecs(x) = {}
<1>a. TypeOK'
  BY TypeStep DEF Inv
<1> SUFFICES ASSUME NEW x \in Sessions PROVE Held(x)'
  <2>1. busy' \in SUBSET Sessions
    BY <1>a DEF TypeOK
  <2> QED
    BY <2>1 DEF HolderInv, ClaimIsExclusive, BusyIsHeld, Used
<1>b. Held(x)
  BY DEF Inv, HolderInv, ClaimIsExclusive, BusyIsHeld, Used
<1>c. session[x] # "unused" => session'[x] # "unused"
  BY SessionsLast
<1> DEFINE Quiet == /\ session'[x] = "open" => session[x] = "open" \/ x \notin busy
                    /\ session'[x] = "removedIdle" => session[x] = "removedIdle" \/ x \notin busy
<1>1. ASSUME HoldingExecs(x)' = HoldingExecs(x), HoldingPages(x)' = HoldingPages(x),
             x \in busy' <=> x \in busy, Quiet
      PROVE  Held(x)'
  BY <1>b, <1>c, <1>1
<1>2. ASSUME HoldingExecs(x)' = {}, HoldingPages(x)' = {}, x \notin busy' PROVE Held(x)'
  BY <1>2
<1>3. ASSUME NEW e \in Execs, ExecuteOpens(e) PROVE Held(x)'
  <2>1. Quiet
    BY <1>b, <1>3, NewHome DEF ExecuteOpens, Inv
  <2>2. HoldingExecs(x)' = HoldingExecs(x) /\ HoldingPages(x)' = HoldingPages(x)
    BY <1>3 DEF ExecuteOpens, Inv, TypeOK
  <2> QED
    BY <1>1, <1>3, <2>1, <2>2 DEF ExecuteOpens
<1>4. ASSUME NEW e \in Execs, ExecuteClaims(e) PROVE Held(x)'
  <2>1. PICK s \in Sessions :
          /\ s \notin busy /\ session[s] = "open" /\ busy' = busy \cup {s}
          /\ handle' = [handle EXCEPT ![e] = s]
    BY <1>4 DEF ExecuteClaims, SessionOf, OpenSessions
  <2>2. /\ step[e] = "opened" /\ step' = [step EXCEPT ![e] = "claimed"]
        /\ UNCHANGED <<session, page>>
    BY <1>4 DEF ExecuteClaims
  <2>3. CASE x = s
    <3>1. HoldingExecs(x) = {} /\ HoldingPages(x) = {}
      BY <1>b, <2>1, <2>3
    <3>2. HoldingExecs(x)' = {e} /\ HoldingPages(x)' = {}
      BY <2>1, <2>2, <2>3, <3>1 DEF Inv, TypeOK
    <3> QED
      BY <2>1, <2>2, <2>3, <3>2
  <2>4. CASE x # s
    <3>1. HoldingExecs(x)' = HoldingExecs(x) /\ HoldingPages(x)' = HoldingPages(x)
      BY <2>1, <2>2, <2>4 DEF Inv, TypeOK
    <3> QED
      BY <1>1, <2>1, <2>2, <2>4, <3>1
  <2> QED
    BY <2>3, <2>4
<1>5. ASSUME NEW e \in Execs, ExecuteRefused(e) \/ ExecuteRegisters(e) \/ ExecuteSends(e) \/ AttachSource(e)
      PROVE  Held(x)'
  <2>1. UNCHANGED <<session, busy, page, handle>>
    BY <1>5 DEF ExecuteRefused, ExecuteRegisters, ExecuteSends, AttachSource
  <2>2. HoldingExecs(x)' = HoldingExecs(x)
    BY <1>5 DEF ExecuteRefused, ExecuteRegisters, ExecuteSends, AttachSource, Inv, TypeOK
  <2>3. HoldingPages(x)' = HoldingPages(x)
    BY <2>1
  <2> QED
    BY <1>1, <2>1, <2>2, <2>3
<1>6. ASSUME NEW e \in Execs, ExecuteUnsent(e) PROVE Held(x)'
  <2>1. /\ step[e] = "registered" /\ step' = [step EXCEPT ![e] = "refused"]
        /\ busy' = busy \ {handle[e]}
        /\ UNCHANGED <<session, page, handle>>
    BY <1>6 DEF ExecuteUnsent
  <2>2. CASE x = handle[e]
    <3>1. e \in HoldingExecs(x)
      BY <2>1, <2>2
    <3>2. HoldingExecs(x)' = {} /\ HoldingPages(x)' = {}
      BY <1>b, <2>1, <3>1 DEF Inv, TypeOK
    <3> QED
      BY <1>2, <2>1, <2>2, <3>2
  <2>3. CASE x # handle[e]
    <3>1. HoldingExecs(x)' = HoldingExecs(x) /\ HoldingPages(x)' = HoldingPages(x)
      BY <2>1, <2>3 DEF Inv, TypeOK
    <3> QED
      BY <1>1, <2>1, <2>3, <3>1
  <2> QED
    BY <2>2, <2>3
<1>7. ASSUME NEW p \in Pages, PageTakesHandle(p) PROVE Held(x)'
  <2>1. UNCHANGED <<session, busy, step, handle>>
    BY <1>7 DEF PageTakesHandle
  <2>2. HoldingPages(x)' = HoldingPages(x)
    BY <1>7 DEF PageTakesHandle, Inv, TypeOK
  <2>3. HoldingExecs(x)' = HoldingExecs(x)
    BY <2>1
  <2> QED
    BY <1>1, <2>1, <2>2, <2>3
<1>8. ASSUME NEW p \in Pages, PageClaims(p) PROVE Held(x)'
  <2>1. UNCHANGED <<session, step, handle>> /\ page[p].step = "handle"
    BY <1>8 DEF PageClaims
  <2>2. HoldingExecs(x)' = HoldingExecs(x)
    BY <2>1
  <2>3. CASE page[p].session \in busy
    <3>1. page' = [page EXCEPT ![p].step = "done"] /\ UNCHANGED busy
      BY <1>8, <2>3 DEF PageClaims
    <3>2. HoldingPages(x)' = HoldingPages(x)
      BY <2>1, <3>1, PageMoves DEF Inv, PageSteps
    <3> QED
      BY <1>1, <2>1, <2>2, <3>1, <3>2
  <2>4. CASE page[p].session \notin busy
    <3>1. page' = [page EXCEPT ![p].step = "claimed"] /\ busy' = busy \cup {page[p].session}
      BY <1>8, <2>4 DEF PageClaims
    <3>2. CASE x = page[p].session
      <4>1. HoldingExecs(x)' = {} /\ HoldingPages(x) = {}
        BY <1>b, <2>2, <2>4, <3>2
      <4>2. HoldingPages(x)' = {p}
        <5>1. /\ page'[p].session = x /\ page'[p].step = "claimed"
              /\ \A q \in Pages \ {p} : page'[q] = page[q]
          BY <3>1, <3>2, PageMoves DEF Inv, PageSteps
        <5> QED
          BY <4>1, <5>1
      <4>3. session[x] # "unused"
        BY <2>1, <3>2 DEF Inv, PageInv, Used
      <4> QED
        BY <1>c, <3>1, <3>2, <4>1, <4>2, <4>3
    <3>3. CASE x # page[p].session
      <4>1. HoldingPages(x)' = HoldingPages(x)
        BY <2>1, <3>1, <3>3, PageMoves DEF Inv, PageSteps
      <4> QED
        BY <1>1, <2>1, <2>2, <3>1, <3>3, <4>1
    <3> QED
      BY <3>2, <3>3
  <2> QED
    BY <2>3, <2>4
<1>9. ASSUME NEW p \in Pages, PageFindsStore(p) \/ PageSends(p) PROVE Held(x)'
  <2>1. UNCHANGED <<session, busy, step, handle>>
    BY SMTT(60), <1>9 DEF PageFindsStore, PageSends
  <2>2. HoldingExecs(x)' = HoldingExecs(x)
    BY <2>1
  <2>3. HoldingPages(x)' = HoldingPages(x)
    BY <1>9, PageMoves DEF PageFindsStore, PageSends, Inv, PageSteps
  <2> QED
    BY <1>1, <2>1, <2>2, <2>3
<1>10. ASSUME NEW p \in Pages, p \in HoldingPages(page[p].session),
              page' = [page EXCEPT ![p].step = "done"], busy' = busy \ {page[p].session},
              UNCHANGED <<session, step, handle>>
       PROVE  Held(x)'
  <2>1. HoldingExecs(x)' = HoldingExecs(x)
    BY <1>10
  <2>2. CASE x = page[p].session
    <3>1. HoldingExecs(x) = {} /\ \A q \in HoldingPages(x) : q = p
      BY <1>b, <1>10, <2>2
    <3>2. HoldingPages(x)' = {}
      BY <1>10, <3>1, PageMoves DEF Inv, PageSteps
    <3> QED
      BY <1>2, <1>10, <2>1, <2>2, <3>1, <3>2
  <2>3. CASE x # page[p].session
    <3>1. HoldingPages(x)' = HoldingPages(x)
      BY <1>10, <2>3, PageMoves DEF Inv, PageSteps
    <3> QED
      BY <1>1, <1>10, <2>1, <2>3, <3>1
  <2> QED
    BY <2>2, <2>3
<1>11. ASSUME NEW p \in Pages, PageReturns(p) PROVE Held(x)'
  BY <1>10, <1>11 DEF PageReturns
<1>12. ASSUME NEW s \in Sessions, ActorEndsPage(s) PROVE Held(x)'
  BY ZenonT(120), <1>10, <1>12, TaskFacts DEF ActorEndsPage
<1>13. ASSUME NEW s \in Sessions, ActorTakes(s) \/ ActorEndsExecution(s) \/ ActorAnswers(s)
       PROVE  Held(x)'
  <2>1. UNCHANGED <<session, busy, handle, page>>
    BY <1>13 DEF ActorTakes, ActorEndsExecution, ActorAnswers
  <2>2. HoldingExecs(x)' = HoldingExecs(x)
    BY <1>13, TaskFacts DEF ActorTakes, ActorEndsExecution, ActorAnswers, Inv, TypeOK
  <2>3. HoldingPages(x)' = HoldingPages(x)
    BY <2>1
  <2> QED
    BY <1>1, <2>1, <2>2, <2>3
<1>14. ASSUME NEW s \in Sessions, ActorFrees(s) PROVE Held(x)'
  <2>1. /\ task[s].id \in Execs /\ handle[task[s].id] = s /\ step[task[s].id] = "terminal"
        /\ step' = [step EXCEPT ![task[s].id] = "freed"] /\ busy' = busy \ {s}
        /\ UNCHANGED <<session, handle, page>>
    BY <1>14, TaskFacts DEF ActorFrees
  <2>2. HoldingPages(x)' = HoldingPages(x)
    BY <2>1
  <2>3. CASE x = s
    <3>1. HoldingPages(x) = {} /\ \A e \in HoldingExecs(x) : e = task[s].id
      BY <1>b, <2>1, <2>3
    <3>2. HoldingExecs(x)' = {}
      BY <2>1, <3>1 DEF Inv, TypeOK
    <3> QED
      BY <1>2, <2>1, <2>2, <2>3, <3>1, <3>2
  <2>4. CASE x # s
    <3>1. HoldingExecs(x)' = HoldingExecs(x)
      BY <2>1, <2>4 DEF Inv, TypeOK
    <3> QED
      BY <1>1, <2>1, <2>2, <2>4, <3>1
  <2> QED
    BY <2>3, <2>4
<1>15. ASSUME NEW s \in Sessions, ActorCloses(s) PROVE Held(x)'
  <2>1. UNCHANGED <<handle, busy>>
    BY <1>15 DEF ActorCloses
  <2>2. HoldingExecs(x)' \subseteq HoldingExecs(x) /\ HoldingPages(x)' \subseteq HoldingPages(x)
    BY <1>15, <2>1, CloseFacts
  <2>3. CASE x = s
    <3>1. session'[x] \in {"confirmed", "closed"}
      BY <1>15, <2>3, CloseFacts
    <3> QED
      BY <1>b, <2>1, <2>2, <3>1
  <2>4. CASE x # s
    <3>1. HoldingExecs(x)' = HoldingExecs(x) /\ HoldingPages(x)' = HoldingPages(x)
      BY <1>15, <2>1, <2>4, CloseFacts
    <3>2. session'[x] = session[x]
      BY <1>15, <2>4, CloseFacts
    <3> QED
      BY <1>1, <2>1, <3>1, <3>2
  <2> QED
    BY <2>3, <2>4
<1>16. ASSUME UNCHANGED <<busy, step, handle, page>>, Quiet PROVE Held(x)'
  BY <1>1, <1>16
<1>17. ASSUME NEW s \in Sessions, CloseStep(s) PROVE Held(x)'
  <2>1. UNCHANGED <<busy, step, handle, page>>
    BY <1>17 DEF CloseStep, SessionOpens, SessionCloseRemoves, SessionCloseCancels, SendClose,
         SessionCloseTimesOut, SessionCloseCollects, SessionCloseReleases
  <2>2. CASE SessionOpens(s)
    BY <1>b, <1>16, <2>1, <2>2, NewHome DEF SessionOpens, Inv
  <2>3. CASE SessionCloseRemoves(s)
    BY <1>b, <1>16, <2>1, <2>3 DEF SessionCloseRemoves, Inv, TypeOK
  <2>4. CASE ~SessionOpens(s) /\ ~SessionCloseRemoves(s)
    BY <1>16, <1>17, <2>1, <2>4 DEF CloseStep, SessionCloseCancels, SendClose, SessionCloseTimesOut,
         SessionCloseCollects, SessionCloseReleases, Inv, TypeOK
  <2> QED
    BY <2>2, <2>3, <2>4
<1>18. ASSUME NEW c \in Conns, ConnStep(c) PROVE Held(x)'
  BY <1>16, <1>18 DEF ConnStep, ConnectionOpen, ConnectionCloseRemoves, ConnectionCloseDrops,
       ConnectionCloseCancels, Reconnect, SwitchDatabase, Detach, OpenSessions
<1>19. ASSUME NEW r \in Results, ResultRelease(r) PROVE Held(x)'
  BY <1>16, <1>19 DEF ResultRelease
<1> QED
  BY <1>3, <1>4, <1>5, <1>6, <1>7, <1>8, <1>9, <1>11, <1>12, <1>13, <1>14, <1>15, <1>17, <1>18, <1>19
     DEF Next, ExecuteStep, PageStep, ActorStep

(* A store appears in one way only: its execution claims its session. *)
LEMMA StoresAppear ==
    ASSUME Inv, Next, NEW r \in Results, largeValues'[r] # None
    PROVE  \/ largeValues'[r] = largeValues[r]
           \/ \E e \in Execs : ExecuteClaims(e) /\ largeValues'[r] = e
<1> USE DEF connVars, sessVars, actorVars, execVars, storeVars
<1> DEFINE Goal == \/ largeValues'[r] = largeValues[r]
                   \/ \E e \in Execs : ExecuteClaims(e) /\ largeValues'[r] = e
<1>1. CASE UNCHANGED largeValues
  BY <1>1
<1>2. ASSUME NEW e \in Execs, ExecuteClaims(e) PROVE Goal
  BY <1>2 DEF ExecuteClaims, Inv, TypeOK
<1>3. ASSUME NEW e \in Execs, ExecuteStep(e) PROVE Goal
  BY <1>1, <1>2, <1>3 DEF ExecuteStep, ExecuteOpens, ExecuteRefused, ExecuteRegisters, ExecuteSends,
       ExecuteUnsent, AttachSource
<1>4. ASSUME NEW p \in Pages, PageStep(p) PROVE Goal
  BY <1>1, <1>4 DEF PageStep, PageTakesHandle, PageClaims, PageFindsStore, PageReturns, PageSends
<1>5. ASSUME NEW s \in Sessions, ActorStep(s) PROVE Goal
  BY <1>1, <1>5 DEF ActorStep, ActorTakes, ActorEndsExecution, ActorFrees, ActorAnswers, ActorEndsPage,
       ActorCloses
<1>6. ASSUME NEW s \in Sessions, NEW q \in Results, SessionCloseReleases(s, q) PROVE Goal
  BY <1>6 DEF SessionCloseReleases, Inv, TypeOK
<1>7. ASSUME NEW s \in Sessions, CloseStep(s) PROVE Goal
  BY <1>1, <1>6, <1>7 DEF CloseStep, SessionOpens, SessionCloseRemoves, SessionCloseCancels, SendClose,
       SessionCloseTimesOut, SessionCloseCollects
<1>8. ASSUME NEW c \in Conns, ConnStep(c) PROVE Goal
  BY <1>8 DEF ConnStep, ConnectionOpen, ConnectionCloseRemoves, ConnectionCloseDrops,
       ConnectionCloseCancels, Reconnect, SwitchDatabase, WithoutStores
<1>9. ASSUME NEW q \in Results, ResultRelease(q) PROVE Goal
  BY <1>9 DEF ResultRelease, Inv, TypeOK
<1> QED
  BY <1>3, <1>4, <1>5, <1>7, <1>8, <1>9 DEF Next

(* A store is gone before its workspace is, and before its connection shows  *)
(* another database.                                                         *)
LEMMA StoreKeeps == ASSUME Inv, Next PROVE StoreInv'
<1> USE DEF connVars, sessVars, actorVars, execVars, storeVars
<1> DEFINE Good(e) == /\ step[e] \notin {"new", "opened"}
                      /\ Used(handle[e])
                      /\ home[handle[e]].conn = request[e].conn
                      /\ workspace[request[e].conn] \in {"open", "removed"}
                      /\ home[handle[e]].db = database[request[e].conn]
<1> SUFFICES ASSUME NEW x \in Results, largeValues'[x] # None PROVE Good(largeValues[x])'
  BY DEF StoreInv
<1>1. ASSUME NEW e \in Execs, ExecuteClaims(e), largeValues'[x] = e PROVE Good(largeValues[x])'
  <2>1. PICK s \in Sessions : /\ session[s] = "open" /\ home[s].conn = request[e].conn
                              /\ handle' = [handle EXCEPT ![e] = s]
    BY <1>1 DEF ExecuteClaims, SessionOf, OpenSessions
  <2>2. handle'[e] = s /\ step'[e] = "claimed"
    BY <1>1, <2>1 DEF ExecuteClaims, Inv, TypeOK
  <2>3. UNCHANGED <<session, home, request, workspace, database>>
    BY <1>1 DEF ExecuteClaims
  <2> QED
    BY <1>1, <2>1, <2>2, <2>3 DEF Inv, OpenInv, Used
<1>2. CASE largeValues'[x] = largeValues[x]
  <2> DEFINE E == largeValues[x]
             C == request[E].conn
  <2>1. E \in Execs /\ E # None
    BY <1>2 DEF Inv, TypeOK
  <2>2. Good(E)
    BY <1>2, <2>1 DEF Inv, StoreInv
  <2>3. /\ step'[E] \notin {"new", "opened"} /\ handle'[E] = handle[E] /\ request'[E] = request[E]
        /\ handle[E] \in Sessions /\ session'[handle[E]] # "unused"
        /\ home'[handle[E]] = home[handle[E]]
    BY <2>1, <2>2, RequestsLast, SessionsLast DEF Used
  <2> HIDE DEF E
  <2> DEFINE Kept == workspace'[C] \in {"open", "removed"} /\ database'[C] = database[C]
  <2>4. SUFFICES Kept
    BY <1>2, <2>2, <2>3 DEF E, Used
  <2>5. workspace[C] \in {"open", "removed"}
    BY <2>1, <2>2
  <2>6. CASE UNCHANGED <<workspace, database>>
    BY <2>5, <2>6
  <2>7. ASSUME NEW c \in Conns, ConnectionOpen(c) PROVE Kept
    BY <2>5, <2>7 DEF ConnectionOpen, Inv, TypeOK
  <2>8. ASSUME NEW c \in Conns, ConnectionCloseRemoves(c) PROVE Kept
    BY <2>5, <2>8 DEF ConnectionCloseRemoves, Inv, TypeOK
  <2>9. ASSUME NEW c \in Conns, ConnectionCloseDrops(c) PROVE Kept
    <3>1. E \notin OfConn(c)
      BY <1>2, <2>1, <2>9 DEF ConnectionCloseDrops, WithoutStores, E
    <3>2. C # c
      BY <2>1, <2>2, <3>1 DEF OfConn
    <3> QED
      BY <2>5, <2>9, <3>2 DEF ConnectionCloseDrops, Inv, TypeOK
  <2>10. ASSUME NEW c \in Conns, ConnectionCloseCancels(c) PROVE Kept
    BY <2>5, <2>10 DEF ConnectionCloseCancels, Inv, TypeOK
  <2>11. ASSUME NEW c \in Conns, SwitchDatabase(c) PROVE Kept
    <3>1. E \notin OfConn(c)
      BY <1>2, <2>1, <2>11 DEF SwitchDatabase, WithoutStores, E
    <3>2. C # c
      BY <2>1, <2>2, <3>1 DEF OfConn
    <3> QED
      BY <2>5, <2>11, <3>2 DEF SwitchDatabase, Inv, TypeOK
  <2>12. ASSUME NEW e \in Execs, ExecuteStep(e) PROVE Kept
    BY <2>6, <2>12 DEF ExecuteStep, ExecuteOpens, ExecuteClaims, ExecuteRefused, ExecuteRegisters,
         ExecuteSends, ExecuteUnsent, AttachSource
  <2>13. ASSUME NEW p \in Pages, PageStep(p) PROVE UNCHANGED <<workspace, database>>
    BY <2>13 DEF PageStep, PageTakesHandle, PageClaims, PageFindsStore, PageReturns, PageSends
  <2>14. ASSUME NEW s \in Sessions, ActorStep(s) PROVE UNCHANGED <<workspace, database>>
    BY <2>14 DEF ActorStep, ActorTakes, ActorEndsExecution, ActorFrees, ActorAnswers, ActorEndsPage,
         ActorCloses
  <2>15. ASSUME NEW s \in Sessions, CloseStep(s) PROVE UNCHANGED <<workspace, database>>
    BY <2>15 DEF CloseStep, SessionOpens, SessionCloseRemoves, SessionCloseCancels, SendClose,
         SessionCloseTimesOut, SessionCloseCollects, SessionCloseReleases
  <2>16. ASSUME NEW c \in Conns, Reconnect(c) PROVE UNCHANGED <<workspace, database>>
    BY <2>16 DEF Reconnect
  <2>17. ASSUME NEW r \in Results, ResultRelease(r) PROVE UNCHANGED <<workspace, database>>
    BY <2>17 DEF ResultRelease
  <2> QED
    BY <2>6, <2>7, <2>8, <2>9, <2>10, <2>11, <2>12, <2>13, <2>14, <2>15, <2>16, <2>17 DEF Next, ConnStep
<1> QED
  BY <1>1, <1>2, StoresAppear

(* A page that found its store reads from the store's database: the session  *)
(* it holds was open when the store was its connection's.                    *)
LEMMA PagingKeeps == ASSUME Inv, Next PROVE PagingInv'
<1> USE DEF connVars, sessVars, actorVars, execVars, storeVars, PageSteps
<1> DEFINE Has(p) == /\ largeValues[request[page[p].exec].result] = page[p].exec
                     /\ request[page[p].exec].conn = page[p].conn
<1> SUFFICES ASSUME NEW x \in Pages
             PROVE  /\ page'[x].step \in {"handle", "claimed"} /\ Has(x)' => SamePage(x)'
                    /\ page'[x].step \in {"ready", "sent"} => SamePage(x)'
  BY DEF PagingInv
<1> DEFINE Goal == /\ page'[x].step \in {"handle", "claimed"} /\ Has(x)' => SamePage(x)'
                   /\ page'[x].step \in {"ready", "sent"} => SamePage(x)'
<1>1. /\ page[x].step \in {"handle", "claimed"} /\ Has(x) => SamePage(x)
      /\ page[x].step \in {"ready", "sent"} => SamePage(x)
  BY DEF Inv, PagingInv
<1>2. ASSUME page[x].step # "new" PROVE (SamePage(x)' <=> SamePage(x)) /\ (Has(x)' => Has(x))
  <2> DEFINE E == page[x].exec
  <2>1. E \in Execs /\ step[E] \in Sent /\ Used(page[x].session)
    BY <1>2 DEF Inv, PageInv
  <2>2. Used(handle[E])
    BY <2>1 DEF Inv, ExecInv, Claimed
  <2>3. request'[E] = request[E] /\ handle'[E] = handle[E]
    BY <2>1, RequestsLast DEF Sent
  <2>4. home'[page[x].session] = home[page[x].session] /\ home'[handle[E]] = home[handle[E]]
    BY <2>1, <2>2, SessionsLast DEF Used
  <2>5. page'[x].exec = E /\ page'[x].session = page[x].session /\ page'[x].conn = page[x].conn
    BY <1>2, PagesLast
  <2>6. SamePage(x)' <=> SamePage(x)
    BY SMTT(60), <2>3, <2>4, <2>5 DEF SamePage
  <2>7. ASSUME Has(x)' PROVE Has(x)
    <3>1. largeValues'[request[E].result] = E /\ request[E].conn = page[x].conn
      BY <2>3, <2>5, <2>7
    <3>2. request[E].result \in Results
      BY <2>1, <3>1 DEF Inv, ExecInv, Sent
    <3>3. E # None
      BY <2>1, RegistryAssumption
    <3>4. ~ExecuteClaims(E)
      BY <2>1 DEF ExecuteClaims, Sent
    <3>5. largeValues'[request[E].result] = largeValues[request[E].result]
      BY <3>1, <3>2, <3>3, <3>4, StoresAppear
    <3> QED
      BY <3>1, <3>5
  <2> QED
    BY <2>6, <2>7
<1>3. CASE page[x].step # "new" /\ page'[x].step = page[x].step
  BY <1>1, <1>2, <1>3
<1>4. CASE page'[x].step \in {"new", "done"}
  BY <1>4
<1>5. ASSUME UNCHANGED page PROVE Goal
  BY <1>3, <1>4, <1>5
<1>6. ASSUME NEW p \in Pages, PageTakesHandle(p) PROVE Goal
  <2>1. CASE x # p
    <3>1. page'[x] = page[x]
      BY <1>6, <2>1 DEF PageTakesHandle, Inv, TypeOK
    <3> QED
      BY <1>3, <1>4, <3>1
  <2>2. CASE x = p
    <3>1. PICK c \in Conns, e \in Execs, s \in Sessions :
            /\ step[e] \in {"sent", "terminal", "freed", "answered"}
            /\ session[s] = "open" /\ home[s].conn = c
            /\ page' = [page EXCEPT ![p] = [step |-> "handle", conn |-> c, exec |-> e, session |-> s]]
      BY ZenonT(120), <1>6 DEF PageTakesHandle, SessionOf, OpenSessions
    <3>2. page'[x] = [step |-> "handle", conn |-> c, exec |-> e, session |-> s]
      BY <2>2, <3>1 DEF Inv, TypeOK
    <3>3. UNCHANGED <<largeValues, request, home, handle>>
      BY <1>6 DEF PageTakesHandle
    <3>4. ASSUME largeValues[request[e].result] = e, request[e].conn = c
          PROVE  home[s].db = home[handle[e]].db
      <4>1. request[e].result \in Results /\ e # None
        BY <3>1, RegistryAssumption DEF Inv, ExecInv
      <4>2. home[handle[e]].db = database[c]
        BY <3>4, <4>1 DEF Inv, StoreInv
      <4> QED
        BY <3>1, <4>2 DEF Inv, OpenInv
    <3> QED
      BY <3>2, <3>3, <3>4 DEF SamePage
  <2> QED
    BY <2>1, <2>2
<1>7. ASSUME NEW p \in Pages, NEW to \in PageSteps, page' = [page EXCEPT ![p].step = to],
             page[p].step # "new",
             \/ to = "done"
             \/ page[p].step = "handle" /\ to = "claimed"
             \/ page[p].step = "claimed" /\ to = "ready" /\ Has(p)
             \/ page[p].step = "ready" /\ to = "sent"
      PROVE  Goal
  <2>1. CASE x # p
    <3>1. page'[x] = page[x]
      BY <1>7, <2>1, PageMoves DEF Inv
    <3> QED
      BY SMTT(60), <1>3, <1>4, <3>1
  <2>2. CASE x = p
    <3>1. page'[x].step = to
      BY <1>7, <2>2, PageMoves DEF Inv
    <3> QED
      BY SMTT(60), <1>1, <1>2, <1>7, <2>2, <3>1
  <2> QED
    BY <2>1, <2>2
<1>8. ASSUME NEW p \in Pages, PageClaims(p) PROVE Goal
  BY <1>7, <1>8 DEF PageClaims
<1>9. ASSUME NEW p \in Pages, PageFindsStore(p) PROVE Goal
  BY <1>7, <1>9 DEF PageFindsStore
<1>10. ASSUME NEW p \in Pages, PageReturns(p) PROVE Goal
  BY <1>7, <1>10 DEF PageReturns
<1>11. ASSUME NEW p \in Pages, PageSends(p) PROVE Goal
  BY <1>7, <1>11 DEF PageSends
<1>12. ASSUME NEW s \in Sessions, ActorEndsPage(s) PROVE Goal
  BY <1>7, <1>12, TaskFacts DEF ActorEndsPage
<1>13. ASSUME NEW s \in Sessions, ActorCloses(s) PROVE Goal
  <2>1. page'[x] = page[x] \/ page'[x].step = "done"
    BY <1>13, CloseFacts
  <2> QED
    BY <1>3, <1>4, <2>1
<1>14. ASSUME NEW e \in Execs, ExecuteStep(e) PROVE Goal
  BY <1>5, <1>14, ExecuteLocal
<1>15. ASSUME NEW s \in Sessions, ActorStep(s) PROVE Goal
  BY <1>5, <1>12, <1>13, <1>15 DEF ActorStep, ActorTakes, ActorEndsExecution, ActorFrees, ActorAnswers
<1>16. ASSUME NEW s \in Sessions, CloseStep(s) PROVE UNCHANGED page
  BY <1>16 DEF CloseStep, SessionOpens, SessionCloseRemoves, SessionCloseCancels, SendClose,
       SessionCloseTimesOut, SessionCloseCollects, SessionCloseReleases
<1>17. ASSUME NEW c \in Conns, ConnStep(c) PROVE UNCHANGED page
  BY <1>17 DEF ConnStep, ConnectionOpen, ConnectionCloseRemoves, ConnectionCloseDrops,
       ConnectionCloseCancels, Reconnect, SwitchDatabase
<1>18. ASSUME NEW r \in Results, ResultRelease(r) PROVE UNCHANGED page
  BY <1>18 DEF ResultRelease
<1> HIDE DEF Has
<1> QED
  BY <1>5, <1>6, <1>8, <1>9, <1>10, <1>11, <1>14, <1>15, <1>16, <1>17, <1>18 DEF Next, PageStep

(* An execution is registered once and taken out when it is answered. *)
LEMMA LiveKeeps == ASSUME Inv, Next PROVE OnlyLiveRegistered'
<1> USE DEF connVars, sessVars, actorVars, execVars, storeVars
<1> DEFINE Live == {"registered", "sent", "terminal", "freed", "lost"}
<1> SUFFICES ASSUME NEW x \in Execs, x \in executions' PROVE step'[x] \in Live
  <2>1. executions' \in SUBSET Execs
    BY TypeStep DEF Inv, TypeOK
  <2> QED
    BY <2>1 DEF OnlyLiveRegistered
<1> DEFINE Goal == step'[x] \in Live
<1>1. x \in executions => step[x] \in Live
  BY DEF Inv, OnlyLiveRegistered
<1>2. ASSUME x \in executions, step'[x] = step[x] PROVE Goal
  BY <1>1, <1>2
<1>3. ASSUME NEW e \in Execs, ExecuteStep(e) PROVE Goal
  BY <1>1, <1>3 DEF ExecuteStep, ExecuteOpens, ExecuteClaims, ExecuteRefused, ExecuteRegisters,
       ExecuteSends, ExecuteUnsent, AttachSource, Inv, TypeOK
<1>4. ASSUME NEW p \in Pages, PageStep(p) PROVE Goal
  BY <1>2, <1>4 DEF PageStep, PageTakesHandle, PageClaims, PageFindsStore, PageReturns, PageSends
<1>5. ASSUME NEW s \in Sessions, ActorCloses(s) PROVE Goal
  <2>1. x \in executions
    BY <1>5 DEF ActorCloses
  <2> QED
    BY <1>1, <1>5, <2>1, CloseFacts
<1>6. ASSUME NEW s \in Sessions, ActorStep(s) PROVE Goal
  BY <1>1, <1>5, <1>6, TaskFacts DEF ActorStep, ActorTakes, ActorEndsExecution, ActorFrees, ActorAnswers,
       ActorEndsPage, Inv, TypeOK
<1>7. ASSUME NEW s \in Sessions, CloseStep(s) PROVE Goal
  BY <1>2, <1>7 DEF CloseStep, SessionOpens, SessionCloseRemoves, SessionCloseCancels, SendClose,
       SessionCloseTimesOut, SessionCloseCollects, SessionCloseReleases, Cancel
<1>8. ASSUME NEW c \in Conns, ConnStep(c) PROVE Goal
  BY <1>2, <1>8 DEF ConnStep, ConnectionOpen, ConnectionCloseRemoves, ConnectionCloseDrops,
       ConnectionCloseCancels, Reconnect, SwitchDatabase, Cancel
<1>9. ASSUME NEW r \in Results, ResultRelease(r) PROVE Goal
  BY <1>2, <1>9 DEF ResultRelease
<1> QED
  BY <1>3, <1>4, <1>6, <1>7, <1>8, <1>9 DEF Next

(* What is unfinished in the session it asked for holds that session: it is  *)
(* busy, and was when the command looked.                                    *)
LEMMA InterruptKeeps == ASSUME Inv, Next PROVE InterruptInv'
<1> USE DEF connVars, sessVars, actorVars, execVars, storeVars
<1> SUFFICES ASSUME NEW x \in Execs, x \in interrupted'
             PROVE  sessionId'[x] # handle'[x] /\ step'[x] \notin {"new", "opened", "claimed"}
  <2>1. interrupted' \in SUBSET Execs
    BY TypeStep DEF Inv, TypeOK
  <2> QED
    BY <2>1 DEF InterruptInv
<1> DEFINE Goal == sessionId'[x] # handle'[x] /\ step'[x] \notin {"new", "opened", "claimed"}
<1>1. CASE x \in interrupted
  <2>1. sessionId[x] # handle[x] /\ step[x] \notin {"new", "opened", "claimed"}
    BY <1>1 DEF Inv, InterruptInv
  <2>2. sessionId'[x] = sessionId[x] /\ handle'[x] = handle[x] /\ step'[x] \notin {"new", "opened"}
    BY <2>1, RequestsLast
  <2>3. step'[x] # "claimed"
    <3>1. ASSUME NEW e \in Execs, ExecuteStep(e) PROVE step'[x] # "claimed"
      BY <2>1, <3>1 DEF ExecuteStep, ExecuteOpens, ExecuteClaims, ExecuteRefused, ExecuteRegisters,
           ExecuteSends, ExecuteUnsent, AttachSource, Inv, TypeOK
    <3>2. ASSUME NEW s \in Sessions, ActorStep(s) PROVE step'[x] # "claimed"
      <4>1. CASE ActorCloses(s)
        BY <2>1, <4>1, CloseFacts
      <4>2. CASE ~ActorCloses(s)
        BY <2>1, <3>2, <4>2, TaskFacts DEF ActorStep, ActorTakes, ActorEndsExecution, ActorFrees,
             ActorAnswers, ActorEndsPage, Inv, TypeOK
      <4> QED
        BY <4>1, <4>2
    <3>3. ASSUME NEW p \in Pages, PageStep(p) PROVE UNCHANGED step
      BY <3>3, PageLocal
    <3>4. ASSUME NEW s \in Sessions, CloseStep(s) PROVE UNCHANGED step
      BY <3>4 DEF CloseStep, SessionOpens, SessionCloseRemoves, SessionCloseCancels, SendClose,
           SessionCloseTimesOut, SessionCloseCollects, SessionCloseReleases
    <3>5. ASSUME NEW c \in Conns, ConnStep(c) PROVE UNCHANGED step
      BY <3>5 DEF ConnStep, ConnectionOpen, ConnectionCloseRemoves, ConnectionCloseDrops,
           ConnectionCloseCancels, Reconnect, SwitchDatabase
    <3>6. ASSUME NEW r \in Results, ResultRelease(r) PROVE UNCHANGED step
      BY <3>6 DEF ResultRelease
    <3> QED
      BY <2>1, <3>1, <3>2, <3>3, <3>4, <3>5, <3>6 DEF Next
  <2> QED
    BY <2>1, <2>2, <2>3
<1>2. ASSUME x \in executions, x \notin terminal
      PROVE  /\ step[x] \in {"registered", "sent", "lost"} /\ Used(handle[x])
             /\ step[x] # "lost" => x \in HoldingExecs(handle[x])
             /\ step[x] = "lost" => session[handle[x]] \in {"confirmed", "closed"}
             /\ home[handle[x]].conn = request[x].conn
  <2>1. step[x] \in {"registered", "sent", "lost"}
    BY <1>2 DEF Inv, OnlyLiveRegistered, ExecInv
  <2> QED
    BY <2>1 DEF Inv, ExecInv, HoldingExecs, Claimed, Sent
<1>3. ASSUME NEW s \in Sessions, SessionCloseCancels(s), x \notin interrupted PROVE Goal
  <2>1. /\ session[s] = "removedIdle" /\ x \in executions /\ x \notin terminal /\ sessionId[x] = s
        /\ UNCHANGED <<step, sessionId, handle>>
    BY <1>3 DEF SessionCloseCancels, Unfinished, OfSession
  <2>2. HoldingExecs(s) = {}
    BY <2>1 DEF Inv, HolderInv
  <2> QED
    BY <1>2, <2>1, <2>2
<1>4. ASSUME NEW c \in Conns, SwitchDatabase(c), x \notin interrupted PROVE FALSE
  <2>1. /\ x \in executions /\ x \notin terminal /\ request[x].conn = c /\ session[handle[x]] = "open"
        /\ OpenSessions(c) \cap busy = {}
    BY <1>4 DEF SwitchDatabase, Unfinished, OfConn
  <2>2. handle[x] \in busy
    BY <1>2, <2>1 DEF Inv, HolderInv, ClaimIsExclusive, Used
  <2> QED
    BY <1>2, <2>1, <2>2 DEF OpenSessions, Used
<1>5. CASE x \notin interrupted
  <2>1. ASSUME NEW e \in Execs, ExecuteStep(e) PROVE FALSE
    BY <1>5, <2>1 DEF ExecuteStep, ExecuteOpens, ExecuteClaims, ExecuteRefused, ExecuteRegisters,
         ExecuteSends, ExecuteUnsent, AttachSource
  <2>2. ASSUME NEW p \in Pages, PageStep(p) PROVE FALSE
    BY <1>5, <2>2 DEF PageStep, PageTakesHandle, PageClaims, PageFindsStore, PageReturns, PageSends
  <2>3. ASSUME NEW s \in Sessions, ActorStep(s) PROVE FALSE
    BY <1>5, <2>3 DEF ActorStep, ActorTakes, ActorEndsExecution, ActorFrees, ActorAnswers,
         ActorEndsPage, ActorCloses
  <2>4. ASSUME NEW s \in Sessions, CloseStep(s), ~SessionCloseCancels(s) PROVE FALSE
    BY <1>5, <2>4 DEF CloseStep, SessionOpens, SessionCloseRemoves, SendClose, SessionCloseTimesOut,
         SessionCloseCollects, SessionCloseReleases
  <2>5. ASSUME NEW c \in Conns, ConnStep(c), ~SwitchDatabase(c) PROVE FALSE
    BY <1>5, <2>5 DEF ConnStep, ConnectionOpen, ConnectionCloseRemoves, ConnectionCloseDrops,
         ConnectionCloseCancels, Reconnect
  <2>6. ASSUME NEW r \in Results, ResultRelease(r) PROVE FALSE
    BY <1>5, <2>6 DEF ResultRelease
  <2> QED
    BY <1>3, <1>4, <1>5, <2>1, <2>2, <2>3, <2>4, <2>5, <2>6 DEF Next
<1> QED
  BY <1>1, <1>5

-----------------------------------------------------------------------------
(* The inductive invariant of the registries. *)
THEOREM InvHolds == Spec => []Inv
<1>1. ASSUME Inv, UNCHANGED vars PROVE Inv'
  <2> USE <1>1 DEF Inv, vars, connVars, sessVars, actorVars, execVars, storeVars
  <2>1. TypeOK'
    BY DEF TypeOK
  <2>2. OpenInv' /\ ExecInv' /\ PageInv' /\ StoreInv' /\ PagingInv' /\ OnlyLiveRegistered' /\ InterruptInv'
    BY DEF OpenInv, ExecInv, PageInv, StoreInv, PagingInv, OnlyLiveRegistered, InterruptInv, Used, SamePage
  <2>3. MailboxInv' /\ TaskInv'
    BY DEF MailboxInv, TaskInv
  <2>4. HolderInv'
    BY DEF HolderInv, Used, ClaimIsExclusive, BusyIsHeld, HoldingExecs, HoldingPages
  <2> QED
    BY <2>1, <2>2, <2>3, <2>4
<1>2. ASSUME Inv, Next PROVE Inv'
  <2>1. TypeOK' /\ OpenInv' /\ ExecInv' /\ PageInv' /\ MailboxInv' /\ TaskInv'
    BY <1>2, TypeStep, OpenStep, ExecKeeps, PageKeeps, MailboxKeeps, TaskKeeps DEF Inv
  <2>2. HolderInv' /\ StoreInv' /\ PagingInv' /\ OnlyLiveRegistered' /\ InterruptInv'
    BY <1>2, HolderKeeps, StoreKeeps, PagingKeeps, LiveKeeps, InterruptKeeps
  <2> QED
    BY <2>1, <2>2 DEF Inv
<1> QED
  BY InitInv, <1>1, <1>2, PTL DEF Spec

(* A mailbox never holds more than one request and one Close, since every    *)
(* request in it holds its session.                                          *)
LEMMA RoomInMailbox == Inv => MailboxHasRoom
<1> SUFFICES ASSUME Inv, NEW s \in Sessions, Len(mailbox[s]) > 2 PROVE FALSE
  <2>1. \A s \in Sessions : Len(mailbox[s]) \in Nat
    BY DEF Inv, TypeOK
  <2> QED
    BY <2>1 DEF MailboxHasRoom
<1>1. /\ 1 \in 1..Len(mailbox[s]) /\ 2 \in 1..Len(mailbox[s]) /\ 3 \in 1..Len(mailbox[s])
      /\ \A i \in 1..Len(mailbox[s]) : mailbox[s][i] \in Messages
  <2>1. mailbox[s] \in Seq(Messages) /\ Len(mailbox[s]) \in Nat
    BY DEF Inv, TypeOK
  <2> QED
    BY <2>1
<1>2. /\ mailbox[s][1] # mailbox[s][2] /\ mailbox[s][1] # mailbox[s][3]
      /\ mailbox[s][2] # mailbox[s][3]
  BY <1>1 DEF Inv, MailboxInv
<1> DEFINE Requested(m) == \/ \E e \in HoldingExecs(s) : m = Execute(e)
                           \/ \E p \in HoldingPages(s) : m = FetchPage(p)
<1>3. ASSUME NEW i \in 1..Len(mailbox[s]) PROVE mailbox[s][i] = Close(s) \/ Requested(mailbox[s][i])
  <2>1. CASE \E t \in Sessions : mailbox[s][i] = Close(t)
    BY <2>1 DEF Inv, MailboxInv
  <2>2. CASE \E e \in Execs : mailbox[s][i] = Execute(e)
    BY <2>2 DEF Inv, MailboxInv, HoldingExecs
  <2>3. CASE \E p \in Pages : mailbox[s][i] = FetchPage(p)
    BY <2>3 DEF Inv, MailboxInv, HoldingPages
  <2> QED
    BY <1>1, <2>1, <2>2, <2>3 DEF Messages
<1>4. ASSUME NEW m, NEW n, Requested(m), Requested(n) PROVE m = n
  BY <1>4 DEF Inv, HolderInv, ClaimIsExclusive
<1> HIDE DEF Requested
<1> QED
  BY <1>1, <1>2, <1>3, <1>4

(* Claims, busy flags, mailboxes and the registry of executions agree        *)
(* between any two critical sections (RegistriesAgree).                      *)
THEOREM RegistriesStayTrue == Spec => []RegistriesAgree
<1>1. Inv => RegistriesAgree
  BY RoomInMailbox DEF Inv, HolderInv, RegistriesAgree
<1> QED
  BY <1>1, InvHolds, PTL

(* connection_close and its like leave no store behind                       *)
(* (StoresOfOpenConnections).                                                *)
THEOREM StoresGoWithWorkspaces == Spec => []StoresOfOpenConnections
<1>1. Inv => StoresOfOpenConnections
  BY DEF Inv, StoreInv, StoresOfOpenConnections
<1> QED
  BY <1>1, InvHolds, PTL

(* A result, and every further page of it, comes from the database its       *)
(* connection shows (OnlyThisDatabase).                                      *)
THEOREM ResultsAreOfTheirDatabase == Spec => []OnlyThisDatabase
<1>1. Inv => OnlyThisDatabase
  BY DEF Inv, StoreInv, PagingInv, SamePage, OnlyThisDatabase, ResultsOfThisDatabase, PageFromSameDatabase
<1> QED
  BY <1>1, InvHolds, PTL

(* An unconfirmed close and a change of database cut no execution short in   *)
(* the session it was accepted for (NothingInterrupted).                     *)
THEOREM RunningIsLeftAlone == Spec => []NothingInterrupted
<1>1. Inv => NothingInterrupted
  BY DEF Inv, InterruptInv, NothingInterrupted
<1> QED
  BY <1>1, InvHolds, PTL

=============================================================================
