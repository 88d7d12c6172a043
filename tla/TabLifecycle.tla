---------------------------- MODULE TabLifecycle ----------------------------
(***************************************************************************)
(* What the user can do to the query tabs of one workspace while answers   *)
(* of the backend are on their way: run, run again, pin, close a result,   *)
(* close tabs, change the database, reconnect, disconnect, quit            *)
(* (WorkspacePage.tsx, WorkspacePane.tsx, AppShell.tsx, the RESULT_ and    *)
(* EXECUTION_ actions of workspaceStore.ts, start() of queryChannel.ts).   *)
(*                                                                         *)
(* These handlers are async functions over a tab captured when they begin. *)
(* A confirmation is modal: nothing else is clicked while it is open.      *)
(* While the backend is awaited the window stays alive, except during a    *)
(* change of database, when the workspace is inert.                        *)
(***************************************************************************)
EXTENDS Integers, Sequences, FiniteSets, SequencesExt

CONSTANTS
    Tabs, Results,  \* The query tabs and the ids new results can get.
    MaxSessions,    \* Bound on the sessions the backend opens.
    Patient         \* The user leaves alone what is being closed.

ASSUME SessionsAssumption ==
    /\ MaxSessions \in Nat /\ Patient \in BOOLEAN
    /\ IsFiniteSet(Tabs) /\ Tabs # {} /\ "none" \notin Results

VARIABLES
    tab,       \* QueryTabState of each tab.
    pinned,    \* Results with isPinned.
    running,   \* Results with isRunning.
    known,     \* Results the resultStore has a state for.
    edits,     \* Results with pending edits.
    locked,    \* Results whose edits are being saved.
    call,      \* The runQuery of each tab whose promise or events are outstanding.
    flows,     \* The handlers that wait, for the user or for the backend.
    inert,     \* changingDatabase.
    gone,      \* The workspace was left (switched, disconnected, quit).
    session,   \* Backend: each tab's session, 0 when there is none.
    opened,    \* Backend: sessions opened so far.
    stores,    \* Backend: results it holds rows for.
    lost       \* History: edits or executions ended without the user's consent.

vars == <<tab, pinned, running, known, edits, locked, call, flows, inert, gone,
          session, opened, stores, lost>>
backend == <<session, opened, stores>>
webview == <<tab, pinned, running, known, edits, locked>>

NoResult == "none"
NoCall == [res |-> NoResult, current |-> FALSE, accepted |-> 0,
           started |-> FALSE, ended |-> FALSE, answered |-> FALSE]
OpenTabs == {t \in Tabs : tab[t].open}
Used == UNION {Range(tab[t].resultTabs) \cup {call[t].res} : t \in Tabs} \cup known \cup stores

----------------------------------------------------------------------------
(* The user's hands. *)
Asking == \E f \in flows : f.step = "asking"
Touched(f) == {f.todo[i].id : i \in DOMAIN f.todo}
MayUse(t) == ~Asking /\ ~inert /\ ~gone /\ tab[t].open
             /\ (Patient => \A f \in flows : t \notin Touched(f))

Flow(op, todo, res, step) == [op |-> op, todo |-> todo, res |-> res, step |-> step]
Begin(f) == flows' = flows \cup {f}
Go(f, step) == flows' = (flows \ {f}) \cup {[f EXCEPT !.step = step]}
End(f) == flows' = flows \ {f}
Idle(op) == \A f \in flows : f.op # op

Capture(t) == [id |-> t, resultTabs |-> tab[t].resultTabs, shown |-> tab[t].activeResultTabId,
               session |-> tab[t].sessionId, exec |-> tab[t].runningExecutionId,
               open |-> tab[t].open]

----------------------------------------------------------------------------
(* The reducer's actions on results. *)
ResultAdded(t, r) == [tab EXCEPT ![t].resultTabs = Append(@, r), ![t].activeResultTabId = r]

ResultClosed(t, r) ==
    LET at == SelectInSeq(tab[t].resultTabs, LAMBDA x : x = r)
        rest == RemoveFirst(tab[t].resultTabs, r)
        next == IF tab[t].activeResultTabId # r THEN tab[t].activeResultTabId
                ELSE IF rest = <<>> THEN NoResult
                ELSE rest[IF at > Len(rest) THEN Len(rest) ELSE at]
    IN  [tab EXCEPT ![t].resultTabs = rest, ![t].activeResultTabId = next]

ResultCycled(t) ==
    LET shown == tab[t].resultTabs
        at == SelectInSeq(shown, LAMBDA x : x = tab[t].activeResultTabId)
    IN  /\ MayUse(t) /\ Len(shown) > 1 /\ at # 0
        /\ \E step \in {1, Len(shown) - 1} :
             tab' = [tab EXCEPT ![t].activeResultTabId = shown[((at - 1 + step) % Len(shown)) + 1]]
        /\ UNCHANGED <<pinned, running, known, edits, locked, call, flows, inert, gone, backend, lost>>

ResultActivated(t) ==
    /\ MayUse(t)
    /\ \E r \in Range(tab[t].resultTabs) : tab' = [tab EXCEPT ![t].activeResultTabId = r]
    /\ UNCHANGED <<pinned, running, known, edits, locked, call, flows, inert, gone, backend, lost>>

PinToggled(t) ==
    /\ MayUse(t)
    /\ \E r \in Range(tab[t].resultTabs) :
         pinned' = IF r \in pinned THEN pinned \ {r} ELSE pinned \cup {r}
    /\ UNCHANGED <<tab, running, known, edits, locked, call, flows, inert, gone, backend, lost>>

(* Editing of a shown result, and a save that locks it for a while. *)
EditOrSave(t) ==
    LET r == tab[t].activeResultTabId
    IN  /\ r \in known /\ r \notin running
        /\ \/ MayUse(t) /\ r \notin locked /\ edits' = edits \cup {r} /\ UNCHANGED locked
           \/ MayUse(t) /\ r \in edits \ locked /\ locked' = locked \cup {r} /\ UNCHANGED edits
           \/ r \in locked /\ locked' = locked \ {r} /\ edits' = edits \ {r}
        /\ UNCHANGED <<tab, pinned, running, known, call, flows, inert, gone, backend, lost>>

----------------------------------------------------------------------------
(* resultStore.create refuses a result with changes or one that is running. *)
Creates(r) == r \notin edits \cup locked \cup (known \cap running)

(* start(): the tab is marked before the backend is called.                *)
(* It throws when the tab runs something, or resultStore.create refuses.   *)
StartCall(t, r, tabs) ==
    IF tab[t].runningExecutionId # "none" \/ ~Creates(r)
    THEN tab' = tabs /\ UNCHANGED <<running, known, call>>
    ELSE /\ tab' = [tabs EXCEPT ![t].runningExecutionId =
                        IF tab[t].open THEN "pending" ELSE "none"]
         /\ running' = running \cup {r}
         /\ known' = known \cup {r}
         /\ call' = [call EXCEPT ![t] = [res |-> r, current |-> TRUE, accepted |-> 0,
                                         started |-> FALSE, ended |-> FALSE, answered |-> FALSE]]

(* Run: a dangerous statement is confirmed first; `c` is the tab as captured. *)
RunInto(c, mode) ==
    LET reuse == /\ mode = "replace" /\ c.shown \in Range(c.resultTabs)
                 /\ c.shown \notin (pinned \cup running \cup edits \cup locked)
    IN  /\ call[c.id] = NoCall
        /\ IF reuse THEN StartCall(c.id, c.shown, tab)
           ELSE \E r \in Results \ Used : StartCall(c.id, r, ResultAdded(c.id, r))

Run(t, mode) ==
    /\ MayUse(t) /\ tab[t].runningExecutionId = "none"
    /\ \/ RunInto(Capture(t), mode) /\ UNCHANGED flows
       \/ /\ Begin(Flow("run", <<Capture(t)>>, mode, "asking"))
          /\ UNCHANGED <<tab, running, known, call>>
    /\ UNCHANGED <<pinned, edits, locked, inert, gone, backend, lost>>

RunConfirmed(f) ==
    /\ f.op = "run" /\ f.step = "asking"
    /\ End(f)
    /\ \/ UNCHANGED <<tab, running, known, call>>
       \/ RunInto(f.todo[1], f.res)
    /\ UNCHANGED <<pinned, edits, locked, inert, gone, backend, lost>>

(* Nothing to ask: the rows can be replaced. *)
RefreshAllowed(r) == r \notin edits

(* Refresh of the shown result: over pending edits only when they may go. *)
RefreshResult(t) ==
    LET r == tab[t].activeResultTabId
    IN  /\ MayUse(t) /\ tab[t].runningExecutionId = "none" /\ call[t] = NoCall
        /\ r \in known \ locked
        /\ IF RefreshAllowed(r)
           THEN /\ StartCall(t, r, tab) /\ UNCHANGED flows
                /\ edits' = edits \ {r}
                /\ lost' = (lost \/ r \in edits)
           ELSE /\ Begin(Flow("refresh", <<Capture(t)>>, r, "asking"))
                /\ UNCHANGED <<tab, running, known, call, edits, lost>>
        /\ UNCHANGED <<pinned, locked, inert, gone, backend>>

RefreshConfirmed(f) ==
    /\ f.op = "refresh" /\ f.step = "asking"
    /\ End(f)
    /\ \/ UNCHANGED <<tab, running, known, call, edits>>
       \/ edits' = edits \ {f.res} /\ StartCall(f.todo[1].id, f.res, tab)
    /\ UNCHANGED <<pinned, locked, inert, gone, backend, lost>>

----------------------------------------------------------------------------
(* The backend and the channel's events. *)
InCall(t) == call[t] # NoCall /\ ~call[t].ended

Accepted(t) ==
    /\ InCall(t) /\ call[t].accepted = 0 /\ ~gone
    /\ session[t] # 0 \/ opened < MaxSessions
    /\ session' = [session EXCEPT ![t] = IF @ = 0 THEN opened + 1 ELSE @]
    /\ opened' = IF session[t] = 0 THEN opened + 1 ELSE opened
    /\ stores' = stores \cup {call[t].res}
    /\ call' = [call EXCEPT ![t].accepted = session'[t]]
    /\ UNCHANGED <<webview, flows, inert, gone, lost>>

(* The dispatches of an event, dropped for a tab or workspace that is gone. *)
ExecutionStarted(t) == [tab EXCEPT ![t].runningExecutionId = IF tab[t].open THEN "live" ELSE "none"]
ExecutionEnded(t, txn) ==
    [tab EXCEPT ![t].runningExecutionId = "none",
                ![t].inTransaction = tab[t].open /\ txn]

Started(t) ==
    /\ InCall(t) /\ call[t].accepted # 0 /\ ~call[t].started
    /\ call' = [call EXCEPT ![t].started = TRUE]
    /\ tab' = IF call[t].current THEN ExecutionStarted(t) ELSE tab
    /\ UNCHANGED <<pinned, running, known, edits, locked, flows, inert, gone, backend, lost>>

(* Mutated form of Finished: an outcome that is no longer current leaves isRunning only. *)
FinishedForgets(t, txn) ==
    IF call[t].current THEN running' = running \ {call[t].res} /\ tab' = tab
    ELSE UNCHANGED <<running, tab>>

(* finish() of start(): only for the rows the call created. *)
Finished(t, txn) ==
    IF call[t].current
    THEN running' = running \ {call[t].res} /\ tab' = ExecutionEnded(t, txn)
    ELSE UNCHANGED <<running, tab>>

(* completed, failed or cancelled. *)
Terminal(t) ==
    /\ InCall(t) /\ call[t].started
    /\ \E txn \in BOOLEAN : Finished(t, txn)
    /\ call' = IF call[t].answered THEN [call EXCEPT ![t] = NoCall]
               ELSE [call EXCEPT ![t].ended = TRUE]
    /\ UNCHANGED <<pinned, known, edits, locked, flows, inert, gone, backend, lost>>

(* The invoke is refused (or the workspace closed under it). *)
Refused(t) ==
    /\ InCall(t) /\ call[t].accepted = 0
    /\ Finished(t, tab[t].inTransaction)
    /\ call' = [call EXCEPT ![t] = NoCall]
    /\ UNCHANGED <<pinned, known, edits, locked, flows, inert, gone, backend, lost>>

(* The invoke's own answer, before or after the events. *)
Answered(t) ==
    /\ call[t] # NoCall /\ call[t].accepted # 0 /\ ~call[t].answered
    /\ LET named == [tab EXCEPT ![t].sessionId = IF tab[t].open THEN call[t].accepted ELSE 0]
       IN  tab' = IF ~call[t].ended /\ call[t].current /\ tab[t].open
                  THEN [named EXCEPT ![t].runningExecutionId = "live"] ELSE named
    /\ call' = IF call[t].ended THEN [call EXCEPT ![t] = NoCall]
               ELSE [call EXCEPT ![t].answered = TRUE]
    /\ UNCHANGED <<pinned, running, known, edits, locked, flows, inert, gone, backend, lost>>

----------------------------------------------------------------------------
(* disposeTab and resultStore.dispose: rows and edits of the results go.  *)
Disposed(rs) ==
    /\ known' = known \ rs /\ edits' = edits \ rs /\ locked' = locked \ rs
    /\ call' = [t \in Tabs |-> IF call[t] # NoCall /\ call[t].res \in rs
                               THEN [call[t] EXCEPT !.current = FALSE] ELSE call[t]]

ResultsOf(c) == Range(c.resultTabs)
AllResults(todo) == UNION {ResultsOf(todo[i]) : i \in DOMAIN todo}

(* protectedTabs: refused while a run is prepared or edits are saved; asked *)
(* about edits, executions and transactions.                                *)
Refuses(todo) ==
    \/ \E i \in DOMAIN todo : tab[todo[i].id].runningExecutionId = "pending"
    \/ AllResults(todo) \cap locked # {}
Asks(todo) ==
    \/ AllResults(todo) \cap edits # {}
    \/ \E i \in DOMAIN todo : tab[todo[i].id].runningExecutionId # "none" \/ tab[todo[i].id].inTransaction

CloseTabs(ts) ==
    /\ \A t \in ts : MayUse(t)
    /\ Idle("close")
    /\ LET order == SetToSeq(ts)
           todo == [i \in DOMAIN order |-> Capture(order[i])]
       IN  /\ ~Refuses(todo)
           /\ Begin(Flow("close", todo, NoResult, IF Asks(todo) THEN "asking" ELSE "closing"))
    /\ UNCHANGED <<webview, call, inert, gone, backend, lost>>

(* querySessionClose: cancels what runs, rolls back, drops the tab's results. *)
CloseSession(f) ==
    LET c == f.todo[1]
    IN  /\ f.op = "close" /\ f.step = "closing"
        /\ IF c.session = 0 THEN Go(f, "releasing") /\ UNCHANGED <<session, stores>>
           ELSE IF session[c.id] # c.session THEN End(f) /\ UNCHANGED <<session, stores>>
           ELSE /\ Go(f, "releasing")
                /\ session' = [session EXCEPT ![c.id] = 0]
                /\ stores' = stores \ Range(tab[c.id].resultTabs)
        /\ UNCHANGED <<webview, call, inert, gone, opened, lost>>

(* resultRelease: refused while the result's execution runs. *)
Executing(r) == \E t \in Tabs : InCall(t) /\ call[t].res = r /\ call[t].accepted # 0
                                /\ call[t].accepted = session[t]

Released(f, rs) ==
    IF \E r \in rs \cap stores : Executing(r) THEN End(f) /\ UNCHANGED stores
    ELSE stores' = stores \ rs /\ Go(f, "released")

ReleaseOfTab(f) ==
    /\ f.op = "close" /\ f.step = "releasing"
    /\ Released(f, ResultsOf(f.todo[1]))
    /\ UNCHANGED <<webview, call, inert, gone, session, opened, lost>>

(* disposeTab and TAB_CLOSED, and on to the next tab of the panel. *)
TabCloses(f) ==
    LET c == f.todo[1]
    IN  /\ f.op = "close" /\ f.step = "released"
        /\ Disposed(ResultsOf(c))
        /\ tab' = [tab EXCEPT ![c.id] = [open |-> FALSE, resultTabs |-> <<>>,
                     activeResultTabId |-> NoResult, runningExecutionId |-> "none",
                     sessionId |-> 0, inTransaction |-> FALSE]]
        /\ flows' = (flows \ {f}) \cup
             (IF Len(f.todo) = 1 THEN {} ELSE {[f EXCEPT !.todo = Tail(@), !.step = "closing"]})
        /\ pinned' = pinned \ Range(tab[c.id].resultTabs)
        /\ running' = running \ Range(tab[c.id].resultTabs)
        /\ UNCHANGED <<inert, gone, backend, lost>>

(* closeResultTab. *)
CloseResult(t) ==
    /\ MayUse(t) /\ Idle("closeResult")
    /\ \E r \in Range(tab[t].resultTabs) \ (running \cup locked) :
         Begin(Flow("closeResult", <<Capture(t)>>, r,
                    IF r \in pinned \cup edits THEN "asking" ELSE "releasing"))
    /\ UNCHANGED <<webview, call, inert, gone, backend, lost>>

ReleaseOfResult(f) ==
    /\ f.op = "closeResult" /\ f.step = "releasing"
    /\ Released(f, {f.res})
    /\ UNCHANGED <<webview, call, inert, gone, session, opened, lost>>

ResultCloses(f) ==
    LET t == f.todo[1].id
    IN  /\ f.op = "closeResult" /\ f.step = "released"
        /\ Disposed({f.res})
        /\ tab' = ResultClosed(t, f.res)
        /\ End(f)
        /\ pinned' = pinned \ {f.res} /\ running' = running \ {f.res}
        /\ UNCHANGED <<inert, gone, backend, lost>>

----------------------------------------------------------------------------
(* Leaving the workspace: every tab's captured state at once. *)
AllTabs == LET order == SetToSeq(OpenTabs) IN [i \in DOMAIN order |-> Capture(order[i])]

(* Mutated form of SwitchAllowed: only running executions stop a change of database. *)
SwitchAllowedInTransaction(todo) ==
    \A i \in DOMAIN todo : tab[todo[i].id].runningExecutionId = "none"

SwitchAllowed(todo) ==
    /\ \A i \in DOMAIN todo : tab[todo[i].id].runningExecutionId = "none" /\ ~tab[todo[i].id].inTransaction
    /\ AllResults(todo) \cap locked = {}

ChangeDatabase ==
    LET f == Flow("switch", AllTabs, NoResult,
                  IF AllResults(AllTabs) \cap edits # {} THEN "asking" ELSE "saving")
    IN  /\ ~Asking /\ ~inert /\ ~gone
        /\ Patient => flows = {}
        /\ SwitchAllowed(AllTabs)
        /\ Begin(f)
        /\ inert' = (f.step = "saving")
        /\ UNCHANGED <<webview, call, gone, backend, lost>>

(* refresh found the connection lost: reconnecting is always asked about. *)
Reconnect ==
    /\ ~Asking /\ ~inert /\ ~gone
    /\ Patient => flows = {}
    /\ Begin(Flow("reconnect", AllTabs, NoResult, "asking"))
    /\ inert' = TRUE
    /\ UNCHANGED <<webview, call, gone, backend, lost>>

(* disconnect. *)
Disconnect(op) ==
    /\ ~Asking /\ ~gone /\ Idle(op)
    /\ op = "disconnect" => ~inert
    /\ Patient => flows = {}
    /\ ~Refuses(AllTabs)
    /\ Begin(Flow(op, AllTabs, NoResult, IF Asks(AllTabs) THEN "asking" ELSE "saving"))
    /\ UNCHANGED <<webview, call, inert, gone, backend, lost>>

(* The window's close request: every workspace is left at once. *)
Quit == Disconnect("quit")

Leaving == {"switch", "reconnect", "disconnect", "quit"}

(* saveWorkspaceNow was awaited, then the backend ends every session; a    *)
(* failure of either leaves the workspace as it is.                        *)
LeaveFails(f) ==
    /\ f.op \in Leaving /\ f.step = "saving" /\ ~gone
    /\ End(f)
    /\ inert' = (inert /\ f.op \notin {"switch", "reconnect"})
    /\ UNCHANGED <<webview, call, gone, backend, lost>>

(* Executions and transactions a change of database ends. *)
Interrupted == \E t \in OpenTabs : tab[t].inTransaction \/ (InCall(t) /\ call[t].current)

Leave(f) ==
    /\ f.op \in Leaving /\ f.step = "saving" /\ ~gone
    /\ lost' = (lost \/ (f.op = "switch" /\ Interrupted))
    /\ session' = [t \in Tabs |-> 0]
    /\ stores' = {}
    /\ gone' = TRUE
    /\ inert' = FALSE
    /\ Disposed(AllResults(f.todo))
    /\ tab' = [t \in Tabs |-> [open |-> FALSE, resultTabs |-> <<>>, activeResultTabId |-> NoResult,
                               runningExecutionId |-> "none", sessionId |-> 0, inTransaction |-> FALSE]]
    /\ flows' = {} /\ pinned' = {} /\ running' = {}
    /\ UNCHANGED opened

(* The user answers a question about closing or leaving. *)
Consent(f) ==
    /\ f.step = "asking" /\ f.op \in Leaving \cup {"close", "closeResult"}
    /\ Go(f, CASE f.op = "close" -> "closing" [] f.op = "closeResult" -> "releasing" [] OTHER -> "saving")
    /\ inert' = (inert \/ f.op = "switch")
    /\ UNCHANGED <<webview, call, gone, backend, lost>>

Decline(f) ==
    /\ f.step = "asking" /\ f.op \in Leaving \cup {"close", "closeResult"}
    /\ End(f)
    /\ inert' = (inert /\ f.op # "reconnect")
    /\ UNCHANGED <<webview, call, gone, backend, lost>>

----------------------------------------------------------------------------
Init ==
    /\ tab = [t \in Tabs |-> [open |-> TRUE, resultTabs |-> <<>>, activeResultTabId |-> NoResult,
                              runningExecutionId |-> "none", sessionId |-> 0, inTransaction |-> FALSE]]
    /\ pinned = {} /\ running = {} /\ known = {} /\ edits = {} /\ locked = {}
    /\ call = [t \in Tabs |-> NoCall]
    /\ flows = {} /\ inert = FALSE /\ gone = FALSE
    /\ session = [t \in Tabs |-> 0] /\ opened = 0 /\ stores = {}
    /\ lost = FALSE

Next ==
    \/ \E t \in Tabs :
         \/ ResultActivated(t) \/ ResultCycled(t) \/ PinToggled(t) \/ EditOrSave(t)
         \/ Run(t, "replace") \/ Run(t, "new-result") \/ RefreshResult(t)
         \/ Accepted(t) \/ Started(t) \/ Terminal(t) \/ Refused(t) \/ Answered(t)
         \/ CloseResult(t) \/ CloseTabs({t})
    \/ CloseTabs(Tabs)
    \/ ChangeDatabase \/ Reconnect \/ Disconnect("disconnect") \/ Quit
    \/ \E f \in flows :
         \/ RunConfirmed(f) \/ RefreshConfirmed(f) \/ CloseSession(f) \/ ReleaseOfTab(f)
         \/ TabCloses(f) \/ ReleaseOfResult(f) \/ ResultCloses(f)
         \/ LeaveFails(f) \/ Leave(f) \/ Consent(f) \/ Decline(f)

Spec == Init /\ [][Next]_vars

----------------------------------------------------------------------------
(* A tab marked as running has an outcome still to come that will take the *)
(* mark away: otherwise the tab refuses to run anything until it is closed *)
(* (run and refresh return early, start() throws).                         *)
RunningWillEnd ==
    \A t \in OpenTabs : tab[t].runningExecutionId # "none" =>
        call[t] # NoCall /\ call[t].current /\ ~call[t].ended

(* An execution of an open tab shows its rows in a result of that tab.     *)
RunningIsShown ==
    \A t \in OpenTabs : InCall(t) => call[t].res \in Range(tab[t].resultTabs)

(* What a tab says of its execution is true: its mark goes away with the   *)
(* outcome, and its rows have a place to be shown (start, closeResultTab). *)
RunningIsTrue == RunningWillEnd /\ RunningIsShown

(* A change of database interrupts no execution and rolls back no open     *)
(* transaction, and a refresh drops no edits the user was not asked about. *)
NothingLostUnasked == ~lost

(* "After a tab is closed no session, channel or row buffer is left"       *)
(* (docs/plan/plan-mvp.md:394): once nothing is awaited, every session and *)
(* every retained result of the backend belongs to an open tab.            *)
ClosedTabKeepsNothing ==
    (flows = {} /\ \A t \in Tabs : call[t] = NoCall) =>
        /\ \A t \in Tabs : session[t] # 0 => tab[t].open
        /\ stores \subseteq UNION {Range(tab[t].resultTabs) : t \in OpenTabs}

=============================================================================
