------------------------------- MODULE AiChat -------------------------------
(***************************************************************************)
(* The AI chat panel (AIChatPanel.tsx), its transcripts (aiSessionStore.ts)*)
(* and the jobs of the backend that run one CLI process per request        *)
(* (ai_chat, ai_chat_cancel, ai_chat_approve of commands/mod.rs).          *)
(*                                                                         *)
(* send() is an async function of the panel that was mounted when it was   *)
(* called; it may invoke ai_chat twice.  Events of a request come through  *)
(* a channel, its answer as the answer of the invoke.  Closing the panel   *)
(* unmounts it: the turn goes on, and what it sets is no longer shown.     *)
(*                                                                         *)
(* A CLI session is known by its handle; here the handle is the number of  *)
(* the request that created the session.  A message keeps the conversation *)
(* it was written for.  Models, effort, wording and progress are left out. *)
(***************************************************************************)
EXTENDS Integers, Sequences, FiniteSets, SequencesExt

CONSTANTS
    MaxSends,      \* Bound on the questions sent; each is retried at most once.
    MaxConvs,      \* Bound on the conversations begun.
    MaxChanges,    \* Bound on the changes of the provider.
    MaxSessions,   \* MAX_SESSIONS: transcripts kept.
    MaxTotal,      \* MAX_TOTAL_BYTES, in messages.
    AiProvider,    \* The provider of the user's settings.
    AnswerWaits    \* An answer is handled after the events sent before it.

ASSUME BoundsAssumption ==
    /\ MaxSends \in Nat /\ MaxConvs \in Nat \ {0} /\ MaxTotal \in Nat /\ MaxChanges \in Nat
    /\ MaxSessions \in Nat \ {0} /\ AnswerWaits \in BOOLEAN
    /\ AiProvider \in {"claude", "codex"}

VARIABLES
    panel,      \* State and refs of the mounted panel; NoPanel when it is closed.
    sessions,   \* entries of the AiSessionStore, newest first.
    turn,       \* The requests sent so far, with the state of their job.
    nextConv,   \* The id the next conversation gets.
    changes,    \* Changes of the provider so far.
    forgotten   \* History: transcripts the user deleted and that were not saved since.

vars == <<panel, sessions, turn, nextConv, changes, forgotten>>
counters == <<nextConv, changes>>

Providers == {"claude", "codex"}
NoHandle == 0
Earlier == -1          \* The handle and, as 0, the conversation of an earlier run.
NoRequest == 0
NoPanel == [conv |-> -1]
Mounted == panel # NoPanel
Requests == DOMAIN turn
ConvOf(handle) == IF handle = Earlier THEN 0 ELSE turn[handle].conv

Message(role, conv) == [role |-> role, of |-> conv]
Fresh(conv) == [conv |-> conv, handle |-> NoHandle, provider |-> AiProvider, messages |-> <<>>,
                busy |-> FALSE, requestId |-> NoRequest, approvals |-> {}]

----------------------------------------------------------------------------
(* commit: the newest transcripts that fit, at least one. *)
Size(next) ==
    LET total[n \in 0 .. Len(next)] == IF n = 0 THEN 0 ELSE total[n - 1] + Len(next[n].messages)
    IN  total
Fits(next, n) == n <= MaxSessions /\ (n = 1 \/ Size(next)[n] <= MaxTotal)

Kept(next) ==
    LET fits == {n \in 1 .. Len(next) : Fits(next, n)}
    IN  IF next = <<>> THEN <<>> ELSE SubSeq(next, 1, CHOOSE n \in fits : \A m \in fits : m <= n)

(* The transcripts but one; an id occurs once. *)
Others(id) ==
    IF \E i \in DOMAIN sessions : sessions[i].id = id
    THEN RemoveAt(sessions, CHOOSE i \in DOMAIN sessions : sessions[i].id = id)
    ELSE sessions

(* Mutated form of SameEntry: a changed handle alone is not saved. *)
SameTranscript(e, p) == e.messages = p.messages

(* upsert leaves a transcript alone that did not change. *)
SameEntry(e, p) == e.handle = p.handle /\ e.messages = p.messages

(* The effect after each change of busy, messages or provider. *)
Upsert(p) ==
    LET entry == [id |-> p.conv, provider |-> p.provider, handle |-> p.handle, messages |-> p.messages]
    IN  IF p.busy \/ p.messages = <<>>
           \/ \E i \in DOMAIN sessions : sessions[i].id = p.conv /\ SameEntry(sessions[i], p)
        THEN UNCHANGED <<sessions, forgotten>>
        ELSE sessions' = Kept(<<entry>> \o Others(p.conv)) /\ forgotten' = forgotten \ {p.conv}

Show(p) == panel' = p /\ Upsert(p)

(* setMessages((current) => [...current, m]). *)
Say(p, role, conv) == [p EXCEPT !.messages = Append(@, Message(role, conv))]

----------------------------------------------------------------------------
(* Invoking ai_chat: a new request for the turn of a panel.  Once the panel *)
(* is unmounted, ref is the sessionId.current of its turn.                  *)
Job(cli, conv, handle, mine, attempt) ==
    [step |-> "invoked", cli |-> cli, conv |-> conv, handle |-> handle, mine |-> mine, ref |-> NoHandle,
     attempt |-> attempt, canceled |-> FALSE, asks |-> {}, out |-> <<>>, sent |-> FALSE]

(* send. *)
Send ==
    /\ Mounted /\ ~panel.busy
    /\ Cardinality({r \in Requests : turn[r].attempt = 1}) < MaxSends
    /\ turn' = Append(turn, Job(panel.provider, panel.conv, panel.handle, TRUE, 1))
    /\ Show([Say(panel, "user", panel.conv) EXCEPT !.busy = TRUE, !.approvals = {},
                                                   !.requestId = Len(turn) + 1])
    /\ UNCHANGED counters

(* Mutated form of NewConversation: possible while an answer streams. *)
NewConversationBusy ==
    /\ Mounted /\ panel.messages # <<>> /\ nextConv <= MaxConvs
    /\ Show([panel EXCEPT !.conv = nextConv, !.handle = NoHandle, !.messages = <<>>])
    /\ nextConv' = nextConv + 1
    /\ UNCHANGED <<turn, changes>>

NewConversation ==
    /\ Mounted /\ ~panel.busy /\ panel.messages # <<>> /\ nextConv <= MaxConvs
    /\ Show([panel EXCEPT !.conv = nextConv, !.handle = NoHandle, !.messages = <<>>])
    /\ nextConv' = nextConv + 1
    /\ UNCHANGED <<turn, changes>>

(* The history list is there only while the panel is idle. *)
Restore(e) ==
    /\ Mounted /\ ~panel.busy
    /\ Show([panel EXCEPT !.conv = e.id, !.handle = e.handle, !.provider = e.provider,
                          !.messages = e.messages])
    /\ UNCHANGED <<turn, counters>>

RemoveConversation(e) ==
    /\ Mounted /\ ~panel.busy
    /\ sessions' = Kept(Others(e.id))
    /\ forgotten' = forgotten \cup {e.id}
    /\ UNCHANGED <<panel, turn, counters>>

(* The provider can be changed at any time, also while a turn runs. *)
ChangeProvider(p) ==
    /\ Mounted /\ p # panel.provider /\ changes < MaxChanges
    /\ Show([panel EXCEPT !.provider = p, !.handle = NoHandle])
    /\ changes' = changes + 1
    /\ UNCHANGED <<turn, nextConv>>

(* aiOpen becomes false: the panel and its state are gone, its turn goes on. *)
ClosePanel ==
    /\ Mounted
    /\ panel' = NoPanel
    /\ turn' = [r \in Requests |-> IF turn[r].mine
                                   THEN [turn[r] EXCEPT !.mine = FALSE, !.ref = panel.handle]
                                   ELSE turn[r]]
    /\ UNCHANGED <<sessions, counters, forgotten>>

OpenPanel ==
    /\ ~Mounted /\ nextConv <= MaxConvs
    /\ panel' = Fresh(nextConv)
    /\ nextConv' = nextConv + 1
    /\ UNCHANGED <<sessions, turn, changes, forgotten>>

----------------------------------------------------------------------------
(* The backend.  A job is in the registry from register_job to the end. *)
Registered(r) == turn[r].step \in {"starting", "running"}

Step(r, step, events) ==
    /\ turn' = [turn EXCEPT ![r].step = step, ![r].out = @ \o events]
    /\ UNCHANGED <<panel, sessions, counters, forgotten>>

Event(type, n) == <<[type |-> type, n |-> n]>>

(* The handle a request's session has: the one it resumed or its own. *)
SessionOf(r) == IF turn[r].handle = NoHandle THEN r ELSE turn[r].handle

(* The CLI could not be started. *)
SpawnFails(r) == turn[r].step = "invoked" /\ Step(r, "failed", <<>>)

(* The process runs and the job is in the registry. *)
Register(r) ==
    /\ turn[r].step = "invoked"
    /\ Step(r, IF turn[r].cli = "codex" THEN "starting" ELSE "running", <<>>)

(* codex: thread/start or thread/resume was answered. *)
ThreadStarted(r) ==
    /\ turn[r].step = "starting" /\ ~turn[r].canceled
    /\ Step(r, "running", Event("session", SessionOf(r)))

(* Errors: the CLI has forgotten the session, or anything else.  codex     *)
(* refuses a turn before it sends anything of it.                          *)
Refused(r) ==
    /\ Registered(r) /\ ~turn[r].canceled /\ turn[r].asks = {}
    /\ turn[r].cli = "codex" => ~turn[r].sent
    /\ \/ Step(r, "failed", <<>>)
       \/ turn[r].handle # NoHandle /\ Step(r, "expired", <<>>)

(* A piece of the answer, or a question that codex waits for; one of them *)
(* per request is enough.                                                  *)
Chunk(r) ==
    /\ turn[r].step = "running" /\ ~turn[r].canceled /\ turn[r].asks = {} /\ ~turn[r].sent
    /\ turn' = [turn EXCEPT ![r].out = @ \o Event("chunk", r), ![r].sent = TRUE]
    /\ UNCHANGED <<panel, sessions, counters, forgotten>>

AsksApproval(r) ==
    /\ turn[r].step = "running" /\ turn[r].cli = "codex" /\ ~turn[r].canceled
    /\ ~turn[r].sent
    /\ turn' = [turn EXCEPT ![r].out = @ \o Event("approval", r), ![r].sent = TRUE, ![r].asks = {r}]
    /\ UNCHANGED <<panel, sessions, counters, forgotten>>

(* claude names its session once the process has run, cancelled or not. *)
LastEvents(r) == IF turn[r].cli = "claude" THEN Event("session", SessionOf(r)) ELSE <<>>

(* The turn is completed. *)
Completed(r) ==
    /\ turn[r].step = "running" /\ ~turn[r].canceled /\ turn[r].asks = {}
    /\ Step(r, "ok", LastEvents(r))

(* The output ends although codex was waiting for an answer. *)
Dies(r) == turn[r].step = "running" /\ turn[r].asks # {} /\ Step(r, "ok", LastEvents(r))

(* A cancelled process was killed; before its thread started that is an error. *)
Killed(r) ==
    /\ turn[r].canceled /\ Registered(r)
    /\ IF turn[r].step = "starting" THEN Step(r, "failed", <<>>) ELSE Step(r, "ok", LastEvents(r))

----------------------------------------------------------------------------
(* channel.onmessage of runTurn. *)
Deliver(r) ==
    /\ turn[r].out # <<>>
    /\ LET e == Head(turn[r].out)
           last == panel.messages[Len(panel.messages)]
       IN  /\ IF ~turn[r].mine THEN UNCHANGED <<panel, sessions, forgotten>>
              ELSE CASE e.type = "session" -> panel' = [panel EXCEPT !.handle = e.n]
                                              /\ UNCHANGED <<sessions, forgotten>>
                     [] e.type = "approval" -> panel' = [panel EXCEPT !.approvals = @ \cup {e.n}]
                                               /\ UNCHANGED <<sessions, forgotten>>
                     [] e.type = "chunk" ->
                          Show(IF panel.messages # <<>> /\ last.role = "assistant"
                               THEN [panel EXCEPT !.messages = Append(Front(@), Message("assistant", turn[r].conv))]
                               ELSE Say(panel, "assistant", turn[r].conv))
           /\ turn' = [turn EXCEPT ![r].out = Tail(@),
                         ![r].ref = IF e.type = "session" /\ ~turn[r].mine THEN e.n ELSE @]
    /\ UNCHANGED counters

(* A request whose answer was handled: only who its session belongs to matters. *)
Over(r) == [Job(turn[r].cli, turn[r].conv, NoHandle, turn[r].mine /\ turn[r].out # <<>>, turn[r].attempt)
              EXCEPT !.step = "done", !.out = turn[r].out]

(* sessionId.current as the turn sees it. *)
Ref(r) == IF turn[r].mine THEN panel.handle ELSE turn[r].ref

Answered(r) == turn[r].step \in {"ok", "failed", "expired"} /\ (AnswerWaits => turn[r].out = <<>>)
Retries(r) == turn[r].step = "expired" /\ Ref(r) # NoHandle /\ turn[r].attempt = 1

(* Once, a forgotten session is replaced by a new one. *)
Retry(r) ==
    /\ Answered(r) /\ Retries(r)
    /\ turn' = Append([turn EXCEPT ![r] = Over(r)],
                      Job(turn[r].cli, turn[r].conv, NoHandle, turn[r].mine, 2))
    /\ IF turn[r].mine
       THEN Show([Say(panel, "assistant", turn[r].conv) EXCEPT !.handle = NoHandle,
                                                               !.requestId = Len(turn) + 1])
       ELSE UNCHANGED <<panel, sessions, forgotten>>
    /\ UNCHANGED counters

(* finally of send. *)
Idle(p) == [p EXCEPT !.busy = FALSE, !.requestId = NoRequest, !.approvals = {}]

TurnEnds(r) ==
    /\ Answered(r) /\ ~Retries(r)
    /\ turn' = [turn EXCEPT ![r] = Over(r)]
    /\ IF turn[r].mine
       THEN Show(Idle(IF turn[r].step = "ok" THEN panel ELSE Say(panel, "assistant", turn[r].conv)))
       ELSE UNCHANGED <<panel, sessions, forgotten>>
    /\ UNCHANGED counters

(* cancel: a job that is not in the registry is not cancelled. *)
Cancel ==
    /\ Mounted /\ panel.busy
    /\ Registered(panel.requestId)
    /\ turn' = [turn EXCEPT ![panel.requestId].canceled = TRUE]
    /\ UNCHANGED <<panel, sessions, counters, forgotten>>

(* Mutated form of AnswerApproval: the question is taken away, the answer not sent. *)
AnswerApprovalUnsent(a) ==
    /\ Mounted /\ a \in panel.approvals
    /\ panel' = [panel EXCEPT !.approvals = @ \ {a}]
    /\ UNCHANGED <<turn, sessions, counters, forgotten>>

(* answerApproval: the answer goes to the request that runs now. *)
AnswerApproval(a) ==
    /\ Mounted /\ a \in panel.approvals
    /\ panel' = [panel EXCEPT !.approvals = @ \ {a}]
    /\ IF panel.requestId # NoRequest /\ Registered(panel.requestId)
       THEN turn' = [turn EXCEPT ![panel.requestId].asks = @ \ {a}]
       ELSE UNCHANGED turn
    /\ UNCHANGED <<sessions, counters, forgotten>>

----------------------------------------------------------------------------
(* One transcript of an earlier run, whose handle may have expired. *)
Init ==
    /\ panel = Fresh(1)
    /\ sessions = <<[id |-> 0, provider |-> "codex", handle |-> Earlier,
                     messages |-> <<Message("user", 0)>>]>>
    /\ turn = <<>> /\ nextConv = 2 /\ changes = 0 /\ forgotten = {}

Backend(r) ==
    \/ SpawnFails(r) \/ Register(r) \/ ThreadStarted(r)
    \/ Refused(r) \/ Chunk(r) \/ AsksApproval(r) \/ Completed(r) \/ Killed(r)

AnswerSomeApproval == Mounted /\ \E a \in panel.approvals : AnswerApproval(a)

Next ==
    \/ Send \/ NewConversation \/ ClosePanel \/ OpenPanel \/ Cancel
    \/ \E i \in DOMAIN sessions : Restore(sessions[i]) \/ RemoveConversation(sessions[i])
    \/ \E p \in Providers : ChangeProvider(p)
    \/ AnswerSomeApproval
    \/ \E r \in Requests : Backend(r) \/ Dies(r) \/ Deliver(r) \/ Retry(r) \/ TurnEnds(r)

(* The CLIs end their turns, what was sent arrives, and a question on the  *)
(* screen is answered.  The user need not cancel, and codex need not die.  *)
Fairness ==
    /\ WF_vars(AnswerSomeApproval)
    /\ \A r \in 1 .. 2 * MaxSends :
         /\ WF_vars(r \in Requests /\ Backend(r))
         /\ WF_vars(r \in Requests /\ Deliver(r))
         /\ WF_vars(r \in Requests /\ (Retry(r) \/ TurnEnds(r)))

Spec == Init /\ [][Next]_vars /\ Fairness

----------------------------------------------------------------------------
(* A question on the screen is one of the request an answer would name, so *)
(* that approving a tool of one turn never approves something of another.  *)
ApprovalsOfThisRequest == Mounted => \A a \in panel.approvals : a = panel.requestId

(* No conversation has messages or the CLI session of another one: neither *)
(* the one displayed nor a stored one, whatever was begun, restored,       *)
(* cancelled or retried while answers were on their way.                   *)
ConversationsApart ==
    /\ Mounted =>
         /\ \A i \in DOMAIN panel.messages : panel.messages[i].of = panel.conv
         /\ panel.handle # NoHandle => ConvOf(panel.handle) = panel.conv
    /\ \A k \in DOMAIN sessions :
         /\ \A i \in DOMAIN sessions[k].messages : sessions[k].messages[i].of = sessions[k].id
         /\ sessions[k].handle # NoHandle => ConvOf(sessions[k].handle) = sessions[k].id

(* Turns stay apart: what is asked, answered and stored of one never ends  *)
(* up in another (runTurn, newConversation, restore).                      *)
TurnsApart == ApprovalsOfThisRequest /\ ConversationsApart

(* While no turn runs the conversation on the screen is stored as it is    *)
(* shown, with the handle that resumes it ("Called after every finished    *)
(* turn", aiSessionStore.ts:27), unless the user deleted it.               *)
IdleIsStored ==
    (Mounted /\ ~panel.busy /\ panel.messages # <<>> /\ panel.conv \notin forgotten) =>
        \E k \in DOMAIN sessions : /\ sessions[k].id = panel.conv
                                   /\ sessions[k].messages = panel.messages
                                   /\ sessions[k].handle = panel.handle

(* A turn on the screen ends: nobody waits for an answer that was given to *)
(* nobody, through retries, approvals and cancels.                         *)
BusyEnds == (Mounted /\ panel.busy) ~> ~(Mounted /\ panel.busy)

(* "A session handle belongs to the CLI that issued it" (AIChatPanel.tsx:  *)
(* 249): violated when the provider is changed while a turn runs and the   *)
(* turn's session event comes afterwards.                                  *)
HandleOfItsCli ==
    \A k \in DOMAIN sessions :
        sessions[k].handle \in Requests => turn[sessions[k].handle].cli = sessions[k].provider

=============================================================================
