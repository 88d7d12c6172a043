-------------------------- MODULE ExecutionStream --------------------------
(***************************************************************************)
(* One query execution, from the moment its session actor takes it up to   *)
(* the moment the result tab shows how it ended: run_execution and          *)
(* flush_chunk (session_actor.rs), the actor's select around them, the ack *)
(* window of ExecutionState, the Tauri channel and the frontend's           *)
(* resultChannel and ResultStore.                                          *)
(*                                                                         *)
(* Rows are counted, never looked into.  The server decides when a row, the*)
(* end of the result or an error arrives, and the byte size of a row is a   *)
(* choice of whether it fits the chunk, overfills it or is refused.         *)
(***************************************************************************)
EXTENDS Integers, Sequences

CONSTANTS
    MaxUnacked,      \* MAX_UNACKED_CHUNKS, chunks in flight to the webview
    FirstChunkRows,  \* FIRST_CHUNK_ROWS
    ChunkRows,       \* CHUNK_ROWS
    PageRows,        \* RESULT_PAGE_ROWS, the rows a paged result streams
    MaxRows,         \* max_rows of the request
    ServerRows       \* bound: rows the server sends at most

ASSUME StreamAssumption ==
    /\ MaxUnacked \in Nat \ {0}
    /\ FirstChunkRows \in Nat \ {0}
    /\ ChunkRows \in Nat \ {0}
    /\ PageRows \in Nat \ {0}
    /\ MaxRows \in Nat \ {0}
    /\ ServerRows \in Nat

VARIABLES
    actor,      \* where the session actor's loop is
    pc,         \* where run_execution is
    cont,       \* where run_execution goes on after a delivered chunk
    paged,      \* exec.large.paged
    conn,       \* conn_slot.is_some()
    buf,        \* rows in the chunk being built
    seq,        \* sequence number of the next chunk
    total,      \* rows counted for the terminal event
    retained,   \* rows the store holds for later pages
    truncated, receiving,
    produced,   \* rows the server has sent
    out,        \* the terminal event run_execution returned
    permits, sent, acked,   \* ack_sem, sent and acked of ExecutionState
    cancel,     \* the cancellation token
    terminal,   \* ExecutionState.terminal
    busy,       \* SessionHandle.busy
    registered, \* the executions registry holds this execution
    alive,      \* the webview still takes events
    chan,       \* events sent and not yet handled by the webview, in order
    acks,       \* query_ack_chunk calls on their way to the core
    rejected,   \* some ack was answered INVALID_REQUEST
    fe          \* the result tab's ResultSnapshot and nextSequence

loop    == <<buf, seq, total, retained, truncated, receiving, produced>>
window  == <<permits, sent, acked>>
flags   == <<terminal, busy, registered>>
webview == <<alive, acks, rejected, fe>>
vars == <<actor, pc, cont, paged, conn, loop, out, window, cancel, flags,
          chan, webview>>

-----------------------------------------------------------------------------
(* Events *)

Event(type, n, rows, trunc) ==
    [type |-> type, seq |-> n, rows |-> rows, trunc |-> trunc]

Started   == Event("started", 0, 0, FALSE)
Columns   == Event("columns", 0, 0, FALSE)
Command   == Event("command", 0, 0, FALSE)
Rows(n, k)       == Event("rows", n, k, FALSE)
Completed(n, t)  == Event("completed", 0, n, t)
Cancelled(n)     == Event("cancelled", 0, n, FALSE)
Failed           == Event("failed", 0, 0, FALSE)

EventTypes    == {"started", "columns", "command", "rows",
                  "completed", "cancelled", "failed"}
TerminalTypes == {"completed", "cancelled", "failed"}

(* EventSink: the event is queued for the webview, or dropped without one. *)
Sink(e) == chan' = IF alive THEN Append(chan, e) ELSE chan

-----------------------------------------------------------------------------
(* run_execution.  The actor polls it while it waits for it, and once more *)
(* after a confirmed backend cancellation.                                  *)

Polled == actor \in {"run", "drain"}

(* The future resolves with terminal event e. *)
Return(e) == pc' = "returned" /\ out' = e

(* Lazy connect, backend pid and read-only SET; Started follows success. *)
Connect ==
    /\ Polled /\ pc = "connect"
    /\ conn' = TRUE
    /\ pc' = "set"
    /\ Sink(Started)
    /\ UNCHANGED <<actor, cont, paged, loop, out, window, cancel, flags, webview>>

(* fail! before Started was sent sends it first. *)
ConnectFails ==
    /\ Polled /\ pc = "connect" /\ ~conn
    /\ Sink(Started)
    /\ Return(Failed)
    /\ UNCHANGED <<actor, cont, paged, conn, loop, window, cancel, flags, webview>>

(* SET statement_timeout, then the first look at the cancellation token. *)
SetTimeout ==
    /\ Polled /\ pc = "set"
    /\ IF cancel
         THEN Return(Cancelled(0))
         ELSE pc' = "prepare" /\ UNCHANGED out
    /\ UNCHANGED <<actor, cont, paged, conn, loop, window, cancel, flags, chan, webview>>

(* prepare, Columns for a result set, and the second look at the token. *)
Prepare ==
    /\ Polled /\ pc = "prepare"
    /\ Sink(Columns) \/ UNCHANGED chan
    /\ IF cancel
         THEN Return(Cancelled(0))
         ELSE pc' = "stream" /\ UNCHANGED out
    /\ UNCHANGED <<actor, cont, paged, conn, loop, window, cancel, flags, webview>>

(* fail! after Started: SET or prepare failed; a dead socket is dropped. *)
SetupFails ==
    /\ Polled /\ pc \in {"set", "prepare"}
    /\ conn' \in BOOLEAN
    /\ Return(Failed)
    /\ UNCHANGED <<actor, cont, paged, loop, window, cancel, flags, chan, webview>>

(* A row arrives that is only drained: a limit was reached earlier. *)
RowDrained ==
    /\ Polled /\ pc = "stream" /\ produced < ServerRows
    /\ ~receiving \/ (~paged /\ total >= MaxRows)
    /\ produced' = produced + 1
    /\ truncated' = TRUE
    /\ UNCHANGED <<actor, pc, cont, paged, conn, buf, seq, total, retained, receiving,
                   out, window, cancel, flags, chan, webview>>

Wanted == receiving /\ (paged \/ total < MaxRows)

(* The memory budget or the IPC limit refuses the row: keep the prefix. *)
RowRefused ==
    /\ Polled /\ pc = "stream" /\ produced < ServerRows
    /\ Wanted
    /\ produced' = produced + 1
    /\ receiving' = FALSE
    /\ truncated' = TRUE
    /\ UNCHANGED <<actor, pc, cont, paged, conn, buf, seq, total, retained,
                   out, window, cancel, flags, chan, webview>>

(* The row is kept; one that would overfill the chunk flushes it first. *)
RowKept ==
    /\ Polled /\ pc = "stream" /\ produced < ServerRows
    /\ Wanted
    /\ produced' = produced + 1
    /\ \/ pc' = "push" /\ UNCHANGED cont
       \/ buf > 0 /\ pc' = "flush" /\ cont' = "push"
    /\ UNCHANGED <<actor, paged, conn, buf, seq, total, retained, truncated, receiving,
                   out, window, cancel, flags, chan, webview>>

ChunkLimit ==
    IF paged THEN PageRows ELSE IF seq = 0 THEN FirstChunkRows ELSE ChunkRows

(* A paged result retains every row and streams only its first page. *)
PushRow ==
    /\ pc = "push"
    /\ total' = total + 1
    /\ retained' = IF paged THEN retained + 1 ELSE retained
    /\ IF paged /\ total >= PageRows
         THEN pc' = "stream" /\ UNCHANGED <<buf, cont>>
         ELSE /\ buf' = buf + 1
              /\ IF buf + 1 >= ChunkLimit \/ (paged /\ total + 1 = PageRows)
                   THEN pc' = "flush" /\ cont' = "stream"
                   ELSE pc' = "stream" /\ UNCHANGED cont
    /\ UNCHANGED <<actor, paged, conn, seq, truncated, receiving, produced,
                   out, window, cancel, flags, chan, webview>>

(* flush_chunk gives up: the chunk stays unsent and the result is partial. *)
FlushGivesUp ==
    /\ pc' = IF cont = "end" THEN "end" ELSE "stream"
    /\ receiving' = FALSE
    /\ truncated' = TRUE
    /\ UNCHANGED <<actor, cont, paged, conn, buf, seq, total, retained, produced,
                   out, window, flags, chan, webview>>

FlushCancelled ==
    /\ Polled /\ pc \in {"flush", "wait"}
    /\ cancel
    /\ FlushGivesUp
    /\ UNCHANGED cancel

(* No free slot in the window: wait for an ack, the token or five seconds. *)
FlushWaits ==
    /\ Polled /\ pc = "flush"
    /\ ~cancel /\ permits = 0
    /\ pc' = "wait"
    /\ UNCHANGED <<actor, cont, paged, conn, loop, out, window, cancel, flags, chan, webview>>

FlushStalls ==
    /\ Polled /\ pc = "wait"
    /\ ~cancel
    /\ cancel' = TRUE
    /\ FlushGivesUp

(* Mutated form of FlushAcquires: the permit is dropped, not forgotten. *)
FlushAcquiresAndDrops ==
    /\ Polled /\ pc \in {"flush", "wait"}
    /\ ~cancel /\ permits > 0
    /\ sent' = seq
    /\ pc' = "send"
    /\ UNCHANGED <<actor, cont, paged, conn, loop, out, permits, acked, cancel,
                   flags, chan, webview>>

(* The permit is forgotten, and `sent` is published before the event is. *)
FlushAcquires ==
    /\ Polled /\ pc \in {"flush", "wait"}
    /\ ~cancel /\ permits > 0
    /\ permits' = permits - 1
    /\ sent' = seq
    /\ pc' = "send"
    /\ UNCHANGED <<actor, cont, paged, conn, loop, out, acked, cancel,
                   flags, chan, webview>>

(* The chunk goes out; a vanished consumer cancels the execution. *)
FlushSends ==
    /\ pc = "send"
    /\ Sink(Rows(seq, buf))
    /\ buf' = 0
    /\ seq' = seq + 1
    /\ cancel' = (cancel \/ ~alive)
    /\ IF alive
         THEN pc' = cont /\ UNCHANGED <<receiving, truncated>>
         ELSE /\ pc' = IF cont = "end" THEN "end" ELSE "stream"
              /\ receiving' = FALSE
              /\ truncated' = TRUE
    /\ UNCHANGED <<actor, cont, paged, conn, total, retained, produced,
                   out, window, flags, webview>>

(* ReadyForQuery without an error: the last, short chunk is flushed. *)
StreamEnds ==
    /\ Polled /\ pc = "stream"
    /\ IF buf > 0
         THEN pc' = "flush" /\ cont' = "end"
         ELSE pc' = "end" /\ UNCHANGED cont
    /\ UNCHANGED <<actor, paged, conn, loop, out, window, cancel, flags, chan, webview>>

(* The statement fails while rows stream.  SQLSTATE 57014 is a cancellation *)
(* when the token was set and a timeout when not.                           *)
StreamFails ==
    /\ Polled /\ pc = "stream"
    /\ conn' \in BOOLEAN
    /\ total' = total - buf
    /\ \E canceledByServer \in BOOLEAN :
         Return(IF canceledByServer /\ cancel THEN Cancelled(total - buf) ELSE Failed)
    /\ UNCHANGED <<actor, cont, paged, buf, seq, retained, truncated, receiving, produced,
                   window, cancel, flags, chan, webview>>

(* Mutated form of Complete: rows that were never sent stay counted. *)
CompleteCountingUnsent ==
    /\ Polled /\ pc = "end"
    /\ Sink(Command) \/ UNCHANGED chan
    /\ Return(Completed(total, truncated))
    /\ UNCHANGED <<actor, cont, paged, conn, loop, window, cancel, flags, webview>>

(* Command for anything but a plain read, then Completed. *)
Complete ==
    /\ Polled /\ pc = "end"
    /\ total' = total - buf
    /\ Sink(Command) \/ UNCHANGED chan
    /\ Return(Completed(total - buf, truncated))
    /\ UNCHANGED <<actor, cont, paged, conn, buf, seq, retained, truncated, receiving, produced,
                   window, cancel, flags, webview>>

RunStep ==
    \/ Connect \/ ConnectFails \/ SetTimeout \/ Prepare \/ SetupFails
    \/ RowDrained \/ RowRefused \/ RowKept \/ PushRow
    \/ FlushCancelled \/ FlushWaits \/ FlushStalls \/ FlushAcquires \/ FlushSends
    \/ StreamEnds \/ StreamFails \/ Complete

-----------------------------------------------------------------------------
(* The actor's select around run_execution and what follows its outcome. *)

(* Points between two awaits of run_execution cannot be interrupted. *)
AtAwait == pc \notin {"push", "send", "returned"}

(* Mutated form of InterruptedByToken: only flush_chunk watches the token. *)
InterruptedByTokenInFlush ==
    /\ actor = "run" /\ pc \in {"flush", "wait"}
    /\ cancel
    /\ actor' = "cancelling"
    /\ UNCHANGED <<pc, cont, paged, conn, loop, out, window, cancel, flags, chan, webview>>

(* The token, or the timer of timeout_ms + 2 s, wins the select. *)
InterruptedByToken ==
    /\ actor = "run" /\ AtAwait
    /\ cancel
    /\ actor' = "cancelling"
    /\ UNCHANGED <<pc, cont, paged, conn, loop, out, window, cancel, flags, chan, webview>>

InterruptedByTimer ==
    /\ actor = "run" /\ AtAwait
    /\ actor' = "cancelling"
    /\ UNCHANGED <<pc, cont, paged, conn, loop, out, window, cancel, flags, chan, webview>>

(* cancel_backend confirmed within 2 s: give run_execution 2 s more. *)
BackendCancelled ==
    /\ actor = "cancelling"
    /\ actor' = "drain"
    /\ UNCHANGED <<pc, cont, paged, conn, loop, out, window, cancel, flags, chan, webview>>

(* The connection is dropped and the outcome is unknown. *)
OutcomeUnknown ==
    /\ conn' = FALSE
    /\ out' = Failed
    /\ pc' = "returned"
    /\ actor' = "run"
    /\ UNCHANGED <<cont, paged, loop, window, cancel, flags, chan, webview>>

(* Mutated form of GivesUp: the failure is reported, the future lives on. *)
GivesUpWithoutDropping ==
    /\ actor \in {"cancelling", "drain"} /\ AtAwait
    /\ Sink(Failed)
    /\ actor' = "drain"
    /\ UNCHANGED <<pc, cont, paged, conn, loop, out, window, cancel, flags, webview>>

(* The backend could not be told, or did not answer, within 2 s each. *)
GivesUp ==
    /\ actor \in {"cancelling", "drain"} /\ AtAwait
    /\ OutcomeUnknown

(* catch_unwind: decoding a row panicked. *)
Panics ==
    /\ Polled /\ pc = "stream"
    /\ OutcomeUnknown

(* execution.terminal.store(true) *)
StoreTerminal ==
    /\ Polled /\ pc = "returned"
    /\ actor' = "finished"
    /\ terminal' = TRUE
    /\ UNCHANGED <<pc, cont, paged, conn, loop, out, window, cancel, busy, registered,
                   chan, webview>>

(* Mutated form of ReleaseSession: the session is freed after the event. *)
SendBeforeRelease ==
    /\ actor = "finished"
    /\ Sink(out)
    /\ actor' = "idle"
    /\ UNCHANGED <<pc, cont, paged, conn, loop, out, window, cancel, flags, webview>>

(* busy.store(false) *)
ReleaseSession ==
    /\ actor = "finished"
    /\ busy' = FALSE
    /\ actor' = "released"
    /\ UNCHANGED <<pc, cont, paged, conn, loop, out, window, cancel, terminal, registered,
                   chan, webview>>

(* sink(terminal) *)
SendTerminal ==
    /\ actor = "released"
    /\ Sink(out)
    /\ actor' = "sent"
    /\ UNCHANGED <<pc, cont, paged, conn, loop, out, window, cancel, flags, webview>>

(* channel_sink forgets the execution after its terminal event was sent. *)
Deregister ==
    /\ actor = "sent"
    /\ registered' = FALSE
    /\ actor' = "idle"
    /\ UNCHANGED <<pc, cont, paged, conn, loop, out, window, cancel, terminal, busy,
                   chan, webview>>

ActorStep ==
    \/ InterruptedByToken \/ InterruptedByTimer \/ BackendCancelled
    \/ GivesUp \/ Panics \/ StoreTerminal \/ ReleaseSession \/ SendTerminal \/ Deregister

-----------------------------------------------------------------------------
(* Commands of the webview. *)

(* query_cancel: a registered, unfinished execution has its token set. *)
QueryCancel ==
    /\ alive /\ registered /\ ~terminal /\ ~cancel
    /\ cancel' = TRUE
    /\ UNCHANGED <<actor, pc, cont, paged, conn, loop, out, window, flags, chan, webview>>

(* query_ack_chunk for chunk n reaches the core.  Acks are invoke calls of *)
(* their own: they may arrive in any order, and after the execution ended. *)
AckChunk(n) ==
    /\ n \in acks
    /\ acks' = acks \ {n}
    /\ rejected' = (rejected \/ (registered /\ n > sent))
    /\ IF registered /\ acked < n /\ n <= sent
         THEN acked' = n /\ permits' = permits + (n - acked)
         ELSE UNCHANGED <<acked, permits>>
    /\ UNCHANGED <<actor, pc, cont, paged, conn, loop, out, sent, cancel, flags, chan,
                   alive, fe>>

(* resultChannel's handler of the oldest event, for a result tab that still *)
(* shows this execution.  A chunk out of sequence fails the result.         *)
Apply(e) ==
    CASE e.type = "rows" ->
           IF fe.protocolError THEN fe
           ELSE IF e.seq = fe.nextSequence
             THEN [fe EXCEPT !.nextSequence = @ + 1, !.rows = @ + e.rows]
             ELSE [fe EXCEPT !.status = "failed", !.protocolError = TRUE]
      [] e.type \in TerminalTypes ->
           [fe EXCEPT !.status = IF fe.protocolError THEN "failed" ELSE e.type,
                      !.rowCount = IF e.type = "failed" THEN @ ELSE e.rows,
                      !.truncated = e.trunc,
                      !.hasMoreRows = ~fe.protocolError /\ paged /\ e.type # "failed"
                                        /\ e.rows > fe.rows]
      [] e.type = "started" -> [fe EXCEPT !.started = TRUE]
      [] OTHER -> fe

(* Every chunk is acked, a disposed tab's too; a mismatch also cancels. *)
HandleEvent ==
    /\ alive /\ chan # <<>>
    /\ chan' = Tail(chan)
    /\ LET e == Head(chan) IN
         /\ acks' = IF e.type = "rows" THEN acks \cup {e.seq} ELSE acks
         /\ fe' = IF fe.current THEN Apply(e) ELSE fe
         /\ cancel' = (cancel \/ (/\ e.type = "rows" /\ fe.current
                                  /\ fe'.protocolError /\ registered /\ ~terminal))
    /\ UNCHANGED <<actor, pc, cont, paged, conn, loop, out, window, flags, alive, rejected>>

(* The result tab is closed; its snapshot no longer belongs to the stream. *)
DisposeResult ==
    /\ alive /\ fe.current
    /\ fe' = [fe EXCEPT !.current = FALSE]
    /\ UNCHANGED <<actor, pc, cont, paged, conn, loop, out, window, cancel, flags, chan,
                   alive, acks, rejected>>

(* The webview is destroyed or reloaded: the channel takes no more events. *)
WebviewGone ==
    /\ alive
    /\ alive' = FALSE
    /\ chan' = <<>>
    /\ acks' = {}
    /\ UNCHANGED <<actor, pc, cont, paged, conn, loop, out, window, cancel, flags,
                   rejected, fe>>

WebviewStep ==
    \/ QueryCancel \/ HandleEvent \/ DisposeResult \/ WebviewGone
    \/ \E n \in acks : AckChunk(n)

-----------------------------------------------------------------------------
(* resultStore.create and EXECUTION_STARTED on the one side, the claimed    *)
(* session and the fresh ExecutionState on the other.                       *)
Init ==
    /\ actor = "run" /\ pc = "connect" /\ cont = "stream"
    /\ paged \in BOOLEAN /\ conn \in BOOLEAN
    /\ buf = 0 /\ seq = 0 /\ total = 0 /\ retained = 0 /\ produced = 0
    /\ truncated = FALSE /\ receiving = TRUE
    /\ out = Failed
    /\ permits = MaxUnacked /\ sent = -1 /\ acked = -1
    /\ cancel = FALSE /\ terminal = FALSE /\ busy = TRUE /\ registered = TRUE
    /\ alive = TRUE /\ chan = <<>> /\ acks = {} /\ rejected = FALSE
    /\ fe = [current |-> TRUE, started |-> FALSE, nextSequence |-> 0, rows |-> 0, status |-> "running",
             rowCount |-> 0, truncated |-> FALSE, hasMoreRows |-> FALSE,
             protocolError |-> FALSE]

Next == RunStep \/ ActorStep \/ WebviewStep

Spec == Init /\ [][Next]_vars

(* What the runtime guarantees whatever the server and the user do: the      *)
(* actor's task is polled, its two-second timers fire and a live webview     *)
(* handles its events.  No fairness is assumed of the server or of acks.     *)
Fairness ==
    /\ WF_vars(InterruptedByToken) /\ WF_vars(GivesUp)
    /\ WF_vars(PushRow) /\ WF_vars(FlushSends)
    /\ WF_vars(StoreTerminal) /\ WF_vars(ReleaseSession)
    /\ WF_vars(SendTerminal) /\ WF_vars(Deregister)
    /\ WF_vars(HandleEvent)

FairSpec == Spec /\ Fairness

(* The statement timer of timeout_ms + 2 s fires; it may be an hour away, so *)
(* only the properties that need it assume it.                               *)
TimerFires == WF_vars(InterruptedByTimer)

-----------------------------------------------------------------------------
(* Properties *)

Events == [type : EventTypes, seq : Nat, rows : Int, trunc : BOOLEAN]

Snapshots ==
    [current : BOOLEAN, started : BOOLEAN, nextSequence : Nat, rows : Int,
     status : {"running", "completed", "cancelled", "failed"},
     rowCount : Int, truncated : BOOLEAN, hasMoreRows : BOOLEAN,
     protocolError : BOOLEAN]

(* The state keeps its shape, and the ack window never goes negative: a     *)
(* semaphore has no such value.                                             *)
TypeOK ==
    /\ actor \in {"run", "cancelling", "drain", "finished", "released", "sent", "idle"}
    /\ pc \in {"connect", "set", "prepare", "stream", "push", "flush", "wait", "send",
               "end", "returned"}
    /\ cont \in {"push", "stream", "end"}
    /\ paged \in BOOLEAN /\ conn \in BOOLEAN
    /\ buf \in Nat /\ seq \in Nat /\ total \in Int /\ retained \in Nat /\ produced \in Nat
    /\ truncated \in BOOLEAN /\ receiving \in BOOLEAN
    /\ out \in Events
    /\ permits \in Nat /\ sent \in Int /\ acked \in Int
    /\ cancel \in BOOLEAN /\ terminal \in BOOLEAN /\ busy \in BOOLEAN
    /\ registered \in BOOLEAN /\ alive \in BOOLEAN /\ rejected \in BOOLEAN
    /\ chan \in Seq(Events)
    /\ acks \in SUBSET Nat
    /\ fe \in Snapshots

RowsAt == {i \in DOMAIN chan : chan[i].type = "rows"}

(* At most MAX_UNACKED_CHUNKS chunks wait for the webview, however acks are  *)
(* delayed or overtake each other: the channel of a slow webview never       *)
(* buffers a result (MAX_UNACKED_CHUNKS, flush_chunk, ExecutionState::ack).  *)
Backpressure ==
    \A i, j \in RowsAt : /\ i # j => chan[i].seq # chan[j].seq
                         /\ chan[j].seq - chan[i].seq < MaxUnacked

(* An ack for a chunk the webview received is never answered with "ack for a *)
(* chunk that was never sent": flush_chunk publishes `sent` before the event.*)
AcksAccepted == ~rejected

(* The chunks of a result arrive in sequence: ResultStore.appendRows never   *)
(* sees a mismatch and fails a healthy result.                               *)
InSequence == ~fe.protocolError

(* When the webview can see the terminal event, the session takes the next   *)
(* execution and the execution counts as finished: a run, a release or a     *)
(* commit started from the event's handler is not refused.                   *)
ReleasedBeforeTerminal ==
    (\/ \E i \in DOMAIN chan : chan[i].type \in TerminalTypes
     \/ fe.status # "running")
      => terminal /\ ~busy

(* One terminal event at most, and nothing behind it, although a timed out   *)
(* run_execution was still able to send when the actor gave up on it.        *)
TerminalIsLast ==
    /\ \A i \in DOMAIN chan : chan[i].type \in TerminalTypes => i = Len(chan)
    /\ fe.status # "running" => chan = <<>>

(* The tab learns its execution's id, which loading more rows and cancelling *)
(* need, before its first row and before any outcome but a failure.          *)
StartedBeforeRows ==
    fe.current /\ (fe.rows > 0 \/ fe.status \in {"completed", "cancelled"}) => fe.started

Settled == alive /\ fe.current /\ fe.status \in {"completed", "cancelled"}

(* The row count a finished result shows is the number of rows the tab holds,*)
(* or, for a paged query, of rows the store can still serve: cancelled,      *)
(* stalled and refused chunks are not counted.                               *)
CountIsHeld ==
    Settled => IF paged
                 THEN fe.rows <= fe.rowCount /\ fe.rowCount <= retained
                 ELSE fe.rowCount = fe.rows

(* A result shown as completed and not truncated has every row the server    *)
(* sent: in the tab, or for a paged query in the store with hasMoreRows set  *)
(* until the tab has them all.                                               *)
CompleteHasAllRows ==
    Settled /\ fe.status = "completed" /\ ~fe.truncated =>
        IF paged
          THEN retained = produced /\ fe.hasMoreRows = (fe.rows < produced)
          ELSE fe.rows = produced

(* What the tab shows of a result is true: the execution's id is known before *)
(* its rows, the count is of rows that can be seen, and a result that counts  *)
(* as whole is whole (run_execution's counting, ResultStore).                 *)
ResultIsTrue == StartedBeforeRows /\ CountIsHeld /\ CompleteHasAllRows

(* Every execution the actor took up ends and frees its session, whether or  *)
(* not the server answers and the webview acks: the timers are enough.       *)
AlwaysEnds == TimerFires => <>(actor = "idle")

(* A result tab that stays open does not show "running" for ever. *)
TabSettles == TimerFires => <>(~alive \/ ~fe.current \/ fe.status # "running")

(* A cancelled execution, by the user, by a stalled ack or by a vanished     *)
(* webview, ends within the two-second timers and not with timeout_ms.       *)
CancelEnds == cancel ~> (actor = "idle")

(* Executions end, in the session and in the tab, by the actor's own timers.  *)
ExecutionEnds == AlwaysEnds /\ TabSettles /\ CancelEnds

Delivery == INSTANCE ResultDelivery WITH rows <- fe.rows, status <- fe.status, free <- ~busy

(* The stream keeps what an execution promises its tab: whatever is acked,   *)
(* cancelled, timed out or dropped, rows only come while it runs, it ends    *)
(* once, and it ends after its session was freed.                            *)
DeliveryKept == Delivery!Spec
=============================================================================
