----------------------- MODULE ExecutionStreamProofs -----------------------
(***************************************************************************)
(* Proofs about the session actor: the streaming of a result                *)
(* (ExecutionStream), for every size of window, chunk and page, and the     *)
(* transaction state it tracks (SessionTransaction), for every set of       *)
(* statements without PREPARE TRANSACTION.                                  *)
(***************************************************************************)
EXTENDS ExecutionStream, SessionTransaction, TLAPS

(* Every event constructor builds an event. *)
LEMMA EventTyping ==
    ASSUME NEW type \in EventTypes, NEW n \in Nat, NEW k \in Int, NEW t \in BOOLEAN
    PROVE  Event(type, n, k, t) \in Events
BY DEF Event, Events

(* What the webview makes of an event is a snapshot again. *)
LEMMA ApplyTyping ==
    ASSUME fe \in Snapshots, NEW e \in Events
    PROVE  Apply(e) \in Snapshots
<1>0. /\ e.rows \in Int /\ e.trunc \in BOOLEAN
      /\ fe.rows \in Int /\ fe.nextSequence \in Nat /\ fe.rowCount \in Int
  BY DEF Snapshots, Events
<1>1. CASE e.type = "rows"
  <2>1. CASE fe.protocolError
    BY <1>1, <2>1 DEF Apply, TerminalTypes
  <2>2. CASE ~fe.protocolError /\ e.seq = fe.nextSequence
    <3>1. Apply(e) = [fe EXCEPT !.nextSequence = fe.nextSequence + 1,
                                !.rows = fe.rows + e.rows]
      BY <1>1, <2>2 DEF Apply, TerminalTypes
    <3>2. \A n \in Nat, k \in Int :
            [fe EXCEPT !.nextSequence = n, !.rows = k] \in Snapshots
      BY DEF Snapshots
    <3>3. fe.nextSequence + 1 \in Nat /\ fe.rows + e.rows \in Int
      BY <1>0
    <3> QED
      BY <3>1, <3>2, <3>3, Zenon
  <2>3. CASE ~fe.protocolError /\ e.seq # fe.nextSequence
    <3>1. Apply(e) = [fe EXCEPT !.status = "failed", !.protocolError = TRUE]
      BY <1>1, <2>3 DEF Apply, TerminalTypes
    <3> QED
      BY <3>1 DEF Snapshots
  <2> QED
    BY <2>1, <2>2, <2>3
<1>2. CASE e.type \in TerminalTypes
  <2> DEFINE st == IF fe.protocolError THEN "failed" ELSE e.type
             rc == IF e.type = "failed" THEN fe.rowCount ELSE e.rows
             more == ~fe.protocolError /\ paged /\ e.type # "failed" /\ e.rows > fe.rows
  <2>1. st \in {"running", "completed", "cancelled", "failed"}
    BY <1>2 DEF TerminalTypes
  <2>2. rc \in Int
    BY <1>0
  <2>3. more \in BOOLEAN
    BY Zenon
  <2>4. Apply(e) = [fe EXCEPT !.status = st, !.rowCount = rc,
                              !.truncated = e.trunc, !.hasMoreRows = more]
    BY <1>2 DEF Apply, TerminalTypes
  <2> HIDE DEF st, rc, more
  <2> QED
    BY ZenonT(120), <1>0, <2>1, <2>2, <2>3, <2>4 DEF Snapshots
<1>3. CASE e.type = "started"
  BY <1>3 DEF Apply, Snapshots, TerminalTypes
<1>4. CASE e.type \notin {"rows", "started"} \cup TerminalTypes
  BY <1>4 DEF Apply
<1> QED
  BY <1>1, <1>2, <1>3, <1>4

(* An event that is sent or dropped leaves a sequence of events. *)
LEMMA SinkTyping ==
    ASSUME chan \in Seq(Events), alive \in BOOLEAN, NEW e \in Events, Sink(e)
    PROVE  chan' \in Seq(Events)
BY DEF Sink

LEMMA TypeRunStep == TypeOK /\ RunStep => TypeOK'
<1> SUFFICES ASSUME TypeOK, RunStep PROVE TypeOK'
  OBVIOUS
<1> USE DEF TypeOK, loop, window, flags, webview
<1>e. /\ Started \in Events /\ Columns \in Events /\ Command \in Events /\ Failed \in Events
      /\ Cancelled(0) \in Events /\ Cancelled(total - buf) \in Events
      /\ Completed(total - buf, truncated) \in Events /\ Rows(seq, buf) \in Events
  BY DEF Started, Columns, Command, Failed, Cancelled, Completed, Rows, Event, Events,
         EventTypes
<1>1. CASE Connect
  BY <1>1, <1>e, SinkTyping DEF Connect
<1>2. CASE ConnectFails
  BY <1>2, <1>e, SinkTyping DEF ConnectFails, Return
<1>3. CASE SetTimeout
  BY <1>3, <1>e DEF SetTimeout, Return
<1>4. CASE Prepare
  BY <1>4, <1>e, SinkTyping DEF Prepare, Return
<1>5. CASE SetupFails
  BY <1>5, <1>e DEF SetupFails, Return
<1>6. CASE RowDrained
  BY <1>6 DEF RowDrained
<1>7. CASE RowRefused
  <2>1. receiving' \in BOOLEAN /\ truncated' \in BOOLEAN
    BY <1>7, Zenon DEF RowRefused
  <2> QED
    BY <1>7, <2>1 DEF RowRefused
<1>8. CASE RowKept
  BY <1>8 DEF RowKept
<1>9. CASE PushRow
  BY <1>9 DEF PushRow
<1>10. CASE FlushCancelled
  <2>1. receiving' \in BOOLEAN /\ truncated' \in BOOLEAN
    BY <1>10, Zenon DEF FlushCancelled, FlushGivesUp
  <2> QED
    BY <1>10, <2>1 DEF FlushCancelled, FlushGivesUp
<1>11. CASE FlushWaits
  BY <1>11 DEF FlushWaits
<1>12. CASE FlushStalls
  <2>1. receiving' \in BOOLEAN /\ truncated' \in BOOLEAN
    BY <1>12, Zenon DEF FlushStalls, FlushGivesUp
  <2> QED
    BY <1>12, <2>1 DEF FlushStalls, FlushGivesUp
<1>13. CASE FlushAcquires
  BY <1>13 DEF FlushAcquires
<1>14. CASE FlushSends
  <2>1. cancel' \in BOOLEAN
    BY <1>14, Zenon DEF FlushSends
  <2>2. receiving' \in BOOLEAN /\ truncated' \in BOOLEAN
    BY <1>14, Zenon DEF FlushSends
  <2>3. chan' \in Seq(Events)
    BY <1>14, <1>e, SinkTyping DEF FlushSends
  <2> QED
    BY <1>14, <2>1, <2>2, <2>3 DEF FlushSends
<1>15. CASE StreamEnds
  BY <1>15 DEF StreamEnds
<1>16. CASE StreamFails
  BY <1>16, <1>e DEF StreamFails, Return
<1>17. CASE Complete
  BY <1>17, <1>e, SinkTyping DEF Complete, Return
<1> QED
  BY <1>1, <1>2, <1>3, <1>4, <1>5, <1>6, <1>7, <1>8, <1>9, <1>10, <1>11, <1>12,
     <1>13, <1>14, <1>15, <1>16, <1>17 DEF RunStep

LEMMA TypeActorStep == TypeOK /\ ActorStep => TypeOK'
<1> SUFFICES ASSUME TypeOK, ActorStep PROVE TypeOK'
  OBVIOUS
<1> USE DEF TypeOK, loop, window, flags, webview
<1>e. Failed \in Events
  BY DEF Failed, Event, Events, EventTypes
<1>1. CASE InterruptedByToken
  BY <1>1 DEF InterruptedByToken
<1>2. CASE InterruptedByTimer
  BY <1>2 DEF InterruptedByTimer
<1>3. CASE BackendCancelled
  BY <1>3 DEF BackendCancelled
<1>4. CASE GivesUp
  <2>1. conn' \in BOOLEAN
    BY <1>4, Zenon DEF GivesUp, OutcomeUnknown
  <2> QED
    BY <1>4, <1>e, <2>1 DEF GivesUp, OutcomeUnknown
<1>5. CASE Panics
  <2>1. conn' \in BOOLEAN
    BY <1>5, Zenon DEF Panics, OutcomeUnknown
  <2> QED
    BY <1>5, <1>e, <2>1 DEF Panics, OutcomeUnknown
<1>6. CASE StoreTerminal
  BY <1>6 DEF StoreTerminal
<1>7. CASE ReleaseSession
  <2>1. busy' \in BOOLEAN
    BY <1>7, Zenon DEF ReleaseSession
  <2> QED
    BY <1>7, <2>1 DEF ReleaseSession
<1>8. CASE SendTerminal
  BY <1>8, SinkTyping DEF SendTerminal
<1>9. CASE Deregister
  <2>1. registered' \in BOOLEAN
    BY <1>9, Zenon DEF Deregister
  <2> QED
    BY <1>9, <2>1 DEF Deregister
<1> QED
  BY <1>1, <1>2, <1>3, <1>4, <1>5, <1>6, <1>7, <1>8, <1>9 DEF ActorStep

LEMMA TypeWebviewStep == TypeOK /\ WebviewStep => TypeOK'
<1> SUFFICES ASSUME TypeOK, WebviewStep PROVE TypeOK'
  OBVIOUS
<1> USE DEF TypeOK, loop, window, flags, webview
<1>1. CASE QueryCancel
  BY <1>1 DEF QueryCancel
<1>2. CASE HandleEvent
  <2>1. /\ Head(chan) \in Events /\ Tail(chan) \in Seq(Events)
    BY <1>2 DEF HandleEvent
  <2>2. fe' \in Snapshots
    BY <1>2, <2>1, ApplyTyping DEF HandleEvent
  <2>3. cancel' \in BOOLEAN
    BY <1>2 DEF HandleEvent
  <2>4. acks' \in SUBSET Nat
    BY <1>2, <2>1 DEF HandleEvent, Events
  <2> QED
    BY <1>2, <2>1, <2>2, <2>3, <2>4 DEF HandleEvent
<1>3. CASE DisposeResult
  <2>1. \A b \in BOOLEAN : [fe EXCEPT !.current = b] \in Snapshots
    BY DEF Snapshots
  <2>2. fe' \in Snapshots
    BY <1>3, <2>1, Zenon DEF DisposeResult
  <2> QED
    BY <1>3, <2>2 DEF DisposeResult
<1>4. CASE WebviewGone
  <2>1. alive' \in BOOLEAN
    BY <1>4, Zenon DEF WebviewGone
  <2>2. chan' \in Seq(Events) /\ acks' \in SUBSET Nat
    BY <1>4 DEF WebviewGone
  <2> QED
    BY <1>4, <2>1, <2>2 DEF WebviewGone
<1>5. ASSUME NEW n \in acks, AckChunk(n) PROVE TypeOK'
  BY <1>5 DEF AckChunk
<1> QED
  BY <1>1, <1>2, <1>3, <1>4, <1>5 DEF WebviewStep

(* TypeOK: in particular the semaphore of the ack window, on which          *)
(* flush_chunk waits, is never driven below zero.                           *)
THEOREM TypeCorrect == Spec => []TypeOK
<1>1. Init => TypeOK
  <2> SUFFICES ASSUME Init PROVE TypeOK
    OBVIOUS
  <2>1. /\ truncated \in BOOLEAN /\ cancel \in BOOLEAN /\ terminal \in BOOLEAN
        /\ rejected \in BOOLEAN
    BY Zenon DEF Init
  <2>2. \A t, f \in BOOLEAN :
          [current |-> t, started |-> f, nextSequence |-> 0, rows |-> 0,
           status |-> "running", rowCount |-> 0, truncated |-> f, hasMoreRows |-> f,
           protocolError |-> f] \in Snapshots
    BY DEF Snapshots
  <2>3. fe \in Snapshots
    BY <2>2, Zenon DEF Init
  <2>4. out \in Events
    BY DEF Init, Failed, Event, Events, EventTypes
  <2>5. chan \in Seq(Events) /\ acks \in SUBSET Nat
    BY DEF Init
  <2> QED
    BY StreamAssumption, <2>1, <2>3, <2>4, <2>5 DEF Init, TypeOK
<1>2. TypeOK /\ [Next]_vars => TypeOK'
  <2> SUFFICES ASSUME TypeOK, [Next]_vars PROVE TypeOK'
    OBVIOUS
  <2>1. CASE UNCHANGED vars
    BY <2>1 DEF TypeOK, vars, loop, window, flags, webview
  <2> QED
    BY <2>1, TypeRunStep, TypeActorStep, TypeWebviewStep DEF Next
<1> QED
  BY <1>1, <1>2, PTL DEF Spec

-----------------------------------------------------------------------------
(* The inductive invariant. *)

Early     == {"connect", "set", "prepare"}
Streaming == {"stream", "push", "flush", "wait", "send", "end"}
Over      == {"finished", "released", "sent", "idle"}

(* Permits and unacked chunks always add up to the window. *)
WindowInv ==
    /\ -1 <= acked /\ acked < seq /\ acked <= sent
    /\ permits = MaxUnacked - (sent - acked)
    /\ sent = IF pc = "send" THEN seq ELSE seq - 1

(* Chunks in the channel are unacked, in order, and behind every ack.        *)
FlightInv ==
    /\ \A i \in 1..Len(chan) : chan[i].type = "rows" =>
         /\ acked < chan[i].seq /\ chan[i].seq < seq
         /\ \A j \in 1..Len(chan) : i < j /\ chan[j].type = "rows" => chan[i].seq < chan[j].seq
         /\ \A n \in acks : n < chan[i].seq
    /\ \A n \in acks : n < seq
    /\ ~rejected

Watching == alive /\ fe.current

(* The chunks a watching tab has yet to handle follow the ones it has.       *)
EarlyOrder ==
    pc \in Early => /\ seq = 0
                    /\ \A i \in 1..Len(chan) : chan[i].type # "rows"
                    /\ Watching => fe.nextSequence = 0

QueueOrder ==
    Watching =>
        \A i \in 1..Len(chan) : chan[i].type = "rows" =>
           /\ i = 1 => chan[i].seq = fe.nextSequence
           /\ i > 1 /\ chan[i-1].type = "rows" => chan[i].seq = chan[i-1].seq + 1
           /\ i > 1 /\ chan[i-1].type # "rows" => chan[i].seq = 0 /\ fe.nextSequence = 0

TailOrder ==
    Watching /\ pc \in Streaming =>
        /\ Len(chan) = 0 => fe.nextSequence = seq
        /\ Len(chan) > 0 => IF chan[Len(chan)].type = "rows"
                              THEN chan[Len(chan)].seq = seq - 1
                              ELSE seq = 0 /\ fe.nextSequence = 0

OrderInv == ~fe.protocolError /\ EarlyOrder /\ QueueOrder /\ TailOrder

(* The terminal event leaves last, after the session was released.           *)
EndInv ==
    /\ out.type \in TerminalTypes
    /\ actor \in Over => pc = "returned" /\ terminal
    /\ actor \in Over \ {"finished"} => ~busy
    /\ \A i \in 1..Len(chan) : chan[i].type \in TerminalTypes =>
         actor \in {"sent", "idle"} /\ i = Len(chan)
    /\ fe.status # "running" => actor \in {"sent", "idle"} /\ Len(chan) = 0

StreamInv == WindowInv /\ FlightInv /\ OrderInv /\ EndInv

(* A step of run_execution or of the select around it that neither sends an  *)
(* event nor moves the window.                                               *)
LEMMA QuietStep ==
    ASSUME TypeOK, StreamInv,
           UNCHANGED <<seq, window, chan, alive, acks, rejected, fe>>,
           pc # "send", pc' # "send", pc' \in Early => pc \in Early,
           pc' \in Streaming => pc \in Early \cup Streaming,
           actor \notin Over, actor' \notin Over,
           out'.type \in TerminalTypes
    PROVE  StreamInv'
<1>1. WindowInv'
  BY DEF StreamInv, WindowInv, window
<1>2. FlightInv'
  BY DEF StreamInv, FlightInv, window
<1>3. OrderInv'
  BY SMTT(60) DEF TypeOK, StreamInv, OrderInv, EarlyOrder, QueueOrder, TailOrder, Watching, Early,
     Streaming
<1>4. EndInv'
  BY DEF StreamInv, EndInv, Over
<1> QED
  BY <1>1, <1>2, <1>3, <1>4 DEF StreamInv

(* A step that sends an event other than a chunk, before the first chunk or  *)
(* as the last thing run_execution does.                                     *)
LEMMA NoticeStep ==
    ASSUME TypeOK, StreamInv, NEW e \in Events, Sink(e),
           e.type \in {"started", "columns", "command"},
           UNCHANGED <<seq, window, alive, acks, rejected, fe>>,
           pc # "send", pc' # "send",
           pc' \in Early \cup Streaming => pc \in Early,
           actor \notin Over, actor' \notin Over,
           out'.type \in TerminalTypes
    PROVE  StreamInv'
<1>0. /\ chan \in Seq(Events)
      /\ \/ alive /\ chan' = Append(chan, e)
         \/ ~alive /\ chan' = chan
  BY DEF Sink, TypeOK
<1>t. e.type # "rows" /\ e.type \notin TerminalTypes
  BY DEF TerminalTypes
<1>1. WindowInv'
  BY DEF StreamInv, WindowInv, window
<1>2. FlightInv'
  BY SMTT(60), <1>0, <1>t DEF StreamInv, FlightInv, window
<1>3. OrderInv'
  <2>1. ~fe'.protocolError
    BY DEF StreamInv, OrderInv
  <2>2. EarlyOrder'
    BY SMTT(60), <1>0, <1>t DEF StreamInv, OrderInv, EarlyOrder, Watching, Early
  <2>3. QueueOrder'
    <3>1. QueueOrder /\ fe' = fe /\ alive' = alive
      BY DEF StreamInv, OrderInv
    <3>2. CASE chan' = chan
      BY <3>1, <3>2 DEF QueueOrder, Watching
    <3>3. CASE chan' = Append(chan, e)
      <4>1. /\ Len(chan') = Len(chan) + 1 /\ Len(chan) \in Nat
            /\ \A i \in 1..Len(chan) : chan'[i] = chan[i]
            /\ chan'[Len(chan) + 1] = e
        BY <1>0, <3>3
      <4>2. \A i \in 1..Len(chan') : chan'[i].type = "rows" => i \in 1..Len(chan)
        BY <1>t, <4>1
      <4>3. \A i \in 1..Len(chan) : i > 1 => chan'[i-1] = chan[i-1]
        BY <4>1
      <4> QED
        BY SMTT(60), <3>1, <4>1, <4>2, <4>3 DEF QueueOrder, Watching
    <3> QED
      BY <1>0, <3>2, <3>3
  <2>4. TailOrder'
    BY <1>0, <1>t DEF StreamInv, OrderInv, EarlyOrder, TailOrder, Watching, Early, Streaming
  <2> QED
    BY <2>1, <2>2, <2>3, <2>4 DEF OrderInv
<1>4. EndInv'
  BY <1>0, <1>t DEF StreamInv, EndInv, Over
<1> QED
  BY <1>1, <1>2, <1>3, <1>4 DEF StreamInv

(* A permit becomes an unacked chunk. *)
LEMMA AcquireStep == TypeOK /\ StreamInv /\ FlushAcquires => StreamInv'
<1> SUFFICES ASSUME TypeOK, StreamInv, FlushAcquires PROVE StreamInv'
  OBVIOUS
<1>0. /\ pc \in {"flush", "wait"} /\ pc' = "send"
      /\ sent' = seq /\ permits' = permits - 1
      /\ UNCHANGED <<seq, acked, chan, alive, acks, rejected, fe, out, actor, terminal, busy>>
  BY DEF FlushAcquires, loop, flags, webview
<1>1. WindowInv'
  BY <1>0, StreamAssumption DEF TypeOK, StreamInv, WindowInv
<1>2. FlightInv'
  BY <1>0 DEF StreamInv, FlightInv
<1>3. OrderInv'
  BY <1>0 DEF TypeOK, StreamInv, OrderInv, EarlyOrder, QueueOrder, TailOrder, Watching, Early,
     Streaming
<1>4. EndInv'
  BY <1>0 DEF StreamInv, EndInv, Over
<1> QED
  BY <1>1, <1>2, <1>3, <1>4 DEF StreamInv

(* The chunk with the number `sent` joins the channel. *)
LEMMA SendStep == TypeOK /\ StreamInv /\ FlushSends => StreamInv'
<1> SUFFICES ASSUME TypeOK, StreamInv, FlushSends PROVE StreamInv'
  OBVIOUS
<1> DEFINE e == Rows(seq, buf)
<1>0. /\ pc = "send" /\ pc' \in Streaming \ {"send"}
      /\ seq' = seq + 1
      /\ UNCHANGED <<permits, sent, acked, alive, acks, rejected, fe, out, actor, terminal, busy>>
  BY DEF FlushSends, TypeOK, Streaming, window, flags, webview
<1>e. e \in Events /\ e.type = "rows" /\ e.seq = seq
  BY DEF Rows, Event, Events, EventTypes, TypeOK
<1>c. /\ chan \in Seq(Events)
      /\ \/ alive /\ chan' = Append(chan, e)
         \/ ~alive /\ chan' = chan
  BY DEF FlushSends, Sink, TypeOK
<1> HIDE DEF e
<1>1. WindowInv'
  BY <1>0 DEF TypeOK, StreamInv, WindowInv, Streaming
<1>n. /\ seq \in Nat /\ acked \in Int /\ acked < seq /\ acks \subseteq Nat
      /\ \A i \in 1..Len(chan) : chan[i].seq \in Nat
  <2>1. \A i \in 1..Len(chan) : chan[i] \in Events
    BY <1>c
  <2> QED
    BY <2>1 DEF TypeOK, StreamInv, WindowInv, Events
<1>2. FlightInv'
  <2>1. CASE ~alive
    BY <1>0, <1>c, <1>n, <2>1 DEF StreamInv, FlightInv
  <2>2. CASE alive
    <3>0. chan' = Append(chan, e) /\ Len(chan') = Len(chan) + 1
      BY <1>c, <1>e, <2>2
    <3>i. /\ \A i \in 1..Len(chan) : chan'[i] = chan[i]
          /\ chan'[Len(chan) + 1] = e
      BY <1>c, <1>e, <3>0
    <3>a. \A n \in acks : n \in Nat /\ n < seq
      BY DEF TypeOK, StreamInv, FlightInv
    <3>1. \A n \in acks' : n < seq'
      BY <1>0, <1>n, <3>a
    <3>2. \A i \in 1..Len(chan) : chan[i].type = "rows" =>
            /\ acked < chan[i].seq /\ chan[i].seq < seq
            /\ \A n \in acks : n < chan[i].seq
            /\ \A j \in 1..Len(chan) : i < j /\ chan[j].type = "rows"
                                          => chan[i].seq < chan[j].seq
      BY DEF StreamInv, FlightInv
    <3>3. /\ acked < e.seq /\ e.seq < seq'
          /\ \A n \in acks : n < e.seq
      <4>1. e.seq = seq /\ seq \in Nat /\ acked \in Int /\ acked < seq /\ seq' = seq + 1
        BY <1>0, <1>e, <1>n
      <4>2. \A n \in acks : n < e.seq
        BY <4>1, <3>a
      <4> QED
        BY <4>1, <4>2
    <3>4. ASSUME NEW i \in 1..Len(chan'), chan'[i].type = "rows"
          PROVE  /\ acked' < chan'[i].seq /\ chan'[i].seq < seq'
                 /\ \A j \in 1..Len(chan') : i < j /\ chan'[j].type = "rows"
                                                => chan'[i].seq < chan'[j].seq
                 /\ \A n \in acks' : n < chan'[i].seq
      <4>1. CASE i = Len(chan) + 1
        BY <1>0, <3>0, <3>i, <3>3, <3>4, <4>1, <1>c
      <4>2. CASE i \in 1..Len(chan)
        <5>1. /\ chan'[i] = chan[i] /\ chan[i].type = "rows" /\ chan[i].seq \in Nat
              /\ acked' = acked /\ acks' = acks /\ seq' = seq + 1 /\ seq \in Nat
          BY <1>0, <1>n, <3>i, <3>4, <4>2
        <5>2. /\ acked < chan[i].seq /\ chan[i].seq < seq
              /\ \A n \in acks : n < chan[i].seq
          BY <3>2, <4>2, <5>1
        <5>3. ASSUME NEW j \in 1..Len(chan'), i < j, chan'[j].type = "rows"
              PROVE  chan'[i].seq < chan'[j].seq
          <6>1. CASE j = Len(chan) + 1
            BY <1>e, <3>i, <5>1, <5>2, <6>1
          <6>2. CASE j \in 1..Len(chan)
            BY <3>i, <3>2, <4>2, <5>1, <5>3, <6>2
          <6> QED
            BY <3>0, <6>1, <6>2, <1>c
        <5> QED
          BY <5>1, <5>2, <5>3
      <4> QED
        BY <3>0, <4>1, <4>2, <1>c
    <3> QED
      BY <1>0, <3>1, <3>4 DEF StreamInv, FlightInv
  <2> QED
    BY <2>1, <2>2
<1>3. OrderInv'
  <2>1. CASE ~Watching
    BY <1>0, <2>1 DEF StreamInv, OrderInv, EarlyOrder, QueueOrder, TailOrder, Watching, Early,
       Streaming
  <2>2. CASE Watching
    <3>0. /\ chan' = Append(chan, e) /\ Watching' /\ fe' = fe
          /\ fe.nextSequence \in Nat
      BY <1>0, <1>c, <2>2 DEF Watching, TypeOK, Snapshots
    <3>1. \A i \in 1..Len(chan') : chan'[i].type = "rows" =>
            /\ i = 1 => chan'[i].seq = fe.nextSequence
            /\ i > 1 /\ chan'[i-1].type = "rows" => chan'[i].seq = chan'[i-1].seq + 1
            /\ i > 1 /\ chan'[i-1].type # "rows" => chan'[i].seq = 0 /\ fe.nextSequence = 0
      BY SMTT(60), <1>0, <1>e, <1>c, <1>n, <2>2, <3>0 DEF StreamInv, OrderInv, EarlyOrder, QueueOrder,
         TailOrder, Streaming
    <3>2. Len(chan') > 0 /\ chan'[Len(chan')].type = "rows"
            /\ chan'[Len(chan')].seq = seq' - 1
      BY <1>0, <1>e, <1>c, <1>n, <3>0
    <3> QED
      BY <1>0, <3>0, <3>1, <3>2 DEF StreamInv, OrderInv, EarlyOrder, QueueOrder, TailOrder,
         Early, Streaming
  <2> QED
    BY <2>1, <2>2
<1>4. EndInv'
  BY SMTT(60), <1>0, <1>e, <1>c DEF StreamInv, EndInv, Over, TerminalTypes
<1> QED
  BY <1>1, <1>2, <1>3, <1>4 DEF StreamInv

LEMMA StreamRunStep == TypeOK /\ StreamInv /\ RunStep => StreamInv'
<1> SUFFICES ASSUME TypeOK, StreamInv, RunStep PROVE StreamInv'
  OBVIOUS
<1>e. /\ Started \in Events /\ Columns \in Events /\ Command \in Events
      /\ Started.type = "started" /\ Columns.type = "columns" /\ Command.type = "command"
  BY DEF Started, Columns, Command, Event, Events, EventTypes
<1>t. /\ Failed.type \in TerminalTypes
      /\ \A n : Cancelled(n).type \in TerminalTypes
      /\ \A n, t : Completed(n, t).type \in TerminalTypes
      /\ out.type \in TerminalTypes
  BY DEF Failed, Cancelled, Completed, Event, TerminalTypes, StreamInv, EndInv
<1>p. Polled => actor \notin Over
  BY DEF Polled, Over
<1>q. pc = "push" => actor \notin Over
  BY DEF StreamInv, EndInv
<1> USE DEF loop, webview, Early, Streaming
<1>1. CASE Connect
  BY <1>1, <1>e, <1>t, <1>p, NoticeStep DEF Connect
<1>2. CASE ConnectFails
  BY <1>2, <1>e, <1>t, <1>p, NoticeStep DEF ConnectFails, Return
<1>3. CASE SetTimeout
  BY <1>3, <1>t, <1>p, QuietStep DEF SetTimeout, Return
<1>4. CASE Prepare
  <2>1. CASE Sink(Columns)
    BY <1>4, <2>1, <1>e, <1>t, <1>p, NoticeStep DEF Prepare, Return
  <2>2. CASE UNCHANGED chan
    BY <1>4, <2>2, <1>t, <1>p, QuietStep DEF Prepare, Return
  <2> QED
    BY <1>4, <2>1, <2>2 DEF Prepare
<1>5. CASE SetupFails
  BY <1>5, <1>t, <1>p, QuietStep DEF SetupFails, Return
<1>6. CASE RowDrained
  BY <1>6, <1>t, <1>p, QuietStep DEF RowDrained
<1>7. CASE RowRefused
  BY <1>7, <1>t, <1>p, QuietStep DEF RowRefused
<1>8. CASE RowKept
  BY <1>8, <1>t, <1>p, QuietStep DEF RowKept
<1>9. CASE PushRow
  BY <1>9, <1>t, <1>q, QuietStep DEF PushRow
<1>10. CASE FlushCancelled
  BY <1>10, <1>t, <1>p, QuietStep DEF FlushCancelled, FlushGivesUp
<1>11. CASE FlushWaits
  BY <1>11, <1>t, <1>p, QuietStep DEF FlushWaits
<1>12. CASE FlushStalls
  BY <1>12, <1>t, <1>p, QuietStep DEF FlushStalls, FlushGivesUp
<1>13. CASE FlushAcquires
  BY <1>13, AcquireStep
<1>14. CASE FlushSends
  BY <1>14, SendStep
<1>15. CASE StreamEnds
  BY <1>15, <1>t, <1>p, QuietStep DEF StreamEnds
<1>16. CASE StreamFails
  BY <1>16, <1>t, <1>p, QuietStep DEF StreamFails, Return
<1>17. CASE Complete
  <2>1. CASE Sink(Command)
    BY <1>17, <2>1, <1>e, <1>t, <1>p, NoticeStep DEF Complete, Return
  <2>2. CASE UNCHANGED chan
    BY <1>17, <2>2, <1>t, <1>p, QuietStep DEF Complete, Return
  <2> QED
    BY <1>17, <2>1, <2>2 DEF Complete
<1> QED
  BY <1>1, <1>2, <1>3, <1>4, <1>5, <1>6, <1>7, <1>8, <1>9, <1>10, <1>11, <1>12,
     <1>13, <1>14, <1>15, <1>16, <1>17 DEF RunStep

LEMMA StreamActorStep == TypeOK /\ StreamInv /\ ActorStep => StreamInv'
<1> SUFFICES ASSUME TypeOK, StreamInv, ActorStep PROVE StreamInv'
  OBVIOUS
<1>t. Failed.type \in TerminalTypes /\ out.type \in TerminalTypes
  BY DEF Failed, Event, TerminalTypes, StreamInv, EndInv
<1> USE DEF loop, webview, Early, Streaming, Over
<1>1. CASE InterruptedByToken
  BY <1>1, <1>t, QuietStep DEF InterruptedByToken, AtAwait
<1>2. CASE InterruptedByTimer
  BY <1>2, <1>t, QuietStep DEF InterruptedByTimer, AtAwait
<1>3. CASE BackendCancelled /\ pc # "send"
  BY <1>3, <1>t, QuietStep DEF BackendCancelled
<1>4. CASE GivesUp
  BY <1>4, <1>t, QuietStep DEF GivesUp, OutcomeUnknown, AtAwait
<1>5. CASE Panics
  BY <1>5, <1>t, QuietStep DEF Panics, OutcomeUnknown, Polled
<1>6. CASE \/ StoreTerminal \/ ReleaseSession \/ Deregister
           \/ BackendCancelled /\ pc = "send"
  <2>0. /\ UNCHANGED <<pc, seq, window, chan, alive, acks, rejected, fe, out>>
    BY <1>6 DEF StoreTerminal, ReleaseSession, Deregister, BackendCancelled
  <2>1. WindowInv' /\ FlightInv'
    BY <2>0 DEF StreamInv, WindowInv, FlightInv, window
  <2>2. OrderInv'
    BY <2>0 DEF StreamInv, OrderInv, EarlyOrder, QueueOrder, TailOrder, Watching
  <2>3. EndInv'
    BY <1>6, <2>0 DEF StreamInv, EndInv, StoreTerminal, ReleaseSession, Deregister,
                      BackendCancelled, Polled, flags
  <2> QED
    BY <2>1, <2>2, <2>3 DEF StreamInv
<1>7. CASE SendTerminal
  <2>0. /\ UNCHANGED <<pc, seq, window, alive, acks, rejected, fe, out, terminal, busy>>
        /\ pc = "returned" /\ actor = "released" /\ actor' = "sent"
        /\ out.type # "rows" /\ out \in Events
    BY <1>7, <1>t DEF SendTerminal, StreamInv, EndInv, TerminalTypes, flags, TypeOK
  <2>c. /\ chan \in Seq(Events)
        /\ \/ alive /\ chan' = Append(chan, out)
           \/ ~alive /\ chan' = chan
    BY <1>7 DEF SendTerminal, Sink, TypeOK
  <2>1. WindowInv'
    BY <2>0 DEF StreamInv, WindowInv, window
  <2>2. FlightInv'
    BY SMTT(60), <2>0, <2>c DEF StreamInv, FlightInv, window
  <2>3. OrderInv'
    BY SMTT(60), <2>0, <2>c DEF StreamInv, OrderInv, EarlyOrder, QueueOrder, TailOrder, Watching
  <2>4. EndInv'
    BY <2>0, <2>c, <1>t DEF StreamInv, EndInv
  <2> QED
    BY <2>1, <2>2, <2>3, <2>4 DEF StreamInv
<1> QED
  BY <1>1, <1>2, <1>3, <1>4, <1>5, <1>6, <1>7 DEF ActorStep

(* An ack that arrives late, early or twice over only moves `acked` over     *)
(* chunks the webview has handled.                                           *)
LEMMA AckStep ==
    ASSUME TypeOK, StreamInv, NEW n \in acks, AckChunk(n)
    PROVE  StreamInv'
<1>0. /\ UNCHANGED <<pc, seq, sent, chan, alive, fe, out, actor, terminal, busy>>
      /\ acks' \subseteq acks
      /\ rejected' = (rejected \/ (registered /\ n > sent))
      /\ \/ acked' = n /\ permits' = permits + (n - acked) /\ acked < n /\ n <= sent
         \/ UNCHANGED <<acked, permits>>
  BY DEF AckChunk, loop, flags
<1>n. /\ n \in Nat /\ n < seq /\ seq \in Nat /\ sent \in Int /\ acked \in Int
      /\ seq - 1 <= sent
  BY DEF TypeOK, StreamInv, FlightInv, WindowInv
<1>1. WindowInv'
  BY SMTT(60), <1>0, <1>n, StreamAssumption DEF TypeOK, StreamInv, WindowInv
<1>2. FlightInv'
  <2>1. ~rejected'
    <3>1. ~(n > sent)
      BY <1>n
    <3>2. ~rejected
      BY DEF StreamInv, FlightInv
    <3> QED
      BY <1>0, <3>1, <3>2, Zenon
  <2>2. \A i \in 1..Len(chan) : chan[i].type = "rows" => acked' < chan[i].seq
    BY <1>0 DEF StreamInv, FlightInv
  <2> QED
    BY <1>0, <2>1, <2>2 DEF StreamInv, FlightInv
<1>3. OrderInv'
  BY <1>0 DEF StreamInv, OrderInv, EarlyOrder, QueueOrder, TailOrder, Watching
<1>4. EndInv'
  BY <1>0 DEF StreamInv, EndInv
<1> QED
  BY <1>1, <1>2, <1>3, <1>4 DEF StreamInv

(* How a tab's snapshot answers the event it handles. *)
LEMMA ApplyEffect ==
    ASSUME fe \in Snapshots, NEW e \in Events, ~fe.protocolError
    PROVE  /\ e.type = "rows" /\ e.seq = fe.nextSequence =>
                /\ Apply(e).nextSequence = fe.nextSequence + 1
                /\ ~Apply(e).protocolError
           /\ e.type # "rows" => Apply(e).nextSequence = fe.nextSequence
                                /\ ~Apply(e).protocolError
           /\ e.type \notin TerminalTypes /\ ~Apply(e).protocolError
                => Apply(e).status = fe.status
           /\ Apply(e).current = fe.current
BY DEF Apply, Snapshots, TerminalTypes

(* The oldest event is the one the tab waits for. *)
LEMMA HandleStep == TypeOK /\ StreamInv /\ HandleEvent => StreamInv'
<1> SUFFICES ASSUME TypeOK, StreamInv, HandleEvent PROVE StreamInv'
  OBVIOUS
<1> DEFINE e == Head(chan)
<1>0. /\ UNCHANGED <<pc, seq, permits, sent, acked, alive, rejected, out, actor, terminal, busy>>
      /\ alive /\ chan # <<>> /\ chan \in Seq(Events)
      /\ chan' = Tail(chan)
      /\ acks' = IF e.type = "rows" THEN acks \cup {e.seq} ELSE acks
      /\ fe' = IF fe.current THEN Apply(e) ELSE fe
      /\ fe \in Snapshots
  BY DEF HandleEvent, TypeOK, loop, window, flags
<1>e. /\ e \in Events /\ e = chan[1] /\ e.seq \in Nat /\ Len(chan) \in Nat /\ Len(chan) > 0
      /\ Len(chan') = Len(chan) - 1
      /\ \A i \in 1..Len(chan') : i + 1 \in 1..Len(chan) /\ chan'[i] = chan[i + 1]
  <2>1. e \in Events /\ e = chan[1] /\ Len(chan) \in Nat /\ Len(chan) > 0
    BY <1>0
  <2>2. e.seq \in Nat
    BY <2>1 DEF Events
  <2> QED
    BY <1>0, <2>1, <2>2
<1>s. \A i \in 1..Len(chan) : chan[i] \in Events /\ chan[i].seq \in Nat
  <2>1. \A i \in 1..Len(chan) : chan[i] \in Events
    BY <1>0
  <2> QED
    BY <2>1 DEF Events
<1> HIDE DEF e
<1>1. WindowInv'
  BY <1>0 DEF StreamInv, WindowInv
<1>2. FlightInv'
  <2>1. ASSUME NEW i \in 1..Len(chan'), chan'[i].type = "rows"
        PROVE  /\ acked < chan'[i].seq /\ chan'[i].seq < seq
               /\ \A j \in 1..Len(chan') : i < j /\ chan'[j].type = "rows"
                                              => chan'[i].seq < chan'[j].seq
               /\ \A n \in acks : n < chan'[i].seq
               /\ e.type = "rows" => e.seq < chan'[i].seq
    BY SMTT(60), <1>e, <2>1 DEF StreamInv, FlightInv
  <2>2. e.type = "rows" => e.seq < seq
    BY <1>e DEF StreamInv, FlightInv
  <2>3. ~rejected /\ \A n \in acks : n < seq
    BY DEF StreamInv, FlightInv
  <2>4. \A n \in acks' : n < seq /\ \A i \in 1..Len(chan') :
                                       chan'[i].type = "rows" => n < chan'[i].seq
    BY <1>0, <2>1, <2>2, <2>3
  <2> QED
    BY <1>0, <2>1, <2>3, <2>4 DEF FlightInv
<1>f. /\ fe.status = "running"
      /\ \A i \in 1..Len(chan') : chan'[i].type \in TerminalTypes =>
           actor' \in {"sent", "idle"} /\ i = Len(chan')
      /\ e.type \in TerminalTypes => actor' \in {"sent", "idle"} /\ Len(chan') = 0
      /\ out'.type \in TerminalTypes
      /\ actor' \in Over => pc' = "returned" /\ terminal'
      /\ actor' \in Over \ {"finished"} => ~busy'
  <2>1. fe.status = "running"
    BY <1>e DEF StreamInv, EndInv
  <2>a. actor' = actor
    BY <1>0
  <2>2. \A i \in 1..Len(chan) : chan[i].type \in TerminalTypes =>
          actor \in {"sent", "idle"} /\ i = Len(chan)
    BY DEF StreamInv, EndInv
  <2>3. \A i \in 1..Len(chan') : chan'[i].type \in TerminalTypes =>
          actor' \in {"sent", "idle"} /\ i = Len(chan')
    BY SMTT(60), <1>e, <2>a, <2>2
  <2>4. e.type \in TerminalTypes => actor' \in {"sent", "idle"} /\ Len(chan') = 0
    BY <1>e, <2>a, <2>2
  <2>5. /\ out'.type \in TerminalTypes
        /\ actor' \in Over => pc' = "returned" /\ terminal'
        /\ actor' \in Over \ {"finished"} => ~busy'
    BY <1>0 DEF StreamInv, EndInv
  <2> QED
    BY <2>1, <2>3, <2>4, <2>5
<1>3. CASE ~fe.current
  <2>1. OrderInv'
    BY <1>0, <1>3, <1>e DEF StreamInv, OrderInv, EarlyOrder, QueueOrder, TailOrder, Watching,
       Early
  <2>2. EndInv'
    <3>1. fe'.status = "running"
      BY <1>0, <1>3, <1>f
    <3> QED
      BY <1>f, <3>1 DEF EndInv
  <2> QED
    BY <1>1, <1>2, <2>1, <2>2 DEF StreamInv
<1>4. CASE fe.current
  <2>0. Watching /\ ~fe.protocolError /\ fe' = Apply(e) /\ fe.nextSequence \in Nat
    BY <1>0, <1>4 DEF Watching, StreamInv, OrderInv, EarlyOrder, QueueOrder, TailOrder,
       Snapshots
  <2>1. e.type = "rows" => e.seq = fe.nextSequence
    BY <1>e, <2>0 DEF StreamInv, OrderInv, EarlyOrder, QueueOrder, TailOrder
  <2>2. /\ ~fe'.protocolError /\ fe'.current
        /\ fe'.nextSequence = IF e.type = "rows" THEN fe.nextSequence + 1 ELSE fe.nextSequence
        /\ e.type \notin TerminalTypes => fe'.status = fe.status
    BY <1>0, <1>4, <1>e, <2>0, <2>1, ApplyEffect
  <2>3. OrderInv'
    <3>1. e.type = "rows" =>
            \A i \in 1..Len(chan) : chan[i].type = "rows" /\ i > 1 => chan[i].seq > 0
      BY <1>e, <1>s DEF StreamInv, FlightInv
    <3>2. pc' \in Early => /\ seq' = 0
                           /\ \A i \in 1..Len(chan') : chan'[i].type # "rows"
                           /\ fe'.nextSequence = 0
      BY <1>0, <1>e, <2>0, <2>2 DEF StreamInv, OrderInv, EarlyOrder, QueueOrder, TailOrder
    <3>3. ASSUME NEW i \in 1..Len(chan'), chan'[i].type = "rows"
          PROVE  /\ i = 1 => chan'[i].seq = fe'.nextSequence
                 /\ i > 1 /\ chan'[i-1].type = "rows" => chan'[i].seq = chan'[i-1].seq + 1
                 /\ i > 1 /\ chan'[i-1].type # "rows"
                       => chan'[i].seq = 0 /\ fe'.nextSequence = 0
      <4>1. /\ i + 1 \in 1..Len(chan) /\ chan'[i] = chan[i + 1] /\ i + 1 > 1
            /\ i > 1 => chan'[i - 1] = chan[i]
        BY SMTT(60), <1>e
      <4>2. /\ chan[i].type = "rows" => chan[i + 1].seq = chan[i].seq + 1
            /\ chan[i].type # "rows" => chan[i + 1].seq = 0 /\ fe.nextSequence = 0
        BY SMTT(60), <1>e, <2>0, <3>3, <4>1 DEF StreamInv, OrderInv, EarlyOrder, QueueOrder, TailOrder
      <4>3. CASE i = 1
        BY <1>e, <2>0, <2>1, <2>2, <4>1, <4>2, <4>3
      <4>4. CASE i > 1
        BY <2>2, <3>1, <3>3, <4>1, <4>2, <4>4
      <4> QED
        BY <4>3, <4>4
    <3>4. pc' \in Streaming =>
            /\ Len(chan') = 0 => fe'.nextSequence = seq'
            /\ Len(chan') > 0 => IF chan'[Len(chan')].type = "rows"
                                   THEN chan'[Len(chan')].seq = seq' - 1
                                   ELSE seq' = 0 /\ fe'.nextSequence = 0
      <4> SUFFICES ASSUME pc' \in Streaming
                   PROVE  /\ Len(chan') = 0 => fe'.nextSequence = seq
                          /\ Len(chan') > 0 => IF chan'[Len(chan')].type = "rows"
                                                 THEN chan'[Len(chan')].seq = seq - 1
                                                 ELSE seq = 0 /\ fe'.nextSequence = 0
        BY <1>0
      <4>0. /\ IF chan[Len(chan)].type = "rows"
                 THEN chan[Len(chan)].seq = seq - 1
                 ELSE seq = 0 /\ fe.nextSequence = 0
            /\ seq \in Nat
        BY <1>0, <1>e, <2>0 DEF StreamInv, OrderInv, EarlyOrder, QueueOrder, TailOrder, TypeOK
      <4>1. CASE Len(chan) = 1
        BY <1>e, <2>1, <2>2, <4>0, <4>1
      <4>2. CASE Len(chan) > 1
        <5>1. chan'[Len(chan')] = chan[Len(chan)] /\ Len(chan') > 0
          BY <1>e, <4>2
        <5>2. e.type = "rows" => seq > 0
          <6>1. chan[1].type = "rows" => chan[1].seq < seq
            BY <1>e DEF StreamInv, FlightInv
          <6> QED
            BY <1>e, <4>0, <6>1
        <5> QED
          BY <2>2, <4>0, <5>1, <5>2
      <4> QED
        BY <1>e, <4>1, <4>2
    <3> QED
      <4>1. ~fe'.protocolError
        BY <2>2
      <4>2. \A i \in 1..Len(chan') : chan'[i].type = "rows" =>
              /\ i = 1 => chan'[i].seq = fe'.nextSequence
              /\ i > 1 /\ chan'[i-1].type = "rows" => chan'[i].seq = chan'[i-1].seq + 1
              /\ i > 1 /\ chan'[i-1].type # "rows"
                    => chan'[i].seq = 0 /\ fe'.nextSequence = 0
        BY <3>3
      <4>3. EarlyOrder'
        BY <3>2 DEF EarlyOrder, Early
      <4>4. QueueOrder'
        BY <4>2 DEF QueueOrder
      <4>5. TailOrder'
        BY <3>4 DEF TailOrder, Streaming
      <4> QED
        BY <4>1, <4>3, <4>4, <4>5 DEF OrderInv
  <2>4. EndInv'
    <3>1. fe'.status # "running" => e.type \in TerminalTypes
      BY <1>f, <2>2
    <3> QED
      BY <1>f, <3>1 DEF EndInv
  <2> QED
    BY <1>1, <1>2, <2>3, <2>4 DEF StreamInv
<1> QED
  BY <1>3, <1>4

LEMMA StreamWebviewStep == TypeOK /\ StreamInv /\ WebviewStep => StreamInv'
<1> SUFFICES ASSUME TypeOK, StreamInv, WebviewStep PROVE StreamInv'
  OBVIOUS
<1> USE DEF loop, window, flags, webview
<1>1. CASE QueryCancel
  BY <1>1 DEF QueryCancel, StreamInv, WindowInv, FlightInv, OrderInv, EarlyOrder, QueueOrder,
     TailOrder, EndInv, Watching
<1>2. CASE HandleEvent
  BY <1>2, HandleStep
<1>3. CASE DisposeResult
  <2>0. /\ UNCHANGED <<pc, seq, permits, sent, acked, alive, acks, rejected, chan, out, actor,
                       terminal, busy>>
        /\ ~fe'.current /\ fe'.status = fe.status /\ fe'.protocolError = fe.protocolError
    BY <1>3 DEF DisposeResult, TypeOK, Snapshots
  <2> QED
    BY <2>0 DEF StreamInv, WindowInv, FlightInv, OrderInv, EarlyOrder, QueueOrder, TailOrder,
       EndInv, Watching
<1>4. CASE WebviewGone
  <2>0. /\ UNCHANGED <<pc, seq, permits, sent, acked, rejected, fe, out, actor, terminal, busy>>
        /\ ~alive' /\ Len(chan') = 0 /\ acks' = {}
    BY <1>4 DEF WebviewGone
  <2> QED
    BY <2>0 DEF StreamInv, WindowInv, FlightInv, OrderInv, EarlyOrder, QueueOrder, TailOrder,
       EndInv, Watching
<1>5. ASSUME NEW n \in acks, AckChunk(n) PROVE StreamInv'
  BY <1>5, AckStep
<1> QED
  BY <1>1, <1>2, <1>3, <1>4, <1>5 DEF WebviewStep

(* The invariant under every step: windows, order and ending together. *)
THEOREM StreamInvariant == Spec => []StreamInv
<1>1. Init => StreamInv
  BY StreamAssumption
  DEF Init, StreamInv, WindowInv, FlightInv, OrderInv, EarlyOrder, QueueOrder, TailOrder,
     EndInv, Watching, Early, Streaming,
      Over, Failed, Event, TerminalTypes
<1>2. TypeOK /\ StreamInv /\ [Next]_vars => StreamInv'
  <2> SUFFICES ASSUME TypeOK, StreamInv, [Next]_vars PROVE StreamInv'
    OBVIOUS
  <2>1. CASE UNCHANGED vars
    BY <2>1 DEF StreamInv, WindowInv, FlightInv, OrderInv, EarlyOrder, QueueOrder, TailOrder,
       EndInv, Watching,
                vars, loop, window, flags, webview
  <2> QED
    BY <2>1, StreamRunStep, StreamActorStep, StreamWebviewStep DEF Next
<1> QED
  BY <1>1, <1>2, TypeCorrect, PTL DEF Spec

(* Backpressure: never more than MAX_UNACKED_CHUNKS chunks wait for the      *)
(* webview, for any window, chunk size and result.                           *)
THEOREM WindowIsRespected == Spec => []Backpressure
<1>1. TypeOK /\ StreamInv => Backpressure
  <2> SUFFICES ASSUME TypeOK, StreamInv, NEW i \in RowsAt, NEW j \in RowsAt
               PROVE  /\ i # j => chan[i].seq # chan[j].seq
                      /\ chan[j].seq - chan[i].seq < MaxUnacked
    BY DEF Backpressure
  <2>1. /\ i \in 1..Len(chan) /\ j \in 1..Len(chan) /\ Len(chan) \in Nat
        /\ chan[i].type = "rows" /\ chan[j].type = "rows"
        /\ chan[i] \in Events /\ chan[j] \in Events
    BY DEF RowsAt, TypeOK
  <2>2. chan[i].seq \in Nat /\ chan[j].seq \in Nat
    BY <2>1 DEF Events
  <2>3. /\ acked < chan[i].seq /\ chan[j].seq < seq
        /\ i < j => chan[i].seq < chan[j].seq
        /\ j < i => chan[j].seq < chan[i].seq
    BY <2>1 DEF StreamInv, FlightInv
  <2>4. seq - 1 <= sent /\ sent - acked = MaxUnacked - permits
    BY StreamAssumption DEF StreamInv, WindowInv, TypeOK
  <2> QED
    BY SMTT(60), <2>1, <2>2, <2>3, <2>4, StreamAssumption DEF TypeOK
<1> QED
  BY <1>1, TypeCorrect, StreamInvariant, PTL

(* AcksAccepted: no ack for a received chunk is refused. *)
THEOREM NoAckIsRejected == Spec => []AcksAccepted
<1>1. StreamInv => AcksAccepted
  BY DEF StreamInv, FlightInv, AcksAccepted
<1> QED
  BY <1>1, StreamInvariant, PTL

(* InSequence: a tab never sees a chunk out of sequence. *)
THEOREM ChunksInSequence == Spec => []InSequence
<1>1. StreamInv => InSequence
  BY DEF StreamInv, OrderInv, EarlyOrder, QueueOrder, TailOrder, InSequence
<1> QED
  BY <1>1, StreamInvariant, PTL

(* ReleasedBeforeTerminal: a terminal event the webview can see finds the    *)
(* session free and the execution finished.                                  *)
THEOREM SessionFreeAtTerminal == Spec => []ReleasedBeforeTerminal
<1>1. TypeOK /\ StreamInv => ReleasedBeforeTerminal
  BY DEF TypeOK, StreamInv, EndInv, ReleasedBeforeTerminal, Over
<1> QED
  BY <1>1, TypeCorrect, StreamInvariant, PTL

(* TerminalIsLast: nothing follows a terminal event. *)
THEOREM NothingAfterTerminal == Spec => []TerminalIsLast
<1>1. TypeOK /\ StreamInv => TerminalIsLast
  BY DEF TypeOK, StreamInv, EndInv, TerminalIsLast
<1> QED
  BY <1>1, TypeCorrect, StreamInvariant, PTL

-----------------------------------------------------------------------------
(* ExecutionStream implements ResultDelivery. *)

(* A chunk never takes rows away from the tab. *)
ChunkRowsInv == \A i \in 1..Len(chan) : chan[i].type = "rows" => chan[i].rows \in Nat

(* What is sent keeps ChunkRowsInv if it is no chunk, or a chunk of rows. *)
LEMMA SinkRows ==
    ASSUME chan \in Seq(Events), ChunkRowsInv, NEW e \in Events, Sink(e),
           e.type = "rows" => e.rows \in Nat
    PROVE  ChunkRowsInv'
<1>1. CASE chan' = chan
  BY <1>1 DEF ChunkRowsInv
<1>2. CASE chan' = Append(chan, e)
  <2>1. /\ Len(chan') = Len(chan) + 1 /\ Len(chan) \in Nat
        /\ \A i \in 1..Len(chan) : chan'[i] = chan[i]
        /\ chan'[Len(chan) + 1] = e
    BY <1>2
  <2> QED
    BY <2>1 DEF ChunkRowsInv
<1> QED
  BY <1>1, <1>2 DEF Sink

LEMMA ChunkRowsStep == TypeOK /\ StreamInv /\ ChunkRowsInv /\ [Next]_vars => ChunkRowsInv'
<1> SUFFICES ASSUME TypeOK, StreamInv, ChunkRowsInv, [Next]_vars PROVE ChunkRowsInv'
  OBVIOUS
<1>t. chan \in Seq(Events) /\ seq \in Nat /\ buf \in Nat /\ out \in Events
  BY DEF TypeOK
<1>o. out.type # "rows"
  BY DEF StreamInv, EndInv, TerminalTypes
<1>e. /\ Started \in Events /\ Columns \in Events /\ Command \in Events
      /\ Rows(seq, buf) \in Events
  BY <1>t DEF Started, Columns, Command, Rows, Event, Events, EventTypes
<1>n. /\ Started.type # "rows" /\ Columns.type # "rows" /\ Command.type # "rows"
      /\ Rows(seq, buf).rows = buf
  BY DEF Started, Columns, Command, Rows, Event
<1>1. CASE chan' = chan
  BY <1>1 DEF ChunkRowsInv
<1>2. CASE Sink(Started)
  BY <1>2, <1>t, <1>e, <1>n, SinkRows
<1>3. CASE Sink(Columns)
  BY <1>3, <1>t, <1>e, <1>n, SinkRows
<1>4. CASE Sink(Command)
  BY <1>4, <1>t, <1>e, <1>n, SinkRows
<1>5. CASE FlushSends
  BY <1>5, <1>t, <1>e, <1>n, SinkRows DEF FlushSends
<1>6. CASE SendTerminal
  BY <1>6, <1>t, <1>o, SinkRows DEF SendTerminal
<1>7. CASE HandleEvent
  <2>1. chan # <<>> /\ chan' = Tail(chan)
    BY <1>7 DEF HandleEvent
  <2>2. /\ Len(chan') = Len(chan) - 1 /\ Len(chan) \in Nat
        /\ \A i \in 1..Len(chan') : chan'[i] = chan[i + 1]
    BY <1>t, <2>1
  <2> QED
    BY <2>2 DEF ChunkRowsInv
<1>8. CASE WebviewGone
  BY <1>8 DEF WebviewGone, ChunkRowsInv
<1>9. CASE RunStep /\ ~FlushSends
  <2>1. \/ chan' = chan \/ Sink(Started) \/ Sink(Columns) \/ Sink(Command)
    BY <1>9 DEF RunStep, Connect, ConnectFails, SetTimeout, Prepare, SetupFails, RowDrained,
       RowRefused, RowKept, PushRow, FlushCancelled, FlushWaits, FlushStalls, FlushGivesUp,
       FlushAcquires, StreamEnds, StreamFails, Complete
  <2> QED
    BY <2>1, <1>1, <1>2, <1>3, <1>4
<1>10. CASE ActorStep /\ ~SendTerminal
  <2>1. chan' = chan
    BY <1>10 DEF ActorStep, InterruptedByToken, InterruptedByTimer, BackendCancelled, GivesUp,
       OutcomeUnknown, Panics, StoreTerminal, ReleaseSession, Deregister
  <2> QED
    BY <2>1, <1>1
<1>11. CASE WebviewStep /\ ~HandleEvent /\ ~WebviewGone
  <2>1. chan' = chan
    BY <1>11 DEF WebviewStep, QueryCancel, DisposeResult, AckChunk
  <2> QED
    BY <2>1, <1>1
<1>12. CASE UNCHANGED vars
  BY <1>12, <1>1 DEF vars
<1> QED
  BY <1>5, <1>6, <1>7, <1>8, <1>9, <1>10, <1>11, <1>12 DEF Next

(* What an event does to what the tab shows. *)
LEMMA ApplyDelivers ==
    ASSUME fe \in Snapshots, NEW e \in Events, ~fe.protocolError
    PROVE  /\ e.type = "rows" /\ e.seq = fe.nextSequence =>
                Apply(e).rows = fe.rows + e.rows /\ Apply(e).status = fe.status
           /\ e.type = "rows" /\ e.seq # fe.nextSequence => Apply(e).protocolError
           /\ e.type \in TerminalTypes =>
                Apply(e).rows = fe.rows /\ Apply(e).status = e.type
BY DEF Apply, Snapshots, TerminalTypes

(* Handling the oldest event is a step of ResultDelivery or does not show. *)
LEMMA HandleDelivers ==
    TypeOK /\ StreamInv /\ StreamInv' /\ ChunkRowsInv /\ HandleEvent
      => [Delivery!Next]_Delivery!vars
<1> SUFFICES ASSUME TypeOK, StreamInv, StreamInv', ChunkRowsInv, HandleEvent
             PROVE  [Delivery!Next]_Delivery!vars
  OBVIOUS
<1> DEFINE e == Head(chan)
<1>0. /\ chan \in Seq(Events) /\ chan # <<>> /\ fe \in Snapshots
      /\ busy' = busy
      /\ fe' = IF fe.current THEN Apply(e) ELSE fe
  BY DEF HandleEvent, TypeOK, flags
<1>e. e \in Events /\ e = chan[1] /\ 1 \in 1..Len(chan)
  BY <1>0
<1>r. fe.status = "running" /\ fe.rows \in Int
  BY <1>e, <1>0 DEF StreamInv, EndInv, Snapshots
<1>p. ~fe.protocolError /\ ~fe'.protocolError
  BY DEF StreamInv, OrderInv
<1> HIDE DEF e
<1>1. CASE ~fe.current
  BY <1>0, <1>1 DEF Delivery!vars
<1>2. CASE fe.current /\ e.type = "rows"
  <2>1. fe' = Apply(e)
    BY <1>0, <1>2
  <2>2. e.seq = fe.nextSequence
    BY <1>0, <1>e, <1>2, <1>p, <2>1, ApplyDelivers
  <2>3. fe'.rows = fe.rows + e.rows /\ fe'.status = fe.status
    BY <1>0, <1>e, <1>2, <1>p, <2>1, <2>2, ApplyDelivers
  <2>4. e.rows \in Nat
    BY <1>e, <1>2 DEF ChunkRowsInv
  <2> QED
    BY <1>0, <1>r, <2>3, <2>4 DEF Delivery!Next, Delivery!Deliver
<1>3. CASE fe.current /\ e.type \in TerminalTypes
  <2>1. fe' = Apply(e) /\ e.type # "rows"
    BY <1>0, <1>3 DEF TerminalTypes
  <2>2. fe'.rows = fe.rows /\ fe'.status = e.type
    BY <1>0, <1>e, <1>3, <1>p, <2>1, ApplyDelivers
  <2>3. ~busy
    BY <1>e, <1>3 DEF StreamInv, EndInv, Over
  <2> QED
    BY <1>0, <1>r, <1>3, <2>2, <2>3
    DEF Delivery!Next, Delivery!End, Delivery!Outcomes, TerminalTypes
<1>4. CASE fe.current /\ e.type \notin TerminalTypes /\ e.type # "rows"
  <2>1. fe'.rows = fe.rows /\ fe'.status = fe.status
    BY <1>0, <1>4 DEF Apply, Snapshots
  <2> QED
    BY <1>0, <2>1 DEF Delivery!vars
<1> QED
  BY <1>1, <1>2, <1>3, <1>4

LEMMA StepDelivers ==
    TypeOK /\ StreamInv /\ StreamInv' /\ ChunkRowsInv /\ [Next]_vars
      => [Delivery!Next]_Delivery!vars
<1> SUFFICES ASSUME TypeOK, StreamInv, StreamInv', ChunkRowsInv, [Next]_vars
             PROVE  [Delivery!Next]_Delivery!vars
  OBVIOUS
<1>1. CASE fe' = fe /\ busy' = busy
  BY <1>1 DEF Delivery!vars
<1>2. CASE RunStep
  <2>1. fe' = fe /\ busy' = busy
    BY <1>2 DEF RunStep, Connect, ConnectFails, SetTimeout, Prepare, SetupFails, RowDrained,
       RowRefused, RowKept, PushRow, FlushCancelled, FlushWaits, FlushStalls, FlushGivesUp,
       FlushAcquires, FlushSends, StreamEnds, StreamFails, Complete, webview, flags
  <2> QED
    BY <2>1, <1>1
<1>3. CASE ReleaseSession
  <2>1. fe' = fe /\ ~busy'
    BY <1>3 DEF ReleaseSession, webview
  <2>2. busy \in BOOLEAN /\ busy' \in BOOLEAN
    BY <1>3 DEF TypeOK, ReleaseSession
  <2> QED
    BY <2>1, <2>2 DEF Delivery!Next, Delivery!Release, Delivery!vars
<1>4. CASE ActorStep /\ ~ReleaseSession
  <2>1. fe' = fe /\ busy' = busy
    BY <1>4 DEF ActorStep, InterruptedByToken, InterruptedByTimer, BackendCancelled, GivesUp,
       OutcomeUnknown, Panics, StoreTerminal, SendTerminal, Deregister, webview, flags
  <2> QED
    BY <2>1, <1>1
<1>5. CASE HandleEvent
  BY <1>5, HandleDelivers
<1>6. CASE DisposeResult
  BY <1>6 DEF DisposeResult, TypeOK, Snapshots, flags, Delivery!vars
<1>7. CASE WebviewStep /\ ~HandleEvent /\ ~DisposeResult
  <2>1. fe' = fe /\ busy' = busy
    BY <1>7 DEF WebviewStep, QueryCancel, WebviewGone, AckChunk, webview, flags
  <2> QED
    BY <2>1, <1>1
<1>8. CASE UNCHANGED vars
  BY <1>8, <1>1 DEF vars, webview, flags
<1> QED
  BY <1>2, <1>3, <1>4, <1>5, <1>6, <1>7, <1>8 DEF Next

(* DeliveryKept: every step of the stream is a step of ResultDelivery or does *)
(* not show in the tab (ResultStore, and busy of SessionHandle).              *)
THEOREM DeliveryRefined == Spec => DeliveryKept
<1>1. Init => Delivery!Init
  BY DEF Init, Delivery!Init
<1>2. Init => ChunkRowsInv
  BY DEF Init, ChunkRowsInv
<1>3. Spec => []ChunkRowsInv
  BY <1>2, ChunkRowsStep, TypeCorrect, StreamInvariant, PTL DEF Spec
<1>4. Spec => [][Delivery!Next]_Delivery!vars
  BY <1>3, StepDelivers, TypeCorrect, StreamInvariant, PTL DEF Spec
<1> QED
  BY <1>1, <1>4, PTL DEF Spec, DeliveryKept, Delivery!Spec

-----------------------------------------------------------------------------
(* What a finished result shows. *)

Counted == {"completed", "cancelled"}

(* The row that was taken from the server and waits for its chunk.           *)
Pending ==
    IF pc = "push" \/ (pc \in {"flush", "wait", "send"} /\ cont = "push") THEN 1 ELSE 0

(* run_execution counts every row of a result that is not truncated, and     *)
(* what it returns is what it counted.                                       *)
LoopInv ==
    /\ pc \in Early => total = 0 /\ buf = 0 /\ retained = 0
    /\ pc # "returned" /\ ~truncated => produced = total + Pending
    /\ pc = "end" /\ ~truncated => buf = 0
    /\ paged => total <= retained /\ (pc # "returned" => retained = total)
    /\ pc = "returned" /\ out.type \in Counted => out.rows = total
    /\ pc = "returned" /\ out.type = "completed" =>
         /\ out.trunc = truncated
         /\ ~truncated => produced = total /\ (paged => retained = total)

LEMMA LoopStep == TypeOK /\ StreamInv /\ LoopInv /\ [Next]_vars => LoopInv'
<1> SUFFICES ASSUME TypeOK, StreamInv, LoopInv, [Next]_vars PROVE LoopInv'
  OBVIOUS
<1>t. /\ buf \in Nat /\ total \in Int /\ retained \in Nat /\ produced \in Nat
      /\ truncated \in BOOLEAN /\ paged \in BOOLEAN
      /\ pc \in {"connect", "set", "prepare", "stream", "push", "flush", "wait", "send",
                 "end", "returned"}
      /\ cont \in {"push", "stream", "end"}
  BY DEF TypeOK
<1>f. Failed.type = "failed"
  BY DEF Failed, Event
<1>c. \A n \in Int : Cancelled(n).type = "cancelled" /\ Cancelled(n).rows = n
  BY DEF Cancelled, Event
<1>d. \A n \in Int, t \in BOOLEAN : /\ Completed(n, t).type = "completed"
                                    /\ Completed(n, t).rows = n /\ Completed(n, t).trunc = t
  BY DEF Completed, Event
<1> HIDE DEF TypeOK
<1>0. CASE UNCHANGED <<pc, cont, paged, buf, total, retained, truncated, produced, out>>
  BY <1>0 DEF LoopInv, Pending
<1>1. CASE Connect \/ FlushWaits
  BY <1>1, <1>t DEF Connect, FlushWaits, LoopInv, Pending, Early, loop
<1>2. CASE ConnectFails
  BY <1>2, <1>t, <1>f DEF ConnectFails, Return, LoopInv, Counted, Early, loop
<1>3. CASE SetTimeout
  BY <1>3, <1>t, <1>c DEF SetTimeout, Return, LoopInv, Pending, Counted, Early, loop
<1>4. CASE Prepare
  BY <1>4, <1>t, <1>c DEF Prepare, Return, LoopInv, Pending, Counted, Early, loop
<1>5. CASE SetupFails
  BY <1>5, <1>t, <1>f DEF SetupFails, Return, LoopInv, Counted, Early, loop
<1>6. CASE RowDrained \/ RowRefused
  BY <1>6, <1>t DEF RowDrained, RowRefused, LoopInv, Pending, Early
<1>7. CASE RowKept
  BY <1>7, <1>t DEF RowKept, LoopInv, Pending, Early
<1>8. CASE PushRow
  BY <1>8, <1>t DEF PushRow, LoopInv, Pending, Early
<1>9. CASE FlushCancelled \/ FlushStalls
  BY <1>9, <1>t DEF FlushCancelled, FlushStalls, FlushGivesUp, LoopInv, Pending, Early
<1>10. CASE FlushAcquires
  BY <1>10, <1>t DEF FlushAcquires, LoopInv, Pending, Early, loop
<1>11. CASE FlushSends
  BY <1>11, <1>t DEF FlushSends, LoopInv, Pending, Early
<1>12. CASE StreamEnds
  BY <1>12, <1>t DEF StreamEnds, LoopInv, Pending, Early, loop
<1>13. CASE StreamFails
  BY <1>13, <1>t, <1>c, <1>f DEF StreamFails, Return, LoopInv, Counted, Early
<1>14. CASE Complete
  BY <1>14, <1>t, <1>d DEF Complete, Return, LoopInv, Pending, Counted, Early
<1>15. CASE GivesUp \/ Panics
  BY <1>15, <1>t, <1>f DEF GivesUp, Panics, OutcomeUnknown, LoopInv, Counted, Early, loop
<1>16. CASE ActorStep /\ ~GivesUp /\ ~Panics
  BY <1>16, <1>0 DEF ActorStep, InterruptedByToken, InterruptedByTimer, BackendCancelled,
     StoreTerminal, ReleaseSession, SendTerminal, Deregister, loop
<1>17. CASE WebviewStep
  BY <1>17, <1>0 DEF WebviewStep, QueryCancel, HandleEvent, DisposeResult, WebviewGone,
     AckChunk, loop
<1>18. CASE UNCHANGED vars
  BY <1>18, <1>0 DEF vars, loop
<1> QED
  BY <1>1, <1>2, <1>3, <1>4, <1>5, <1>6, <1>7, <1>8, <1>9, <1>10, <1>11, <1>12, <1>13,
     <1>14, <1>15, <1>16, <1>17, <1>18 DEF Next, RunStep

(* Rows an event brings to the tab. *)
Weight(e) == IF e.type = "rows" THEN e.rows ELSE 0

(* The tab will hold s rows once it has handled what is in the channel: c    *)
(* counts them event by event.                                               *)
Streamed(s) ==
    \E c \in [1..(Len(chan) + 1) -> Int] :
       /\ c[1] = fe.rows
       /\ c[Len(chan) + 1] = s
       /\ \A i \in 1..Len(chan) : c[i + 1] = c[i] + Weight(chan[i])

(* With nothing in the channel, the tab holds what was streamed. *)
LEMMA StreamedAll ==
    ASSUME chan \in Seq(Events), NEW s, Streamed(s), Len(chan) = 0
    PROVE  s = fe.rows
BY DEF Streamed

(* An event sent to a tab adds its rows. *)
LEMMA StreamedAppend ==
    ASSUME chan \in Seq(Events), NEW s \in Int, Streamed(s), NEW e \in Events,
           chan' = Append(chan, e), fe' = fe
    PROVE  Streamed(s + Weight(e))'
<1> DEFINE n == Len(chan)
<1>1. /\ n \in Nat /\ Len(chan') = n + 1
      /\ \A i \in 1..n : chan'[i] = chan[i]
      /\ chan'[n + 1] = e
      /\ e.rows \in Int
  BY DEF Events
<1>2. PICK c \in [1..(n + 1) -> Int] :
         /\ c[1] = fe.rows
         /\ c[n + 1] = s
         /\ \A i \in 1..n : c[i + 1] = c[i] + Weight(chan[i])
  BY DEF Streamed
<1> DEFINE d == [i \in 1..(n + 2) |-> IF i = n + 2 THEN s + Weight(e) ELSE c[i]]
<1>w. Weight(e) \in Int
  BY <1>1 DEF Weight
<1>3. d \in [1..(n + 2) -> Int]
  BY <1>1, <1>2, <1>w
<1>4. d[1] = fe.rows /\ d[n + 2] = s + Weight(e)
  BY <1>1, <1>2
<1>5. ASSUME NEW i \in 1..(n + 1) PROVE d[i + 1] = d[i] + Weight(chan'[i])
  <2>1. CASE i = n + 1
    BY <1>1, <1>2, <2>1
  <2>2. CASE i \in 1..n
    BY <1>1, <1>2, <2>2
  <2> QED
    BY <1>1, <2>1, <2>2
<1>6. \E f \in [1..(Len(chan') + 1) -> Int] :
         /\ f[1] = fe'.rows
         /\ f[Len(chan') + 1] = s + Weight(e)
         /\ \A i \in 1..Len(chan') : f[i + 1] = f[i] + Weight(chan'[i])
  <2> HIDE DEF d
  <2>1. Len(chan') + 1 = n + 2
    BY <1>1
  <2>2. \A i \in 1..Len(chan') : d[i + 1] = d[i] + Weight(chan'[i])
    BY <1>1, <1>5
  <2>3. d \in [1..(Len(chan') + 1) -> Int] /\ d[1] = fe'.rows /\ d[Len(chan') + 1] = s + Weight(e)
    BY <1>3, <1>4, <2>1
  <2> QED
    BY <2>2, <2>3, Zenon
<1> QED
  BY <1>6 DEF Streamed, Weight

(* An event handled moves its rows from the channel to the tab. *)
LEMMA StreamedTail ==
    ASSUME chan \in Seq(Events), chan # <<>>, NEW s \in Int, Streamed(s),
           chan' = Tail(chan), fe.rows \in Int, fe'.rows = fe.rows + Weight(chan[1])
    PROVE  Streamed(s)'
<1> DEFINE n == Len(chan)
<1>1. /\ n \in Nat \ {0} /\ Len(chan') = n - 1
      /\ \A i \in 1..(n - 1) : chan'[i] = chan[i + 1]
  OBVIOUS
<1>2. PICK c \in [1..(n + 1) -> Int] :
         /\ c[1] = fe.rows
         /\ c[n + 1] = s
         /\ \A i \in 1..n : c[i + 1] = c[i] + Weight(chan[i])
  BY DEF Streamed
<1> DEFINE d == [i \in 1..n |-> c[i + 1]]
<1>3. d \in [1..n -> Int]
  BY SMTT(60), <1>1, <1>2
<1>4. d[1] = fe'.rows /\ d[n] = s
  BY <1>1, <1>2
<1>5. \A i \in 1..(n - 1) : d[i + 1] = d[i] + Weight(chan'[i])
  <2> SUFFICES ASSUME NEW i \in 1..(n - 1) PROVE d[i + 1] = d[i] + Weight(chan'[i])
    OBVIOUS
  <2>1. i + 1 \in 1..n /\ i \in 1..n
    BY <1>1
  <2>2. c[(i + 1) + 1] = c[i + 1] + Weight(chan[i + 1])
    BY <1>2, <2>1
  <2> QED
    BY <1>1, <2>1, <2>2
<1>6. \E f \in [1..(Len(chan') + 1) -> Int] :
         /\ f[1] = fe'.rows
         /\ f[Len(chan') + 1] = s
         /\ \A i \in 1..Len(chan') : f[i + 1] = f[i] + Weight(chan'[i])
  <2> HIDE DEF d
  <2>1. Len(chan') + 1 = n
    BY <1>1
  <2>2. \A i \in 1..Len(chan') : d[i + 1] = d[i] + Weight(chan'[i])
    BY <1>1, <1>5
  <2>3. d \in [1..(Len(chan') + 1) -> Int] /\ d[1] = fe'.rows /\ d[Len(chan') + 1] = s
    BY <1>3, <1>4, <2>1
  <2> QED
    BY <2>2, <2>3, Zenon
<1> QED
  BY <1>6 DEF Streamed, Weight

(* Rows in the chunk that may still be sent. *)
Unsent == IF pc = "returned" THEN 0 ELSE buf

Balance(s) == IF paged THEN s + Unsent <= total ELSE s + Unsent = total

(* Rows held, in the channel and in the chunk being built add up to the      *)
(* count; of a paged result, to no more than the count.  An execution given  *)
(* up on reports no count.                                                   *)
StreamedInv ==
    Watching /\ (pc = "returned" => out.type # "failed") =>
        \E s \in Int : Streamed(s) /\ Balance(s)

(* A step that neither reaches the channel nor the tab keeps the balance if  *)
(* it counts what it takes.                                                  *)
LEMMA StreamedQuiet ==
    ASSUME StreamedInv, UNCHANGED <<chan, fe, alive, paged>>,
           (pc' = "returned" => out'.type # "failed") => (pc = "returned" => out.type # "failed"),
           \A s \in Int : Balance(s) => Balance(s)'
    PROVE  StreamedInv'
<1> SUFFICES ASSUME Watching', pc' = "returned" => out'.type # "failed"
             PROVE  \E s \in Int : (Streamed(s) /\ Balance(s))'
  BY DEF StreamedInv
<1>1. PICK s \in Int : Streamed(s) /\ Balance(s)
  BY DEF StreamedInv, Watching
<1>2. Streamed(s)'
  BY <1>1 DEF Streamed
<1> QED
  BY <1>1, <1>2

(* A step that sends an event keeps it if the event brings what the chunk    *)
(* loses.                                                                    *)
LEMMA StreamedSink ==
    ASSUME TypeOK, StreamedInv, NEW e \in Events, Sink(e), UNCHANGED <<fe, alive, paged>>,
           (pc' = "returned" => out'.type # "failed") => (pc = "returned" => out.type # "failed"),
           alive => \A s \in Int : Balance(s) => Balance(s + Weight(e))'
    PROVE  StreamedInv'
<1> SUFFICES ASSUME Watching', pc' = "returned" => out'.type # "failed"
             PROVE  \E s \in Int : (Streamed(s) /\ Balance(s))'
  BY DEF StreamedInv
<1>1. PICK s \in Int : Streamed(s) /\ Balance(s)
  BY DEF StreamedInv, Watching
<1>2. alive /\ chan' = Append(chan, e) /\ chan \in Seq(Events)
  BY DEF Sink, Watching, TypeOK
<1>3. Streamed(s + Weight(e))'
  BY <1>1, <1>2, StreamedAppend
<1>4. s + Weight(e) \in Int /\ (s + Weight(e))' = s + Weight(e)
  BY DEF Weight, Events
<1> QED
  BY <1>1, <1>2, <1>3, <1>4

LEMMA StreamedStep ==
    TypeOK /\ StreamInv /\ LoopInv /\ StreamedInv /\ [Next]_vars => StreamedInv'
<1> SUFFICES ASSUME TypeOK, StreamInv, LoopInv, StreamedInv, [Next]_vars PROVE StreamedInv'
  OBVIOUS
<1>t. /\ buf \in Nat /\ total \in Int /\ seq \in Nat /\ paged \in BOOLEAN /\ alive \in BOOLEAN
      /\ pc \in {"connect", "set", "prepare", "stream", "push", "flush", "wait", "send",
                 "end", "returned"}
      /\ cont \in {"push", "stream", "end"}
      /\ chan \in Seq(Events) /\ fe \in Snapshots /\ out \in Events
  BY DEF TypeOK
<1>e. /\ Started \in Events /\ Columns \in Events /\ Command \in Events
      /\ Rows(seq, buf) \in Events
      /\ Weight(Started) = 0 /\ Weight(Columns) = 0 /\ Weight(Command) = 0
      /\ Weight(Rows(seq, buf)) = buf
  BY <1>t DEF Started, Columns, Command, Rows, Event, Events, EventTypes, Weight
<1>f. Failed.type = "failed"
  BY DEF Failed, Event
<1>0. CASE UNCHANGED <<chan, fe, alive, paged, pc, buf, total, out>>
  BY <1>0, StreamedQuiet DEF Balance, Unsent
<1>1. CASE Connect
  <2>1. \A s \in Int : Balance(s) => Balance(s + Weight(Started))'
    BY <1>1, <1>e, <1>t DEF Connect, Balance, Unsent, Weight, loop
  <2> QED
    BY <1>1, <1>e, <2>1, StreamedSink DEF Connect, webview
<1>2. CASE ConnectFails \/ SetupFails \/ GivesUp \/ Panics
  BY <1>2, <1>f DEF ConnectFails, SetupFails, GivesUp, Panics, OutcomeUnknown, Return, StreamedInv
<1>3. CASE SetTimeout
  <2>1. \A s \in Int : Balance(s) => Balance(s)'
    BY <1>3, <1>t DEF SetTimeout, Return, Balance, Unsent, LoopInv, Early, loop
  <2> QED
    BY <1>3, <2>1, StreamedQuiet DEF SetTimeout, Return, webview
<1>4. CASE Prepare
  <2>1. \A s \in Int : Balance(s) => Balance(s)' /\ Balance(s + 0)'
    BY <1>4, <1>t DEF Prepare, Return, Balance, Unsent, LoopInv, Early, loop
  <2>2. CASE Sink(Columns)
    <3>1. \A s \in Int : Balance(s) => Balance(s + Weight(Columns))'
      BY <2>1, <1>e
    <3> QED
      BY <1>4, <1>e, <2>2, <3>1, StreamedSink DEF Prepare, webview
  <2>3. CASE UNCHANGED chan
    BY <1>4, <2>1, <2>3, StreamedQuiet DEF Prepare, webview
  <2> QED
    BY <1>4, <2>2, <2>3 DEF Prepare
<1>5. CASE RowDrained \/ RowRefused
  BY <1>5, <1>0 DEF RowDrained, RowRefused, webview
<1>6. CASE RowKept
  <2>1. \A s \in Int : Balance(s) => Balance(s)'
    BY <1>6 DEF RowKept, Balance, Unsent
  <2> QED
    BY <1>6, <2>1, StreamedQuiet DEF RowKept, webview
<1>7. CASE PushRow
  <2>1. \A s \in Int : Balance(s) => Balance(s)'
    BY <1>7, <1>t DEF PushRow, Balance, Unsent
  <2> QED
    BY <1>7, <2>1, StreamedQuiet DEF PushRow, webview
<1>8. CASE FlushCancelled \/ FlushStalls
  <2>1. \A s \in Int : Balance(s) => Balance(s)'
    BY <1>8 DEF FlushCancelled, FlushStalls, FlushGivesUp, Balance, Unsent
  <2> QED
    BY <1>8, <2>1, StreamedQuiet DEF FlushCancelled, FlushStalls, FlushGivesUp, webview
<1>9. CASE FlushWaits \/ FlushAcquires
  <2>1. \A s \in Int : Balance(s) => Balance(s)'
    BY <1>9 DEF FlushWaits, FlushAcquires, Balance, Unsent, loop
  <2> QED
    BY <1>9, <2>1, StreamedQuiet DEF FlushWaits, FlushAcquires, webview
<1>10. CASE FlushSends
  <2>1. PICK e \in Events : e = Rows(seq, buf)
    BY <1>e
  <2>2. \A s \in Int : Balance(s) => Balance(s + Weight(e))'
    <3>1. PICK n \in Nat : n = buf
      BY <1>t
    <3>2. \A s \in Int : Balance(s) => Balance(s + n)'
      BY <1>10, <1>t, <3>1 DEF FlushSends, Balance, Unsent
    <3>3. Weight(e) = n
      BY <1>e, <2>1, <3>1
    <3> QED
      BY <3>2, <3>3
  <2> QED
    BY <1>10, <1>t, <2>1, <2>2, StreamedSink DEF FlushSends, webview
<1>11. CASE StreamEnds
  <2>1. \A s \in Int : Balance(s) => Balance(s)'
    BY <1>11 DEF StreamEnds, Balance, Unsent, loop
  <2> QED
    BY <1>11, <2>1, StreamedQuiet DEF StreamEnds, webview
<1>12. CASE StreamFails
  <2>1. \A s \in Int : Balance(s) => Balance(s)'
    BY <1>12, <1>t DEF StreamFails, Return, Balance, Unsent
  <2> QED
    BY <1>12, <2>1, StreamedQuiet DEF StreamFails, webview
<1>13. CASE Complete
  <2>1. \A s \in Int : Balance(s) => Balance(s)' /\ Balance(s + 0)'
    BY <1>13, <1>t DEF Complete, Return, Balance, Unsent
  <2>2. CASE Sink(Command)
    <3>1. \A s \in Int : Balance(s) => Balance(s + Weight(Command))'
      BY <2>1, <1>e
    <3> QED
      BY <1>13, <1>e, <2>2, <3>1, StreamedSink DEF Complete, webview
  <2>3. CASE UNCHANGED chan
    BY <1>13, <2>1, <2>3, StreamedQuiet DEF Complete, webview
  <2> QED
    BY <1>13, <2>2, <2>3 DEF Complete
<1>14. CASE SendTerminal
  <2>1. PICK e \in Events : e = out
    BY <1>t
  <2>2. Weight(e) = 0
    BY <2>1 DEF StreamInv, EndInv, TerminalTypes, Weight
  <2>3. \A s \in Int : Balance(s) => Balance(s + Weight(e))'
    <3>1. \A s \in Int : Balance(s) => Balance(s + 0)'
      BY <1>14, <1>t DEF SendTerminal, Balance, Unsent, loop
    <3> QED
      BY <2>2, <3>1
  <2> QED
    BY <1>14, <2>1, <2>3, StreamedSink DEF SendTerminal, webview
<1>15. CASE ActorStep /\ ~GivesUp /\ ~Panics /\ ~SendTerminal
  BY <1>15, <1>0 DEF ActorStep, InterruptedByToken, InterruptedByTimer, BackendCancelled,
     StoreTerminal, ReleaseSession, Deregister, loop, webview
<1>16. CASE HandleEvent
  <2> SUFFICES ASSUME Watching', pc' = "returned" => out'.type # "failed"
               PROVE  \E s \in Int : (Streamed(s) /\ Balance(s))'
    BY DEF StreamedInv
  <2>1. /\ chan # <<>> /\ chan' = Tail(chan) /\ alive' = alive
        /\ UNCHANGED <<pc, buf, total, out, paged>>
        /\ fe' = IF fe.current THEN Apply(Head(chan)) ELSE fe
    BY <1>16 DEF HandleEvent, loop
  <2>2. /\ Head(chan) = chan[1] /\ chan[1] \in Events /\ 1 \in 1..Len(chan)
    BY <1>t, <2>1
  <2>3. fe.current /\ fe' = Apply(chan[1])
    BY <2>1, <2>2 DEF Watching
  <2>4. PICK s \in Int : Streamed(s) /\ Balance(s)
    BY <2>1, <2>3 DEF StreamedInv, Watching
  <2>5. chan[1].type = "rows" => chan[1].seq = fe.nextSequence
    BY <2>1, <2>2, <2>3 DEF StreamInv, OrderInv, QueueOrder, Watching
  <2>6. ~fe.protocolError
    BY DEF StreamInv, OrderInv
  <2>7. fe'.rows = fe.rows + Weight(chan[1]) /\ fe.rows \in Int
    <3>1. fe.rows \in Int
      BY <1>t DEF Snapshots
    <3>2. CASE chan[1].type = "rows"
      BY <1>t, <2>2, <2>3, <2>5, <2>6, <3>2, ApplyDelivers DEF Weight, Snapshots
    <3>3. CASE chan[1].type \in TerminalTypes
      BY <1>t, <2>2, <2>3, <2>6, <3>1, <3>3, ApplyDelivers DEF Weight, TerminalTypes
    <3>4. CASE chan[1].type \notin TerminalTypes /\ chan[1].type # "rows"
      BY <1>t, <2>3, <3>1, <3>4 DEF Weight, Apply, Snapshots
    <3> QED
      BY <3>1, <3>2, <3>3, <3>4
  <2>8. Streamed(s)'
    BY <1>t, <2>1, <2>4, <2>7, StreamedTail
  <2>9. Balance(s)'
    BY <2>1, <2>4 DEF Balance, Unsent
  <2> QED
    BY <2>8, <2>9
<1>17. CASE DisposeResult
  BY <1>17, <1>t DEF DisposeResult, StreamedInv, Watching, Snapshots
<1>18. CASE WebviewGone
  BY <1>18 DEF WebviewGone, StreamedInv, Watching
<1>19. CASE WebviewStep /\ ~HandleEvent /\ ~DisposeResult /\ ~WebviewGone
  BY <1>19, <1>0 DEF WebviewStep, QueryCancel, AckChunk, loop, webview
<1>20. CASE UNCHANGED vars
  BY <1>20, <1>0 DEF vars, loop, webview
<1> QED
  BY <1>1, <1>2, <1>3, <1>4, <1>5, <1>6, <1>7, <1>8, <1>9, <1>10, <1>11, <1>12, <1>13,
     <1>14, <1>15, <1>16, <1>17, <1>18, <1>19, <1>20 DEF Next, RunStep

(* The tab shows the outcome run_execution returned, and no other. *)
ShownInv ==
    /\ \A i \in 1..Len(chan) : chan[i].type \in TerminalTypes => chan[i] = out
    /\ Watching /\ fe.status \in Counted =>
         /\ fe.status = out.type /\ fe.rowCount = out.rows /\ fe.truncated = out.trunc
         /\ fe.hasMoreRows = (paged /\ out.rows > fe.rows)

(* What a terminal event leaves in the tab. *)
LEMMA ApplyShows ==
    ASSUME fe \in Snapshots, NEW e \in Events, ~fe.protocolError,
           e.type \in Counted
    PROVE  /\ Apply(e).status = e.type /\ Apply(e).rowCount = e.rows
           /\ Apply(e).truncated = e.trunc /\ Apply(e).rows = fe.rows
           /\ Apply(e).hasMoreRows = (paged /\ e.rows > fe.rows)
BY DEF Apply, Snapshots, TerminalTypes, Counted

LEMMA ShownStep ==
    TypeOK /\ StreamInv /\ StreamInv' /\ ShownInv /\ [Next]_vars => ShownInv'
<1> SUFFICES ASSUME TypeOK, StreamInv, StreamInv', ShownInv, [Next]_vars PROVE ShownInv'
  OBVIOUS
<1>t. chan \in Seq(Events) /\ out \in Events /\ fe \in Snapshots /\ alive \in BOOLEAN
  BY DEF TypeOK
<1>0. CASE UNCHANGED <<chan, out, fe, alive, paged>>
  BY <1>0 DEF ShownInv, Watching
<1>1. CASE actor' \notin {"sent", "idle"}
  BY <1>1 DEF StreamInv, EndInv, ShownInv, Counted
<1>2. CASE actor' \in {"sent", "idle"} /\ RunStep
  <2>1. actor' = actor /\ pc # "returned"
    BY <1>2 DEF RunStep, Connect, ConnectFails, SetTimeout, Prepare, SetupFails, RowDrained,
       RowRefused, RowKept, PushRow, FlushCancelled, FlushWaits, FlushStalls, FlushGivesUp,
       FlushAcquires, FlushSends, StreamEnds, StreamFails, Complete
  <2> QED
    BY <1>2, <2>1 DEF StreamInv, EndInv, Over
<1>3. CASE SendTerminal
  <2>1. /\ actor = "released" /\ UNCHANGED <<out, fe, alive, paged>>
        /\ chan' = chan \/ chan' = Append(chan, out)
    BY <1>3 DEF SendTerminal, Sink, webview
  <2>2. fe.status = "running"
    BY <2>1 DEF StreamInv, EndInv
  <2>3. \A i \in 1..Len(chan') : chan'[i].type \in TerminalTypes => chan'[i] = out
    <3>1. CASE chan' = chan
      BY <3>1 DEF ShownInv
    <3>2. CASE chan' = Append(chan, out)
      BY <1>t, <3>2 DEF ShownInv
    <3> QED
      BY <2>1, <3>1, <3>2
  <2> QED
    BY <2>1, <2>2, <2>3 DEF ShownInv, Counted
<1>4. CASE ActorStep /\ ~SendTerminal /\ actor' \in {"sent", "idle"}
  BY <1>4, <1>0 DEF ActorStep, InterruptedByToken, InterruptedByTimer, BackendCancelled, GivesUp,
     OutcomeUnknown, Panics, StoreTerminal, ReleaseSession, Deregister, webview
<1>5. CASE HandleEvent
  <2>1. /\ chan # <<>> /\ chan' = Tail(chan) /\ UNCHANGED <<alive, out, paged>>
        /\ fe' = IF fe.current THEN Apply(Head(chan)) ELSE fe
    BY <1>5 DEF HandleEvent
  <2>2. /\ Head(chan) = chan[1] /\ chan[1] \in Events /\ 1 \in 1..Len(chan)
        /\ Len(chan') = Len(chan) - 1 /\ Len(chan) \in Nat
        /\ \A i \in 1..Len(chan') : chan'[i] = chan[i + 1] /\ i + 1 \in 1..Len(chan)
    BY <1>t, <2>1
  <2>3. \A i \in 1..Len(chan') : chan'[i].type \in TerminalTypes => chan'[i] = out'
    BY <2>1, <2>2 DEF ShownInv
  <2>4. fe.status = "running" /\ ~fe.protocolError
    BY <2>2 DEF StreamInv, EndInv, OrderInv
  <2> SUFFICES ASSUME Watching', fe'.status \in Counted
               PROVE  /\ fe'.status = out.type /\ fe'.rowCount = out.rows
                      /\ fe'.truncated = out.trunc
                      /\ fe'.hasMoreRows = (paged /\ out.rows > fe'.rows)
    BY <2>1, <2>3 DEF ShownInv
  <2>5. fe.current /\ fe' = Apply(chan[1])
    BY <2>1, <2>2, <2>4 DEF Counted
  <2>6. chan[1].type \in Counted
    <3>1. CASE chan[1].type \in TerminalTypes
      BY <1>t, <2>2, <2>4, <2>5, <3>1, ApplyDelivers
    <3>2. CASE chan[1].type \notin TerminalTypes
      <4>1. fe'.status \in {"running", "failed"}
        BY <1>t, <2>4, <2>5, <3>2 DEF Apply, Snapshots
      <4> QED
        BY <4>1 DEF Counted
    <3> QED
      BY <3>1, <3>2
  <2>7. chan[1] = out
    BY <2>2, <2>6 DEF ShownInv, Counted, TerminalTypes
  <2> QED
    BY <1>t, <2>2, <2>4, <2>5, <2>6, <2>7, ApplyShows
<1>6. CASE DisposeResult
  BY <1>6, <1>t DEF DisposeResult, ShownInv, Watching, Snapshots
<1>7. CASE WebviewGone
  BY <1>7 DEF WebviewGone, ShownInv, Watching
<1>8. CASE WebviewStep /\ ~HandleEvent /\ ~DisposeResult /\ ~WebviewGone
  BY <1>8, <1>0 DEF WebviewStep, QueryCancel, AckChunk, webview
<1>9. CASE UNCHANGED vars
  BY <1>9, <1>0 DEF vars, webview
<1> QED
  BY <1>1, <1>2, <1>3, <1>4, <1>5, <1>6, <1>7, <1>8, <1>9 DEF Next

(* Started reaches the tab first, unless the execution was given up on while *)
(* it connected: then the failure is all the tab ever sees.                  *)
StartInv ==
    /\ StartedBeforeRows
    /\ Watching => \/ fe.started
                   \/ Len(chan) > 0 /\ chan[1].type = "started"
                   \/ pc = "connect" /\ Len(chan) = 0
                   \/ /\ pc = "returned" /\ out.type = "failed"
                      /\ \A i \in 1..Len(chan) : chan[i].type = "failed"

(* A step that leaves the tab alone and sends, if anything, behind Started. *)
LEMMA StartKeeps ==
    ASSUME TypeOK, StartInv, UNCHANGED <<fe, alive>>,
           chan' = chan \/ \E e \in Events : Sink(e),
           pc # "connect", pc # "returned" \/ UNCHANGED <<pc, out, chan>>
    PROVE  StartInv'
<1>1. CASE chan' = chan
  BY <1>1 DEF StartInv, StartedBeforeRows, Watching
<1>2. ASSUME NEW e \in Events, chan' = Append(chan, e) PROVE StartInv'
  <2>1. chan \in Seq(Events)
    BY DEF TypeOK
  <2>2. Len(chan) > 0 => Len(chan') > 0 /\ chan'[1] = chan[1]
    BY <1>2, <2>1
  <2> QED
    BY <1>2, <2>2, <1>1 DEF StartInv, StartedBeforeRows, Watching
<1> QED
  BY <1>1, <1>2 DEF Sink

LEMMA StartStep == TypeOK /\ StreamInv /\ StartInv /\ [Next]_vars => StartInv'
<1> SUFFICES ASSUME TypeOK, StreamInv, StartInv, [Next]_vars PROVE StartInv'
  OBVIOUS
<1>t. /\ chan \in Seq(Events) /\ out \in Events /\ fe \in Snapshots /\ alive \in BOOLEAN
      /\ Len(chan) \in Nat
      /\ seq \in Nat /\ buf \in Nat
  BY DEF TypeOK
<1>e. /\ Started \in Events /\ Columns \in Events /\ Command \in Events
      /\ Rows(seq, buf) \in Events /\ Started.type = "started" /\ Failed.type = "failed"
  BY <1>t DEF Started, Columns, Command, Rows, Failed, Event, Events, EventTypes
<1>0. CASE UNCHANGED <<chan, out, fe, alive, pc>>
  BY <1>0 DEF StartInv, StartedBeforeRows, Watching
<1>1. CASE Connect \/ ConnectFails
  <2>1. UNCHANGED <<fe, alive>> /\ Sink(Started)
    BY <1>1 DEF Connect, ConnectFails, webview
  <2>2. Watching => \/ fe.started
                    \/ Len(chan') > 0 /\ chan'[1].type = "started"
    <3>1. SUFFICES ASSUME Watching
                   PROVE  \/ fe.started
                          \/ Len(chan') > 0 /\ chan'[1].type = "started"
      OBVIOUS
    <3>2. pc = "connect" /\ chan' = Append(chan, Started)
      BY <1>1, <2>1, <3>1 DEF Connect, ConnectFails, Sink, Watching
    <3> QED
      BY <1>t, <1>e, <3>1, <3>2 DEF StartInv
  <2> QED
    BY <2>1, <2>2 DEF StartInv, StartedBeforeRows, Watching
<1>2. CASE RunStep /\ ~Connect /\ ~ConnectFails
  <2>1. /\ pc \notin {"connect", "returned"} /\ UNCHANGED <<fe, alive>>
        /\ \/ chan' = chan \/ Sink(Columns) \/ Sink(Command) \/ Sink(Rows(seq, buf))
    BY <1>2 DEF RunStep, SetTimeout, Prepare, SetupFails, RowDrained,
       RowRefused, RowKept, PushRow, FlushCancelled, FlushWaits, FlushStalls, FlushGivesUp,
       FlushAcquires, FlushSends, StreamEnds, StreamFails, Complete, webview
  <2> QED
    BY <1>e, <2>1, StartKeeps
<1>3. CASE GivesUp \/ Panics
  <2>1. UNCHANGED <<fe, alive, chan>> /\ pc' = "returned" /\ out' = Failed /\ pc # "returned"
    BY <1>3 DEF GivesUp, Panics, OutcomeUnknown, AtAwait, webview
  <2> QED
    BY <1>e, <2>1 DEF StartInv, StartedBeforeRows, Watching
<1>4. CASE SendTerminal
  <2>1. /\ actor = "released" /\ UNCHANGED <<pc, out, fe, alive>>
        /\ chan' = chan \/ chan' = Append(chan, out)
    BY <1>4 DEF SendTerminal, Sink, webview
  <2>2. pc = "returned"
    BY <2>1 DEF StreamInv, EndInv, Over
  <2>3. CASE chan' = chan
    BY <2>1, <2>3, <1>0
  <2>4. CASE chan' = Append(chan, out)
    <3>1. Len(chan) > 0 => Len(chan') > 0 /\ chan'[1] = chan[1]
      BY <1>t, <2>4
    <3>2. out.type = "failed" /\ (\A i \in 1..Len(chan) : chan[i].type = "failed")
            => \A i \in 1..Len(chan') : chan'[i].type = "failed"
      BY <1>t, <2>4
    <3> QED
      BY <2>1, <2>2, <3>1, <3>2 DEF StartInv, StartedBeforeRows, Watching
  <2> QED
    BY <2>1, <2>3, <2>4
<1>5. CASE ActorStep /\ ~GivesUp /\ ~Panics /\ ~SendTerminal
  BY <1>5, <1>0 DEF ActorStep, InterruptedByToken, InterruptedByTimer, BackendCancelled,
     StoreTerminal, ReleaseSession, Deregister, webview
<1>6. CASE HandleEvent
  <2>1. /\ chan # <<>> /\ chan' = Tail(chan) /\ UNCHANGED <<alive, out, pc>> /\ alive
        /\ fe' = IF fe.current THEN Apply(Head(chan)) ELSE fe
    BY <1>6 DEF HandleEvent
  <2>2. /\ Head(chan) = chan[1] /\ chan[1] \in Events /\ 1 \in 1..Len(chan)
        /\ Len(chan') = Len(chan) - 1
        /\ \A i \in 1..Len(chan') : chan'[i] = chan[i + 1] /\ i + 1 \in 1..Len(chan)
    BY <1>t, <2>1
  <2>3. CASE ~fe.current
    BY <2>1, <2>3 DEF StartInv, StartedBeforeRows, Watching
  <2>4. CASE fe.current
    <3>1. fe' = Apply(chan[1])
      BY <2>1, <2>2, <2>4
    <3>2. CASE fe.started \/ chan[1].type = "started"
      <4>1. fe'.started
        <5>1. CASE chan[1].type = "rows"
          BY <1>t, <3>1, <3>2, <5>1 DEF Apply, Snapshots
        <5>2. CASE chan[1].type \in TerminalTypes
          BY <1>t, <3>1, <3>2, <5>2 DEF Apply, Snapshots, TerminalTypes
        <5>3. CASE chan[1].type \notin TerminalTypes /\ chan[1].type # "rows"
          BY <1>t, <3>1, <3>2, <5>3 DEF Apply, Snapshots
        <5> QED
          BY <5>1, <5>2, <5>3
      <4> QED
        BY <4>1 DEF StartInv, StartedBeforeRows
    <3>3. CASE ~fe.started /\ chan[1].type # "started"
      <4>1. /\ pc = "returned" /\ out.type = "failed"
            /\ \A i \in 1..Len(chan) : chan[i].type = "failed"
        BY <2>1, <2>2, <2>4, <3>3 DEF StartInv, Watching
      <4>2. fe'.status = "failed" /\ fe'.rows = fe.rows
        BY <1>t, <2>2, <3>1, <4>1, ApplyDelivers DEF StreamInv, OrderInv, TerminalTypes
      <4>3. ~(fe.rows > 0)
        BY <2>4, <3>3 DEF StartInv, StartedBeforeRows
      <4>4. StartedBeforeRows'
        BY <4>2, <4>3 DEF StartedBeforeRows
      <4> QED
        BY <2>1, <2>2, <4>1, <4>4 DEF StartInv
    <3> QED
      BY <3>2, <3>3
  <2> QED
    BY <2>3, <2>4
<1>7. CASE DisposeResult
  BY <1>7, <1>t DEF DisposeResult, StartInv, StartedBeforeRows, Watching, Snapshots
<1>8. CASE WebviewGone
  BY <1>8 DEF WebviewGone, StartInv, StartedBeforeRows, Watching
<1>9. CASE WebviewStep /\ ~HandleEvent /\ ~DisposeResult /\ ~WebviewGone
  BY <1>9, <1>0 DEF WebviewStep, QueryCancel, AckChunk, webview
<1>10. CASE UNCHANGED vars
  BY <1>10, <1>0 DEF vars, webview
<1> QED
  BY <1>1, <1>2, <1>3, <1>4, <1>5, <1>6, <1>7, <1>8, <1>9, <1>10 DEF Next

(* ResultIsTrue: for any window, chunk, page and limit, and whatever is      *)
(* cancelled, stalled, refused or dropped on the way, the row count a        *)
(* finished result shows is of rows that can be seen, a result shown as      *)
(* whole is whole, and the execution's id came first (run_execution,         *)
(* flush_chunk, ResultStore).                                                *)
THEOREM ResultsAreTrue == Spec => []ResultIsTrue
<1>1. Init => LoopInv /\ StreamedInv /\ ShownInv /\ StartInv
  <2> SUFFICES ASSUME Init PROVE LoopInv /\ StreamedInv /\ ShownInv /\ StartInv
    OBVIOUS
  <2>1. LoopInv
    BY DEF Init, LoopInv, Pending
  <2>2. StreamedInv
    <3>1. Len(chan) = 0 /\ fe.rows = 0
      BY DEF Init
    <3> DEFINE c == [i \in 1..1 |-> 0]
    <3>2. c \in [1..1 -> Int] /\ c[1] = 0
      OBVIOUS
    <3> HIDE DEF c
    <3>3. Streamed(0)
      BY <3>1, <3>2 DEF Streamed
    <3>4. Balance(0)
      BY DEF Init, Balance, Unsent
    <3> QED
      BY <3>3, <3>4 DEF StreamedInv
  <2>3. ShownInv
    BY DEF Init, ShownInv, Counted
  <2>4. StartInv
    BY DEF Init, StartInv, StartedBeforeRows
  <2> QED
    BY <2>1, <2>2, <2>3, <2>4
<1>2. TypeOK /\ StreamInv /\ LoopInv /\ StreamedInv /\ ShownInv /\ StartInv => ResultIsTrue
  <2> SUFFICES ASSUME TypeOK, StreamInv, LoopInv, StreamedInv, ShownInv, StartInv
               PROVE  CountIsHeld /\ CompleteHasAllRows
    BY DEF ResultIsTrue, StartInv
  <2> SUFFICES ASSUME Settled PROVE CountIsHeld /\ CompleteHasAllRows
    BY DEF CountIsHeld, CompleteHasAllRows
  <2>1. /\ fe.status = out.type /\ fe.rowCount = out.rows /\ fe.truncated = out.trunc
        /\ fe.hasMoreRows = (paged /\ out.rows > fe.rows)
        /\ out.type \in Counted
    BY DEF ShownInv, Settled, Watching, Counted
  <2>2. pc = "returned" /\ Len(chan) = 0
    BY DEF StreamInv, EndInv, Settled, Over
  <2>3. PICK s \in Int : Streamed(s) /\ Balance(s)
    BY <2>1 DEF StreamedInv, Settled, Watching, Counted
  <2>4. s = fe.rows
    BY <2>2, <2>3, StreamedAll DEF TypeOK
  <2>5. IF paged THEN fe.rows <= total ELSE fe.rows = total
    BY <2>2, <2>3, <2>4 DEF Balance, Unsent
  <2>6. /\ out.rows = total
        /\ paged => total <= retained
        /\ out.type = "completed" /\ ~out.trunc =>
             produced = total /\ (paged => retained = total)
    BY <2>1, <2>2 DEF LoopInv
  <2>7. total \in Int /\ retained \in Nat /\ produced \in Nat /\ fe.rows \in Int
    BY DEF TypeOK, Snapshots
  <2>8. CountIsHeld
    BY <2>1, <2>5, <2>6 DEF CountIsHeld
  <2>9. CompleteHasAllRows
    BY <2>1, <2>5, <2>6, <2>7 DEF CompleteHasAllRows
  <2> QED
    BY <2>8, <2>9
<1> QED
  BY <1>1, <1>2, LoopStep, StreamedStep, ShownStep, StartStep, TypeCorrect, StreamInvariant, PTL
  DEF Spec

-----------------------------------------------------------------------------
(* Transaction tracking, the other half of the session actor: proofs about   *)
(* SessionTransaction, for every set of statements that leaves PREPARE       *)
(* TRANSACTION out. It shares no state with the streaming of a result.       *)

(* What a session's user runs. *)
Plain == AllStatements \ {"prepare transaction"}

(* Tracking agrees with the server after every success ... *)
LEMMA SuccessAgrees ==
    ASSUME NEW s \in Plain, NEW b \in States, NEW c \in Succeeds(s, b)
    PROVE  c = TxnAfterSuccess(b, s) /\ c \in States
BY DEF Plain, AllStatements, States, Succeeds, TxnAfterSuccess

(* ... and after every failure. *)
LEMMA FailureAgrees ==
    ASSUME NEW s \in Plain, NEW b \in States, NEW c \in Fails(s, b)
    PROVE  c = TxnAfterFailure(b, s) /\ c \in States
BY DEF Plain, AllStatements, States, Fails, TxnAfterFailure, TxnAfterError, AfterServerError

LEMMA ErrorAgrees ==
    ASSUME NEW b \in States
    PROVE  AfterServerError(b) = TxnAfterError(b) /\ TxnAfterError(b) \in States
BY DEF States, AfterServerError, TxnAfterError

(* The inductive invariant: the guess is right at every step, not only       *)
(* between statements, and the copy lags only while a statement finishes.    *)
TrackInv ==
    /\ stmt \in Plain
    /\ server.block # "closed" => slot /\ txn = server.block
    /\ ~slot /\ place # "gone" => txn = "Idle"
    /\ place # "finish" => transaction = txn
    /\ claimed => place \notin {"rest", "gone"}
    /\ ~claimed => place \in {"rest", "gone"}
    /\ place = "gone" => server.block = "closed"
    /\ table => txn = "Idle" /\ stmt = "other"
    /\ place = "page" => table
    /\ close # "none" => ~open
    /\ close = "keep" => ~claimed /\ txn = "Idle"
    /\ server.ended # "dropped"
    /\ place # "gone" /\ server.ended = "rolled back" => tag \notin {"commit", "commit and chain"}

ServerStates == [block : States \cup {"closed"},
                 ended : {"none", "committed", "rolled back", "dropped"}]

(* The fail! path ends with the server's state tracked. *)
LEMMA TrackFail ==
    ASSUME TxnTypeOK, TrackInv, place \in {"connect", "set", "prepare"}, Fail
    PROVE  TxnTypeOK' /\ TrackInv'
<1> DEFINE b == IF server.block = "closed" THEN "closed" ELSE AfterServerError(server.block)
<1>0. /\ server \in ServerStates
      /\ server' = [server EXCEPT !.block = b]
      /\ place' = "finish" /\ txn \in States
      /\ UNCHANGED <<open, table, stmt, transaction, claimed, close, tag>>
  BY DEF Fail, TxnTypeOK, ServerStates
<1>1. CASE server.block = "closed"
  <2>1. b = "closed"
    BY <1>1
  <2>2. server' \in ServerStates /\ server'.block = "closed" /\ server'.ended = server.ended
    BY <1>0, <2>1 DEF ServerStates
  <2>3. txn' = "Idle"
    BY <2>2 DEF Fail, Discarded, TxnAfterError
  <2>4. slot' \in BOOLEAN
    BY <2>2, Zenon DEF Fail, Kept
  <2> QED
    BY <1>0, <2>2, <2>3, <2>4 DEF TxnTypeOK, TrackInv, States, ServerStates
<1>2. CASE server.block # "closed"
  <2>1. /\ server.block \in States /\ b = AfterServerError(server.block)
        /\ txn = server.block /\ slot = TRUE
    BY <1>0, <1>2 DEF TxnTypeOK, TrackInv, ServerStates
  <2>2. b \in States /\ b = TxnAfterError(txn) /\ b # "closed"
    BY <2>1, ErrorAgrees DEF States
  <2>3. server' \in ServerStates /\ server'.block = b /\ server'.ended = server.ended
    BY <1>0, <2>2 DEF ServerStates
  <2>4. slot' = TRUE /\ txn' = b
    BY <2>1, <2>2, <2>3 DEF Fail, Kept, Discarded
  <2>5. table => b = "Idle"
    BY <2>2 DEF TrackInv, TxnAfterError
  <2> QED
    BY ZenonT(120), <1>0, <2>2, <2>3, <2>4, <2>5 DEF TxnTypeOK, TrackInv, States, ServerStates
<1> QED
  BY <1>1, <1>2

LEMMA TrackRun == TxnTypeOK /\ TrackInv /\ Run => TxnTypeOK' /\ TrackInv'
<1> SUFFICES ASSUME TxnTypeOK, TrackInv, Run PROVE TxnTypeOK' /\ TrackInv'
  OBVIOUS
<1>1. PICK c \in Succeeds(stmt, server.block) :
        server' = [block |-> c, ended |-> Ending(stmt, server.block)]
  BY DEF Run
<1>2. server.block \in States /\ stmt \in Plain /\ txn = server.block /\ slot
  BY DEF Run, TxnTypeOK, TrackInv
<1>3. c = TxnAfterSuccess(server.block, stmt) /\ c \in States
  BY <1>2, SuccessAgrees
<1>4. Ending(stmt, server.block) \in {"none", "committed", "rolled back"}
  BY DEF Ending
<1>5. /\ server' \in ServerStates /\ server'.block = c /\ server'.ended # "dropped"
      /\ txn' = c
  BY <1>1, <1>2, <1>3, <1>4 DEF ServerStates, Run
<1>6. tag' \in AllStatements
  BY <1>2 DEF Run, Tag, Plain, AllStatements
<1>8. server'.ended = "rolled back" => tag' \notin {"commit", "commit and chain"}
  BY <1>1, <1>2 DEF Run, Tag, Ending, States
<1>7. table => txn' = "Idle"
  BY <1>2, <1>3, <1>5 DEF TrackInv, TxnAfterSuccess
<1> QED
  BY ZenonT(120), <1>2, <1>3, <1>5, <1>6, <1>7, <1>8 DEF Run, TxnTypeOK, TrackInv, States, ServerStates

LEMMA TrackRunFails == TxnTypeOK /\ TrackInv /\ RunFails => TxnTypeOK' /\ TrackInv'
<1> SUFFICES ASSUME TxnTypeOK, TrackInv, RunFails PROVE TxnTypeOK' /\ TrackInv'
  OBVIOUS
<1>0. /\ server \in ServerStates /\ place = "run" /\ place' = "finish" /\ stmt \in Plain
      /\ txn \in States
      /\ UNCHANGED <<open, table, stmt, transaction, claimed, close, tag>>
  BY DEF RunFails, TxnTypeOK, TrackInv, ServerStates
<1>1. CASE server' = Gone
  <2>1. server' \in ServerStates /\ server'.block = "closed" /\ server'.ended = server.ended
    BY <1>0, <1>1 DEF Gone, ServerStates
  <2>2. txn' = "Idle"
    BY <2>1 DEF RunFails, Discarded, TxnAfterFailure, TxnAfterError
  <2>3. slot' \in BOOLEAN
    BY <2>1, Zenon DEF RunFails, Kept
  <2> QED
    BY <1>0, <2>1, <2>2, <2>3 DEF TxnTypeOK, TrackInv, States, ServerStates
<1>2. ASSUME server.block # "closed", NEW c \in Fails(stmt, server.block),
             server' = [server EXCEPT !.block = c]
      PROVE  TxnTypeOK' /\ TrackInv'
  <2>1. server.block \in States /\ txn = server.block /\ slot = TRUE
    BY <1>0, <1>2 DEF TxnTypeOK, TrackInv, ServerStates
  <2>2. c = TxnAfterFailure(txn, stmt) /\ c \in States /\ c # "closed"
    BY <1>0, <2>1, FailureAgrees DEF States
  <2>3. server' \in ServerStates /\ server'.block = c /\ server'.ended = server.ended
    BY <1>0, <1>2, <2>2 DEF ServerStates
  <2>4. slot' = TRUE /\ txn' = c
    BY <2>1, <2>2, <2>3 DEF RunFails, Kept, Discarded
  <2>5. table => c = "Idle"
    BY <2>2 DEF TrackInv, TxnAfterFailure, TxnAfterError
  <2> QED
    BY ZenonT(120), <1>0, <2>2, <2>3, <2>4, <2>5 DEF TxnTypeOK, TrackInv, States, ServerStates
<1> QED
  BY <1>1, <1>2 DEF RunFails

LEMMA TrackNext ==
    ASSUME Statements \subseteq Plain, TxnTypeOK, TrackInv, [TxnNext]_txnVars
    PROVE  TxnTypeOK' /\ TrackInv'
<1>4. CASE ConnectRefused
  BY <1>4, TrackFail DEF ConnectRefused
<1>6. CASE SetFails
  BY <1>6, TrackFail DEF SetFails
<1>9. CASE PrepareFails
  BY <1>9, TrackFail DEF PrepareFails
<1> USE DEF TxnTypeOK, TrackInv
<1>g. /\ Gone \in ServerStates /\ Gone.block = "closed" /\ Gone.ended = server.ended
      /\ server \in ServerStates
  BY DEF Gone, ServerStates
<1>s. \A s \in Statements : s \in Plain
  OBVIOUS
<1>1. CASE UNCHANGED txnVars
  BY ZenonT(120), <1>1 DEF txnVars
<1>2. ASSUME NEW s \in Statements, Claim(s) PROVE TxnTypeOK' /\ TrackInv'
  BY <1>2, <1>s DEF Claim, Plain
<1>3. CASE Connected
  <2>1. server' \in ServerStates /\ server'.ended = server.ended
        /\ server'.block = IF slot THEN server.block ELSE "Idle"
    BY <1>3, <1>g DEF Connected, ServerStates, States
  <2> QED
    BY ZenonT(120), <1>3, <2>1 DEF Connected, ServerStates
<1>5. CASE Set
  BY <1>5 DEF Set
<1>7. CASE CancelledEarly
  BY <1>7 DEF CancelledEarly
<1>8. CASE Prepared
  BY <1>8 DEF Prepared
<1>10. CASE Run
  BY <1>10, TrackRun
<1>11. CASE RunFails
  BY <1>11, TrackRunFails
<1>12. CASE OutcomeLost
  <2>1. slot' \in BOOLEAN /\ ~slot'
    BY <1>12, Zenon DEF OutcomeLost
  <2> QED
    BY ZenonT(120), <1>12, <1>g, <2>1 DEF OutcomeLost, ServerStates, States
<1>13. CASE StoreTransaction
  BY ZenonT(120), <1>13 DEF StoreTransaction
<1>14. CASE Free
  <2>1. claimed' \in BOOLEAN /\ ~claimed'
    BY <1>14, Zenon DEF Free
  <2> QED
    BY ZenonT(120), <1>14, <2>1 DEF Free
<1>15. CASE ClaimPage
  BY <1>15 DEF ClaimPage
<1>16. CASE PageDone
  <2>0. claimed' \in BOOLEAN /\ ~claimed'
    BY <1>16, Zenon DEF PageDone
  <2>f. /\ place = "page" /\ place' = "rest"
        /\ UNCHANGED <<open, table, stmt, txn, transaction, close, tag>>
    BY <1>16 DEF PageDone
  <2>1. CASE UNCHANGED <<slot, server>>
    BY <1>16, <2>0, <2>1 DEF PageDone
  <2>2. CASE slot /\ server.block # "closed" /\ UNCHANGED slot
             /\ server' = [server EXCEPT !.block = AfterServerError(@)]
    <3>1. /\ server' \in ServerStates /\ server'.ended = server.ended
          /\ server'.block = TxnAfterError(txn)
      BY <1>g, <2>2, ErrorAgrees DEF ServerStates
    <3> QED
      BY <2>0, <2>f, <2>2, <3>1 DEF ServerStates, TxnAfterError, States
  <2>3. CASE slot /\ slot' = FALSE /\ server' = Gone
    <3>1. slot' \in BOOLEAN /\ ~slot'
      BY <2>3, Zenon
    <3> QED
      BY <1>g, <2>0, <2>f, <2>3, <3>1 DEF ServerStates, States
  <2> QED
    BY <1>16, <2>1, <2>2, <2>3 DEF PageDone
<1>17. ASSUME NEW rollback \in BOOLEAN, SessionClose(rollback) PROVE TxnTypeOK' /\ TrackInv'
  <2>1. open' \in BOOLEAN /\ ~open'
    BY <1>17, Zenon DEF SessionClose
  <2> QED
    BY ZenonT(120), <1>17, <2>1 DEF SessionClose
<1>18. CASE Close
  <2>1. slot' \in BOOLEAN /\ ~slot'
    BY <1>18, Zenon DEF Close
  <2>2. server' \in ServerStates /\ server'.block = "closed" /\ server'.ended # "dropped"
    BY <1>18, <1>g DEF Close, ServerStates
  <2> QED
    BY <1>18, <2>1, <2>2 DEF Close, ServerStates
<1>19. CASE ServerDies
  BY ZenonT(120), <1>19, <1>g DEF ServerDies, ServerStates
<1> QED
  BY <1>1, <1>2, <1>3, <1>4, <1>5, <1>6, <1>7, <1>8, <1>9, <1>10, <1>11, <1>12,
     <1>13, <1>14, <1>15, <1>16, <1>17, <1>18, <1>19 DEF TxnNext

(* The guess is right at every step, whatever else the user runs. *)
THEOREM TrackInvariant ==
    ASSUME Statements \subseteq Plain
    PROVE  TxnSpec => [](TxnTypeOK /\ TrackInv)
<1>1. TxnInit => TxnTypeOK /\ TrackInv
  <2> SUFFICES ASSUME TxnInit PROVE TxnTypeOK /\ TrackInv
    OBVIOUS
  <2>1. slot \in BOOLEAN /\ claimed \in BOOLEAN /\ ~slot /\ ~claimed
    BY Zenon DEF TxnInit
  <2> QED
    BY <2>1 DEF TxnInit, TxnTypeOK, TrackInv, Plain, AllStatements, States
<1>2. (TxnTypeOK /\ TrackInv) /\ [TxnNext]_txnVars => (TxnTypeOK /\ TrackInv)'
  BY TrackNext
<1> QED
  BY <1>1, <1>2, PTL DEF TxnSpec

(* The tab shows the server's transaction state (TrackedMatchesServer).      *)
THEOREM TrackingIsRight ==
    ASSUME Statements \subseteq Plain
    PROVE  TxnSpec => [](TxnTypeOK /\ TrackedMatchesServer)
<1>1. TxnTypeOK /\ TrackInv => TrackedMatchesServer
  BY DEF TxnTypeOK, TrackInv, TrackedMatchesServer
<1> QED
  BY <1>1, TrackInvariant, PTL

(* Recovery statements get through an aborted block: the SET ahead of them   *)
(* is left out whenever the server would refuse it (RecoveryReachesServer).  *)
THEOREM RecoveryGetsThrough ==
    ASSUME Statements \subseteq Plain
    PROVE  TxnSpec => []RecoveryReachesServer
<1>1. TxnTypeOK /\ TrackInv => RecoveryReachesServer
  BY DEF TxnTypeOK, TrackInv, RecoveryReachesServer
<1> QED
  BY <1>1, TrackInvariant, PTL

(* A close that was not confirmed drops no open transaction: session_close   *)
(* reads busy and the copy when both say that nothing is open                *)
(* (CloseDropsNothing).                                                      *)
THEOREM UnconfirmedCloseIsSafe ==
    ASSUME Statements \subseteq Plain
    PROVE  TxnSpec => []CloseDropsNothing
<1>1. TxnTypeOK /\ TrackInv => CloseDropsNothing
  BY DEF TrackInv, CloseDropsNothing
<1> QED
  BY <1>1, TrackInvariant, PTL

(* A COMMIT that the server turned into a rollback is not reported as a      *)
(* commit, now or under a later failure (CommitTagIsTrue).                   *)
THEOREM ReportedCommitIsOne ==
    ASSUME Statements \subseteq Plain
    PROVE  TxnSpec => []CommitTagIsTrue
<1>1. TxnTypeOK /\ TrackInv => CommitTagIsTrue
  BY DEF TrackInv, CommitTagIsTrue
<1> QED
  BY <1>1, TrackInvariant, PTL
=============================================================================
