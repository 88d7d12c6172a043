------------------------- MODULE SessionTransaction -------------------------
(***************************************************************************)
(* The transaction state a session actor tracks against the one PostgreSQL *)
(* is in.  sqlx does not expose the server's ReadyForQuery status, so       *)
(* session_actor.rs infers it from the statement's first words and from     *)
(* whether the statement failed; the tab's status, the SET before every     *)
(* statement and session_close all rely on the guess.                       *)
(*                                                                         *)
(* A statement is what command_words tells apart.  The server is external:  *)
(* it is modelled by the transaction block rules of PostgreSQL that the     *)
(* code's comments and tests appeal to.                                     *)
(***************************************************************************)
EXTENDS Naturals

CONSTANT Statements   \* the kinds of statement the user runs

AllStatements ==
    {"begin", "commit", "commit and chain", "rollback", "rollback and chain",
     "rollback to", "commit prepared", "prepare transaction", "other"}

ASSUME StatementAssumption == Statements \subseteq AllStatements

VARIABLES
    open,         \* the session is in ws.sessions
    table,        \* the session of a Table Data tab, which runs no user SQL
    place,        \* where the actor is
    stmt,         \* the statement of the current execution
    slot,         \* conn_slot.is_some()
    txn,          \* the actor's own transaction state
    transaction,  \* the shared copy the commands read
    claimed,      \* busy
    close,        \* the Close message in the mailbox
    tag,          \* the command tag of the last completed statement
    server        \* the backend: its transaction block and how the last one ended

txnVars == <<open, table, place, stmt, slot, txn, transaction, claimed, close, tag, server>>

States == {"Idle", "InTransaction", "FailedTransaction"}

-----------------------------------------------------------------------------
(* The server, external. *)

(* A backend that is gone has no transaction; block is "closed". *)
Gone == [block |-> "closed", ended |-> server.ended]

(* An error inside a block aborts it; outside there is nothing to abort. *)
AfterServerError(b) == IF b = "Idle" THEN "Idle" ELSE "FailedTransaction"

(* Blocks the server can be in after statement s succeeded in block b; the   *)
(* empty set when it cannot succeed there.                                   *)
Succeeds(s, b) ==
    CASE s = "begin"               -> IF b = "FailedTransaction" THEN {} ELSE {"InTransaction"}
      [] s \in {"commit", "rollback", "prepare transaction"} -> {"Idle"}
      [] s \in {"commit and chain", "rollback and chain"} ->
           IF b = "Idle" THEN {} ELSE {"InTransaction"}
      [] s = "rollback to"         -> IF b = "Idle" THEN {} ELSE {"InTransaction"}
      [] s = "commit prepared"     -> IF b = "Idle" THEN {"Idle"} ELSE {}
      [] s = "other"               -> IF b = "FailedTransaction" THEN {} ELSE {b}

(* Blocks after s failed while it ran.  A failing COMMIT or PREPARE          *)
(* TRANSACTION of an open block rolls it back; one of an aborted block does  *)
(* not fail.  Other errors abort the block.  (Assumed: an error of COMMIT    *)
(* comes from committing, not from a cancel that hits before it starts.)     *)
Fails(s, b) ==
    CASE s \in {"commit", "commit and chain", "prepare transaction"} ->
           IF b = "FailedTransaction" THEN {} ELSE {"Idle"}
      [] s \in {"rollback", "rollback and chain"} /\ b # "Idle" -> {}
      [] OTHER -> {AfterServerError(b)}

(* How the block that s closed ended, if it closed one. *)
Ending(s, b) ==
    IF s \in {"commit", "commit and chain"} /\ b = "InTransaction" THEN "committed"
    ELSE IF s \in {"commit", "commit and chain", "rollback", "rollback and chain"}
              /\ b # "Idle" THEN "rolled back"
    ELSE "none"

-----------------------------------------------------------------------------
(* Tracking *)

(* Mutated form of txn_after_success: AND CHAIN is not looked at. *)
TxnAfterSuccessNoChain(t, s) ==
    CASE s \in {"begin", "rollback to"} -> "InTransaction"
      [] s \in {"commit", "commit and chain", "commit prepared", "rollback",
                "rollback and chain", "prepare transaction"} -> "Idle"
      [] OTHER -> t

(* txn_after_success *)
TxnAfterSuccess(t, s) ==
    CASE s \in {"begin", "rollback to", "commit and chain", "rollback and chain"} ->
           "InTransaction"
      [] s \in {"commit", "commit prepared", "rollback", "prepare transaction"} -> "Idle"
      [] OTHER -> t

(* Mutated form of txn_after_error: an error leaves the block as it was. *)
TxnAfterErrorUnchanged(t) == t

(* txn_after_error *)
TxnAfterError(t) == IF t = "Idle" THEN "Idle" ELSE "FailedTransaction"

(* The statement itself failed: COMMIT errors end the transaction, but       *)
(* COMMIT PREPARED is about another one.                                     *)
TxnAfterFailure(t, s) ==
    IF s \in {"commit", "commit and chain"} THEN "Idle" ELSE TxnAfterError(t)

(* discard_broken_connection keeps a connection that still answers a ping. *)
Discarded(c, t) == IF c /\ server'.block # "closed" THEN t ELSE "Idle"
Kept(c) == c /\ server'.block # "closed"

-----------------------------------------------------------------------------
(* An execution: claimed, connected, SET, prepared, run, finished. *)

Claim(s) ==
    /\ open /\ ~claimed /\ place = "rest"
    /\ table => s = "other"
    /\ claimed' = TRUE
    /\ stmt' = s
    /\ place' = "connect"
    /\ UNCHANGED <<open, table, slot, txn, transaction, close, tag, server>>

Connected ==
    /\ place = "connect"
    /\ slot' = TRUE
    /\ server' = IF slot THEN server ELSE [block |-> "Idle", ended |-> server.ended]
    /\ place' = "set"
    /\ UNCHANGED <<open, table, stmt, txn, transaction, claimed, close, tag>>

(* fail!: an error aborts an open block, a dead connection is discarded, and *)
(* txn_after_error.                                                          *)
Fail ==
    /\ server' = [server EXCEPT !.block = IF @ = "closed" THEN @ ELSE AfterServerError(@)]
    /\ slot' = Kept(slot)
    /\ txn' = TxnAfterError(Discarded(slot, txn))
    /\ place' = "finish"
    /\ UNCHANGED <<open, table, stmt, transaction, claimed, close, tag>>

ConnectRefused ==
    /\ place = "connect" /\ ~slot
    /\ Fail

(* SET statement_timeout, unless the transaction counts as aborted. *)
Set ==
    /\ place = "set"
    /\ txn # "FailedTransaction" => server.block \in {"Idle", "InTransaction"}
    /\ place' = "prepare"
    /\ UNCHANGED <<open, table, stmt, slot, txn, transaction, claimed, close, tag, server>>

(* The SET is refused or cancelled. *)
SetFails ==
    /\ place = "set" /\ txn # "FailedTransaction"
    /\ Fail

(* The token was set before the statement ran. *)
CancelledEarly ==
    /\ place \in {"prepare", "run"}
    /\ place' = "finish"
    /\ UNCHANGED <<open, table, stmt, slot, txn, transaction, claimed, close, tag, server>>

(* Parse errors abort an open block whatever the statement. *)
PrepareFails ==
    /\ place = "prepare"
    /\ Fail

Prepared ==
    /\ place = "prepare" /\ server.block # "closed"
    /\ place' = "run"
    /\ UNCHANGED <<open, table, stmt, slot, txn, transaction, claimed, close, tag, server>>

(* Mutated form of Tag: the first keyword, whatever the server made of it. *)
TagKeyword(t, s) == s

(* The command tag of a completed statement. *)
Tag(t, s) ==
    IF t = "FailedTransaction" /\ s \in {"commit", "commit and chain"} THEN "rollback" ELSE s

Run ==
    /\ place = "run" /\ server.block # "closed"
    /\ \E b \in Succeeds(stmt, server.block) :
         server' = [block |-> b, ended |-> Ending(stmt, server.block)]
    /\ tag' = Tag(txn, stmt)
    /\ txn' = TxnAfterSuccess(txn, stmt)
    /\ place' = "finish"
    /\ UNCHANGED <<open, table, stmt, slot, transaction, claimed, close>>

(* A database error, a cancellation, or a connection lost on the way. *)
RunFails ==
    /\ place = "run"
    /\ \/ /\ server.block # "closed"
          /\ \E b \in Fails(stmt, server.block) : server' = [server EXCEPT !.block = b]
       \/ server' = Gone
    /\ slot' = Kept(slot)
    /\ txn' = TxnAfterFailure(Discarded(slot, txn), stmt)
    /\ place' = "finish"
    /\ UNCHANGED <<open, table, stmt, transaction, claimed, close, tag>>

(* Cancelled or timed out without a confirmed answer, or panicked: the       *)
(* socket is closed hard and PostgreSQL rolls back.                          *)
OutcomeLost ==
    /\ place \in {"connect", "set", "prepare", "run"}
    /\ slot' = FALSE
    /\ server' = Gone
    /\ txn' = "Idle"
    /\ place' = "finish"
    /\ UNCHANGED <<open, table, stmt, transaction, claimed, close, tag>>

(* *transaction = txn *)
StoreTransaction ==
    /\ place = "finish"
    /\ transaction' = txn
    /\ place' = "free"
    /\ UNCHANGED <<open, table, stmt, slot, txn, claimed, close, tag, server>>

(* busy.store(false) *)
Free ==
    /\ place = "free"
    /\ claimed' = FALSE
    /\ place' = "rest"
    /\ UNCHANGED <<open, table, stmt, slot, txn, transaction, close, tag, server>>

-----------------------------------------------------------------------------
(* FetchTablePage: runs a SELECT and leaves the tracked state alone. *)

ClaimPage ==
    /\ open /\ table /\ ~claimed /\ place = "rest"
    /\ claimed' = TRUE
    /\ place' = "page"
    /\ UNCHANGED <<open, table, stmt, slot, txn, transaction, close, tag, server>>

PageDone ==
    /\ place = "page"
    /\ \/ UNCHANGED <<slot, server>>
       \/ /\ slot /\ server.block # "closed"
          /\ server' = [server EXCEPT !.block = AfterServerError(@)]
          /\ UNCHANGED slot
       \/ slot /\ slot' = FALSE /\ server' = Gone
    /\ claimed' = FALSE
    /\ place' = "rest"
    /\ UNCHANGED <<open, table, stmt, txn, transaction, close, tag>>

-----------------------------------------------------------------------------
(* session_close, and the actor's Close. *)

(* Mutated form of SessionClose: the unsettled check skips `busy`. *)
SessionCloseIdleOnly(rollback) ==
    /\ open
    /\ ~rollback => transaction = "Idle"
    /\ open' = FALSE
    /\ close' = IF rollback THEN "rollback" ELSE "keep"
    /\ UNCHANGED <<table, place, stmt, slot, txn, transaction, claimed, tag, server>>

(* Without rollbackOpenTransaction an unsettled session stays open. *)
SessionClose(rollback) ==
    /\ open
    /\ ~rollback => ~claimed /\ transaction = "Idle"
    /\ open' = FALSE
    /\ close' = IF rollback THEN "rollback" ELSE "keep"
    /\ UNCHANGED <<table, place, stmt, slot, txn, transaction, claimed, tag, server>>

(* The actor takes Close when the execution before it is over. *)
Close ==
    /\ close # "none" /\ place = "rest"
    /\ slot' = FALSE
    /\ server' = IF slot /\ server.block \in {"InTransaction", "FailedTransaction"}
                   THEN [block |-> "closed",
                         ended |-> IF close = "rollback" /\ txn # "Idle"
                                     THEN "rolled back" ELSE "dropped"]
                   ELSE Gone
    /\ place' = "gone"
    /\ UNCHANGED <<open, table, stmt, txn, transaction, claimed, close, tag>>

(* The server ends the backend, or the network does. *)
ServerDies ==
    /\ server.block # "closed"
    /\ server' = Gone
    /\ UNCHANGED <<open, table, place, stmt, slot, txn, transaction, claimed, close, tag>>

TxnInit ==
    /\ open = TRUE /\ table \in BOOLEAN
    /\ place = "rest" /\ stmt = "other" /\ slot = FALSE
    /\ txn = "Idle" /\ transaction = "Idle" /\ claimed = FALSE
    /\ close = "none" /\ tag = "other"
    /\ server = [block |-> "closed", ended |-> "none"]

TxnNext ==
    \/ \E s \in Statements : Claim(s)
    \/ Connected \/ ConnectRefused \/ Set \/ SetFails \/ CancelledEarly
    \/ Prepared \/ PrepareFails \/ Run \/ RunFails \/ OutcomeLost
    \/ StoreTransaction \/ Free
    \/ ClaimPage \/ PageDone
    \/ \E rollback \in BOOLEAN : SessionClose(rollback)
    \/ Close \/ ServerDies

TxnSpec == TxnInit /\ [][TxnNext]_txnVars

-----------------------------------------------------------------------------
(* Properties *)

TxnTypeOK ==
    /\ open \in BOOLEAN /\ table \in BOOLEAN /\ slot \in BOOLEAN /\ claimed \in BOOLEAN
    /\ place \in {"rest", "connect", "set", "prepare", "run", "finish", "free", "page", "gone"}
    /\ stmt \in AllStatements
    /\ txn \in States /\ transaction \in States
    /\ close \in {"none", "keep", "rollback"}
    /\ tag \in AllStatements
    /\ server \in [block : States \cup {"closed"},
                   ended : {"none", "committed", "rolled back", "dropped"}]

(* "tracks transaction state": on a connection the server has not lost, the  *)
(* state the tab is shown between statements is the server's, whatever the   *)
(* statements were and wherever they failed, timed out or were cancelled.    *)
TrackedMatchesServer ==
    ~claimed /\ server.block # "closed" => transaction = server.block

(* "SET cannot run inside an aborted transaction.  Let recovery statements   *)
(* reach PostgreSQL": the SET before a statement is never sent into an       *)
(* aborted block, where it would fail every statement, ROLLBACK included.    *)
RecoveryReachesServer ==
    place = "set" /\ server.block = "FailedTransaction" => txn = "FailedTransaction"

(* Closing a tab without confirming a rollback never drops a transaction     *)
(* the server still has open, however the close races the end of the         *)
(* statement that opened it.                                                 *)
CloseDropsNothing == server.ended # "dropped"

(* A statement reported as COMMIT did not roll its transaction back. *)
CommitTagIsTrue ==
    place = "finish" /\ server.ended = "rolled back"
      => tag \notin {"commit", "commit and chain"}
=============================================================================
