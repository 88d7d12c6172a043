--------------------------- MODULE ResultDelivery ---------------------------
(***************************************************************************)
(* What an execution promises the result tab that shows it: rows are added *)
(* while it runs, it ends once, and by then the tab's session is free for  *)
(* the next statement.  How rows are cut into chunks, who waits for whom   *)
(* and how an execution is given up is ExecutionStream's affair.           *)
(***************************************************************************)
EXTENDS Integers

VARIABLES
    rows,      \* Rows the tab holds.
    status,    \* What the tab shows of the execution.
    free       \* The session takes the next execution.

vars == <<rows, status, free>>

Outcomes == {"completed", "cancelled", "failed"}

Init == rows = 0 /\ status = "running" /\ free = FALSE

Deliver ==
    /\ status = "running"
    /\ rows' >= rows
    /\ UNCHANGED <<status, free>>

Release == ~free /\ free' = TRUE /\ UNCHANGED <<rows, status>>

End ==
    /\ status = "running" /\ free
    /\ status' \in Outcomes
    /\ UNCHANGED <<rows, free>>

Next == Deliver \/ Release \/ End

Spec == Init /\ [][Next]_vars
=============================================================================
