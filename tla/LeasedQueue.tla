---------------------------- MODULE LeasedQueue ----------------------------
(***************************************************************************)
(* One row of a leased queue.  The outbox of events and the queue of       *)
(* webhook deliveries are two tables with the same columns and the same    *)
(* five statements; each statement is an operator from row to row.         *)
(*                                                                         *)
(* Time is kept as what the statements compare it with: `leased` says that *)
(* `locked_until` lies ahead, `due` that `available_at` has been reached.  *)
(* The moment at which either changes is an action of the module that      *)
(* holds the row.  `attempts` stops at the number it is compared with.     *)
(***************************************************************************)
EXTENDS Naturals

RowStatus == {"none", "pending", "delivered", "dead", "gone"}

(* Only a pending row is leased.                                            *)
Row(max) ==
    {r \in [status : RowStatus, attempts : 0 .. max, leased : BOOLEAN, due : BOOLEAN] :
        r.leased => r.status = "pending"}

FreshRow(status, due) == [status |-> status, attempts |-> 0, leased |-> FALSE, due |-> due]

NoRow == FreshRow("none", FALSE)
Gone  == FreshRow("gone", FALSE)      \* was there, and was deleted

Stored(row) == row.status \notin {"none", "gone"}

Enqueued == FreshRow("pending", TRUE)

Claimable(row) == row.status = "pending" /\ row.due /\ ~row.leased

Claimed_uncounted(row, max) == [row EXCEPT !.leased = TRUE]           \* mutant

Claimed(row, max) ==
    [row EXCEPT !.leased = TRUE, !.attempts = IF @ < max THEN @ + 1 ELSE @]

(* Matched by id and status only.                                          *)
Completed(row) ==
    IF row.status = "pending" THEN [row EXCEPT !.status = "delivered", !.leased = FALSE] ELSE row

(* Mutant: a report is written whatever the row's status.                   *)
Failed_anyStatus(row, max) ==
    [row EXCEPT !.status = IF row.attempts >= max THEN "dead" ELSE "pending",
                !.leased = FALSE, !.due = FALSE]

Failed(row, max) ==
    IF row.status = "pending"
    THEN [row EXCEPT !.status = IF row.attempts >= max THEN "dead" ELSE "pending",
                     !.leased = FALSE, !.due = FALSE]
    ELSE row

Requeued(row) == IF row.status = "dead" THEN Enqueued ELSE row
=============================================================================
