-------------------------- MODULE AttemptReceipts ---------------------------
(***************************************************************************)
(* The durable receipt of an attempt (AttemptReceipt of workers/models.py),*)
(* as much of it as decides control, on the worker that writes it and in   *)
(* the controller that stores a copy.                                      *)
(***************************************************************************)
CONSTANT Attempts

TerminalStates == {"COMPLETE", "FAILED", "INTERRUPTED", "UNKNOWN"}

(***************************************************************************)
(* The fields of AttemptReceipt that decide control; a receipt whose state *)
(* is "NONE" is a file that does not exist.  training stands for           *)
(* training_started_at # null.                                             *)
(***************************************************************************)
Receipts == [state : {"NONE", "PREPARED", "RUNNING"} \cup TerminalStates,
             requested : BOOLEAN, acknowledged : BOOLEAN, training : BOOLEAN]

NoReceipt == [state |-> "NONE", requested |-> FALSE,
              acknowledged |-> FALSE, training |-> FALSE]

Prepared == [NoReceipt EXCEPT !.state = "PREPARED"]

IsTerminal(r) == r.state \in TerminalStates

(***************************************************************************)
(* The ways an attempt ends.  CANCELLED is an INTERRUPTED receipt that     *)
(* acknowledges the request; an unacknowledged interruption resets both    *)
(* cancellation fields, the other outcomes leave them alone.               *)
(***************************************************************************)
Outcomes == {"COMPLETE", "FAILED", "INTERRUPTED", "CANCELLED", "UNKNOWN"}

Finished(r, outcome) ==
    IF IsTerminal(r) THEN r
    ELSE CASE outcome = "CANCELLED" ->
                [r EXCEPT !.state = "INTERRUPTED",
                          !.requested = TRUE, !.acknowledged = TRUE]
           [] outcome = "INTERRUPTED" ->
                [r EXCEPT !.state = "INTERRUPTED",
                          !.requested = FALSE, !.acknowledged = FALSE]
           [] OTHER -> [r EXCEPT !.state = outcome]
=============================================================================
