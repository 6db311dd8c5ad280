--------------------------- MODULE WorkerContract ---------------------------
(***************************************************************************)
(* What one worker promises about its attempts, whatever processes it runs *)
(* to keep the promise: the durable receipt of an attempt                  *)
(* (attempts/<id>/receipt.json) and its cancellation marker (cancel.json). *)
(* WorkerExecution, the detailed model of workers/execution.py, implements *)
(* this specification; Dispatch uses it as the controller's environment.   *)
(***************************************************************************)
EXTENDS AttemptReceipts

VARIABLES
    receipt,    \* receipt[a]: the durable receipt of attempt a
    marker      \* the attempts whose cancel.json exists

contractVars == <<receipt, marker>>

ContractInit ==
    /\ receipt = [a \in Attempts |-> NoReceipt]
    /\ marker = {}

Prepare(a) ==
    /\ receipt[a].state = "NONE"
    /\ receipt' = [receipt EXCEPT ![a] = Prepared]
    /\ UNCHANGED marker

Mark(a) ==
    /\ ~IsTerminal(receipt[a])
    /\ marker' = marker \cup {a}
    /\ UNCHANGED receipt

Flag(a) ==
    /\ receipt[a].state \in {"PREPARED", "RUNNING"}
    /\ a \in marker
    /\ receipt' = [receipt EXCEPT ![a].requested = TRUE]
    /\ UNCHANGED marker

Begin(a) ==
    /\ receipt[a].state = "PREPARED"
    /\ receipt' = [receipt EXCEPT ![a].state = "RUNNING"]
    /\ UNCHANGED marker

Arm(a) ==
    /\ receipt[a].state = "RUNNING"
    /\ receipt' = [receipt EXCEPT ![a].training = TRUE]
    /\ UNCHANGED marker

(***************************************************************************)
(* Before it began, an attempt can only be rejected or cancelled; only a   *)
(* marked attempt is cancelled, only one that trained completes or is      *)
(* interrupted.                                                            *)
(***************************************************************************)
Finish(a) ==
    /\ \E outcome \in Outcomes :
         /\ \/ receipt[a].state = "RUNNING"
            \/ /\ receipt[a].state = "PREPARED"
               /\ outcome \in {"FAILED", "CANCELLED"}
         /\ outcome = "CANCELLED" => a \in marker
         /\ outcome \in {"COMPLETE", "INTERRUPTED"} => receipt[a].training
         /\ receipt' = [receipt EXCEPT ![a] = Finished(@, outcome)]
    /\ UNCHANGED marker

ContractNext ==
    \E a \in Attempts : \/ Prepare(a) \/ Mark(a) \/ Flag(a)
                        \/ Begin(a) \/ Arm(a) \/ Finish(a)

ContractSpec == ContractInit /\ [][ContractNext]_contractVars
=============================================================================
