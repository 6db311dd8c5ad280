-------------------------- MODULE ControllerStore ---------------------------
(***************************************************************************)
(* The controller's queue (workers/store.py): one row per attempt in a     *)
(* SQLite database.  Every operation is one BEGIN IMMEDIATE transaction,   *)
(* so one action; its callers are the ticks of a controller, of a campaign *)
(* and of the command line, none of which sees the others' half-done work  *)
(* but each of which acts on rows it read earlier.  StoreSpec lets any     *)
(* caller run any operation at any time: what holds here needs no          *)
(* discipline of the callers.                                              *)
(*                                                                         *)
(* experiments.status always equals the attempt's status (every            *)
(* transaction writes both) and is left out, as are queued_reason and the  *)
(* nonterminal receipt_json, which no decision reads.                      *)
(***************************************************************************)
EXTENDS AttemptReceipts, Naturals

CONSTANTS
    Workers,
    NoWorker,       \* worker_id is NULL
    Observations,   \* recovery observations: the relay commit each one names
    NoObservation   \* recovery_observation_json is NULL

ASSUME StoreAssumption ==
    /\ NoWorker \notin Workers
    /\ NoObservation \notin Observations

VARIABLES
    status,     \* status[a]; "NONE": the attempt has no row yet
    worker,     \* worker[a]: worker_id
    terminal,   \* terminal[a]: terminal_receipt_json, or NoReceipt
    recovered,  \* recovered[a]: recovery_observation_json
    ingestion,  \* ingestion[a]: ingestion_status
    error,      \* error[a]: ingestion_error: absent, any text, or a CONFLICT text
    retained    \* attempts with a file under .relay/<id>/conflicts/

storeVars == <<status, worker, terminal, recovered, ingestion, error, retained>>

ActiveStates == {"ASSIGNED", "RUNNING", "CANCEL_REQUESTED"}
ReconcilableStates == ActiveStates \cup {"UNKNOWN"}
TerminalQueueStates == {"CANCELLED", "COMPLETE", "FAILED", "INTERRUPTED"}
QueueStates == {"QUEUED"} \cup ReconcilableStates \cup TerminalQueueStates

StoreTypeOK ==
    /\ status \in [Attempts -> {"NONE"} \cup QueueStates]
    /\ worker \in [Attempts -> Workers \cup {NoWorker}]
    /\ terminal \in [Attempts -> Receipts]
    /\ recovered \in [Attempts -> Observations \cup {NoObservation}]
    /\ ingestion \in [Attempts -> {"PENDING", "ERROR", "COMPLETE", "NOT_REQUIRED"}]
    /\ error \in [Attempts -> {"none", "text", "CONFLICT"}]
    /\ retained \in SUBSET Attempts

StoreInit ==
    /\ status = [a \in Attempts |-> "NONE"]
    /\ worker = [a \in Attempts |-> NoWorker]
    /\ terminal = [a \in Attempts |-> NoReceipt]
    /\ recovered = [a \in Attempts |-> NoObservation]
    /\ ingestion = [a \in Attempts |-> "PENDING"]
    /\ error = [a \in Attempts |-> "none"]
    /\ retained = {}

HasTerminal(a) == terminal[a] # NoReceipt

HasRecovery(a) == recovered[a] # NoObservation

HasEvidence(a) == HasTerminal(a) \/ HasRecovery(a)

\* Mutant of QueueStatus: any interruption passes for a cancellation.
QueueStatusUnproven(r) ==
    CASE r.state = "PREPARED" -> "ASSIGNED"
      [] r.state = "INTERRUPTED" -> "CANCELLED"
      [] OTHER -> r.state

\* _reconcile_receipt: the queue status a receipt stands for.
QueueStatus(r) ==
    CASE r.state = "PREPARED" -> "ASSIGNED"
      [] r.state = "INTERRUPTED" /\ r.acknowledged -> "CANCELLED"
      [] OTHER -> r.state

\* resume: the parent is settled, its artifacts are here, nothing contradicts.
CanResume(a) ==
    /\ status[a] \in {"INTERRUPTED", "CANCELLED", "FAILED", "UNKNOWN"}
    /\ ingestion[a] = "COMPLETE"
    /\ error[a] # "CONFLICT"

\* Mutant of Occupied: an attempt of unknown fate does not hold its slot.
OccupiedByActive(w) ==
    \E a \in Attempts : status[a] \in ActiveStates /\ worker[a] = w /\ ~HasTerminal(a)

\* _eligible_worker: a fenced worker, or one with an attempt without outcome.
Occupied(w) ==
    \E a \in Attempts : /\ status[a] \in ReconcilableStates
                        /\ worker[a] = w
                        /\ HasRecovery(a) \/ ~HasTerminal(a)

\* Mutant of PendingIngestion: a failed ingestion is not retried.
PendingIngestionOnce(a) ==
    HasEvidence(a) /\ ingestion[a] = "PENDING" /\ error[a] # "CONFLICT"

PendingIngestion(a) ==
    /\ HasEvidence(a)
    /\ ingestion[a] \in {"PENDING", "ERROR"}
    /\ error[a] # "CONFLICT"

-----------------------------------------------------------------------------
(* Transactions. *)

Enqueue(S) ==
    /\ \A a \in S : status[a] = "NONE"
    /\ status' = [a \in Attempts |-> IF a \in S THEN "QUEUED" ELSE status[a]]
    /\ UNCHANGED <<worker, terminal, recovered, ingestion, error, retained>>

\* A compare-and-set: only a QUEUED row is assigned.
Assign(a, w) ==
    \/ /\ status[a] = "QUEUED"
       /\ status' = [status EXCEPT ![a] = "ASSIGNED"]
       /\ worker' = [worker EXCEPT ![a] = w]
       /\ UNCHANGED <<terminal, recovered, ingestion, error, retained>>
    \/ /\ status[a] # "QUEUED"
       /\ UNCHANGED storeVars

\* Mutant of Reconcile: a terminal receipt lifts the fence of a confirmed loss.
ReconcileLifting(a, r) ==
    /\ worker[a] # NoWorker
    /\ \/ HasTerminal(a) /\ UNCHANGED storeVars
       \/ /\ ~HasTerminal(a)
          /\ status' = [status EXCEPT ![a] =
                          IF IsTerminal(r) THEN QueueStatus(r)
                          ELSE IF @ = "CANCEL_REQUESTED" \/ HasRecovery(a) THEN @
                          ELSE QueueStatus(r)]
          /\ terminal' = [terminal EXCEPT ![a] = IF IsTerminal(r) THEN r ELSE @]
          /\ recovered' = [recovered EXCEPT ![a] = IF IsTerminal(r) THEN NoObservation ELSE @]
          /\ UNCHANGED <<worker, ingestion, error, retained>>

(***************************************************************************)
(* _reconcile_receipt and set_receipt: the identity of the receipt is      *)
(* compared with the row (a row without a worker matches none); a terminal *)
(* receipt after a confirmed recovery is retained as a conflict; the first *)
(* terminal receipt is final; CANCEL_REQUESTED outlives a nonterminal one. *)
(***************************************************************************)
Reconcile(a, r) ==
    /\ worker[a] # NoWorker
    /\ \/ /\ HasRecovery(a)
          /\ IsTerminal(r)
          /\ retained' = retained \cup {a}
          /\ error' = [error EXCEPT ![a] = "CONFLICT"]
          /\ UNCHANGED <<status, worker, terminal, recovered, ingestion>>
       \/ /\ IF HasRecovery(a) THEN ~IsTerminal(r) ELSE HasTerminal(a)
          /\ UNCHANGED storeVars
       \/ /\ ~HasEvidence(a)
          /\ IsTerminal(r)
          /\ status' = [status EXCEPT ![a] = QueueStatus(r)]
          /\ terminal' = [terminal EXCEPT ![a] = r]
          /\ ingestion' = [ingestion EXCEPT ![a] = "PENDING"]
          /\ error' = [error EXCEPT ![a] = "none"]
          /\ UNCHANGED <<worker, recovered, retained>>
       \/ /\ ~HasEvidence(a)
          /\ ~IsTerminal(r)
          /\ status' = [status EXCEPT ![a] =
                          IF @ = "CANCEL_REQUESTED" THEN @ ELSE QueueStatus(r)]
          /\ UNCHANGED <<worker, terminal, recovered, ingestion, error, retained>>

\* Mutant of Recoverable: a terminal receipt does not rule out a loss.
RecoverableRegardless(a) == worker[a] # NoWorker /\ ~HasRecovery(a)

\* record_recovery goes through: no terminal evidence, no other observation.
Recoverable(a) == worker[a] # NoWorker /\ ~HasEvidence(a)

RecordRecovery(a, o) ==
    \/ /\ Recoverable(a)
       /\ status' = [status EXCEPT ![a] = "UNKNOWN"]
       /\ recovered' = [recovered EXCEPT ![a] = o]
       /\ ingestion' = [ingestion EXCEPT ![a] = "PENDING"]
       /\ error' = [error EXCEPT ![a] = "none"]
       /\ UNCHANGED <<worker, terminal, retained>>
    \/ /\ ~Recoverable(a)
       /\ UNCHANGED storeVars

\* retain_recovery_conflict, called by collect_relay outside a transaction.
RetainConflict(a) ==
    /\ retained' = retained \cup {a}
    /\ UNCHANGED <<status, worker, terminal, recovered, ingestion, error>>

\* mark_ingestion_complete raises on a recorded conflict.
CompletionRefused(a) == error[a] = "CONFLICT"

MarkIngestionComplete(a) ==
    \/ /\ ~CompletionRefused(a)
       /\ HasEvidence(a)
       /\ ingestion' = [ingestion EXCEPT ![a] = "COMPLETE"]
       /\ error' = [error EXCEPT ![a] = "none"]
       /\ UNCHANGED <<status, worker, terminal, recovered, retained>>
    \/ /\ CompletionRefused(a) \/ ~HasEvidence(a)
       /\ UNCHANGED storeVars

MarkIngestionNotRequired(a) ==
    \/ /\ HasTerminal(a)
       /\ ingestion' = [ingestion EXCEPT ![a] = "NOT_REQUIRED"]
       /\ error' = [error EXCEPT ![a] = "none"]
       /\ UNCHANGED <<status, worker, terminal, recovered, retained>>
    \/ /\ ~HasTerminal(a)
       /\ UNCHANGED storeVars

\* The new text replaces the old one, whatever it was.
MarkIngestionError(a, text) ==
    \/ /\ HasEvidence(a)
       /\ ingestion' = [ingestion EXCEPT ![a] = "ERROR"]
       /\ error' = [error EXCEPT ![a] = text]
       /\ UNCHANGED <<status, worker, terminal, recovered, retained>>
    \/ /\ ~HasEvidence(a)
       /\ UNCHANGED storeVars

\* Mutant of MarkUnknown: reachability overrides the worker's evidence.
MarkUnknownAlways(a) ==
    /\ status[a] # "NONE"
    /\ status' = [status EXCEPT ![a] = IF @ = "CANCEL_REQUESTED" THEN @ ELSE "UNKNOWN"]
    /\ UNCHANGED <<worker, terminal, recovered, ingestion, error, retained>>

\* Mutant of MarkUnknown: a lost poll is stored as a terminal result.
MarkUnknownFabricated(a) ==
    /\ status[a] # "NONE"
    /\ status' = [status EXCEPT ![a] = IF HasTerminal(a) THEN @ ELSE "UNKNOWN"]
    /\ terminal' = [terminal EXCEPT ![a] =
                      IF HasTerminal(a) THEN @ ELSE [Prepared EXCEPT !.state = "UNKNOWN"]]
    /\ UNCHANGED <<worker, recovered, ingestion, error, retained>>

\* mark_unknown_if_nonterminal looks at the terminal receipt, not at the status.
MarkUnknown(a) ==
    /\ status[a] # "NONE"
    /\ status' = [status EXCEPT ![a] =
                    IF HasTerminal(a) \/ @ = "CANCEL_REQUESTED" THEN @ ELSE "UNKNOWN"]
    /\ UNCHANGED <<worker, terminal, recovered, ingestion, error, retained>>

\* What request_cancel makes of a row.
CancelTarget(a) ==
    CASE status[a] = "QUEUED" -> "CANCELLED"
      [] status[a] \in TerminalQueueStates \/ HasEvidence(a) -> status[a]
      [] OTHER -> "CANCEL_REQUESTED"

RequestCancel(a) ==
    /\ status[a] # "NONE"
    /\ status' = [status EXCEPT ![a] = CancelTarget(a)]
    /\ ingestion' = [ingestion EXCEPT ![a] =
                       IF status[a] = "QUEUED" THEN "NOT_REQUIRED" ELSE @]
    /\ error' = [error EXCEPT ![a] = IF status[a] = "QUEUED" THEN "none" ELSE @]
    /\ UNCHANGED <<worker, terminal, recovered, retained>>

Transaction(a) ==
    \/ \E w \in Workers : Assign(a, w)
    \/ \E r \in Receipts : r.state # "NONE" /\ Reconcile(a, r)
    \/ \E o \in Observations : RecordRecovery(a, o)
    \/ \E text \in {"text", "CONFLICT"} : MarkIngestionError(a, text)
    \/ RetainConflict(a)
    \/ MarkIngestionComplete(a) \/ MarkIngestionNotRequired(a)
    \/ MarkUnknown(a) \/ RequestCancel(a)

StoreNext ==
    \/ \E S \in SUBSET Attempts : Enqueue(S)
    \/ \E a \in Attempts : Transaction(a)

StoreSpec == StoreInit /\ [][StoreNext]_storeVars

-----------------------------------------------------------------------------
(* Properties: whatever the callers do, and in whatever order. *)

(***************************************************************************)
(* Evidence decides the status: once set_receipt stored a terminal receipt *)
(* no cancellation, lost poll, replayed assignment or late receipt moves   *)
(* the row away from the status it stands for, and a row whose worker was  *)
(* confirmed lost stays UNKNOWN (docs/hosted-environments.md, "This keeps  *)
(* the original attempt UNKNOWN").                                         *)
(***************************************************************************)
StatusFollowsEvidence ==
    \A a \in Attempts :
        /\ HasTerminal(a) => status[a] = QueueStatus(terminal[a])
        /\ HasRecovery(a) => status[a] = "UNKNOWN"

(***************************************************************************)
(* CANCELLED is never assumed: the row was cancelled before any worker was *)
(* assigned, or the worker's interruption acknowledged the request         *)
(* (docs/workers.md, "CANCEL_REQUESTED is intent").                        *)
(***************************************************************************)
CancelledIsProven ==
    \A a \in Attempts : status[a] = "CANCELLED" =>
        \/ worker[a] = NoWorker
        \/ terminal[a].state = "INTERRUPTED" /\ terminal[a].acknowledged

(***************************************************************************)
(* A row is fenced by a confirmed loss or settled by a terminal receipt,   *)
(* never both, and is ready for resume only on one of them: record_recovery*)
(* and set_receipt exclude each other in either order.                     *)
(***************************************************************************)
OneKindOfEvidence ==
    \A a \in Attempts :
        /\ ~(HasTerminal(a) /\ HasRecovery(a))
        /\ ingestion[a] = "COMPLETE" => HasEvidence(a)

(***************************************************************************)
(* Evidence is never revised: a delayed reply, a second recovery and a     *)
(* retried ingestion leave the terminal receipt, the observation and the   *)
(* assigned worker as they were first stored.                              *)
(***************************************************************************)
EvidenceIsFinal ==
    [][\A a \in Attempts :
          /\ HasTerminal(a) => terminal'[a] = terminal[a]
          /\ HasRecovery(a) => recovered'[a] = recovered[a]
          /\ worker[a] # NoWorker => worker'[a] = worker[a]]_storeVars

(***************************************************************************)
(* An assigned cancellation is durable: CANCEL_REQUESTED ends only with    *)
(* the worker's terminal receipt or an operator's confirmed loss, never    *)
(* by a poll that fails or a receipt that still says RUNNING.              *)
(***************************************************************************)
CancelIntentSticks ==
    [][\A a \in Attempts :
          status[a] = "CANCEL_REQUESTED" /\ status'[a] # "CANCEL_REQUESTED" =>
              HasTerminal(a)' \/ HasRecovery(a)']_storeVars
=============================================================================
