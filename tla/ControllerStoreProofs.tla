----------------------- MODULE ControllerStoreProofs ------------------------
(***************************************************************************)
(* The properties of ControllerStore for any number of attempts, workers   *)
(* and observations, and for any order of transactions.  One inductive     *)
(* invariant carries them: to the properties it adds that a row without a  *)
(* worker has no evidence, that a row not yet dispatched has no worker,    *)
(* and that what is stored as terminal is terminal.                        *)
(***************************************************************************)
EXTENDS ControllerStore, TLAPS

\* A row that was not dispatched knows no worker, and without a worker there is
\* no evidence.
Undispatched ==
    \A a \in Attempts :
        /\ status[a] \in {"NONE", "QUEUED"} => worker[a] = NoWorker
        /\ worker[a] = NoWorker => ~HasEvidence(a)

StoredIsTerminal == \A a \in Attempts : HasTerminal(a) => IsTerminal(terminal[a])

\* A dispatched row gets a terminal status only with a terminal receipt.
OutcomeHasReceipt ==
    \A a \in Attempts :
        status[a] \in TerminalQueueStates => HasTerminal(a) \/ worker[a] = NoWorker

StoreInv ==
    /\ StoreTypeOK
    /\ Undispatched
    /\ StoredIsTerminal
    /\ OutcomeHasReceipt
    /\ StatusFollowsEvidence
    /\ CancelledIsProven
    /\ OneKindOfEvidence

\* _reconcile_receipt maps every receipt to a queue status, CANCELLED only an
\* acknowledged interruption.
LEMMA QueueStatusFacts ==
    ASSUME NEW r \in Receipts, r.state # "NONE"
    PROVE  /\ QueueStatus(r) \in QueueStates \ {"QUEUED"}
           /\ r # NoReceipt
           /\ QueueStatus(r) = "CANCELLED" => r.state = "INTERRUPTED" /\ r.acknowledged
BY DEF Receipts, QueueStatus, QueueStates, ReconcilableStates, ActiveStates,
       TerminalQueueStates, TerminalStates, NoReceipt

\* No transaction of the store breaks the invariant, whoever runs it.
LEMMA TransactionsPreserve == StoreInv /\ [StoreNext]_storeVars => StoreInv'
<1> SUFFICES ASSUME StoreInv, [StoreNext]_storeVars PROVE StoreInv'
  OBVIOUS
<1> USE StoreAssumption DEF StoreInv, StoreTypeOK, Undispatched, StoredIsTerminal,
        StatusFollowsEvidence, CancelledIsProven, OneKindOfEvidence, OutcomeHasReceipt,
        TerminalQueueStates, HasEvidence, HasTerminal, HasRecovery
<1>1. ASSUME NEW S \in SUBSET Attempts, Enqueue(S) PROVE StoreInv'
  BY <1>1 DEF Enqueue, QueueStates
<1>2. ASSUME NEW a \in Attempts, NEW w \in Workers, Assign(a, w) PROVE StoreInv'
  BY <1>2 DEF Assign, storeVars, QueueStates, ReconcilableStates, ActiveStates
<1>3. ASSUME NEW a \in Attempts, NEW r \in Receipts, r.state # "NONE", Reconcile(a, r)
      PROVE StoreInv'
  <2>q. /\ QueueStatus(r) \in QueueStates \ {"QUEUED"}
        /\ r # NoReceipt
        /\ QueueStatus(r) = "CANCELLED" => r.state = "INTERRUPTED" /\ r.acknowledged
    BY <1>3, QueueStatusFacts
  <2>1. CASE HasRecovery(a) /\ IsTerminal(r)
    BY <1>3, <2>1 DEF Reconcile, storeVars
  <2>2. CASE HasEvidence(a) /\ ~(HasRecovery(a) /\ IsTerminal(r))
    BY <1>3, <2>2 DEF Reconcile, storeVars
  <2>3. CASE ~HasEvidence(a) /\ IsTerminal(r)
    <3>1. /\ status' = [status EXCEPT ![a] = QueueStatus(r)]
          /\ terminal' = [terminal EXCEPT ![a] = r]
          /\ ingestion' = [ingestion EXCEPT ![a] = "PENDING"]
          /\ error' = [error EXCEPT ![a] = "none"]
          /\ UNCHANGED <<worker, recovered, retained>>
          /\ worker[a] # NoWorker
      BY <1>3, <2>3 DEF Reconcile, storeVars
    <3>2. StoreTypeOK'
      BY <3>1, <2>q
    <3>3. (Undispatched /\ StoredIsTerminal /\ OneKindOfEvidence /\ OutcomeHasReceipt)'
      BY <3>1, <2>q, <2>3, <3>2 DEF QueueStates, ReconcilableStates, ActiveStates,
         TerminalQueueStates
    <3>4. (StatusFollowsEvidence /\ CancelledIsProven)'
      BY <3>1, <2>q, <2>3, <3>2
    <3> QED BY <3>2, <3>3, <3>4
  <2>4. CASE ~HasEvidence(a) /\ ~IsTerminal(r)
    <3>1. /\ status' = [status EXCEPT ![a] =
                          IF @ = "CANCEL_REQUESTED" THEN @ ELSE QueueStatus(r)]
          /\ UNCHANGED <<worker, terminal, recovered, ingestion, error, retained>>
          /\ worker[a] # NoWorker
      BY <1>3, <2>4 DEF Reconcile, storeVars
    <3>2. QueueStatus(r) \in ReconcilableStates
      BY <1>3, <2>4 DEF QueueStatus, IsTerminal, TerminalStates, Receipts, ReconcilableStates,
         ActiveStates
    <3> QED BY <3>1, <3>2, <2>q, <2>4 DEF QueueStates, ReconcilableStates, ActiveStates,
               TerminalQueueStates
  <2> QED BY <2>1, <2>2, <2>3, <2>4
<1>4. ASSUME NEW a \in Attempts, NEW o \in Observations, RecordRecovery(a, o)
      PROVE StoreInv'
  BY <1>4 DEF RecordRecovery, Recoverable, storeVars, QueueStates, ReconcilableStates
<1>5. ASSUME NEW a \in Attempts, NEW text \in {"text", "CONFLICT"},
             MarkIngestionError(a, text)
      PROVE StoreInv'
  BY <1>5 DEF MarkIngestionError, storeVars
<1>6. ASSUME NEW a \in Attempts, RetainConflict(a) PROVE StoreInv'
  BY <1>6 DEF RetainConflict
<1>7. ASSUME NEW a \in Attempts, MarkIngestionComplete(a) PROVE StoreInv'
  BY <1>7 DEF MarkIngestionComplete, storeVars
<1>8. ASSUME NEW a \in Attempts, MarkIngestionNotRequired(a) PROVE StoreInv'
  BY <1>8 DEF MarkIngestionNotRequired, storeVars
<1>9. ASSUME NEW a \in Attempts, MarkUnknown(a) PROVE StoreInv'
  BY <1>9 DEF MarkUnknown, QueueStates, ReconcilableStates
<1>10. ASSUME NEW a \in Attempts, RequestCancel(a) PROVE StoreInv'
  BY <1>10 DEF RequestCancel, CancelTarget, QueueStates, ReconcilableStates,
               ActiveStates, TerminalQueueStates
<1>11. ASSUME UNCHANGED storeVars PROVE StoreInv'
  BY <1>11 DEF storeVars
<1> QED
  BY <1>1, <1>2, <1>3, <1>4, <1>5, <1>6, <1>7, <1>8, <1>9, <1>10, <1>11
  DEF StoreNext, Transaction

\* The invariant holds of the empty queue.
LEMMA StoreStarts == StoreInit => StoreInv
BY StoreAssumption DEF StoreInit, StoreInv, StoreTypeOK, Undispatched, StoredIsTerminal,
   OutcomeHasReceipt, TerminalQueueStates, StatusFollowsEvidence, CancelledIsProven, OneKindOfEvidence, HasEvidence,
   HasTerminal, HasRecovery, NoReceipt, Receipts

\* The queue is well typed and its rows are consistent at all times.
THEOREM StoreInvariant == StoreSpec => []StoreInv
BY StoreStarts, TransactionsPreserve, PTL DEF StoreSpec

\* Every column of a row keeps its type.
THEOREM StoreTyping == StoreSpec => []StoreTypeOK
<1>1. StoreInv => StoreTypeOK
  BY DEF StoreInv
<1> QED BY <1>1, StoreInvariant, PTL

\* No caller moves a row away from the status its evidence stands for.
THEOREM EvidenceDecides == StoreSpec => []StatusFollowsEvidence
<1>1. StoreInv => StatusFollowsEvidence
  BY DEF StoreInv
<1> QED BY <1>1, StoreInvariant, PTL

\* Every dispatched row with an outcome has the receipt that proves it.
THEOREM OutcomesAreProven == StoreSpec => []OutcomeHasReceipt
<1>1. StoreInv => OutcomeHasReceipt
  BY DEF StoreInv
<1> QED BY <1>1, StoreInvariant, PTL

\* A CANCELLED row was never dispatched or has an acknowledged interruption.
THEOREM CancellationIsProven == StoreSpec => []CancelledIsProven
<1>1. StoreInv => CancelledIsProven
  BY DEF StoreInv
<1> QED BY <1>1, StoreInvariant, PTL

\* set_receipt and record_recovery exclude each other for ever, and COMPLETE
\* ingestion rests on one of them.
THEOREM EvidenceIsExclusive == StoreSpec => []OneKindOfEvidence
<1>1. StoreInv => OneKindOfEvidence
  BY DEF StoreInv
<1> QED BY <1>1, StoreInvariant, PTL

\* No transaction revises evidence or an assignment, whoever runs it.
LEMMA EvidenceKept ==
    StoreInv /\ [StoreNext]_storeVars =>
        \A a \in Attempts :
            /\ HasTerminal(a) => terminal'[a] = terminal[a]
            /\ HasRecovery(a) => recovered'[a] = recovered[a]
            /\ worker[a] # NoWorker => worker'[a] = worker[a]
BY DEF StoreInv, StoreTypeOK, Undispatched, StoreNext, Transaction, Enqueue, Assign,
   Reconcile, RecordRecovery, Recoverable, MarkIngestionError, RetainConflict,
   MarkIngestionComplete, MarkIngestionNotRequired, MarkUnknown, RequestCancel,
   storeVars, HasEvidence, HasTerminal, HasRecovery

\* A terminal receipt, a recovery observation and an assigned worker, once
\* stored, are never revised.
THEOREM EvidenceIsImmutable == StoreSpec => EvidenceIsFinal
BY EvidenceKept, StoreInvariant, PTL DEF StoreSpec, EvidenceIsFinal

\* CANCEL_REQUESTED is left for evidence only.
THEOREM CancelIntentIsDurable == StoreSpec => CancelIntentSticks
<1>1. StoreInv /\ [StoreNext]_storeVars =>
        [\A a \in Attempts :
            status[a] = "CANCEL_REQUESTED" /\ status'[a] # "CANCEL_REQUESTED" =>
                HasTerminal(a)' \/ HasRecovery(a)']_storeVars
  <2> SUFFICES ASSUME StoreInv, StoreNext, NEW a \in Attempts,
                      status[a] = "CANCEL_REQUESTED", status'[a] # "CANCEL_REQUESTED"
               PROVE  HasTerminal(a)' \/ HasRecovery(a)'
    OBVIOUS
  <2> USE StoreAssumption DEF StoreInv, StoreTypeOK, HasEvidence, HasTerminal, HasRecovery
  <2>1. ASSUME NEW S \in SUBSET Attempts, Enqueue(S) PROVE FALSE
    BY <2>1 DEF Enqueue
  <2>2. ASSUME NEW b \in Attempts, NEW w \in Workers, Assign(b, w) PROVE FALSE
    BY <2>2 DEF Assign, storeVars
  <2>3. ASSUME NEW b \in Attempts, NEW r \in Receipts, r.state # "NONE", Reconcile(b, r)
        PROVE HasTerminal(a)' \/ HasRecovery(a)'
    BY <2>3 DEF Reconcile, storeVars, NoReceipt
  <2>4. ASSUME NEW b \in Attempts, NEW o \in Observations, RecordRecovery(b, o)
        PROVE HasTerminal(a)' \/ HasRecovery(a)'
    BY <2>4 DEF RecordRecovery, storeVars
  <2>5. ASSUME NEW b \in Attempts, NEW text \in {"text", "CONFLICT"},
               MarkIngestionError(b, text)
        PROVE FALSE
    BY <2>5 DEF MarkIngestionError, storeVars
  <2>6. ASSUME NEW b \in Attempts,
               RetainConflict(b) \/ MarkIngestionComplete(b) \/ MarkIngestionNotRequired(b)
        PROVE FALSE
    BY <2>6 DEF RetainConflict, MarkIngestionComplete, MarkIngestionNotRequired, storeVars
  <2>7. ASSUME NEW b \in Attempts, MarkUnknown(b) \/ RequestCancel(b)
        PROVE FALSE
    BY <2>7 DEF MarkUnknown, RequestCancel, CancelTarget, TerminalQueueStates,
       StatusFollowsEvidence, QueueStatus, StoredIsTerminal, IsTerminal, TerminalStates
  <2> QED BY <2>1, <2>2, <2>3, <2>4, <2>5, <2>6, <2>7 DEF StoreNext, Transaction
<1> QED BY <1>1, StoreInvariant, PTL DEF StoreSpec, CancelIntentSticks
=============================================================================
