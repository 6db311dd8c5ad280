----------------------- MODULE WorkerExecutionProofs ------------------------
(***************************************************************************)
(* What WorkerExecution checks on small instances, for any number of       *)
(* attempts, executors, RPC processes and deaths.  The argument goes up in *)
(* layers, each an invariant proved from the ones below it:                *)
(*   Typing             types, and which control states each process has;  *)
(*   LockSafety         who holds which lock in which control state, and   *)
(*                      that the lease has one holder and its pilots;      *)
(*   EvidenceInvariant  what a process may conclude about the receipt from *)
(*                      where it is: what it read is still true.           *)
(* The properties of WorkerExecution and the refinement of WorkerContract  *)
(* follow from the three.                                                  *)
(***************************************************************************)
EXTENDS WorkerExecution, TLAPS

\* A process that exists works for an attempt, in a state of its kind.
Processes ==
    /\ \A p \in Procs : pc[p] # "idle" => att[p] \in Attempts
    /\ \A e \in Executors : pc[e] \in {"idle"} \cup ExecutorPcs
    /\ \A r \in Rpcs : pc[r] \in {"idle"} \cup RpcPcs

\* Who holds which lock where.
Locking ==
    /\ \A e \in Executors : pc[e] \notin {"idle", "spawned"} => claim[att[e]] = e
    /\ \A r \in Rpcs : pc[r] \in {"finalize", "release", "dropclaim"} =>
                           claim[att[r]] = r
    /\ \A r \in Rpcs : pc[r] \in {"mark", "tryclaim", "dropclaim", "cancel", "flag"} =>
                           rlock[att[r]] = r

\* The lease has one holder, or one holder and the pilot that inherited it.
Leasing ==
    /\ \A e \in Executors : pc[e] \in {"begin"} \cup Begun => e \in leases
    /\ \A r \in Rpcs : pc[r] \in {"reclaim", "finalize", "release", "unprobe"} =>
                           r \in leases
    /\ \A p, q \in leases : p = q
    /\ \A e \in Executors : pilots[e] # Nobody =>
           /\ \A p \in leases : p = e
           /\ \A f \in Executors : pilots[f] # Nobody => f = e

\* What an executor knows of its receipt: nobody else can end the attempt
\* between the marker test that precedes the lease and its own last write.
Progress ==
    \A e \in Executors :
        /\ pc[e] # "idle" => receipt[att[e]].state # "NONE"
        /\ pc[e] = "precheck" => receipt[att[e]].state = "PREPARED" \/ att[e] \in marker
        /\ pc[e] \in {"lease", "begin"} => receipt[att[e]].state = "PREPARED"
        /\ pc[e] \in Begun => receipt[att[e]].state = "RUNNING"
        /\ pc[e] \in {"train", "training", "stopped"} => receipt[att[e]].training

\* The outcome an executor is about to record.
Leaving ==
    \A e \in Executors : pc[e] = "finish" =>
        /\ out[e] # "UNKNOWN"
        /\ out[e] = "CANCELLED" => att[e] \in marker
        /\ out[e] \in {"COMPLETE", "INTERRUPTED"} =>
              receipt[att[e]].state = "RUNNING" /\ receipt[att[e]].training

\* What an RPC knows of the receipt it works on.
Observing ==
    \A r \in Rpcs :
        /\ pc[r] = "spawn" => receipt[att[r]].state # "NONE"
        /\ pc[r] \in {"lock", "mark", "tryclaim", "dropclaim", "cancel", "flag"}
              /\ op[r] # "cancel" => receipt[att[r]].state # "NONE"
        /\ pc[r] \in {"recover", "reclaim", "finalize"} =>
               receipt[att[r]].state \notin {"NONE", "PREPARED"}
        /\ pc[r] = "mark" =>
               IF seen[r].state = "NONE"
               THEN receipt[att[r]].state \in {"NONE", "PREPARED"}
               ELSE receipt[att[r]] = seen[r] /\ seen[r].state \in {"PREPARED", "RUNNING"}
        /\ pc[r] \in {"tryclaim", "dropclaim", "cancel", "flag"} =>
               /\ receipt[att[r]] = seen[r]
               /\ seen[r].state \in {"PREPARED", "RUNNING"}
               /\ att[r] \in marker
        /\ pc[r] \in {"dropclaim", "cancel"} =>
               /\ seen[r].state = "PREPARED"
               /\ \A e \in Executors : att[e] = att[r] => pc[e] \notin {"lease", "begin"}

\* An attempt that has not begun, or is not armed, has not trained.
Training ==
    /\ \A a \in Attempts :
           /\ trains[a] <= 1
           /\ receipt[a].state \in {"NONE", "PREPARED"} => trains[a] = 0
    /\ \A e \in Executors :
           pc[e] \in {"validate", "prestage", "stage", "pilot", "staged", "arm", "train"} =>
               trains[att[e]] = 0

\* No pilot outlives the UNKNOWN verdict.
Orphans ==
    \A a \in Attempts, e \in Executors :
        receipt[a].state = "UNKNOWN" => pilots[e] # a

\* _terminal_receipt yields a receipt.
LEMMA FinishedReceipt ==
    ASSUME NEW rec \in Receipts, NEW outcome \in Outcomes
    PROVE  Finished(rec, outcome) \in Receipts
BY DEF Finished, Receipts, Outcomes, IsTerminal, TerminalStates

\* The receipt mutations that are not terminal.
LEMMA MutatedReceipt ==
    ASSUME NEW rec \in Receipts
    PROVE  /\ [rec EXCEPT !.requested = TRUE] \in Receipts
           /\ [rec EXCEPT !.training = TRUE] \in Receipts
           /\ [rec EXCEPT !.state = "RUNNING"] \in Receipts
BY DEF Receipts

\* A missing receipt and the one _prepare_attempt writes are receipts.
LEMMA ConstantReceipts == NoReceipt \in Receipts /\ Prepared \in Receipts
BY DEF NoReceipt, Prepared, Receipts, TerminalStates

\* Every variable keeps its type, and a process that exists (launched, spawned
\* or called through the agent) always works for an attempt in a control state
\* of its own kind.
THEOREM Typing == Spec => [](TypeOK /\ Processes)
<1> USE ProcessAssumption DEF Procs
<1>1. Init => TypeOK /\ Processes
  BY ConstantReceipts
  DEF Init, ContractInit, TypeOK, Processes, ExecutorPcs, RpcPcs, Ops, Outcomes
<1>2. TypeOK /\ Processes /\ [Next]_vars => (TypeOK /\ Processes)'
  <2> SUFFICES ASSUME TypeOK, Processes, [Next]_vars
               PROVE  (TypeOK /\ Processes)'
    OBVIOUS
  <2> USE DEF TypeOK, Processes
  <2>1. ASSUME NEW r \in Rpcs, Admit(r)
       PROVE  (TypeOK /\ Processes)'
    BY <2>1 DEF Admit, Go, local, RpcPcs
  <2>2. ASSUME NEW r \in Rpcs, WriteOrReturn(r)
       PROVE  (TypeOK /\ Processes)'
    BY <2>2, ConstantReceipts DEF WriteOrReturn, Reply, Exit, Start, Go,
         local, RpcPcs, Ops
  <2>3. ASSUME NEW r \in Rpcs, Spawn(r)
       PROVE  (TypeOK /\ Processes)'
    BY <2>3 DEF Spawn, SpawnExecutor, Exit, Start, ExecutorPcs, Begun, RpcPcs, Ops
  <2>4. ASSUME NEW r \in Rpcs, Load(r)
       PROVE  (TypeOK /\ Processes)'
    BY <2>4 DEF Load, Go, local, locks, RpcPcs
  <2>5. ASSUME NEW r \in Rpcs, Recover(r)
       PROVE  (TypeOK /\ Processes)'
    BY <2>5 DEF Recover, Go, local, RpcPcs
  <2>6. ASSUME NEW r \in Rpcs, Reclaim(r)
       PROVE  (TypeOK /\ Processes)'
    BY <2>6 DEF Reclaim, Go, local, RpcPcs
  <2>7. ASSUME NEW r \in Rpcs, Finalize(r)
       PROVE  (TypeOK /\ Processes)'
    <3>1. Finished(receipt[att[r]], "UNKNOWN") \in Receipts
      BY <2>7, FinishedReceipt DEF Finalize, Outcomes, RpcPcs
    <3> QED BY <2>7, <3>1 DEF Finalize, Go, RpcPcs, ExecutorPcs, Begun, locks, local
  <2>8. ASSUME NEW r \in Rpcs, Release(r)
       PROVE  (TypeOK /\ Processes)'
    BY <2>8 DEF Release, Go, local, RpcPcs
  <2>9. ASSUME NEW r \in Rpcs, Probe(r)
       PROVE  (TypeOK /\ Processes)'
    BY <2>9, ConstantReceipts DEF Probe, Go, local, Reply, Exit, Start,
         RpcPcs, Ops
  <2>10. ASSUME NEW r \in Rpcs, Unprobe(r)
       PROVE  (TypeOK /\ Processes)'
    BY <2>10, ConstantReceipts DEF Unprobe, Reply, Exit, Start, RpcPcs, Ops
  <2>11. ASSUME NEW r \in Rpcs, LockReceipt(r)
       PROVE  (TypeOK /\ Processes)'
    BY <2>11, ConstantReceipts DEF LockReceipt, CancelReturns, Reply, Exit, Start, RpcPcs,
         Ops
  <2>12. ASSUME NEW r \in Rpcs, WriteMarker(r)
       PROVE  (TypeOK /\ Processes)'
    BY <2>12, ConstantReceipts DEF WriteMarker, CancelReturns, Reply, Exit, Start, Go, local,
         RpcPcs, Ops
  <2>13. ASSUME NEW r \in Rpcs, TryClaim(r)
       PROVE  (TypeOK /\ Processes)'
    BY <2>13 DEF TryClaim, Go, local, RpcPcs
  <2>14. ASSUME NEW r \in Rpcs, DropClaim(r)
       PROVE  (TypeOK /\ Processes)'
    BY <2>14 DEF DropClaim, Go, local, RpcPcs
  <2>15. ASSUME NEW r \in Rpcs, WriteCancelled(r)
       PROVE  (TypeOK /\ Processes)'
    <3>1. Finished(seen[r], "CANCELLED") \in Receipts
      BY <2>15, FinishedReceipt DEF WriteCancelled, Outcomes
    <3>2. [seen[r] EXCEPT !.requested = TRUE] \in Receipts
      BY <2>15, MutatedReceipt DEF WriteCancelled
    <3>3. receipt' \in [Attempts -> Receipts]
      BY <2>15, <3>1, <3>2 DEF WriteCancelled
    <3>4. /\ pc' \in [Procs -> {"idle"} \cup ExecutorPcs \cup RpcPcs]
          /\ att' \in [Procs -> Attempts \cup {Nobody}]
          /\ op' \in [Rpcs -> Ops] /\ seen' \in [Rpcs -> Receipts] /\ out' = out
      BY <2>15, ConstantReceipts DEF WriteCancelled, CancelReturns, Reply, Exit,
           Start, RpcPcs, Ops
    <3>5. Processes'
      BY <2>15 DEF WriteCancelled, CancelReturns, Reply, Exit, Start, RpcPcs,
           ExecutorPcs, Begun
    <3> QED BY <2>15, <3>3, <3>4, <3>5 DEF WriteCancelled
  <2>16. ASSUME NEW r \in Rpcs, NEW a \in Attempts, NEW o \in Ops, Call(r, o, a)
       PROVE  (TypeOK /\ Processes)'
    BY <2>16 DEF Call, Start, locks, RpcPcs, Ops
  <2>17. ASSUME NEW e \in Executors, Claim(e)
       PROVE  (TypeOK /\ Processes)'
    BY <2>17 DEF Claim, Go, local, Exit, Start, ExecutorPcs, Begun
  <2>18. ASSUME NEW e \in Executors, Reload(e)
       PROVE  (TypeOK /\ Processes)'
    BY <2>18 DEF Reload, Go, local, Quit, Exit, Start, ExecutorPcs, Begun,
         Outcomes
  <2>19. ASSUME NEW e \in Executors, Precheck(e)
       PROVE  (TypeOK /\ Processes)'
    BY <2>19 DEF Precheck, Quit, Exit, Start, UnlessCancelled, Leave, Go, local, locks,
         ExecutorPcs, Begun, Outcomes
  <2>20. ASSUME NEW e \in Executors, Lease(e)
       PROVE  (TypeOK /\ Processes)'
    BY <2>20 DEF Lease, Go, local, Quit, Exit, Start, ExecutorPcs, Begun,
         Outcomes
  <2>21. ASSUME NEW e \in Executors, BeginAttempt(e)
       PROVE  (TypeOK /\ Processes)'
    <3>1. [receipt[att[e]] EXCEPT !.state = "RUNNING"] \in Receipts
      BY <2>21, MutatedReceipt DEF BeginAttempt, ExecutorPcs
    <3> QED BY <2>21, <3>1 DEF BeginAttempt, Go, ExecutorPcs, Begun, locks, local
  <2>22. ASSUME NEW e \in Executors, Validate(e)
       PROVE  (TypeOK /\ Processes)'
    BY <2>22 DEF Validate, UnlessCancelled, Leave, Go, local, locks,
         ExecutorPcs, Begun, Outcomes
  <2>23. ASSUME NEW e \in Executors, Prestage(e)
       PROVE  (TypeOK /\ Processes)'
    BY <2>23 DEF Prestage, UnlessCancelled, Leave, Go, local, locks,
         ExecutorPcs, Begun, Outcomes
  <2>24. ASSUME NEW e \in Executors, Stage(e)
       PROVE  (TypeOK /\ Processes)'
    BY <2>24 DEF Stage, Go, local, locks, ExecutorPcs, Begun
  <2>25. ASSUME NEW e \in Executors, StageReturns(e)
       PROVE  (TypeOK /\ Processes)'
    BY <2>25 DEF StageReturns, Go, local, Leave, locks, ExecutorPcs, Begun,
         Outcomes
  <2>26. ASSUME NEW e \in Executors, Staged(e)
       PROVE  (TypeOK /\ Processes)'
    BY <2>26 DEF Staged, UnlessCancelled, Leave, Go, local, locks,
         ExecutorPcs, Begun, Outcomes
  <2>27. ASSUME NEW e \in Executors, ArmTraining(e)
       PROVE  (TypeOK /\ Processes)'
    <3> DEFINE armed == [receipt[att[e]] EXCEPT !.training = TRUE]
    <3>1. armed \in Receipts
      BY <2>27, MutatedReceipt DEF ArmTraining, ExecutorPcs
    <3>2. receipt' = receipt \/ receipt' = [receipt EXCEPT ![att[e]] = armed]
      BY <2>27 DEF ArmTraining
    <3>3. receipt' \in [Attempts -> Receipts]
      <4> HIDE DEF armed
      <4> QED BY <3>1, <3>2
    <3> QED BY <2>27, <3>3 DEF ArmTraining, Go, ExecutorPcs, Begun, locks, local
  <2>28. ASSUME NEW e \in Executors, Train(e)
       PROVE  (TypeOK /\ Processes)'
    BY <2>28 DEF Train, Go, local, locks, ExecutorPcs, Begun
  <2>29. ASSUME NEW e \in Executors, TrainReturns(e)
       PROVE  (TypeOK /\ Processes)'
    BY <2>29 DEF TrainReturns, Go, local, Leave, locks, ExecutorPcs, Begun,
         Outcomes
  <2>30. ASSUME NEW e \in Executors, Stopped(e)
       PROVE  (TypeOK /\ Processes)'
    BY <2>30 DEF Stopped, Leave, locks, ExecutorPcs, Begun, Outcomes
  <2>31. ASSUME NEW e \in Executors, FinishAttempt(e)
       PROVE  (TypeOK /\ Processes)'
    <3>1. Finished(receipt[att[e]], out[e]) \in Receipts
      BY <2>31, FinishedReceipt DEF FinishAttempt
    <3> QED BY <2>31, <3>1 DEF FinishAttempt, Go, ExecutorPcs, locks, local
  <2>32. ASSUME NEW e \in Executors, Close(e)
       PROVE  (TypeOK /\ Processes)'
    BY <2>32 DEF Close, Go, local, ExecutorPcs, Begun
  <2>33. ASSUME NEW e \in Executors, Unclaim(e)
       PROVE  (TypeOK /\ Processes)'
    BY <2>33 DEF Unclaim, Quit, Exit, Start, ExecutorPcs, Begun, Outcomes
  <2>34. ASSUME NEW e \in Executors, PilotExit(e)
       PROVE  (TypeOK /\ Processes)'
    BY <2>34 DEF PilotExit, local, locks
  <2>35. ASSUME NEW p \in Procs, Crash(p)
       PROVE  (TypeOK /\ Processes)'
    BY <2>35, ConstantReceipts DEF Crash, Reply, Exit, Start, Drop,
         ExecutorPcs, Begun, RpcPcs, Ops, Outcomes
  <2>u. CASE UNCHANGED vars
    BY <2>u DEF vars
  <2> QED
    BY <2>1, <2>2, <2>3, <2>4, <2>5, <2>6, <2>7, <2>8, <2>9, <2>10, <2>11,
         <2>12, <2>13, <2>14, <2>15, <2>16, <2>17, <2>18, <2>19, <2>20, <2>21,
         <2>22, <2>23, <2>24, <2>25, <2>26, <2>27, <2>28, <2>29, <2>30, <2>31,
         <2>32, <2>33, <2>34, <2>35, <2>u DEF Next, RpcStep, ExecutorStep
<1> QED BY <1>1, <1>2, PTL DEF Spec

\* _claim_file, _receipt_lock and acquire_lease exclude: each lock is held by
\* the process whose control state says so, and the device lease by one process
\* and the pilots it handed the descriptor to.
THEOREM LockSafety == Spec => [](Locking /\ Leasing)
<1> USE ProcessAssumption DEF Procs
<1>1. Init => Locking /\ Leasing
  BY DEF Init, ContractInit, Locking, Leasing, Begun
<1>2. /\ TypeOK /\ Processes /\ Locking /\ Leasing /\ [Next]_vars
      => (Locking /\ Leasing)'
  <2> SUFFICES ASSUME TypeOK, Processes, Locking, Leasing, [Next]_vars
               PROVE  (Locking /\ Leasing)'
    OBVIOUS
  <2> USE DEF Locking, Leasing, Processes
  <2>1. ASSUME NEW r \in Rpcs, Admit(r)
       PROVE  (Locking /\ Leasing)'
    BY <2>1 DEF Admit, Go, local, TypeOK, RpcPcs, ExecutorPcs, Begun
  <2>2. ASSUME NEW r \in Rpcs, WriteOrReturn(r)
       PROVE  (Locking /\ Leasing)'
    BY <2>2 DEF WriteOrReturn, Reply, Exit, Start, Go, local, TypeOK, RpcPcs,
         ExecutorPcs, Begun
  <2>3. ASSUME NEW r \in Rpcs, Spawn(r)
       PROVE  (Locking /\ Leasing)'
    BY <2>3 DEF Spawn, SpawnExecutor, Exit, Start, TypeOK, ExecutorPcs, Begun, RpcPcs
  <2>4. ASSUME NEW r \in Rpcs, Load(r)
       PROVE  (Locking /\ Leasing)'
    BY <2>4 DEF Load, Go, local, locks, TypeOK, RpcPcs, ExecutorPcs, Begun
  <2>5. ASSUME NEW r \in Rpcs, Recover(r)
       PROVE  (Locking /\ Leasing)'
    BY <2>5 DEF Recover, Go, local, TypeOK, RpcPcs, ExecutorPcs, Begun,
         LeaseFree
  <2>6. ASSUME NEW r \in Rpcs, Reclaim(r)
       PROVE  (Locking /\ Leasing)'
    BY <2>6 DEF Reclaim, Go, local, TypeOK, RpcPcs, ExecutorPcs, Begun
  <2>7. ASSUME NEW r \in Rpcs, Finalize(r)
       PROVE  (Locking /\ Leasing)'
    BY <2>7 DEF Finalize, Go, local, locks, TypeOK, RpcPcs, ExecutorPcs, Begun
  <2>8. ASSUME NEW r \in Rpcs, Release(r)
       PROVE  (Locking /\ Leasing)'
    BY <2>8 DEF Release, Go, local, TypeOK, RpcPcs, ExecutorPcs, Begun
  <2>9. ASSUME NEW r \in Rpcs, Probe(r)
       PROVE  (Locking /\ Leasing)'
    BY <2>9 DEF Probe, Go, local, Reply, Exit, Start, TypeOK, RpcPcs,
         ExecutorPcs, Begun, LeaseFree
  <2>10. ASSUME NEW r \in Rpcs, Unprobe(r)
       PROVE  (Locking /\ Leasing)'
    BY <2>10 DEF Unprobe, Reply, Exit, Start, TypeOK, RpcPcs, ExecutorPcs,
         Begun
  <2>11. ASSUME NEW r \in Rpcs, LockReceipt(r)
       PROVE  (Locking /\ Leasing)'
    BY <2>11 DEF LockReceipt, CancelReturns, Reply, Exit, Start, TypeOK, RpcPcs, ExecutorPcs,
         Begun
  <2>12. ASSUME NEW r \in Rpcs, WriteMarker(r)
       PROVE  (Locking /\ Leasing)'
    BY <2>12 DEF WriteMarker, CancelReturns, Reply, Exit, Start, Go, local, TypeOK, RpcPcs,
         ExecutorPcs, Begun
  <2>13. ASSUME NEW r \in Rpcs, TryClaim(r)
       PROVE  (Locking /\ Leasing)'
    BY <2>13 DEF TryClaim, Go, local, TypeOK, RpcPcs, ExecutorPcs, Begun
  <2>14. ASSUME NEW r \in Rpcs, DropClaim(r)
       PROVE  (Locking /\ Leasing)'
    BY <2>14 DEF DropClaim, Go, local, TypeOK, RpcPcs, ExecutorPcs, Begun
  <2>15. ASSUME NEW r \in Rpcs, WriteCancelled(r)
       PROVE  (Locking /\ Leasing)'
    BY <2>15 DEF WriteCancelled, CancelReturns, Reply, Exit, Start, TypeOK, RpcPcs,
         ExecutorPcs, Begun
  <2>16. ASSUME NEW r \in Rpcs, NEW a \in Attempts, NEW o \in Ops, Call(r, o, a)
       PROVE  (Locking /\ Leasing)'
    BY <2>16 DEF Call, Start, locks, TypeOK, RpcPcs, ExecutorPcs, Begun
  <2>17. ASSUME NEW e \in Executors, Claim(e)
       PROVE  (Locking /\ Leasing)'
    BY <2>17 DEF Claim, Go, local, Exit, Start, TypeOK, ExecutorPcs, Begun,
         RpcPcs
  <2>18. ASSUME NEW e \in Executors, Reload(e)
       PROVE  (Locking /\ Leasing)'
    BY <2>18 DEF Reload, Go, local, Quit, Exit, Start, TypeOK, ExecutorPcs,
         Begun, RpcPcs
  <2>19. ASSUME NEW e \in Executors, Precheck(e)
       PROVE  (Locking /\ Leasing)'
    BY <2>19 DEF Precheck, Quit, Exit, Start, UnlessCancelled, Leave, Go, local, locks, TypeOK,
         ExecutorPcs, Begun, RpcPcs
  <2>20. ASSUME NEW e \in Executors, Lease(e)
       PROVE  (Locking /\ Leasing)'
    BY <2>20 DEF Lease, Go, local, Quit, Exit, Start, TypeOK, ExecutorPcs,
         Begun, RpcPcs, LeaseFree
  <2>21. ASSUME NEW e \in Executors, BeginAttempt(e)
       PROVE  (Locking /\ Leasing)'
    BY <2>21 DEF BeginAttempt, Go, local, locks, TypeOK, ExecutorPcs, Begun,
         RpcPcs
  <2>22. ASSUME NEW e \in Executors, Validate(e)
       PROVE  (Locking /\ Leasing)'
    BY <2>22 DEF Validate, UnlessCancelled, Leave, Go, local, locks, TypeOK,
         ExecutorPcs, Begun, RpcPcs
  <2>23. ASSUME NEW e \in Executors, Prestage(e)
       PROVE  (Locking /\ Leasing)'
    BY <2>23 DEF Prestage, UnlessCancelled, Leave, Go, local, locks, TypeOK,
         ExecutorPcs, Begun, RpcPcs
  <2>24. ASSUME NEW e \in Executors, Stage(e)
       PROVE  (Locking /\ Leasing)'
    BY <2>24 DEF Stage, Go, local, locks, TypeOK, ExecutorPcs, Begun, RpcPcs
  <2>25. ASSUME NEW e \in Executors, StageReturns(e)
       PROVE  (Locking /\ Leasing)'
    BY <2>25 DEF StageReturns, Go, local, Leave, locks, TypeOK, ExecutorPcs,
         Begun, RpcPcs
  <2>26. ASSUME NEW e \in Executors, Staged(e)
       PROVE  (Locking /\ Leasing)'
    BY <2>26 DEF Staged, UnlessCancelled, Leave, Go, local, locks, TypeOK,
         ExecutorPcs, Begun, RpcPcs
  <2>27. ASSUME NEW e \in Executors, ArmTraining(e)
       PROVE  (Locking /\ Leasing)'
    BY <2>27 DEF ArmTraining, Go, local, locks, TypeOK, ExecutorPcs, Begun,
         RpcPcs
  <2>28. ASSUME NEW e \in Executors, Train(e)
       PROVE  (Locking /\ Leasing)'
    BY <2>28 DEF Train, Go, local, locks, TypeOK, ExecutorPcs, Begun, RpcPcs
  <2>29. ASSUME NEW e \in Executors, TrainReturns(e)
       PROVE  (Locking /\ Leasing)'
    BY <2>29 DEF TrainReturns, Go, local, Leave, locks, TypeOK, ExecutorPcs,
         Begun, RpcPcs
  <2>30. ASSUME NEW e \in Executors, Stopped(e)
       PROVE  (Locking /\ Leasing)'
    BY <2>30 DEF Stopped, Leave, locks, TypeOK, ExecutorPcs, Begun, RpcPcs
  <2>31. ASSUME NEW e \in Executors, FinishAttempt(e)
       PROVE  (Locking /\ Leasing)'
    BY <2>31 DEF FinishAttempt, Go, local, locks, TypeOK, ExecutorPcs, Begun,
         RpcPcs
  <2>32. ASSUME NEW e \in Executors, Close(e)
       PROVE  (Locking /\ Leasing)'
    BY <2>32 DEF Close, Go, local, TypeOK, ExecutorPcs, Begun, RpcPcs
  <2>33. ASSUME NEW e \in Executors, Unclaim(e)
       PROVE  (Locking /\ Leasing)'
    BY <2>33 DEF Unclaim, Quit, Exit, Start, TypeOK, ExecutorPcs, Begun,
         RpcPcs
  <2>34. ASSUME NEW e \in Executors, PilotExit(e)
       PROVE  (Locking /\ Leasing)'
    BY <2>34 DEF PilotExit, local, locks, TypeOK, RpcPcs, ExecutorPcs, Begun
  <2>35. ASSUME NEW p \in Procs, Crash(p)
       PROVE  (Locking /\ Leasing)'
    BY <2>35 DEF Crash, Reply, Exit, Start, Drop, TypeOK, ExecutorPcs, Begun,
         RpcPcs
  <2>u. CASE UNCHANGED vars
    BY <2>u DEF vars
  <2> QED
    BY <2>1, <2>2, <2>3, <2>4, <2>5, <2>6, <2>7, <2>8, <2>9, <2>10, <2>11,
         <2>12, <2>13, <2>14, <2>15, <2>16, <2>17, <2>18, <2>19, <2>20, <2>21,
         <2>22, <2>23, <2>24, <2>25, <2>26, <2>27, <2>28, <2>29, <2>30, <2>31,
         <2>32, <2>33, <2>34, <2>35, <2>u DEF Next, RpcStep, ExecutorStep
<1> QED BY <1>1, <1>2, Typing, PTL DEF Spec

\* What _terminal_receipt changes: a terminal state, and never the record that
\* training started.
LEMMA FinishedFacts ==
    ASSUME NEW rec \in Receipts, NEW outcome \in Outcomes
    PROVE  /\ Finished(rec, outcome).state \in TerminalStates
           /\ Finished(rec, outcome).state = "UNKNOWN" =>
                  rec.state = "UNKNOWN" \/ outcome = "UNKNOWN"
           /\ Finished(rec, outcome).training = rec.training
BY DEF Finished, Receipts, Outcomes, IsTerminal, TerminalStates

\* What the executors and RPCs of an attempt may rely on.
Evidence == Progress /\ Leaving /\ Observing /\ Training /\ Orphans

\* What execute_attempt, status_worker and cancel_attempt read of the receipt
\* under their locks is still so when they act on it.
THEOREM EvidenceInvariant == Spec => []Evidence
<1> USE ProcessAssumption DEF Procs
<1>1. Init => Evidence
  BY DEF Init, ContractInit, Evidence, Progress, Leaving, Observing, Training,
     Orphans, Begun, NoReceipt
<1>2. /\ TypeOK /\ Processes /\ Locking /\ Leasing /\ Evidence /\ [Next]_vars
      => Evidence'
  <2> SUFFICES ASSUME TypeOK, Processes, Locking, Leasing, Evidence, [Next]_vars
               PROVE  Evidence'
    OBVIOUS
  <2> USE DEF Evidence, Processes
  <2>1. ASSUME NEW r \in Rpcs, Admit(r)
       PROVE  Evidence'
    BY <2>1 DEF Admit, Go, local, TypeOK, Progress, Leaving, Observing,
         Training, Orphans, RpcPcs, ExecutorPcs, Begun
  <2>2. ASSUME NEW r \in Rpcs, WriteOrReturn(r)
       PROVE  Evidence'
    <3>a. /\ att[r] \in Attempts
          /\ receipt'[att[r]].state # "NONE"
          /\ \A a \in Attempts : receipt'[a] # receipt[a] =>
                 /\ a = att[r] /\ receipt[a].state = "NONE"
                 /\ receipt'[a].state = "PREPARED"
      BY <2>2 DEF WriteOrReturn, Prepared, NoReceipt, TypeOK, RpcPcs, TerminalStates
    <3>b. /\ pc[r] = "prepare" /\ marker' = marker
          /\ \/ /\ pc' = [pc EXCEPT ![r] = "idle"]
                /\ att' = [att EXCEPT ![r] = Nobody]
                /\ seen' = [seen EXCEPT ![r] = NoReceipt]
                /\ op' = [op EXCEPT ![r] = "status"]
             \/ /\ pc' \in {[pc EXCEPT ![r] = "lock"], [pc EXCEPT ![r] = "spawn"]}
                /\ UNCHANGED <<att, op, seen>>
      BY <2>2 DEF WriteOrReturn, Reply, Exit, Start, Go, local, TypeOK
    <3>1. Progress'
      BY <2>2, <3>a DEF WriteOrReturn, Reply, Exit, Start, Go, local, TypeOK,
           Progress, RpcPcs, ExecutorPcs, Begun
    <3>2. Leaving'
      BY <2>2, <3>a DEF WriteOrReturn, Reply, Exit, Start, Go, local, TypeOK,
           Leaving, RpcPcs, ExecutorPcs, Begun
    <3>3. Observing'
      BY <3>a, <3>b DEF TypeOK, Observing, RpcPcs, ExecutorPcs, Begun
    <3>4. Training'
      BY <2>2, <3>a DEF WriteOrReturn, Reply, Exit, Start, Go, local, TypeOK,
           Training, RpcPcs, ExecutorPcs, Begun
    <3>5. Orphans'
      BY <2>2, <3>a DEF WriteOrReturn, Reply, Exit, Start, Go, local, TypeOK,
           Orphans, RpcPcs, ExecutorPcs, Begun
    <3> QED BY <3>1, <3>2, <3>3, <3>4, <3>5
  <2>3. ASSUME NEW r \in Rpcs, Spawn(r)
       PROVE  Evidence'
    <3>1. Progress'
      BY <2>3 DEF Spawn, SpawnExecutor, Exit, Start, TypeOK, Progress, RpcPcs, ExecutorPcs,
           Begun, Observing
    <3>2. Leaving'
      BY <2>3 DEF Spawn, SpawnExecutor, Exit, Start, TypeOK, Leaving, RpcPcs, ExecutorPcs,
           Begun
    <3>3. Observing'
      BY <2>3 DEF Spawn, SpawnExecutor, Exit, Start, TypeOK, Observing, RpcPcs, ExecutorPcs,
           Begun
    <3>4. Training'
      BY <2>3 DEF Spawn, SpawnExecutor, Exit, Start, TypeOK, Training, RpcPcs, ExecutorPcs,
           Begun
    <3>5. Orphans'
      BY <2>3 DEF Spawn, SpawnExecutor, Exit, Start, TypeOK, Orphans, RpcPcs, ExecutorPcs,
           Begun
    <3> QED BY <3>1, <3>2, <3>3, <3>4, <3>5
  <2>4. ASSUME NEW r \in Rpcs, Load(r)
       PROVE  Evidence'
    BY <2>4 DEF Load, Go, local, locks, TypeOK, Progress, Leaving, Observing,
         Training, Orphans, RpcPcs, ExecutorPcs, Begun
  <2>5. ASSUME NEW r \in Rpcs, Recover(r)
       PROVE  Evidence'
    BY <2>5 DEF Recover, Go, local, TypeOK, Progress, Leaving, Observing,
         Training, Orphans, RpcPcs, ExecutorPcs, Begun, Locking, Leasing,
         TerminalStates
  <2>6. ASSUME NEW r \in Rpcs, Reclaim(r)
       PROVE  Evidence'
    BY <2>6 DEF Reclaim, Go, local, TypeOK, Progress, Leaving, Observing,
         Training, Orphans, RpcPcs, ExecutorPcs, Begun, Locking, Leasing,
         TerminalStates
  <2>7. ASSUME NEW r \in Rpcs, Finalize(r)
       PROVE  Evidence'
    <3>a. /\ att[r] \in Attempts
          /\ receipt' = [receipt EXCEPT ![att[r]] = Finished(@, "UNKNOWN")]
      BY <2>7 DEF Finalize, RpcPcs
    <3>b. /\ receipt'[att[r]].state \in TerminalStates
          /\ receipt'[att[r]].training = receipt[att[r]].training
          /\ \A a \in Attempts : a # att[r] => receipt'[a] = receipt[a]
      BY <3>a, FinishedFacts DEF TypeOK, Outcomes
    <3>c. /\ claim[att[r]] = r /\ rlock[att[r]] = Nobody
          /\ \A e \in Executors : pilots[e] = Nobody
      BY <2>7 DEF Finalize, Locking, Leasing, TypeOK
    <3>d. UNCHANGED <<marker, att, op, seen, out, trains, pilots>>
          /\ pc' = [pc EXCEPT ![r] = "release"] /\ pc[r] = "finalize"
      BY <2>7 DEF Finalize, Go, local
    <3>1. Progress'
      BY <2>7, <3>a, <3>b, <3>c, <3>d DEF TypeOK, Progress, RpcPcs,
           ExecutorPcs, Begun, Locking, TerminalStates
    <3>2. Leaving'
      BY <2>7, <3>a, <3>b, <3>c, <3>d DEF TypeOK, Leaving, RpcPcs, ExecutorPcs,
           Begun, Locking, TerminalStates
    <3>3. Observing'
      BY <2>7, <3>a, <3>b, <3>c, <3>d DEF TypeOK, Observing, RpcPcs,
           ExecutorPcs, Begun, Locking, TerminalStates
    <3>4. Training'
      BY <2>7, <3>a, <3>b, <3>c, <3>d DEF TypeOK, Training, RpcPcs,
           ExecutorPcs, Begun, Locking, TerminalStates
    <3>5. Orphans'
      BY <2>7, <3>a, <3>b, <3>c, <3>d DEF TypeOK, Orphans, RpcPcs, ExecutorPcs,
           Begun, Locking, TerminalStates
    <3> QED BY <3>1, <3>2, <3>3, <3>4, <3>5
  <2>8. ASSUME NEW r \in Rpcs, Release(r)
       PROVE  Evidence'
    BY <2>8 DEF Release, Go, local, TypeOK, Progress, Leaving, Observing,
         Training, Orphans, RpcPcs, ExecutorPcs, Begun, Locking, Leasing,
         TerminalStates
  <2>9. ASSUME NEW r \in Rpcs, Probe(r)
       PROVE  Evidence'
    BY <2>9 DEF Probe, Go, local, Reply, Exit, Start, TypeOK, Progress,
         Leaving, Observing, Training, Orphans, RpcPcs, ExecutorPcs, Begun,
         Locking, Leasing, TerminalStates
  <2>10. ASSUME NEW r \in Rpcs, Unprobe(r)
       PROVE  Evidence'
    BY <2>10 DEF Unprobe, Reply, Exit, Start, TypeOK, Progress, Leaving,
         Observing, Training, Orphans, RpcPcs, ExecutorPcs, Begun, Locking,
         Leasing, TerminalStates
  <2>11. ASSUME NEW r \in Rpcs, LockReceipt(r)
       PROVE  Evidence'
    <3>a. /\ UNCHANGED <<receipt, marker, out, trains, pilots>> /\ pc[r] = "lock"
          /\ \/ /\ pc' = [pc EXCEPT ![r] = "idle"]
                /\ att' = [att EXCEPT ![r] = Nobody]
                /\ seen' = [seen EXCEPT ![r] = NoReceipt]
                /\ op' = [op EXCEPT ![r] = "status"]
             \/ /\ pc' = [pc EXCEPT ![r] = "spawn"] /\ att' = att /\ op' = op
                /\ seen' = [seen EXCEPT ![r] = NoReceipt] /\ op[r] # "cancel"
             \/ /\ pc' = [pc EXCEPT ![r] = "mark"] /\ att' = att /\ op' = op
                /\ seen' = [seen EXCEPT ![r] = receipt[att[r]]]
                /\ ~IsTerminal(receipt[att[r]])
      BY <2>11 DEF LockReceipt, CancelReturns, Reply, Exit, Start
    <3>b. /\ att[r] \in Attempts /\ receipt[att[r]] \in Receipts
          /\ IsTerminal(receipt[att[r]])
             \/ receipt[att[r]].state \in {"NONE", "PREPARED", "RUNNING"}
      BY <2>11 DEF LockReceipt, RpcPcs, TypeOK, IsTerminal, Receipts
    <3>1. Progress'
      BY <2>11, <3>a, <3>b DEF TypeOK, Progress, RpcPcs, ExecutorPcs, Begun
    <3>2. Leaving'
      BY <2>11, <3>a, <3>b DEF TypeOK, Leaving, RpcPcs, ExecutorPcs, Begun
    <3>3. Observing'
      BY <2>11, <3>a, <3>b DEF TypeOK, Observing, RpcPcs, ExecutorPcs, Begun
    <3>4. Training'
      BY <2>11, <3>a, <3>b DEF TypeOK, Training, RpcPcs, ExecutorPcs, Begun
    <3>5. Orphans'
      BY <2>11, <3>a, <3>b DEF TypeOK, Orphans, RpcPcs, ExecutorPcs, Begun
    <3> QED BY <3>1, <3>2, <3>3, <3>4, <3>5
  <2>12. ASSUME NEW r \in Rpcs, WriteMarker(r)
       PROVE  Evidence'
    BY <2>12 DEF WriteMarker, CancelReturns, Reply, Exit, Start, Go, local, TypeOK, Progress,
         Leaving, Observing, Training, Orphans, RpcPcs, ExecutorPcs, Begun,
         Locking, Leasing, TerminalStates
  <2>13. ASSUME NEW r \in Rpcs, TryClaim(r)
       PROVE  Evidence'
    BY <2>13 DEF TryClaim, Go, local, TypeOK, Progress, Leaving, Observing,
         Training, Orphans, RpcPcs, ExecutorPcs, Begun, Locking, Leasing,
         TerminalStates
  <2>14. ASSUME NEW r \in Rpcs, DropClaim(r)
       PROVE  Evidence'
    BY <2>14 DEF DropClaim, Go, local, TypeOK, Progress, Leaving, Observing,
         Training, Orphans, RpcPcs, ExecutorPcs, Begun, Locking, Leasing,
         TerminalStates
  <2>15. ASSUME NEW r \in Rpcs, WriteCancelled(r)
       PROVE  Evidence'
    <3>a. /\ att[r] \in Attempts /\ rlock[att[r]] = r
          /\ receipt[att[r]] = seen[r] /\ att[r] \in marker
          /\ seen[r].state \in {"PREPARED", "RUNNING"}
          /\ pc[r] = "cancel" => seen[r].state = "PREPARED"
          /\ pc[r] = "cancel" => \A e \in Executors : att[e] = att[r] =>
                                     pc[e] \notin {"lease", "begin"}
      BY <2>15 DEF WriteCancelled, Locking, Observing
    <3>b. /\ receipt'[att[r]].training = receipt[att[r]].training
          /\ receipt'[att[r]].state \notin {"NONE", "UNKNOWN"}
          /\ pc[r] = "flag" => receipt'[att[r]].state = receipt[att[r]].state
          /\ \A a \in Attempts : a # att[r] => receipt'[a] = receipt[a]
      BY <2>15, <3>a DEF WriteCancelled, TypeOK, Finished, Receipts, IsTerminal,
                       TerminalStates
    <3>c. /\ pc[r] \in {"cancel", "flag"} /\ seen' = [seen EXCEPT ![r] = NoReceipt]
          /\ \/ /\ pc' = [pc EXCEPT ![r] = "idle"]
                /\ att' = [att EXCEPT ![r] = Nobody]
                /\ op' = [op EXCEPT ![r] = "status"]
             \/ pc' = [pc EXCEPT ![r] = "spawn"] /\ UNCHANGED <<att, op>>
          /\ UNCHANGED <<marker, out, trains, pilots>>
      BY <2>15 DEF WriteCancelled, CancelReturns, Reply, Exit, Start
    <3>1. Progress'
      BY <2>15, <3>a, <3>b, <3>c DEF TypeOK, Progress, RpcPcs, ExecutorPcs,
           Begun, Locking
    <3>2. Leaving'
      BY <2>15, <3>a, <3>b, <3>c DEF TypeOK, Leaving, RpcPcs, ExecutorPcs,
           Begun, Locking
    <3>3. Observing'
      BY <2>15, <3>a, <3>b, <3>c DEF TypeOK, Observing, RpcPcs, ExecutorPcs,
           Begun, Locking
    <3>4. Training'
      BY <2>15, <3>a, <3>b, <3>c DEF TypeOK, Training, RpcPcs, ExecutorPcs,
           Begun, Locking
    <3>5. Orphans'
      BY <2>15, <3>a, <3>b, <3>c DEF TypeOK, Orphans, RpcPcs, ExecutorPcs,
           Begun, Locking
    <3> QED BY <3>1, <3>2, <3>3, <3>4, <3>5
  <2>16. ASSUME NEW r \in Rpcs, NEW a \in Attempts, NEW o \in Ops, Call(r, o, a)
       PROVE  Evidence'
    BY <2>16 DEF Call, Start, locks, TypeOK, Progress, Leaving, Observing,
         Training, Orphans, RpcPcs, ExecutorPcs, Begun
  <2>17. ASSUME NEW e \in Executors, Claim(e)
       PROVE  Evidence'
    BY <2>17 DEF Claim, Go, local, Exit, Start, TypeOK, Progress, Leaving,
         Observing, Training, Orphans, RpcPcs, ExecutorPcs, Begun, Locking,
         Leasing, TerminalStates
  <2>18. ASSUME NEW e \in Executors, Reload(e)
       PROVE  Evidence'
    BY <2>18 DEF Reload, Go, local, Quit, Exit, Start, TypeOK, Progress,
         Leaving, Observing, Training, Orphans, RpcPcs, ExecutorPcs, Begun,
         Locking, Leasing, TerminalStates
  <2>19. ASSUME NEW e \in Executors, Precheck(e)
       PROVE  Evidence'
    BY <2>19 DEF Precheck, Quit, Exit, Start, UnlessCancelled, Leave, Go, local, locks, TypeOK,
         Progress, Leaving, Observing, Training, Orphans, RpcPcs, ExecutorPcs,
         Begun, Locking, Leasing, TerminalStates
  <2>20. ASSUME NEW e \in Executors, Lease(e)
       PROVE  Evidence'
    <3>1. Progress'
      BY <2>20 DEF Lease, Go, local, Quit, Exit, Start, TypeOK, Progress,
           RpcPcs, ExecutorPcs, Begun, Locking
    <3>2. Leaving'
      BY <2>20 DEF Lease, Go, local, Quit, Exit, Start, TypeOK, Leaving, RpcPcs,
           ExecutorPcs, Begun, Locking
    <3>3. Observing'
      BY <2>20 DEF Lease, Go, local, Quit, Exit, Start, TypeOK, Observing,
           RpcPcs, ExecutorPcs, Begun, Locking
    <3>4. Training'
      BY <2>20 DEF Lease, Go, local, Quit, Exit, Start, TypeOK, Training,
           RpcPcs, ExecutorPcs, Begun, Locking
    <3>5. Orphans'
      BY <2>20 DEF Lease, Go, local, Quit, Exit, Start, TypeOK, Orphans, RpcPcs,
           ExecutorPcs, Begun, Locking
    <3> QED BY <3>1, <3>2, <3>3, <3>4, <3>5
  <2>21. ASSUME NEW e \in Executors, BeginAttempt(e)
       PROVE  Evidence'
    <3>a. att[e] \in Attempts /\ receipt[att[e]].state = "PREPARED"
      BY <2>21 DEF BeginAttempt, Progress
    <3>b. /\ receipt'[att[e]].state = "RUNNING"
          /\ \A a \in Attempts : a # att[e] => receipt'[a] = receipt[a]
          /\ pc[e] = "begin" /\ pc' = [pc EXCEPT ![e] = "validate"]
          /\ UNCHANGED <<marker, att, op, seen, out, trains, pilots>>
      BY <2>21, <3>a DEF BeginAttempt, Go, local, TypeOK, Receipts
    <3>c. claim[att[e]] = e /\ rlock[att[e]] = Nobody
      BY <2>21 DEF BeginAttempt, Locking
    <3>1. Progress'
      BY <2>21, <3>a, <3>b, <3>c DEF TypeOK, Progress, RpcPcs, ExecutorPcs,
           Begun, Locking
    <3>2. Leaving'
      BY <2>21, <3>a, <3>b, <3>c DEF TypeOK, Leaving, RpcPcs, ExecutorPcs,
           Begun, Locking
    <3>3. Observing'
      BY <2>21, <3>a, <3>b, <3>c DEF TypeOK, Observing, RpcPcs, ExecutorPcs,
           Begun, Locking
    <3>4. Training'
      BY <2>21, <3>a, <3>b, <3>c DEF TypeOK, Training, RpcPcs, ExecutorPcs,
           Begun, Locking
    <3>5. Orphans'
      BY <2>21, <3>a, <3>b, <3>c DEF TypeOK, Orphans, RpcPcs, ExecutorPcs,
           Begun, Locking
    <3> QED BY <3>1, <3>2, <3>3, <3>4, <3>5
  <2>22. ASSUME NEW e \in Executors, Validate(e)
       PROVE  Evidence'
    BY <2>22 DEF Validate, UnlessCancelled, Leave, Go, local, locks, TypeOK,
         Progress, Leaving, Observing, Training, Orphans, RpcPcs, ExecutorPcs,
         Begun, Locking, Leasing, TerminalStates
  <2>23. ASSUME NEW e \in Executors, Prestage(e)
       PROVE  Evidence'
    BY <2>23 DEF Prestage, UnlessCancelled, Leave, Go, local, locks, TypeOK,
         Progress, Leaving, Observing, Training, Orphans, RpcPcs, ExecutorPcs,
         Begun, Locking, Leasing, TerminalStates
  <2>24. ASSUME NEW e \in Executors, Stage(e)
       PROVE  Evidence'
    BY <2>24 DEF Stage, Go, local, locks, TypeOK, Progress, Leaving,
         Observing, Training, Orphans, RpcPcs, ExecutorPcs, Begun, Locking,
         Leasing, TerminalStates
  <2>25. ASSUME NEW e \in Executors, StageReturns(e)
       PROVE  Evidence'
    BY <2>25 DEF StageReturns, Go, local, Leave, locks, TypeOK, Progress,
         Leaving, Observing, Training, Orphans, RpcPcs, ExecutorPcs, Begun,
         Locking, Leasing, TerminalStates
  <2>26. ASSUME NEW e \in Executors, Staged(e)
       PROVE  Evidence'
    BY <2>26 DEF Staged, UnlessCancelled, Leave, Go, local, locks, TypeOK,
         Progress, Leaving, Observing, Training, Orphans, RpcPcs, ExecutorPcs,
         Begun, Locking, Leasing, TerminalStates
  <2>27. ASSUME NEW e \in Executors, ArmTraining(e)
       PROVE  Evidence'
    <3>a. att[e] \in Attempts /\ receipt[att[e]].state = "RUNNING"
      BY <2>27 DEF ArmTraining, Progress, Begun
    <3>b. /\ receipt' = [receipt EXCEPT ![att[e]].training = TRUE]
          /\ pc[e] = "arm" /\ pc' = [pc EXCEPT ![e] = "train"]
          /\ UNCHANGED <<marker, att, op, seen, out, trains, pilots>>
      BY <2>27, <3>a DEF ArmTraining, Go, local
    <3>c. /\ receipt'[att[e]].state = "RUNNING" /\ receipt'[att[e]].training
          /\ \A a \in Attempts : a # att[e] => receipt'[a] = receipt[a]
      BY <3>a, <3>b DEF TypeOK, Receipts
    <3>d. claim[att[e]] = e /\ rlock[att[e]] = Nobody
      BY <2>27 DEF ArmTraining, Locking
    <3>1. Progress'
      BY <2>27, <3>a, <3>b, <3>c, <3>d DEF TypeOK, Progress, RpcPcs,
           ExecutorPcs, Begun, Locking
    <3>2. Leaving'
      BY <2>27, <3>a, <3>b, <3>c, <3>d DEF TypeOK, Leaving, RpcPcs, ExecutorPcs,
           Begun, Locking
    <3>3. Observing'
      BY <2>27, <3>a, <3>b, <3>c, <3>d DEF TypeOK, Observing, RpcPcs,
           ExecutorPcs, Begun, Locking
    <3>4. Training'
      BY <2>27, <3>a, <3>b, <3>c, <3>d DEF TypeOK, Training, RpcPcs,
           ExecutorPcs, Begun, Locking
    <3>5. Orphans'
      BY <2>27, <3>a, <3>b, <3>c, <3>d DEF TypeOK, Orphans, RpcPcs, ExecutorPcs,
           Begun, Locking
    <3> QED BY <3>1, <3>2, <3>3, <3>4, <3>5
  <2>28. ASSUME NEW e \in Executors, Train(e)
       PROVE  Evidence'
    BY <2>28 DEF Train, Go, local, locks, TypeOK, Progress, Leaving,
         Observing, Training, Orphans, RpcPcs, ExecutorPcs, Begun, Locking,
         Leasing, TerminalStates
  <2>29. ASSUME NEW e \in Executors, TrainReturns(e)
       PROVE  Evidence'
    BY <2>29 DEF TrainReturns, Go, local, Leave, locks, TypeOK, Progress,
         Leaving, Observing, Training, Orphans, RpcPcs, ExecutorPcs, Begun,
         Locking, Leasing, TerminalStates
  <2>30. ASSUME NEW e \in Executors, Stopped(e)
       PROVE  Evidence'
    BY <2>30 DEF Stopped, Leave, locks, TypeOK, Progress, Leaving, Observing,
         Training, Orphans, RpcPcs, ExecutorPcs, Begun, Locking, Leasing,
         TerminalStates
  <2>31. ASSUME NEW e \in Executors, FinishAttempt(e)
       PROVE  Evidence'
    <3>a. /\ att[e] \in Attempts
          /\ receipt' = [receipt EXCEPT ![att[e]] = Finished(@, out[e])]
          /\ pc[e] = "finish" /\ pc' = [pc EXCEPT ![e] = "close"]
          /\ UNCHANGED <<marker, att, op, seen, out, trains, pilots>>
      BY <2>31 DEF FinishAttempt, Go, local
    <3>b. /\ receipt'[att[e]].state \in TerminalStates
          /\ receipt'[att[e]].state = "UNKNOWN" => receipt[att[e]].state = "UNKNOWN"
          /\ \A a \in Attempts : a # att[e] => receipt'[a] = receipt[a]
      BY <3>a, FinishedFacts DEF TypeOK, Leaving
    <3>c. claim[att[e]] = e /\ rlock[att[e]] = Nobody /\ receipt[att[e]].state # "NONE"
      BY <2>31 DEF FinishAttempt, Locking, Progress
    <3>1. Progress'
      BY <2>31, <3>a, <3>b, <3>c DEF TypeOK, Progress, RpcPcs, ExecutorPcs,
           Begun, Locking, TerminalStates
    <3>2. Leaving'
      BY <2>31, <3>a, <3>b, <3>c DEF TypeOK, Leaving, RpcPcs, ExecutorPcs,
           Begun, Locking, TerminalStates
    <3>3. Observing'
      BY <2>31, <3>a, <3>b, <3>c DEF TypeOK, Observing, RpcPcs, ExecutorPcs,
           Begun, Locking, TerminalStates
    <3>4. Training'
      BY <2>31, <3>a, <3>b, <3>c DEF TypeOK, Training, RpcPcs, ExecutorPcs,
           Begun, Locking, TerminalStates
    <3>5. Orphans'
      BY <2>31, <3>a, <3>b, <3>c DEF TypeOK, Orphans, RpcPcs, ExecutorPcs,
           Begun, Locking, TerminalStates
    <3> QED BY <3>1, <3>2, <3>3, <3>4, <3>5
  <2>32. ASSUME NEW e \in Executors, Close(e)
       PROVE  Evidence'
    BY <2>32 DEF Close, Go, local, TypeOK, Progress, Leaving, Observing,
         Training, Orphans, RpcPcs, ExecutorPcs, Begun, Locking, Leasing,
         TerminalStates
  <2>33. ASSUME NEW e \in Executors, Unclaim(e)
       PROVE  Evidence'
    BY <2>33 DEF Unclaim, Quit, Exit, Start, TypeOK, Progress, Leaving,
         Observing, Training, Orphans, RpcPcs, ExecutorPcs, Begun, Locking,
         Leasing, TerminalStates
  <2>34. ASSUME NEW e \in Executors, PilotExit(e)
       PROVE  Evidence'
    BY <2>34 DEF PilotExit, local, locks, TypeOK, Progress, Leaving,
         Observing, Training, Orphans, RpcPcs, ExecutorPcs, Begun, Locking,
         Leasing, TerminalStates
  <2>35. ASSUME NEW p \in Procs, Crash(p)
       PROVE  Evidence'
    <3>1. Progress'
      BY <2>35 DEF Crash, Reply, Exit, Start, Drop, TypeOK, Progress, RpcPcs,
           ExecutorPcs, Begun
    <3>2. Leaving'
      BY <2>35 DEF Crash, Reply, Exit, Start, Drop, TypeOK, Leaving, RpcPcs,
           ExecutorPcs, Begun
    <3>3. Observing'
      BY <2>35 DEF Crash, Reply, Exit, Start, Drop, TypeOK, Observing, RpcPcs,
           ExecutorPcs, Begun
    <3>4. Training'
      BY <2>35 DEF Crash, Reply, Exit, Start, Drop, TypeOK, Training, RpcPcs,
           ExecutorPcs, Begun
    <3>5. Orphans'
      BY <2>35 DEF Crash, Reply, Exit, Start, Drop, TypeOK, Orphans, RpcPcs,
           ExecutorPcs, Begun
    <3> QED BY <3>1, <3>2, <3>3, <3>4, <3>5
  <2>u. CASE UNCHANGED vars
    BY <2>u DEF vars, Progress, Leaving, Observing, Training, Orphans
  <2> QED
    BY <2>1, <2>2, <2>3, <2>4, <2>5, <2>6, <2>7, <2>8, <2>9, <2>10, <2>11,
         <2>12, <2>13, <2>14, <2>15, <2>16, <2>17, <2>18, <2>19, <2>20, <2>21,
         <2>22, <2>23, <2>24, <2>25, <2>26, <2>27, <2>28, <2>29, <2>30, <2>31,
         <2>32, <2>33, <2>34, <2>35, <2>u DEF Next, RpcStep, ExecutorStep
<1> QED BY <1>1, <1>2, Typing, LockSafety, PTL DEF Spec

(***************************************************************************)
(* The promises of docs/workers.md, for any number of attempts, wrappers,  *)
(* RPC processes and deaths.                                               *)
(***************************************************************************)

\* However many wrappers launch and replay spawn for an attempt, and wherever
\* they die, execute_attempt calls train for it at most once.
THEOREM DuplicateWrappersNeverTrain == Spec => []TrainOnce
<1>1. Evidence => TrainOnce
  BY DEF Evidence, Training, TrainOnce
<1> QED BY <1>1, EvidenceInvariant, PTL

\* One execution at a time on a worker, counting a pilot whose wrapper died:
\* acquire_lease excludes, and an inherited descriptor keeps excluding.
THEOREM SingleSlot == Spec => []OneSlot
<1>1. TypeOK /\ Leasing => OneSlot
  BY DEF TypeOK, Leasing, OneSlot
<1> QED BY <1>1, Typing, LockSafety, PTL

\* status_worker writes UNKNOWN only over an attempt nothing works on.
THEOREM UnknownIsQuiet == Spec => []UnknownMeansGone
<1>1. Evidence => UnknownMeansGone
  BY DEF Evidence, Progress, Orphans, UnknownMeansGone
<1> QED BY <1>1, EvidenceInvariant, PTL

\* Every call of train is covered by a RUNNING receipt whose training start is
\* recorded.
THEOREM TrainingIsRecorded == Spec => TrainsUnderReceipt
<1>1. TypeOK /\ Processes /\ Evidence /\ [Next]_vars =>
        [\A a \in Attempts : trains'[a] # trains[a] =>
            receipt[a].state = "RUNNING" /\ receipt[a].training]_vars
  <2> SUFFICES ASSUME TypeOK, Processes, Evidence, Next,
                      NEW a \in Attempts, trains'[a] # trains[a]
               PROVE  receipt[a].state = "RUNNING" /\ receipt[a].training
    OBVIOUS
  <2>1. PICK e \in Executors : Train(e)
    BY DEF Next, RpcStep, ExecutorStep, Call, Crash, PilotExit, Admit, WriteOrReturn,
       Spawn, Load, Recover, Reclaim, Finalize, Release, Probe, Unprobe, LockReceipt,
       WriteMarker, TryClaim, DropClaim, WriteCancelled, Claim, Reload, Precheck,
       Lease, BeginAttempt, Validate, Prestage, Stage, StageReturns, Staged,
       ArmTraining, TrainReturns, Stopped, FinishAttempt, Close, Unclaim
  <2>2. att[e] = a /\ pc[e] = "train"
    BY <2>1 DEF Train, TypeOK
  <2> QED BY <2>2 DEF Evidence, Progress, Begun
<1> QED BY <1>1, Typing, EvidenceInvariant, PTL DEF Spec, TrainsUnderReceipt

\* Every step of the worker's processes is a step the contract allows, or
\* leaves receipts and markers alone: terminal evidence is final, an attempt
\* never moves backwards, and only a marked attempt is acknowledged as
\* cancelled.
THEOREM ExecutionImplementsContract == Spec => ContractSpec
<1> USE ProcessAssumption DEF Procs
<1>1. Init => ContractInit
  BY DEF Init
<1>2. TypeOK /\ Processes /\ Evidence /\ [Next]_vars => [ContractNext]_contractVars
  <2> SUFFICES ASSUME TypeOK, Processes, Evidence, [Next]_vars
               PROVE  [ContractNext]_contractVars
    OBVIOUS
  <2>1. ASSUME NEW r \in Rpcs, Admit(r)
       PROVE  [ContractNext]_contractVars
    BY <2>1 DEF Admit, contractVars
  <2>2. ASSUME NEW r \in Rpcs, WriteOrReturn(r)
       PROVE  [ContractNext]_contractVars
    BY <2>2 DEF WriteOrReturn, contractVars, ContractNext, Prepare, TypeOK, Processes, RpcPcs
  <2>3. ASSUME NEW r \in Rpcs, Spawn(r)
       PROVE  [ContractNext]_contractVars
    BY <2>3 DEF Spawn, contractVars
  <2>4. ASSUME NEW r \in Rpcs, Load(r)
       PROVE  [ContractNext]_contractVars
    BY <2>4 DEF Load, contractVars
  <2>5. ASSUME NEW r \in Rpcs, Recover(r)
       PROVE  [ContractNext]_contractVars
    BY <2>5 DEF Recover, contractVars
  <2>6. ASSUME NEW r \in Rpcs, Reclaim(r)
       PROVE  [ContractNext]_contractVars
    BY <2>6 DEF Reclaim, contractVars
  <2>7. ASSUME NEW r \in Rpcs, Finalize(r)
       PROVE  [ContractNext]_contractVars
    <3>1. /\ att[r] \in Attempts /\ receipt[att[r]] \in Receipts
          /\ receipt[att[r]].state \notin {"NONE", "PREPARED"} /\ marker' = marker
          /\ receipt' = [receipt EXCEPT ![att[r]] = Finished(@, "UNKNOWN")]
      BY <2>7 DEF Finalize, Evidence, Observing, TypeOK, Processes
    <3>2. CASE receipt[att[r]].state = "RUNNING"
      BY <3>1, <3>2 DEF ContractNext, Finish, Outcomes
    <3>3. CASE IsTerminal(receipt[att[r]])
      BY <3>1, <3>3 DEF Finished, contractVars, TypeOK
    <3> QED BY <3>1, <3>2, <3>3 DEF IsTerminal, Receipts
  <2>8. ASSUME NEW r \in Rpcs, Release(r)
       PROVE  [ContractNext]_contractVars
    BY <2>8 DEF Release, contractVars
  <2>9. ASSUME NEW r \in Rpcs, Probe(r)
       PROVE  [ContractNext]_contractVars
    BY <2>9 DEF Probe, contractVars
  <2>10. ASSUME NEW r \in Rpcs, Unprobe(r)
       PROVE  [ContractNext]_contractVars
    BY <2>10 DEF Unprobe, contractVars
  <2>11. ASSUME NEW r \in Rpcs, LockReceipt(r)
       PROVE  [ContractNext]_contractVars
    BY <2>11 DEF LockReceipt, contractVars
  <2>12. ASSUME NEW r \in Rpcs, WriteMarker(r)
       PROVE  [ContractNext]_contractVars
    <3>1. /\ att[r] \in Attempts /\ ~IsTerminal(receipt[att[r]])
          /\ marker' = marker \cup {att[r]} /\ receipt' = receipt
      BY <2>12 DEF WriteMarker, Evidence, Observing, Processes, IsTerminal,
                 TerminalStates
    <3> QED BY <3>1 DEF ContractNext, Mark
  <2>13. ASSUME NEW r \in Rpcs, TryClaim(r)
       PROVE  [ContractNext]_contractVars
    BY <2>13 DEF TryClaim, contractVars
  <2>14. ASSUME NEW r \in Rpcs, DropClaim(r)
       PROVE  [ContractNext]_contractVars
    BY <2>14 DEF DropClaim, contractVars
  <2>15. ASSUME NEW r \in Rpcs, WriteCancelled(r)
       PROVE  [ContractNext]_contractVars
    <3>1. /\ att[r] \in Attempts /\ receipt[att[r]] = seen[r] /\ marker' = marker
          /\ att[r] \in marker /\ seen[r].state \in {"PREPARED", "RUNNING"}
          /\ pc[r] \in {"cancel", "flag"}
          /\ receipt' = [receipt EXCEPT ![att[r]] =
                           IF pc[r] = "cancel" THEN Finished(seen[r], "CANCELLED")
                           ELSE [seen[r] EXCEPT !.requested = TRUE]]
      BY <2>15 DEF WriteCancelled, Evidence, Observing, Processes
    <3>2. CASE pc[r] = "cancel"
      <4>1. receipt' = [receipt EXCEPT ![att[r]] = Finished(@, "CANCELLED")]
        BY <3>1, <3>2 DEF TypeOK
      <4> QED BY <3>1, <4>1 DEF ContractNext, Finish, Outcomes
    <3>3. CASE pc[r] = "flag"
      <4>1. receipt' = [receipt EXCEPT ![att[r]].requested = TRUE]
        BY <3>1, <3>3 DEF TypeOK
      <4> QED BY <3>1, <4>1 DEF ContractNext, Flag
    <3> QED BY <3>1, <3>2, <3>3
  <2>16. ASSUME NEW r \in Rpcs, NEW a \in Attempts, NEW o \in Ops, Call(r, o, a)
       PROVE  [ContractNext]_contractVars
    BY <2>16 DEF Call, contractVars
  <2>17. ASSUME NEW e \in Executors, Claim(e)
       PROVE  [ContractNext]_contractVars
    BY <2>17 DEF Claim, contractVars
  <2>18. ASSUME NEW e \in Executors, Reload(e)
       PROVE  [ContractNext]_contractVars
    BY <2>18 DEF Reload, contractVars
  <2>19. ASSUME NEW e \in Executors, Precheck(e)
       PROVE  [ContractNext]_contractVars
    BY <2>19 DEF Precheck, contractVars
  <2>20. ASSUME NEW e \in Executors, Lease(e)
       PROVE  [ContractNext]_contractVars
    BY <2>20 DEF Lease, contractVars
  <2>21. ASSUME NEW e \in Executors, BeginAttempt(e)
       PROVE  [ContractNext]_contractVars
    BY <2>21 DEF BeginAttempt, contractVars, ContractNext, Begin, Processes, TypeOK
  <2>22. ASSUME NEW e \in Executors, Validate(e)
       PROVE  [ContractNext]_contractVars
    BY <2>22 DEF Validate, contractVars
  <2>23. ASSUME NEW e \in Executors, Prestage(e)
       PROVE  [ContractNext]_contractVars
    BY <2>23 DEF Prestage, contractVars
  <2>24. ASSUME NEW e \in Executors, Stage(e)
       PROVE  [ContractNext]_contractVars
    BY <2>24 DEF Stage, contractVars
  <2>25. ASSUME NEW e \in Executors, StageReturns(e)
       PROVE  [ContractNext]_contractVars
    BY <2>25 DEF StageReturns, contractVars
  <2>26. ASSUME NEW e \in Executors, Staged(e)
       PROVE  [ContractNext]_contractVars
    BY <2>26 DEF Staged, contractVars
  <2>27. ASSUME NEW e \in Executors, ArmTraining(e)
       PROVE  [ContractNext]_contractVars
    BY <2>27 DEF ArmTraining, contractVars, ContractNext, Arm, Processes, TypeOK
  <2>28. ASSUME NEW e \in Executors, Train(e)
       PROVE  [ContractNext]_contractVars
    BY <2>28 DEF Train, contractVars
  <2>29. ASSUME NEW e \in Executors, TrainReturns(e)
       PROVE  [ContractNext]_contractVars
    BY <2>29 DEF TrainReturns, contractVars
  <2>30. ASSUME NEW e \in Executors, Stopped(e)
       PROVE  [ContractNext]_contractVars
    BY <2>30 DEF Stopped, contractVars
  <2>31. ASSUME NEW e \in Executors, FinishAttempt(e)
       PROVE  [ContractNext]_contractVars
    <3>1. /\ att[e] \in Attempts /\ receipt[att[e]] \in Receipts /\ marker' = marker
          /\ receipt[att[e]].state # "NONE"
          /\ receipt' = [receipt EXCEPT ![att[e]] = Finished(@, out[e])]
          /\ out[e] \in Outcomes /\ out[e] # "UNKNOWN"
          /\ out[e] = "CANCELLED" => att[e] \in marker
          /\ out[e] \in {"COMPLETE", "INTERRUPTED"} =>
                receipt[att[e]].state = "RUNNING" /\ receipt[att[e]].training
      BY <2>31 DEF FinishAttempt, Evidence, Progress, Leaving, Processes, TypeOK
    <3>2. CASE IsTerminal(receipt[att[e]])
      BY <3>1, <3>2 DEF Finished, contractVars, TypeOK
    <3>3. CASE receipt[att[e]].state \in {"PREPARED", "RUNNING"}
      <4>1. Finish(att[e])
        BY <3>1, <3>3 DEF Finish, Outcomes
      <4> QED BY <3>1, <4>1 DEF ContractNext
    <3> QED BY <3>1, <3>2, <3>3 DEF IsTerminal, Receipts
  <2>32. ASSUME NEW e \in Executors, Close(e)
       PROVE  [ContractNext]_contractVars
    BY <2>32 DEF Close, contractVars
  <2>33. ASSUME NEW e \in Executors, Unclaim(e)
       PROVE  [ContractNext]_contractVars
    BY <2>33 DEF Unclaim, contractVars
  <2>34. ASSUME NEW e \in Executors, PilotExit(e)
       PROVE  [ContractNext]_contractVars
    BY <2>34 DEF PilotExit, contractVars
  <2>35. ASSUME NEW p \in Procs, Crash(p)
       PROVE  [ContractNext]_contractVars
    BY <2>35 DEF Crash, contractVars
  <2>u. CASE UNCHANGED vars
    BY <2>u DEF vars, contractVars
  <2> QED
    BY <2>1, <2>2, <2>3, <2>4, <2>5, <2>6, <2>7, <2>8, <2>9, <2>10, <2>11,
         <2>12, <2>13, <2>14, <2>15, <2>16, <2>17, <2>18, <2>19, <2>20, <2>21,
         <2>22, <2>23, <2>24, <2>25, <2>26, <2>27, <2>28, <2>29, <2>30, <2>31,
         <2>32, <2>33, <2>34, <2>35, <2>u DEF Next, RpcStep, ExecutorStep
<1> QED BY <1>1, <1>2, Typing, EvidenceInvariant, PTL DEF Spec, ContractSpec
=============================================================================
