--------------------------- MODULE DispatchProofs ---------------------------
(***************************************************************************)
(* The safety properties of Dispatch for any number of attempts, workers,  *)
(* drivers, relay commits and failures.                                    *)
(*                                                                         *)
(* What a driver remembers is stale, so its invariant may only say what    *)
(* stays true while others act: a terminal receipt is final, a receipt     *)
(* never disappears, an assigned worker, a recovery and a published end of *)
(* a chain are never taken back (Monotone).  Every step is a transaction   *)
(* of the store and a step of the worker's contract, or leaves them alone, *)
(* so what ControllerStoreProofs shows of the queue holds here as well.    *)
(***************************************************************************)
EXTENDS Dispatch, ControllerStoreProofs

\* The terminal commit of a is on the relay.
Published(a) == chain[a] # <<>> /\ chain[a][Len(chain[a])] = "done"

\* The driver works on a row.
Busy(d) == pc[d] \notin {"idle", "next"}

(***************************************************************************)
(* A chain ends with its terminal commit, which only an ended attempt      *)
(* publishes, and its last checkpoint can be found from the end.           *)
(***************************************************************************)
ChainInv ==
    \A a \in Attempts :
        /\ \A i \in 1..Len(chain[a]) :
             chain[a][i] = "done" => i = Len(chain[a]) /\ IsTerminal(receipt[a])
        /\ ~Published(a) => Len(chain[a]) <= MaxCommits
        /\ \E i \in 0..Len(chain[a]) :
             /\ i = 0 \/ chain[a][i] = "saved"
             /\ \A k \in 1..Len(chain[a]) : chain[a][k] = "saved" => k <= i

\* What a driver remembers, and what it has already made sure of, at each step.
Locals(d) ==
    /\ IF Busy(d)
       THEN cur[d].att \in Attempts
       ELSE /\ cur[d] = NoJob /\ target[d] = NoWorker
            /\ reply[d] = NoReceipt /\ basis[d] = 0
    /\ \A j \in todo[d] : j.att \in Attempts
    /\ IsTerminal(reply[d]) => reply[d] = receipt[cur[d].att]
    /\ pc[d] = "assign" => target[d] \in Workers
    /\ pc[d] = "reconcile" => reply[d].state # "NONE"
    /\ pc[d] = "launched" => receipt[cur[d].att].state # "NONE"
    /\ pc[d] \in {"adopt", "record"} => basis[d] # 0
    /\ pc[d] \in {"launch", "launched"} \/ (phase[d] = "replay" /\ Busy(d))
         => worker[cur[d].att] # NoWorker
    /\ phase[d] = "queued" /\ pc[d] \in {"launch", "launched"}
         => target[d] = worker[cur[d].att]

\* Where a driver collects from a relay, and on which commits.
Collecting(d) ==
    /\ pc[d] = "chain" /\ basis[d] # 0 => HasRecovery(cur[d].att)
    /\ pc[d] = "settle" => Published(cur[d].att)
    /\ pc[d] = "import" => HasRecovery(cur[d].att) \/ Published(cur[d].att)
    /\ Relayed /\ pc[d] = "complete" => HasRecovery(cur[d].att) \/ Published(cur[d].att)
    /\ Relayed => pc[d] # "ingest" /\ (phase[d] = "ingest" => pc[d] # "status")

Delivered == \A a \in Attempts : receipt[a].state # "NONE" => worker[a] # NoWorker

Fetched ==
    \A a \in Attempts :
        Relayed /\ ingestion[a] = "COMPLETE" => HasRecovery(a) \/ Published(a)

DispatchInv ==
    /\ StoreInv
    /\ TypeOK
    /\ ChainInv
    /\ \A d \in Drivers : Locals(d) /\ Collecting(d)
    /\ Delivered
    /\ EvidenceIsGenuine
    /\ Fetched

\* With the process lock: only its holder assigns, and only to a free worker.
Locked ==
    \A d \in Drivers :
        /\ pc[d] \in {"choose", "assign"} => phase[d] = "queued"
        /\ phase[d] = "queued" /\ pc[d] # "idle" => plock = d
        /\ pc[d] = "assign" =>
             \A a \in Attempts : worker[a] = target[d] => HasTerminal(a)

SlotInv == Locked /\ OneAttemptPerWorker

-----------------------------------------------------------------------------
(* What every step has in common. *)

DriverTypes ==
    /\ plock \in Controllers \cup {Nobody}
    /\ phase \in [Drivers -> Phases]
    /\ pc \in [Drivers -> Steps]
    /\ todo \in [Drivers -> SUBSET Jobs]
    /\ cur \in [Drivers -> Jobs]
    /\ target \in [Drivers -> Workers \cup {NoWorker}]
    /\ reply \in [Drivers -> Receipts]
    /\ via \in [Drivers -> Calls \cup {"none", "unknown"}]
    /\ basis \in [Drivers -> 0..MaxCommits]

\* What a step may never take back.
Monotone ==
    \A a \in Attempts :
        /\ receipt[a].state # "NONE" => receipt'[a].state # "NONE"
        /\ IsTerminal(receipt[a]) => receipt'[a] = receipt[a]
        /\ worker[a] # NoWorker => worker'[a] = worker[a]
        /\ HasTerminal(a) => terminal'[a] = terminal[a]
        /\ HasRecovery(a) => HasRecovery(a)'
        /\ Published(a) => Published(a)'

\* What e remembers is not changed by the step; a step of d changes only d's.
Same(e) ==
    /\ pc'[e] = pc[e] /\ phase'[e] = phase[e] /\ todo'[e] = todo[e]
    /\ cur'[e] = cur[e] /\ target'[e] = target[e] /\ reply'[e] = reply[e]
    /\ basis'[e] = basis[e]

Others(d) == \A e \in Drivers \ {d} : Same(e)

\* An attempt's receipt keeps its type, and once it is terminal its value.
LEMMA ContractKeeps ==
    ASSUME receipt \in [Attempts -> Receipts], marker \in SUBSET Attempts,
           [ContractNext]_contractVars
    PROVE  /\ receipt' \in [Attempts -> Receipts] /\ marker' \in SUBSET Attempts
           /\ \A a \in Attempts :
                /\ receipt[a].state # "NONE" => receipt'[a].state # "NONE"
                /\ IsTerminal(receipt[a]) => receipt'[a] = receipt[a]
<1>1. ASSUME NEW a \in Attempts, Prepare(a) \/ Mark(a) \/ Flag(a) \/ Begin(a) \/ Arm(a)
      PROVE  /\ receipt' \in [Attempts -> Receipts] /\ marker' \in SUBSET Attempts
             /\ \A b \in Attempts :
                  /\ receipt[b].state # "NONE" => receipt'[b].state # "NONE"
                  /\ IsTerminal(receipt[b]) => receipt'[b] = receipt[b]
  <2>1. CASE Mark(a)
    BY <2>1 DEF Mark
  <2>2. CASE ~Mark(a)
    <3>1. PICK r \in Receipts :
            /\ receipt' = [receipt EXCEPT ![a] = r]
            /\ r.state # "NONE" /\ ~IsTerminal(receipt[a]) /\ marker' = marker
      <4>1. CASE Prepare(a)
        <5>1. Prepared \in Receipts /\ Prepared.state # "NONE"
          BY DEF Prepared, NoReceipt, Receipts
        <5> QED BY <4>1, <5>1 DEF Prepare, IsTerminal, TerminalStates
      <4>2. CASE Flag(a)
        <5> DEFINE r == [receipt[a] EXCEPT !.requested = TRUE]
        <5>1. r \in Receipts /\ r.state # "NONE"
          BY <4>2 DEF Flag, Receipts
        <5>2. receipt' = [receipt EXCEPT ![a] = r]
          BY <4>2 DEF Flag
        <5> QED BY <4>2, <5>1, <5>2 DEF Flag, IsTerminal, TerminalStates
      <4>3. CASE Begin(a)
        <5> DEFINE r == [receipt[a] EXCEPT !.state = "RUNNING"]
        <5>1. r \in Receipts /\ r.state # "NONE"
          BY <4>3 DEF Begin, Receipts
        <5>2. receipt' = [receipt EXCEPT ![a] = r]
          BY <4>3 DEF Begin
        <5> QED BY <4>3, <5>1, <5>2 DEF Begin, IsTerminal, TerminalStates
      <4>4. CASE Arm(a)
        <5> DEFINE r == [receipt[a] EXCEPT !.training = TRUE]
        <5>1. r \in Receipts /\ r.state # "NONE"
          BY <4>4 DEF Arm, Receipts
        <5>2. receipt' = [receipt EXCEPT ![a] = r]
          BY <4>4 DEF Arm
        <5> QED BY <4>4, <5>1, <5>2 DEF Arm, IsTerminal, TerminalStates
      <4> QED BY <1>1, <2>2, <4>1, <4>2, <4>3, <4>4
    <3> QED BY <3>1
  <2> QED BY <2>1, <2>2
<1>2. ASSUME NEW a \in Attempts, Finish(a)
      PROVE  /\ receipt' \in [Attempts -> Receipts] /\ marker' \in SUBSET Attempts
             /\ \A b \in Attempts :
                  /\ receipt[b].state # "NONE" => receipt'[b].state # "NONE"
                  /\ IsTerminal(receipt[b]) => receipt'[b] = receipt[b]
  <2>1. PICK outcome \in Outcomes :
          /\ receipt[a].state \in {"RUNNING", "PREPARED"}
          /\ receipt' = [receipt EXCEPT ![a] = Finished(receipt[a], outcome)]
    BY <1>2 DEF Finish
  <2>2. /\ Finished(receipt[a], outcome) \in Receipts
        /\ Finished(receipt[a], outcome).state # "NONE"
        /\ ~IsTerminal(receipt[a])
    BY <2>1 DEF Finished, Receipts, Outcomes, IsTerminal, TerminalStates
  <2> QED BY <2>1, <2>2, <1>2 DEF Finish
<1> QED BY <1>1, <1>2 DEF ContractNext, contractVars

\* The terminal commit is there: the attempt is over.
LEMMA PublishedIsOver ==
    ASSUME TypeOK, ChainInv, NEW a \in Attempts, Published(a)
    PROVE  IsTerminal(receipt[a]) /\ Len(chain[a]) \in Nat \ {0}
<1>1. chain[a] \in Seq(Commits) /\ chain[a] # <<>>
  BY DEF TypeOK, Published
<1>2. Len(chain[a]) \in Nat \ {0}
  BY <1>1
<1> QED BY <1>2 DEF ChainInv, Published

\* Every step is a transaction of the queue, or does not touch it.
LEMMA StoreSteps == DispatchInv /\ [Next]_vars => [StoreNext]_storeVars
<1> SUFFICES ASSUME DispatchInv, Next PROVE StoreNext \/ UNCHANGED storeVars
  BY DEF vars
<1>1. CASE Submit
  BY <1>1 DEF Submit, StoreNext
<1>2. ASSUME NEW d \in Drivers, DriverStep(d) PROVE StoreNext \/ UNCHANGED storeVars
  <2> USE DEF DispatchInv
  <2>0. Busy(d) => cur[d].att \in Attempts
    BY DEF Locals
  <2>1. CASE \/ Lock(d) \/ Tick(d) \/ Pick(d) \/ LoopEnds(d) \/ Choose(d) \/ Deliver(d)
             \/ Answer(d) \/ CollectRow(d) \/ ReadChain(d)
    BY <2>1 DEF Lock, Tick, Pick, LoopEnds, Choose, Deliver, Answer, CollectRow, ReadChain
  <2>2. CASE AssignRow(d)
    <3>1. cur[d].att \in Attempts /\ target[d] \in Workers /\ Assign(cur[d].att, target[d])
      BY <2>0, <2>2 DEF AssignRow, Busy, Locals
    <3> QED BY <3>1 DEF StoreNext, Transaction
  <2>3. CASE ReconcileReply(d)
    <3>1. cur[d].att \in Attempts /\ reply[d] \in Receipts /\ reply[d].state # "NONE"
          /\ Reconcile(cur[d].att, reply[d])
      BY <2>0, <2>3 DEF ReconcileReply, Busy, Locals, TypeOK
    <3> QED BY <3>1 DEF StoreNext, Transaction
  <2>4. CASE Request(d)
    BY <2>0, <2>4 DEF Request, Busy, StoreNext, Transaction
  <2>5. CASE Unreachable(d) \/ NoChain(d)
    BY <2>0, <2>5 DEF Unreachable, NoChain, Busy, StoreNext, Transaction
  <2>6. CASE Ingest(d) \/ Import(d)
    BY <2>0, <2>6 DEF Ingest, Import, Busy, StoreNext, Transaction
  <2>7. CASE Complete(d)
    BY <2>0, <2>7 DEF Complete, Busy, StoreNext, Transaction
  <2>8. CASE RecordError(d) \/ SplitBrain(d)
    BY <2>0, <2>8 DEF RecordError, SplitBrain, Busy, StoreNext, Transaction
  <2>9. CASE Resume(d)
    BY <2>9 DEF Resume, StoreNext
  <2>10. CASE Settle(d)
    <3>1. cur[d].att \in Attempts /\ Published(cur[d].att)
          /\ Reconcile(cur[d].att, receipt[cur[d].att])
      BY <2>0, <2>10 DEF Settle, Busy, Collecting
    <3>2. receipt[cur[d].att] \in Receipts /\ receipt[cur[d].att].state # "NONE"
      BY <3>1, PublishedIsOver DEF TypeOK, IsTerminal, TerminalStates
    <3> QED BY <3>1, <3>2 DEF StoreNext, Transaction
  <2>11. CASE Adopt(d)
    <3> DEFINE r == [Prepared EXCEPT !.state = "RUNNING", !.training = TRUE]
    <3>1. r \in Receipts /\ r.state # "NONE"
      BY DEF Prepared, NoReceipt, Receipts
    <3>2. cur[d].att \in Attempts /\ Reconcile(cur[d].att, r)
      BY <2>0, <2>11 DEF Adopt, Busy
    <3> QED BY <3>1, <3>2 DEF StoreNext, Transaction
  <2>12. CASE ConfirmLoss(d)
    <3>1. cur[d].att \in Attempts /\ RecordRecovery(cur[d].att, basis[d])
          /\ basis[d] # 0 /\ basis[d] \in 0..MaxCommits
      BY <2>0, <2>12 DEF ConfirmLoss, Busy, Locals, TypeOK
    <3>2. basis[d] \in Observations
      BY <3>1, DispatchAssumption
    <3> QED BY <3>1, <3>2 DEF StoreNext, Transaction
  <2> QED BY <1>2, <2>1, <2>2, <2>3, <2>4, <2>5, <2>6, <2>7, <2>8, <2>9, <2>10, <2>11, <2>12
          DEF DriverStep
<1>3. ASSUME NEW d \in Drivers, Fail(d) \/ Crash(d) PROVE UNCHANGED storeVars
  BY <1>3 DEF Fail, Crash
<1>4. ASSUME NEW d \in Drivers, NEW c \in Commands, NEW a \in Attempts, Command(d, c, a)
      PROVE UNCHANGED storeVars
  BY <1>4 DEF Command
<1>5. ASSUME NEW a \in Attempts, WorkerStep(a) \/ Publish(a) PROVE UNCHANGED storeVars
  BY <1>5 DEF WorkerStep, Publish
<1> QED BY <1>1, <1>2, <1>3, <1>4, <1>5 DEF Next

\* Every step is one the worker's contract allows, or does not reach the worker.
LEMMA ContractSteps == DispatchInv /\ [Next]_vars => [ContractNext]_contractVars
<1> SUFFICES ASSUME DispatchInv, Next PROVE ContractNext \/ UNCHANGED contractVars
  BY DEF vars
<1>1. CASE Submit
  BY <1>1 DEF Submit
<1>2. ASSUME NEW d \in Drivers, DriverStep(d) PROVE ContractNext \/ UNCHANGED contractVars
  <2>1. CASE Deliver(d)
    <3>1. cur[d].att \in Attempts
      BY <2>1 DEF Deliver, DispatchInv, Locals, Busy
    <3> QED BY <2>1, <3>1 DEF Deliver, ContractNext
  <2>2. CASE ~Deliver(d)
    BY <1>2, <2>2 DEF DriverStep, Lock, Tick, Pick, LoopEnds, Choose, AssignRow, Answer,
       ReconcileReply, Request, Unreachable, Ingest, Complete, RecordError, Resume,
       CollectRow, ReadChain, NoChain, SplitBrain, Settle, Adopt, ConfirmLoss, Import
  <2> QED BY <2>1, <2>2
<1>3. ASSUME NEW d \in Drivers, Fail(d) \/ Crash(d) PROVE UNCHANGED contractVars
  BY <1>3 DEF Fail, Crash
<1>4. ASSUME NEW d \in Drivers, NEW c \in Commands, NEW a \in Attempts, Command(d, c, a)
      PROVE UNCHANGED contractVars
  BY <1>4 DEF Command
<1>5. ASSUME NEW a \in Attempts, WorkerStep(a) \/ Publish(a)
      PROVE ContractNext \/ UNCHANGED contractVars
  BY <1>5 DEF WorkerStep, Publish, ContractNext
<1> QED BY <1>1, <1>2, <1>3, <1>4, <1>5 DEF Next

\* Append adds one element at the end and keeps the others.
LEMMA AppendFacts ==
    ASSUME NEW S, NEW s \in Seq(S), NEW e \in S
    PROVE  /\ Append(s, e) \in Seq(S) /\ Len(s) \in Nat
           /\ Len(Append(s, e)) = Len(s) + 1 /\ Append(s, e)[Len(Append(s, e))] = e
           /\ \A i \in 1..Len(s) : Append(s, e)[i] = s[i]
           /\ Append(s, e) # <<>>
<1>1. Append(s, e) \in Seq(S) /\ Len(s) \in Nat /\ Len(Append(s, e)) = Len(s) + 1
  OBVIOUS
<1>2. Append(s, e)[Len(Append(s, e))] = e /\ \A i \in 1..Len(s) : Append(s, e)[i] = s[i]
  OBVIOUS
<1>3. Append(s, e) # <<>>
  BY <1>1
<1> QED BY <1>1, <1>2, <1>3

\* A commit is added at the end, by an attempt that may still add one.
LEMMA PublishAppends ==
    ASSUME DispatchInv, NEW a \in Attempts, Publish(a)
    PROVE  \E commit \in Commits :
             /\ chain' = [chain EXCEPT ![a] = Append(chain[a], commit)]
             /\ UNCHANGED <<storeVars, contractVars, driverVars, failures>>
             /\ ~Published(a)
             /\ IF commit = "done" THEN IsTerminal(receipt[a]) ELSE Len(chain[a]) < MaxCommits
<1>1. PICK commit \in Commits :
        /\ chain' = [chain EXCEPT ![a] = Append(chain[a], commit)]
        /\ IF commit = "done"
           THEN IsTerminal(receipt[a]) /\ \A i \in 1..Len(chain[a]) : chain[a][i] # "done"
           ELSE /\ ~IsTerminal(receipt[a]) /\ Len(chain[a]) < MaxCommits
  BY DEF Publish, Commits, IsTerminal, TerminalStates
<1>2. ~Published(a)
  <2>1. ASSUME Published(a) PROVE FALSE
    <3>1. IsTerminal(receipt[a]) /\ Len(chain[a]) \in Nat \ {0}
      BY <2>1, PublishedIsOver DEF DispatchInv
    <3> QED BY <1>1, <2>1, <3>1 DEF Published
  <2> QED BY <2>1
<1> QED BY <1>1, <1>2 DEF Publish

\* Chains keep their type and their shape.
LEMMA ChainKeeps ==
    ASSUME DispatchInv, [Next]_vars
    PROVE  /\ (chain \in [Attempts -> Seq(Commits)])'
           /\ (\A a \in Attempts : Len(chain[a]) <= MaxCommits + 1)'
           /\ ChainInv'
           /\ \A a \in Attempts : Published(a) => Published(a)'
<1> USE DispatchAssumption
<1>0. /\ receipt \in [Attempts -> Receipts] /\ marker \in SUBSET Attempts
      /\ chain \in [Attempts -> Seq(Commits)]
      /\ \A a \in Attempts : Len(chain[a]) <= MaxCommits + 1
      /\ ChainInv
  BY DEF DispatchInv, TypeOK
<1>r. \A a \in Attempts : IsTerminal(receipt[a]) => receipt'[a] = receipt[a]
  BY <1>0, ContractSteps, ContractKeeps
<1>1. CASE UNCHANGED chain
  BY <1>0, <1>1, <1>r DEF ChainInv, Published
<1>2. ASSUME NEW a \in Attempts, Publish(a)
      PROVE  /\ (chain \in [Attempts -> Seq(Commits)])'
             /\ (\A b \in Attempts : Len(chain[b]) <= MaxCommits + 1)'
             /\ ChainInv'
             /\ \A b \in Attempts : Published(b) => Published(b)'
  <2>1. PICK commit \in Commits :
          /\ chain' = [chain EXCEPT ![a] = Append(chain[a], commit)]
          /\ UNCHANGED <<storeVars, contractVars, driverVars, failures>>
          /\ ~Published(a)
          /\ IF commit = "done" THEN IsTerminal(receipt[a]) ELSE Len(chain[a]) < MaxCommits
    BY <1>2, PublishAppends
  <2> DEFINE old == chain[a]
             new == Append(chain[a], commit)
  <2>2. /\ old \in Seq(Commits) /\ new \in Seq(Commits) /\ Len(old) \in Nat
        /\ Len(new) = Len(old) + 1 /\ new[Len(new)] = commit
        /\ \A i \in 1..Len(old) : new[i] = old[i]
        /\ new # <<>>
    BY <1>0, AppendFacts
  <2>3. chain'[a] = new /\ \A b \in Attempts \ {a} : chain'[b] = chain[b]
    BY <1>0, <2>1
  <2>4. \A b \in Attempts : Published(b) => Published(b)'
    BY <2>1, <2>3 DEF Published
  <2>5. Len(old) <= MaxCommits /\ \A i \in 1..Len(old) : old[i] # "done"
    <3>1. ASSUME NEW i \in 1..Len(old), old[i] = "done" PROVE FALSE
      <4>1. i = Len(old)
        BY <3>1, <1>0 DEF ChainInv
      <4>2. old # <<>>
        BY <2>2, <4>1
      <4> QED BY <2>1, <3>1, <4>1, <4>2 DEF Published
    <3> QED BY <3>1, <2>1, <1>0 DEF ChainInv
  <2>6. receipt' = receipt
    BY <2>1 DEF contractVars
  <2>7. /\ \A i \in 1..Len(new) : new[i] = "done" => i = Len(new) /\ IsTerminal(receipt[a])
        /\ commit # "done" => Len(new) <= MaxCommits
        /\ Len(new) <= MaxCommits + 1
    BY <2>1, <2>2, <2>5
  <2>8. \E i \in 0..Len(new) :
          /\ i = 0 \/ new[i] = "saved"
          /\ \A k \in 1..Len(new) : new[k] = "saved" => k <= i
    <3>1. CASE commit = "saved"
      <4>1. /\ Len(new) \in 0..Len(new) /\ new[Len(new)] = "saved"
            /\ \A k \in 1..Len(new) : k <= Len(new)
        BY <3>1, <2>2
      <4> QED BY <4>1
    <3>2. CASE commit # "saved"
      <4>1. PICK i \in 0..Len(old) :
              /\ i = 0 \/ old[i] = "saved"
              /\ \A k \in 1..Len(old) : old[k] = "saved" => k <= i
        BY <1>0 DEF ChainInv
      <4>2. i \in 0..Len(new) /\ (i = 0 \/ new[i] = "saved")
        BY <2>2, <4>1
      <4>3. ASSUME NEW k \in 1..Len(new), new[k] = "saved" PROVE k <= i
        BY <4>1, <4>3, <3>2, <2>2
      <4> QED BY <4>2, <4>3
    <3> QED BY <3>1, <3>2
  <2> HIDE DEF new, old
  <2>9. ~Published(a)' => commit # "done"
    BY <2>2, <2>3 DEF Published
  <2>10. ChainInv'
    <3> SUFFICES ASSUME NEW b \in Attempts
                 PROVE  /\ \A i \in 1..Len(chain'[b]) :
                             chain'[b][i] = "done" => i = Len(chain'[b]) /\ IsTerminal(receipt[b])
                        /\ ~Published(b)' => Len(chain'[b]) <= MaxCommits
                        /\ \E i \in 0..Len(chain'[b]) :
                             /\ i = 0 \/ chain'[b][i] = "saved"
                             /\ \A k \in 1..Len(chain'[b]) : chain'[b][k] = "saved" => k <= i
      BY <2>6 DEF ChainInv
    <3>1. CASE b = a
      BY <3>1, <2>3, <2>7, <2>8, <2>9
    <3>2. CASE b # a
      BY <3>2, <2>3, <1>0 DEF ChainInv, Published
    <3> QED BY <3>1, <3>2
  <2>11. (\A b \in Attempts : Len(chain[b]) <= MaxCommits + 1)'
    BY <1>0, <2>3, <2>7
  <2>12. chain' \in [Attempts -> Seq(Commits)]
    BY <1>0, <2>1, <2>2 DEF new
  <2> QED BY <2>4, <2>10, <2>11, <2>12
<1>3. UNCHANGED chain \/ \E a \in Attempts : Publish(a)
  <2>1. CASE UNCHANGED vars
    BY <2>1 DEF vars
  <2>2. ASSUME NEW d \in Drivers, DriverStep(d) \/ Fail(d) \/ Crash(d) PROVE UNCHANGED chain
    BY <2>2 DEF DriverStep, Lock, Tick, Pick, LoopEnds, Choose, AssignRow,
       Deliver, Answer, ReconcileReply, Request, Unreachable, Ingest, Complete, RecordError,
       Resume, CollectRow, ReadChain, NoChain, SplitBrain, Settle, Adopt, ConfirmLoss,
       Import, Fail, Crash
  <2>3. CASE Next
    BY <2>2, <2>3 DEF Next, Submit, Command, WorkerStep
  <2> QED BY <2>1, <2>3
<1> QED BY <1>1, <1>2, <1>3

\* No step takes back what others may rely on.
LEMMA StepsAreMonotone == DispatchInv /\ [Next]_vars => Monotone
<1> SUFFICES ASSUME DispatchInv, [Next]_vars PROVE Monotone
  OBVIOUS
<1>1. /\ \A a \in Attempts : Published(a) => Published(a)'
      /\ \A a \in Attempts :
           /\ receipt[a].state # "NONE" => receipt'[a].state # "NONE"
           /\ IsTerminal(receipt[a]) => receipt'[a] = receipt[a]
  BY ChainKeeps, ContractSteps, ContractKeeps DEF DispatchInv, TypeOK
<1>2. \A a \in Attempts :
        /\ HasTerminal(a) => terminal'[a] = terminal[a]
        /\ HasRecovery(a) => recovered'[a] = recovered[a]
        /\ worker[a] # NoWorker => worker'[a] = worker[a]
  BY StoreSteps, EvidenceKept DEF DispatchInv
<1> QED BY <1>1, <1>2 DEF Monotone, HasRecovery

-----------------------------------------------------------------------------
(* Drivers. *)

DriverInv == DriverTypes /\ \A d \in Drivers : Locals(d) /\ Collecting(d)

\* What a driver that is on its way to step w must have made sure of.
Entitled(d, w) ==
    /\ w \in Steps \ {"idle", "assign", "reconcile", "chain", "adopt"}
    /\ w = "record" => basis[d] # 0
    /\ Relayed => w # "ingest" /\ (phase[d] = "ingest" => w # "status")
    /\ \A a \in Attempts : a = cur[d].att =>
         /\ w = "launched" => receipt'[a].state # "NONE"
         /\ w \in {"launch", "launched"} =>
              worker'[a] # NoWorker /\ (phase[d] = "queued" => target[d] = worker'[a])
         /\ w = "settle" => Published(a)'
         /\ w = "import" \/ (Relayed /\ w = "complete") => HasRecovery(a)' \/ Published(a)'

\* What the others do leaves what e relies on true.
LEMMA OthersKeep ==
    ASSUME DispatchInv, Monotone, NEW e \in Drivers, Same(e)
    PROVE  Locals(e)' /\ Collecting(e)'
<1>1. Locals(e) /\ Collecting(e) /\ NoReceipt.state = "NONE"
  BY DEF DispatchInv, NoReceipt
<1>2. /\ pc'[e] = pc[e] /\ phase'[e] = phase[e] /\ todo'[e] = todo[e]
      /\ cur'[e] = cur[e] /\ target'[e] = target[e] /\ reply'[e] = reply[e]
      /\ basis'[e] = basis[e]
  BY DEF Same
<1>3. CASE Busy(e)
  <2>1. cur[e].att \in Attempts /\ Busy(e)'
    BY <1>1, <1>2, <1>3 DEF Locals, Busy
  <2>2. Locals(e)'
    BY <1>1, <1>2, <1>3, <2>1 DEF Locals, Monotone
  <2>3. Collecting(e)'
    BY <1>1, <1>2, <2>1 DEF Collecting, Monotone
  <2> QED BY <2>2, <2>3
<1>4. CASE ~Busy(e)
  <2>1. ~Busy(e)' /\ pc'[e] \in {"idle", "next"} /\ ~IsTerminal(reply[e])
    BY <1>1, <1>2, <1>4 DEF Busy, Locals, IsTerminal, TerminalStates
  <2>2. Locals(e)'
    BY <1>1, <1>2, <1>4, <2>1 DEF Locals
  <2>3. Collecting(e)'
    BY <2>1 DEF Collecting
  <2> QED BY <2>2, <2>3
<1> QED BY <1>3, <1>4

\* Goto changes what d remembers and nothing else.
LEMMA GotoMoves ==
    ASSUME DriverTypes, NEW d \in Drivers, NEW w \in Steps, Goto(d, w)
    PROVE  /\ DriverTypes' /\ Others(d)
           /\ pc'[d] = w /\ phase'[d] = phase[d] /\ todo'[d] = todo[d]
           /\ w = "next" => /\ cur'[d] = NoJob /\ target'[d] = NoWorker
                            /\ reply'[d] = NoReceipt /\ basis'[d] = 0
           /\ w # "next" => /\ cur'[d] = cur[d] /\ target'[d] = target[d]
                            /\ reply'[d] = reply[d] /\ basis'[d] = basis[d]
<1>1. NoJob \in Jobs /\ NoReceipt \in Receipts /\ 0 \in 0..MaxCommits
  BY DispatchAssumption DEF NoJob, Jobs, NoReceipt, Receipts
<1>2. CASE w = "next"
  BY <1>1, <1>2 DEF Goto, Forget, DriverTypes, Others, Same
<1>3. CASE w # "next"
  BY <1>3 DEF Goto, locals, DriverTypes, Others, Same
<1> QED BY <1>2, <1>3

\* A driver that is entitled to its next step keeps the invariant.
LEMMA GotoKeeps ==
    ASSUME DispatchInv, Monotone, NEW d \in Drivers, Busy(d), NEW w, Goto(d, w), Entitled(d, w)
    PROVE  DriverInv'
<1>0. DriverTypes /\ Locals(d) /\ cur[d].att \in Attempts /\ w \in Steps
  BY DEF DispatchInv, TypeOK, DriverTypes, Locals, Entitled
<1>1. /\ DriverTypes' /\ Others(d)
      /\ pc'[d] = w /\ phase'[d] = phase[d] /\ todo'[d] = todo[d]
      /\ w = "next" => /\ cur'[d] = NoJob /\ target'[d] = NoWorker
                       /\ reply'[d] = NoReceipt /\ basis'[d] = 0
      /\ w # "next" => /\ cur'[d] = cur[d] /\ target'[d] = target[d]
                       /\ reply'[d] = reply[d] /\ basis'[d] = basis[d]
  BY <1>0, GotoMoves
<1>2. Locals(d)'
  <2>1. CASE w = "next"
    <3>1. ~IsTerminal(NoReceipt)
      BY DEF NoReceipt, IsTerminal, TerminalStates
    <3> QED BY <3>1, <2>1, <1>0, <1>1 DEF Locals, Busy
  <2>2. CASE w # "next"
    <3>1. Busy(d)'
      BY <1>1, <2>2 DEF Entitled, Busy
    <3> QED BY <2>2, <3>1, <1>0, <1>1 DEF Locals, Entitled, Monotone
  <2> QED BY <2>1, <2>2
<1>3. Collecting(d)'
  <2>1. CASE w = "next"
    BY <2>1, <1>1 DEF Collecting
  <2>2. CASE w # "next"
    <3>1. cur'[d].att = cur[d].att /\ cur[d].att \in Attempts
      BY <2>2, <1>0, <1>1
    <3> QED BY <2>2, <3>1, <1>1 DEF Collecting, Entitled, HasRecovery, Published
  <2> QED BY <2>1, <2>2
<1> QED BY <1>1, <1>2, <1>3, OthersKeep DEF DriverInv, Others

\* The steps that end in a Goto: each is entitled to where it goes.
LEMMA RowStepsKeep ==
    ASSUME DispatchInv, Monotone, NEW d \in Drivers,
           \/ AssignRow(d) \/ Deliver(d) \/ Fail(d) \/ ReconcileReply(d) \/ Request(d)
           \/ Ingest(d) \/ Complete(d) \/ RecordError(d) \/ Resume(d)
    PROVE  DriverInv'
<1> SUFFICES Busy(d) /\ \E w : Goto(d, w) /\ Entitled(d, w)
  BY GotoKeeps
<1>0. Locals(d) /\ Collecting(d) /\ TypeOK /\ Relayed \in BOOLEAN
  BY DispatchAssumption DEF DispatchInv
<1>a. ASSUME Busy(d) PROVE cur[d].att \in Attempts
  BY <1>0, <1>a DEF Locals
<1>1. CASE AssignRow(d)
  <2> DEFINE a == cur[d].att
             w == IF status[a] = "QUEUED" THEN "launch" ELSE "next"
  <2>1. Busy(d) /\ a \in Attempts /\ target[d] \in Workers /\ Assign(a, target[d])
        /\ Goto(d, w)
    BY <1>1, <1>a, <1>0 DEF AssignRow, Busy, Locals
  <2>2. status[a] = "QUEUED" => worker'[a] = target[d]
    BY <2>1, <1>0 DEF Assign, TypeOK, StoreTypeOK
  <2>3. Entitled(d, w)
    BY <2>1, <2>2, StoreAssumption DEF Entitled, Steps
  <2> QED BY <2>1, <2>3
<1>2. CASE Deliver(d)
  <2>1. Busy(d) /\ cur[d].att \in Attempts
    BY <1>2, <1>a DEF Deliver, Busy
  <2>2. CASE pc[d] = "launch"
    <3>1. /\ Goto(d, "launched") /\ worker' = worker
          /\ Prepare(cur[d].att) \/ (receipt[cur[d].att].state # "NONE" /\ receipt' = receipt)
      BY <1>2, <2>2 DEF Deliver, storeVars, contractVars
    <3>2. receipt'[cur[d].att].state # "NONE"
      BY <2>1, <3>1, <1>0 DEF Prepare, Prepared, NoReceipt, TypeOK
    <3>3. Entitled(d, "launched")
      BY <3>1, <3>2, <2>2, <1>0 DEF Entitled, Locals, Steps, Calls
    <3> QED BY <2>1, <3>1, <3>3
  <2>3. CASE pc[d] = "cancel"
    <3>1. Goto(d, "cancelled") /\ Entitled(d, "cancelled")
      BY <1>2, <2>3 DEF Deliver, Entitled, Steps, Calls
    <3> QED BY <2>1, <3>1
  <2> QED BY <1>2, <2>2, <2>3 DEF Deliver
<1>3. CASE Fail(d)
  BY <1>3, <1>0 DEF Fail, Busy, Calls, AfterCancel, Entitled, Steps
<1>4. CASE ReconcileReply(d)
  <2>1. Busy(d) /\ worker' = worker
    BY <1>4 DEF ReconcileReply, Busy, Reconcile, storeVars
  <2>2. PICK w : /\ Goto(d, w)
                 /\ \/ w = AfterCancel(phase[d])
                    \/ w = "collect" \/ (~Relayed /\ w = "ingest") \/ w = "next"
                    \/ phase[d] = "replay" /\ w = Redeliver(d)
    BY <1>4 DEF ReconcileReply
  <2>3. Entitled(d, w)
    BY <2>1, <2>2, <1>0 DEF Entitled, AfterCancel, Redeliver, Steps, Calls, Locals
  <2> QED BY <2>1, <2>2, <2>3
<1>5. CASE Request(d)
  BY <1>5, <1>0 DEF Request, Busy, AfterCancel, Entitled, Steps, Calls
<1>6. CASE Ingest(d)
  BY <1>6, <1>0 DEF Ingest, Busy, Collecting, Entitled, Steps
<1>7. CASE Complete(d)
  BY <1>7 DEF Complete, Caught, Busy, Entitled, Steps
<1>8. CASE RecordError(d) \/ Resume(d)
  BY <1>8 DEF RecordError, Resume, Busy, Entitled, Steps
<1> QED BY <1>1, <1>2, <1>3, <1>4, <1>5, <1>6, <1>7, <1>8

\* collect_relay's steps that end in a Goto.
LEMMA CollectStepsKeep ==
    ASSUME DispatchInv, Monotone, NEW d \in Drivers,
           NoChain(d) \/ SplitBrain(d) \/ Settle(d) \/ Adopt(d) \/ ConfirmLoss(d) \/ Import(d)
    PROVE  DriverInv'
<1> SUFFICES Busy(d) /\ \E w : Goto(d, w) /\ Entitled(d, w)
  BY GotoKeeps
<1>0. Locals(d) /\ Collecting(d) /\ TypeOK /\ Relayed \in BOOLEAN
  BY DispatchAssumption DEF DispatchInv
<1>a. ASSUME Busy(d) PROVE cur[d].att \in Attempts
  BY <1>0, <1>a DEF Locals
<1>1. CASE NoChain(d) \/ SplitBrain(d)
  BY <1>1 DEF NoChain, SplitBrain, Caught, Busy, Entitled, Steps
<1>2. CASE Settle(d)
  <2>1. Busy(d) /\ cur[d].att \in Attempts /\ Goto(d, "import") /\ Published(cur[d].att)
    BY <1>2, <1>0, <1>a DEF Settle, Busy, Collecting
  <2>2. Entitled(d, "import")
    BY <2>1 DEF Monotone, Entitled, Steps
  <2> QED BY <2>1, <2>2
<1>3. CASE Adopt(d)
  BY <1>3, <1>0 DEF Adopt, Busy, Locals, Entitled, Steps
<1>4. CASE ConfirmLoss(d)
  <2>a. PICK a \in Attempts : a = cur[d].att
    BY <1>4, <1>a DEF ConfirmLoss, Busy
  <2> DEFINE w == IF Recoverable(a) THEN "import" ELSE "next"
  <2>1. Busy(d) /\ a \in Attempts /\ Goto(d, w) /\ RecordRecovery(a, basis[d]) /\ basis[d] # 0
    BY <1>4, <1>0, <2>a DEF ConfirmLoss, Busy, Locals
  <2>2. Recoverable(a) => HasRecovery(a)'
    BY <2>1, <1>0, DispatchAssumption DEF RecordRecovery, HasRecovery, TypeOK, StoreTypeOK
  <2>3. Entitled(d, w)
    BY <2>a, <2>2 DEF Entitled, Steps
  <2> QED BY <2>1, <2>3
<1>5. CASE Import(d)
  <2>1. Busy(d) /\ cur[d].att \in Attempts
        /\ (HasRecovery(cur[d].att) \/ Published(cur[d].att))
    BY <1>5, <1>0, <1>a DEF Import, Busy, Collecting
  <2>2. PICK w \in {"complete", "next", "error", "splitbrain"} : Goto(d, w)
    BY <1>5 DEF Import, Caught
  <2>3. Entitled(d, w)
    BY <2>1, <2>2 DEF Monotone, Entitled, Steps
  <2> QED BY <2>1, <2>2, <2>3
<1> QED BY <1>1, <1>2, <1>3, <1>4, <1>5

\* The frontier of a chain is one of its checkpoint commits, the last one.
LEMMA FrontierFacts ==
    ASSUME TypeOK, ChainInv, NEW a \in Attempts, Frontier(chain[a]) # 0
    PROVE  /\ Frontier(chain[a]) \in 1..Len(chain[a])
           /\ chain[a][Frontier(chain[a])] = "saved"
<1> DEFINE saved == {i \in 1..Len(chain[a]) : chain[a][i] = "saved"}
<1>1. saved # {} /\ Frontier(chain[a]) = CHOOSE i \in saved : \A k \in saved : k <= i
  BY DEF Frontier
<1>2. \E i \in saved : \A k \in saved : k <= i
  <2>1. PICK i \in 0..Len(chain[a]) :
          /\ i = 0 \/ chain[a][i] = "saved"
          /\ \A k \in 1..Len(chain[a]) : chain[a][k] = "saved" => k <= i
    BY DEF ChainInv
  <2>2. chain[a] \in Seq(Commits) /\ Len(chain[a]) \in Nat
    BY DEF TypeOK
  <2>3. i # 0
    BY <1>1, <2>1, <2>2
  <2> QED BY <2>1, <2>2, <2>3
<1>3. Frontier(chain[a]) \in saved
  BY <1>1, <1>2
<1> QED BY <1>3

\* tick reads the rows of its loops, and a loop picks one of them.
LEMMA LoopsKeep ==
    ASSUME DispatchInv, Monotone, NEW d \in Drivers,
           Tick(d) \/ Pick(d) \/ LoopEnds(d) \/ Crash(d)
    PROVE  DriverInv'
<1>0. /\ DriverTypes /\ Locals(d) /\ Collecting(d) /\ Relayed \in BOOLEAN
      /\ status \in [Attempts -> {"NONE"} \cup QueueStates]
  BY DispatchAssumption DEF DispatchInv, TypeOK, StoreTypeOK, DriverTypes
<1>1. /\ NoJob \in Jobs /\ NoReceipt \in Receipts /\ 0 \in 0..MaxCommits
      /\ ~IsTerminal(NoReceipt)
  BY DispatchAssumption DEF NoJob, Jobs, NoReceipt, Receipts, IsTerminal, TerminalStates
<1>2. \A p \in Phases : /\ {Job(a) : a \in Rows(p)} \in SUBSET Jobs
                        /\ \A j \in {Job(a) : a \in Rows(p)} : j.att \in Attempts
  <2>1. \A a \in Attempts : Job(a) \in Jobs /\ Job(a).att = a
    BY <1>0 DEF Job, Jobs, HasRecovery
  <2> QED BY <2>1 DEF Rows
<1> SUFFICES DriverTypes' /\ Others(d) /\ Locals(d)' /\ Collecting(d)'
  BY OthersKeep DEF DriverInv, Others
<1>3. CASE Tick(d)
  <2>1. /\ pc' = [pc EXCEPT ![d] = "next"] /\ phase' = [phase EXCEPT ![d] = "queued"]
        /\ todo' = [todo EXCEPT ![d] = {Job(a) : a \in Rows("queued")}]
        /\ UNCHANGED <<plock, cur, target, reply, via, basis>> /\ pc[d] = "idle"
    BY <1>3 DEF Tick, locals
  <2>2. DriverTypes' /\ Others(d)
    BY <2>1, <1>0, <1>2 DEF DriverTypes, Others, Same, Phases, Steps
  <2>3. Locals(d)'
    BY <2>1, <1>0, <1>1, <1>2 DEF DriverTypes, Locals, Busy, Phases
  <2>4. Collecting(d)'
    BY <2>1, <1>0 DEF DriverTypes, Collecting
  <2> QED BY <2>2, <2>3, <2>4
<1>4. CASE LoopEnds(d)
  <2>1. /\ UNCHANGED <<plock, cur, target, reply, via, basis>> /\ pc[d] = "next"
        /\ \/ /\ pc' = [pc EXCEPT ![d] = "idle"] /\ phase' = [phase EXCEPT ![d] = "queued"]
              /\ todo' = todo
           \/ /\ pc' = pc /\ phase' = [phase EXCEPT ![d] = NextPhase(phase[d])]
              /\ todo' = [todo EXCEPT ![d] = {Job(a) : a \in Rows(NextPhase(phase[d]))}]
    BY <1>4, <1>0 DEF LoopEnds, locals, DriverTypes
  <2>2. NextPhase(phase[d]) \in Phases /\ "queued" \in Phases
    BY DEF NextPhase, Phases
  <2>3. DriverTypes' /\ Others(d)
    BY <2>1, <2>2, <1>0, <1>2 DEF DriverTypes, Others, Same, Steps
  <2>4. Locals(d)'
    BY <2>1, <2>2, <1>0, <1>1, <1>2 DEF DriverTypes, Locals, Busy
  <2>5. Collecting(d)'
    BY <2>1, <1>0 DEF DriverTypes, Collecting
  <2> QED BY <2>3, <2>4, <2>5
<1>5. CASE Crash(d)
  <2>1. /\ pc' = [pc EXCEPT ![d] = "idle"] /\ phase' = [phase EXCEPT ![d] = "queued"]
        /\ todo' = [todo EXCEPT ![d] = {}] /\ Forget(d)
        /\ plock' = IF plock = d THEN Nobody ELSE plock
    BY <1>5 DEF Crash
  <2>2. DriverTypes' /\ Others(d)
    BY <2>1, <1>0, <1>1 DEF Forget, DriverTypes, Others, Same, Steps, Phases
  <2>3. Locals(d)' /\ Collecting(d)'
    BY <2>1, <1>0, <1>1 DEF Forget, DriverTypes, Locals, Collecting, Busy
  <2> QED BY <2>2, <2>3
<1>6. CASE Pick(d)
  <2>1. PICK j \in todo[d] :
          /\ todo' = [todo EXCEPT ![d] = todo[d] \ {j}]
          /\ pc' = [pc EXCEPT ![d] = Entry(phase[d], j)]
          /\ cur' = [cur EXCEPT ![d] = IF Entry(phase[d], j) = "next" THEN NoJob ELSE j]
          /\ UNCHANGED <<plock, phase, target, reply, via, basis, worker>> /\ pc[d] = "next"
    BY <1>6 DEF Pick, storeVars
  <2>2. j \in Jobs /\ j.att \in Attempts
    BY <1>0, <2>1 DEF DriverTypes, Locals
  <2>3. /\ Entry(phase[d], j) \in Steps \ {"idle"}
        /\ Entry(phase[d], j) \notin {"assign", "reconcile", "launched", "adopt", "record",
             "launch", "chain", "settle", "import", "complete", "ingest"}
        /\ phase[d] = "replay" /\ Entry(phase[d], j) # "next" => worker[j.att] # NoWorker
        /\ Relayed /\ phase[d] = "ingest" => Entry(phase[d], j) # "status"
    BY <1>0 DEF Entry, Steps, Calls
  <2>4. DriverTypes' /\ Others(d)
    BY <2>1, <2>2, <2>3, <1>0, <1>1 DEF DriverTypes, Others, Same
  <2>5. /\ pc'[d] = Entry(phase[d], j) /\ phase'[d] = phase[d] /\ todo'[d] \subseteq todo[d]
        /\ cur'[d] = IF Entry(phase[d], j) = "next" THEN NoJob ELSE j
        /\ target'[d] = NoWorker /\ reply'[d] = NoReceipt /\ basis'[d] = 0
        /\ worker' = worker
    BY <2>1, <1>0 DEF DriverTypes, Locals, Busy
  <2>6. Locals(d)'
    BY <2>5, <2>3, <2>2, <1>0, <1>1 DEF Locals, Busy
  <2>7. Collecting(d)'
    BY <2>5, <2>3 DEF Collecting
  <2> QED BY <2>4, <2>6, <2>7
<1> QED BY <1>3, <1>4, <1>5, <1>6

\* A command starts on the row it names.
LEMMA CommandKeeps ==
    ASSUME DispatchInv, Monotone, NEW d \in Drivers, NEW c \in Commands, NEW a \in Attempts,
           Command(d, c, a)
    PROVE  DriverInv'
<1>0. /\ DriverTypes /\ Locals(d) /\ Relayed \in BOOLEAN
      /\ status \in [Attempts -> {"NONE"} \cup QueueStates]
  BY DispatchAssumption DEF DispatchInv, TypeOK, StoreTypeOK, DriverTypes
<1>1. ~IsTerminal(NoReceipt)
  BY DEF NoReceipt, IsTerminal, TerminalStates
<1>2. PICK p \in {"poll", "cancel", "collect", "recover", "resume"} :
        /\ pc[d] = "idle" /\ Entry(p, Job(a)) # "next"
        /\ phase' = [phase EXCEPT ![d] = p] /\ pc' = [pc EXCEPT ![d] = Entry(p, Job(a))]
        /\ cur' = [cur EXCEPT ![d] = Job(a)]
        /\ UNCHANGED <<plock, todo, target, reply, via, basis>>
  BY DispatchAssumption DEF Command
<1>3. Job(a) \in Jobs /\ Job(a).att = a
  BY <1>0 DEF Job, Jobs, HasRecovery
<1>4. /\ Entry(p, Job(a)) \in Steps \ {"idle", "next"} /\ p \in Phases
      /\ Entry(p, Job(a)) \notin {"assign", "reconcile", "launched", "adopt", "record",
           "launch", "chain", "settle", "import", "complete", "ingest"}
  BY <1>0, <1>2 DEF Entry, Steps, Calls, Phases
<1> HIDE DEF Entry, Job
<1>5. DriverTypes' /\ Others(d)
  BY <1>0, <1>2, <1>3, <1>4 DEF DriverTypes, Others, Same
<1>6. /\ pc'[d] = Entry(p, Job(a)) /\ phase'[d] = p /\ todo'[d] = todo[d]
      /\ cur'[d] = Job(a) /\ target'[d] = NoWorker /\ reply'[d] = NoReceipt /\ basis'[d] = 0
  BY <1>0, <1>2 DEF DriverTypes, Locals, Busy
<1>7. Locals(d)'
  BY <1>0, <1>1, <1>2, <1>3, <1>4, <1>6 DEF Locals, Busy
<1>8. Collecting(d)'
  BY <1>2, <1>4, <1>6 DEF Collecting
<1> QED BY <1>5, <1>7, <1>8, OthersKeep DEF DriverInv, Others

\* The steps that also note what they read: the worker chosen, the reply, the
\* observation of the row, the frontier of the chain.
LEMMA ReadStepsKeep ==
    ASSUME DispatchInv, Monotone, NEW d \in Drivers,
           Choose(d) \/ Answer(d) \/ Unreachable(d) \/ CollectRow(d) \/ ReadChain(d)
    PROVE  DriverInv'
<1>0. /\ DriverTypes /\ Locals(d) /\ Collecting(d) /\ Relayed \in BOOLEAN /\ TypeOK
      /\ receipt \in [Attempts -> Receipts]
      /\ recovered \in [Attempts -> Observations \cup {NoObservation}]
  BY DispatchAssumption DEF DispatchInv, TypeOK, StoreTypeOK, DriverTypes
<1>b. Busy(d) /\ cur[d].att \in Attempts
  BY <1>0 DEF Choose, Answer, Unreachable, CollectRow, ReadChain, Busy, Calls, Locals
<1>g. ASSUME NEW w, Goto(d, w), Entitled(d, w) PROVE DriverInv'
  BY <1>b, <1>g, GotoKeeps
<1>s. ASSUME DriverTypes', Others(d), Locals(d)', Collecting(d)' PROVE DriverInv'
  BY <1>s, OthersKeep DEF DriverInv, Others
<1>n. Entitled(d, "next")
  BY DEF Entitled, Steps
<1>1. CASE Choose(d)
  <2>1. CASE Goto(d, "next")
    BY <2>1, <1>g, <1>n
  <2>2. CASE ~Goto(d, "next")
    <3>1. PICK w \in Workers :
            /\ pc' = [pc EXCEPT ![d] = "assign"] /\ target' = [target EXCEPT ![d] = w]
            /\ UNCHANGED <<plock, phase, todo, cur, reply, via, basis, receipt, worker>>
      BY <1>1, <2>2 DEF Choose, storeVars, contractVars
    <3>2. DriverTypes' /\ Others(d)
      BY <3>1, <1>0 DEF DriverTypes, Others, Same, Steps
    <3>3. pc[d] = "choose" /\ pc'[d] = "assign" /\ target'[d] = w
      BY <1>1, <3>1, <1>0 DEF Choose, DriverTypes
    <3>4. Locals(d)'
      BY <3>1, <3>3, <1>0, <1>b DEF Locals, Busy
    <3>5. Collecting(d)'
      BY <3>3 DEF Collecting
    <3> QED BY <3>2, <3>4, <3>5, <1>s
  <2> QED BY <2>1, <2>2
<1>2. CASE Answer(d)
  <2> DEFINE r == receipt[cur[d].att]
  <2>1. CASE Goto(d, "next")
    BY <2>1, <1>g, <1>n
  <2>2. CASE ~Goto(d, "next")
    <3>1. PICK where :
            /\ pc' = [pc EXCEPT ![d] = where]
            /\ reply' = [reply EXCEPT ![d] = r]
            /\ via' = [via EXCEPT ![d] = pc[d]]
            /\ UNCHANGED <<plock, phase, todo, cur, target, basis, receipt, worker>>
            /\ pc[d] \in Calls
            /\ \/ where = "reconcile" /\ (r.state # "NONE" \/ pc[d] = "launched")
               \/ where \in {"launch", "cancel"} /\ phase[d] = "replay"
               \/ where = "status" /\ phase[d] = "poll"
               \/ where = "ingest" /\ pc[d] = "status" /\ phase[d] = "ingest"
      BY <1>2, <2>2 DEF Answer, AfterCancel, Redeliver, Calls, storeVars, contractVars
    <3>2. r \in Receipts /\ (pc[d] = "launched" => r.state # "NONE")
      BY <1>0, <1>b DEF Locals
    <3> HIDE DEF r
    <3>3. DriverTypes' /\ Others(d)
      BY <3>1, <3>2, <1>0 DEF DriverTypes, Others, Same, Steps, Calls
    <3>4. /\ pc'[d] = where /\ reply'[d] = r /\ phase'[d] = phase[d] /\ cur'[d] = cur[d]
          /\ todo' = todo /\ target' = target /\ basis' = basis /\ worker' = worker
          /\ receipt' = receipt
      BY <3>1, <1>0 DEF DriverTypes
    <3>5. Locals(d)'
      BY <3>1, <3>2, <3>4, <1>0, <1>b DEF Locals, Busy, r
    <3>6. Collecting(d)'
      BY <3>1, <3>4, <1>0 DEF Collecting
    <3> QED BY <3>3, <3>5, <3>6, <1>s
  <2> QED BY <2>1, <2>2
<1>3. CASE Unreachable(d)
  <2>1. CASE Goto(d, "next")
    BY <2>1, <1>g, <1>n
  <2>2. CASE ~Goto(d, "next")
    <3>1. /\ pc' = [pc EXCEPT ![d] = "collect"] /\ via' = [via EXCEPT ![d] = "unknown"]
          /\ UNCHANGED <<plock, phase, todo, cur, target, reply, basis, receipt, worker>>
          /\ pc[d] = "unknown"
      BY <1>3, <2>2 DEF Unreachable, MarkUnknown, contractVars
    <3>2. DriverTypes' /\ Others(d) /\ pc'[d] = "collect"
      BY <3>1, <1>0 DEF DriverTypes, Others, Same, Steps
    <3>3. Locals(d)'
      BY <3>1, <3>2, <1>0, <1>b DEF Locals, Busy
    <3>4. Collecting(d)'
      BY <3>2 DEF Collecting
    <3> QED BY <3>2, <3>3, <3>4, <1>s
  <2> QED BY <2>1, <2>2
<1>4. CASE CollectRow(d)
  <2>1. /\ pc' = [pc EXCEPT ![d] = "chain"]
        /\ basis' = [basis EXCEPT ![d] = recovered[cur[d].att]]
        /\ UNCHANGED <<plock, phase, todo, cur, target, reply, via, receipt, worker, recovered>>
        /\ pc[d] = "collect"
    BY <1>4 DEF CollectRow, storeVars, contractVars
  <2>2. recovered[cur[d].att] \in 0..MaxCommits
    BY <1>0, <1>b, DispatchAssumption
  <2>3. /\ DriverTypes' /\ Others(d) /\ pc'[d] = "chain" /\ basis'[d] = recovered[cur[d].att]
    BY <2>1, <2>2, <1>0 DEF DriverTypes, Others, Same, Steps
  <2>4. Locals(d)'
    BY <2>1, <2>3, <1>0, <1>b DEF Locals, Busy
  <2>5. Collecting(d)'
    BY <2>1, <2>3, DispatchAssumption DEF Collecting, HasRecovery
  <2> QED BY <2>3, <2>4, <2>5, <1>s
<1>5. CASE ReadChain(d)
  <2>a. PICK a \in Attempts : a = cur[d].att
    BY <1>b
  <2> DEFINE commits == chain[a]
             last == commits[Len(commits)]
             where == CASE commits = <<>> -> "nochain"
                        [] basis[d] # 0 ->
                             IF Len(commits) = basis[d] THEN "import" ELSE "conflict"
                        [] last = "done" ->
                             IF phase[d] = "recover" THEN "next" ELSE "settle"
                        [] phase[d] # "recover" -> Caught(d, "text")
                        [] Frontier(commits) = 0 -> "nochain"
                        [] OTHER -> "adopt"
  <2>0. /\ pc[d] = "chain" /\ UNCHANGED <<storeVars, contractVars, chain>>
        /\ \/ where # "adopt" /\ Goto(d, where)
           \/ /\ where = "adopt" /\ pc' = [pc EXCEPT ![d] = where]
              /\ basis' = [basis EXCEPT ![d] = Frontier(commits)]
              /\ UNCHANGED <<plock, phase, todo, cur, target, reply, via>>
    BY <1>5, <2>a DEF ReadChain
  <2>1. CASE where # "adopt"
    <3>1. PICK w : /\ Goto(d, w)
                   /\ \/ w \in {"nochain", "conflict", "next", "error", "splitbrain"}
                      \/ w = "import" /\ basis[d] # 0
                      \/ w = "settle" /\ commits # <<>> /\ last = "done"
      BY <2>0, <2>1 DEF Caught
    <3>2. basis[d] # 0 => HasRecovery(a)
      BY <2>0, <2>a, <1>0 DEF Collecting
    <3>3. commits # <<>> /\ last = "done" => Published(a)
      BY DEF Published
    <3>4. Entitled(d, w)
      BY <3>1, <3>2, <3>3, <2>a DEF Entitled, Steps, Monotone
    <3> QED BY <3>1, <3>4, <1>g
  <2>2. CASE where = "adopt"
    <3>1. /\ pc' = [pc EXCEPT ![d] = "adopt"] /\ basis' = [basis EXCEPT ![d] = Frontier(commits)]
          /\ UNCHANGED <<plock, phase, todo, cur, target, reply, via>>
          /\ Frontier(commits) # 0 /\ last # "done"
      BY <2>0, <2>2 DEF Caught
    <3>2. Frontier(commits) \in 1..Len(commits) /\ Len(commits) \in Nat
      BY <3>1, <1>0, FrontierFacts DEF DispatchInv, TypeOK
    <3>3. Frontier(commits) \in 0..MaxCommits
      <4>1. Len(commits) <= MaxCommits
        BY <3>1 DEF DispatchInv, ChainInv, Published
      <4> QED BY <3>2, <4>1, DispatchAssumption
    <3> HIDE DEF commits
    <3>4. DriverTypes' /\ Others(d) /\ pc'[d] = "adopt" /\ basis'[d] = Frontier(commits)
      BY <3>1, <3>3, <1>0 DEF DriverTypes, Others, Same, Steps
    <3>5. worker' = worker /\ receipt' = receipt
      BY <2>0 DEF storeVars, contractVars
    <3>6. Locals(d)'
      BY <2>0, <3>1, <3>4, <3>5, <1>0, <1>b DEF Locals, Busy
    <3>7. Collecting(d)'
      BY <3>4 DEF Collecting
    <3> QED BY <3>4, <3>6, <3>7, <1>s
  <2> QED BY <2>1, <2>2
<1> QED BY <1>1, <1>2, <1>3, <1>4, <1>5

\* Every step keeps what the drivers remember consistent.
LEMMA DriversKeep == DispatchInv /\ [Next]_vars => DriverInv'
<1> SUFFICES ASSUME DispatchInv, [Next]_vars PROVE DriverInv'
  OBVIOUS
<1>0. Monotone
  BY StepsAreMonotone
<1>q. ASSUME UNCHANGED <<phase, pc, todo, locals>>, plock' \in Controllers \cup {Nobody}
      PROVE  DriverInv'
  <2>1. DriverTypes'
    BY <1>q DEF DispatchInv, TypeOK, DriverTypes, locals
  <2>2. \A e \in Drivers : Same(e)
    BY <1>q DEF Same, locals
  <2> QED BY <1>0, <2>1, <2>2, OthersKeep DEF DriverInv
<1>p. plock \in Controllers \cup {Nobody}
  BY DEF DispatchInv, TypeOK
<1>1. CASE Submit \/ UNCHANGED vars \/ \E a \in Attempts : WorkerStep(a) \/ Publish(a)
  BY <1>1, <1>p, <1>q DEF Submit, WorkerStep, Publish, driverVars, vars
<1>2. ASSUME NEW d \in Drivers, DriverStep(d) \/ Fail(d) \/ Crash(d) PROVE DriverInv'
  <2>1. CASE Lock(d)
    BY <2>1, <1>q DEF Lock
  <2> QED BY <1>0, <1>2, <2>1, RowStepsKeep, CollectStepsKeep, LoopsKeep, ReadStepsKeep
          DEF DriverStep
<1>3. ASSUME NEW d \in Drivers, NEW c \in Commands, NEW a \in Attempts, Command(d, c, a)
      PROVE DriverInv'
  BY <1>0, <1>3, CommandKeeps
<1> QED BY <1>1, <1>2, <1>3 DEF Next

-----------------------------------------------------------------------------
(* Receipts, evidence and artifacts. *)

\* The steps of a driver that change a terminal receipt, an ingestion status or
\* the worker's receipt; every other step leaves all three alone.
LEMMA WhoWrites ==
    ASSUME DispatchInv, Next
    PROVE  \/ \E d \in Drivers : \/ Deliver(d) \/ ReconcileReply(d) \/ Settle(d) \/ Adopt(d)
                                 \/ Complete(d)
           \/ \E a \in Attempts : WorkerStep(a)
           \/ UNCHANGED <<terminal, receipt>>
              /\ \A a \in Attempts : ingestion'[a] = "COMPLETE" => ingestion[a] = "COMPLETE"
<1> DEFINE Quiet == UNCHANGED <<terminal, receipt>>
              /\ \A a \in Attempts : ingestion'[a] = "COMPLETE" => ingestion[a] = "COMPLETE"
<1>0. ingestion \in [Attempts -> {"PENDING", "ERROR", "COMPLETE", "NOT_REQUIRED"}]
  BY DEF DispatchInv, StoreInv, StoreTypeOK
<1>s. UNCHANGED storeVars /\ UNCHANGED contractVars => Quiet
  BY DEF storeVars, contractVars
<1>1. CASE Submit
  BY <1>1 DEF Submit, Enqueue, contractVars
<1>2. ASSUME NEW d \in Drivers, DriverStep(d)
      PROVE  Quiet \/ Deliver(d) \/ ReconcileReply(d) \/ Settle(d) \/ Adopt(d) \/ Complete(d)
  <2>1. CASE \/ Lock(d) \/ Tick(d) \/ Pick(d) \/ LoopEnds(d) \/ Choose(d) \/ Answer(d)
             \/ CollectRow(d) \/ ReadChain(d)
    BY <1>s, <2>1 DEF Lock, Tick, Pick, LoopEnds, Choose, Answer, CollectRow, ReadChain
  <2>2. CASE AssignRow(d)
    BY <2>2 DEF AssignRow, Assign, storeVars, contractVars
  <2>3. CASE Request(d)
    BY <1>0, <2>3 DEF Request, RequestCancel, contractVars
  <2>4. CASE Unreachable(d) \/ NoChain(d)
    BY <2>4 DEF Unreachable, NoChain, MarkUnknown, contractVars
  <2>5. CASE Ingest(d) \/ Import(d)
    BY <1>0, <2>5 DEF Ingest, Import, MarkIngestionNotRequired, storeVars, contractVars
  <2>6. CASE RecordError(d) \/ SplitBrain(d)
    BY <1>0, <2>6 DEF RecordError, SplitBrain, MarkIngestionError, RetainConflict, storeVars,
       contractVars
  <2>7. CASE Resume(d)
    BY <2>7 DEF Resume, Enqueue, contractVars
  <2>8. CASE ConfirmLoss(d)
    BY <1>0, <2>8 DEF ConfirmLoss, RecordRecovery, storeVars, contractVars
  <2> QED BY <1>2, <2>1, <2>2, <2>3, <2>4, <2>5, <2>6, <2>7, <2>8 DEF DriverStep
<1>3. ASSUME NEW d \in Drivers, Fail(d) \/ Crash(d) PROVE Quiet
  BY <1>s, <1>3 DEF Fail, Crash
<1>4. ASSUME NEW d \in Drivers, NEW c \in Commands, NEW a \in Attempts, Command(d, c, a)
      PROVE Quiet
  BY <1>s, <1>4 DEF Command
<1>5. ASSUME NEW a \in Attempts, Publish(a) PROVE Quiet
  BY <1>s, <1>5 DEF Publish
<1> QED BY <1>1, <1>2, <1>3, <1>4, <1>5 DEF Next

\* A receipt appears only by a launch on an assigned row.
LEMMA DeliveredKept == DispatchInv /\ Next => Delivered'
<1> SUFFICES ASSUME DispatchInv, Next PROVE Delivered'
  OBVIOUS
<1>0. /\ Monotone /\ Delivered /\ receipt \in [Attempts -> Receipts]
  BY StepsAreMonotone DEF DispatchInv, TypeOK
<1> SUFFICES ASSUME NEW b \in Attempts, receipt'[b].state # "NONE", receipt[b].state = "NONE"
             PROVE  worker[b] # NoWorker
  BY <1>0 DEF Delivered, Monotone
<1>1. ASSUME NEW d \in Drivers, Deliver(d) PROVE worker[b] # NoWorker
  <2>1. Locals(d)
    BY DEF DispatchInv
  <2> QED BY <1>0, <1>1, <2>1 DEF Deliver, Prepare, Mark, contractVars, Locals, Busy
<1>2. ASSUME NEW a \in Attempts, WorkerStep(a) PROVE FALSE
  BY <1>0, <1>2 DEF WorkerStep, Begin, Arm, Flag, Finish, Finished
<1>3. ASSUME NEW d \in Drivers, ReconcileReply(d) \/ Settle(d) \/ Adopt(d) \/ Complete(d)
      PROVE  FALSE
  BY <1>3 DEF ReconcileReply, Settle, Adopt, Complete, contractVars
<1> QED BY <1>1, <1>2, <1>3, WhoWrites

\* What is stored as terminal came from the worker, and stays true of it.
LEMMA GenuineKept == DispatchInv /\ Next => EvidenceIsGenuine'
<1> SUFFICES ASSUME DispatchInv, Next PROVE EvidenceIsGenuine'
  OBVIOUS
<1>0. /\ Monotone /\ EvidenceIsGenuine /\ StoredIsTerminal
      /\ terminal \in [Attempts -> Receipts]
  BY StepsAreMonotone DEF DispatchInv, StoreInv, StoreTypeOK
<1>1. ASSUME NEW b \in Attempts, terminal'[b] = terminal[b], HasTerminal(b)'
      PROVE  terminal'[b] = receipt'[b]
  BY <1>0, <1>1 DEF EvidenceIsGenuine, StoredIsTerminal, HasTerminal, Monotone
<1>2. ASSUME NEW a \in Attempts, NEW r, Reconcile(a, r), receipt' = receipt,
             IsTerminal(r) => r = receipt[a]
      PROVE  EvidenceIsGenuine'
  BY <1>0, <1>1, <1>2 DEF Reconcile, storeVars, EvidenceIsGenuine, HasTerminal
<1>3. ASSUME NEW d \in Drivers, ReconcileReply(d) PROVE EvidenceIsGenuine'
  <2>1. Locals(d) /\ cur[d].att \in Attempts /\ Reconcile(cur[d].att, reply[d])
        /\ receipt' = receipt
    BY <1>3 DEF ReconcileReply, DispatchInv, Locals, Busy, contractVars
  <2> QED BY <1>2, <2>1 DEF Locals
<1>4. ASSUME NEW d \in Drivers, Settle(d) PROVE EvidenceIsGenuine'
  <2>1. cur[d].att \in Attempts /\ Reconcile(cur[d].att, receipt[cur[d].att])
        /\ receipt' = receipt
    BY <1>4 DEF Settle, DispatchInv, Locals, Busy, contractVars
  <2> QED BY <1>2, <2>1
<1>5. ASSUME NEW d \in Drivers, Adopt(d) PROVE EvidenceIsGenuine'
  <2> DEFINE r == [Prepared EXCEPT !.state = "RUNNING", !.training = TRUE]
  <2>1. cur[d].att \in Attempts /\ Reconcile(cur[d].att, r) /\ receipt' = receipt
    BY <1>5 DEF Adopt, DispatchInv, Locals, Busy, contractVars
  <2>2. ~IsTerminal(r)
    BY DEF Prepared, NoReceipt, IsTerminal, TerminalStates
  <2> QED BY <1>2, <2>1, <2>2
<1>6. CASE terminal' = terminal
  BY <1>1, <1>6 DEF EvidenceIsGenuine
<1>7. ASSUME NEW d \in Drivers, Deliver(d) \/ Complete(d) PROVE terminal' = terminal
  BY <1>7 DEF Deliver, Complete, MarkIngestionComplete, storeVars
<1>8. ASSUME NEW a \in Attempts, WorkerStep(a) PROVE terminal' = terminal
  BY <1>8 DEF WorkerStep, storeVars
<1> QED BY <1>3, <1>4, <1>5, <1>6, <1>7, <1>8, WhoWrites

\* COMPLETE rests on a recovery or on the terminal commit.
LEMMA FetchedKept == DispatchInv /\ Next => Fetched'
<1> SUFFICES ASSUME DispatchInv, Next PROVE Fetched'
  OBVIOUS
<1>0. /\ Monotone /\ Fetched
      /\ ingestion \in [Attempts -> {"PENDING", "ERROR", "COMPLETE", "NOT_REQUIRED"}]
  BY StepsAreMonotone DEF DispatchInv, StoreInv, StoreTypeOK
<1>1. CASE \A a \in Attempts : ingestion'[a] = "COMPLETE" => ingestion[a] = "COMPLETE"
  BY <1>0, <1>1 DEF Fetched, Monotone
<1>2. ASSUME NEW d \in Drivers, Complete(d) PROVE Fetched'
  <2>1. PICK a \in Attempts : a = cur[d].att
    BY <1>2 DEF Complete, DispatchInv, Locals, Busy
  <2>2. Relayed => HasRecovery(a) \/ Published(a)
    BY <1>2, <2>1 DEF Complete, DispatchInv, Collecting
  <2>3. \A b \in Attempts \ {a} : ingestion'[b] = ingestion[b]
    BY <1>0, <1>2, <2>1 DEF Complete, MarkIngestionComplete, storeVars
  <2> QED BY <1>0, <2>2, <2>3 DEF Fetched, Monotone
<1>3. ASSUME NEW d \in Drivers, Deliver(d) \/ ReconcileReply(d) \/ Settle(d) \/ Adopt(d),
             NEW a \in Attempts, ingestion'[a] = "COMPLETE"
      PROVE ingestion[a] = "COMPLETE"
  BY <1>0, <1>3 DEF Deliver, ReconcileReply, Settle, Adopt, Reconcile, storeVars
<1>4. ASSUME NEW a \in Attempts, WorkerStep(a) PROVE ingestion' = ingestion
  BY <1>4 DEF WorkerStep, storeVars
<1> QED BY <1>1, <1>2, <1>3, <1>4, WhoWrites

\* Failures are counted up to the bound.
LEMMA FailuresBounded == DispatchInv /\ [Next]_vars => failures' \in 0..MaxFailures
<1> SUFFICES ASSUME DispatchInv, [Next]_vars PROVE failures' \in 0..MaxFailures
  OBVIOUS
<1> USE DispatchAssumption
<1>0. failures \in 0..MaxFailures
  BY DEF DispatchInv, TypeOK
<1>1. CASE failures' = failures
  BY <1>0, <1>1
<1>2. CASE failures < MaxFailures /\ failures' = failures + 1
  BY <1>0, <1>2
<1>3. ASSUME NEW d \in Drivers, DriverStep(d) \/ Fail(d) \/ Crash(d)
      PROVE  failures' = failures \/ (failures < MaxFailures /\ failures' = failures + 1)
  BY <1>3 DEF DriverStep, Lock, Tick, Pick, LoopEnds, Choose, AssignRow,
     Deliver, Answer, ReconcileReply, Request, Unreachable, Ingest, Complete, RecordError,
     Resume, CollectRow, ReadChain, NoChain, SplitBrain, Settle, Adopt, ConfirmLoss,
     Import, Fail, Crash
<1>4. CASE Submit \/ UNCHANGED vars \/ \E a \in Attempts : WorkerStep(a) \/ Publish(a)
  BY <1>4, <1>1 DEF Submit, WorkerStep, Publish, vars
<1>5. ASSUME NEW d \in Drivers, NEW c \in Commands, NEW a \in Attempts, Command(d, c, a)
      PROVE failures' = failures
  BY <1>5 DEF Command
<1> QED BY <1>1, <1>2, <1>3, <1>4, <1>5 DEF Next

-----------------------------------------------------------------------------
(* Theorems. *)

\* The invariant holds at the start: every row, receipt, chain and driver is empty.
LEMMA DispatchStarts == Init => DispatchInv
<1> SUFFICES ASSUME Init PROVE DispatchInv
  OBVIOUS
<1> USE DispatchAssumption
<1>1. StoreInv
  BY StoreStarts DEF Init
<1>2. /\ NoReceipt \in Receipts /\ NoJob \in Jobs /\ ~IsTerminal(NoReceipt)
      /\ NoReceipt.state = "NONE"
  BY DEF NoReceipt, Receipts, NoJob, Jobs, IsTerminal, TerminalStates
<1>3. /\ chain \in [Attempts -> Seq(Commits)]
      /\ \A a \in Attempts : chain[a] = <<>> /\ Len(chain[a]) = 0
  BY DEF Init
<1>4. TypeOK
  BY <1>1, <1>2, <1>3 DEF Init, TypeOK, StoreInv, ContractInit, Phases, Steps
<1>5. ChainInv
  <2> SUFFICES ASSUME NEW a \in Attempts, NEW n, n = Len(chain[a])
               PROVE  /\ \A i \in 1..n :
                           chain[a][i] = "done" => i = n /\ IsTerminal(receipt[a])
                      /\ n <= MaxCommits
                      /\ \E i \in 0..n :
                           /\ i = 0 \/ chain[a][i] = "saved"
                           /\ \A k \in 1..n : chain[a][k] = "saved" => k <= i
    BY DEF ChainInv
  <2>1. n = 0 /\ 1..n = {} /\ 0 \in 0..n
    BY <1>3
  <2> QED BY <2>1
<1>6. \A d \in Drivers : Locals(d) /\ Collecting(d)
  BY <1>2 DEF Init, Locals, Collecting, Busy
<1>7. Delivered /\ EvidenceIsGenuine /\ Fetched
  BY <1>2 DEF Init, Delivered, EvidenceIsGenuine, Fetched, ContractInit, StoreInit, HasTerminal
<1> QED BY <1>1, <1>4, <1>5, <1>6, <1>7 DEF DispatchInv

\* No step breaks the invariant.
LEMMA DispatchSteps == DispatchInv /\ [Next]_vars => DispatchInv'
<1> SUFFICES ASSUME DispatchInv, [Next]_vars PROVE DispatchInv'
  OBVIOUS
<1>1. StoreInv'
  BY StoreSteps, TransactionsPreserve DEF DispatchInv
<1>2. /\ receipt' \in [Attempts -> Receipts] /\ marker' \in SUBSET Attempts
  BY ContractSteps, ContractKeeps DEF DispatchInv, TypeOK
<1>3. DriverInv' /\ ChainInv' /\ chain' \in [Attempts -> Seq(Commits)]
      /\ (\A a \in Attempts : Len(chain[a]) <= MaxCommits + 1)' /\ failures' \in 0..MaxFailures
  BY DriversKeep, ChainKeeps, FailuresBounded
<1>4. TypeOK'
  BY <1>1, <1>2, <1>3 DEF TypeOK, StoreInv, DriverInv, DriverTypes
<1>5. (Delivered /\ EvidenceIsGenuine /\ Fetched)'
  <2>1. CASE Next
    BY <2>1, DeliveredKept, GenuineKept, FetchedKept
  <2>2. CASE UNCHANGED vars
    BY <2>2 DEF vars, storeVars, contractVars, DispatchInv, Delivered, EvidenceIsGenuine,
       Fetched, HasTerminal, HasRecovery, Published
  <2> QED BY <2>1, <2>2
<1> QED BY <1>1, <1>3, <1>4, <1>5 DEF DispatchInv, DriverInv

\* Rows, receipts, chains and drivers stay consistent, whoever ticks, commands,
\* fails or dies, and in whatever order.
THEOREM DispatchInvariant == Spec => []DispatchInv
BY DispatchStarts, DispatchSteps, PTL DEF Spec

\* Every variable of the dispatch keeps its type.
THEOREM DispatchTyping == Spec => []TypeOK
<1>1. DispatchInv => TypeOK
  BY DEF DispatchInv
<1> QED BY <1>1, DispatchInvariant, PTL

\* The controller stores no terminal receipt that is not the worker's own.
THEOREM EvidenceGenuine == Spec => []EvidenceIsGenuine
<1>1. DispatchInv => EvidenceIsGenuine
  BY DEF DispatchInv
<1> QED BY <1>1, DispatchInvariant, PTL

\* An attempt cancelled in the queue reaches no worker, whatever tick had read its row.
THEOREM QueuedCancelIsSilent == Spec => []QueuedCancelCreatesNothing
<1>1. DispatchInv => QueuedCancelCreatesNothing
  BY DEF DispatchInv, Delivered, QueuedCancelCreatesNothing
<1> QED BY <1>1, DispatchInvariant, PTL

\* Only the tick that won the compare-and-set launches, on the worker of the row.
THEOREM LaunchIsAssigned == Spec => []LaunchFollowsAssignment
<1>1. DispatchInv => LaunchFollowsAssignment
  BY DEF DispatchInv, Locals, LaunchFollowsAssignment
<1> QED BY <1>1, DispatchInvariant, PTL

\* With a relay, the artifacts of a settled run are complete only from its
\* terminal commit.
THEOREM CompletionIsPublished == Spec => []CompleteIsPublished
<1>1. DispatchInv => CompleteIsPublished
  BY DEF DispatchInv, StoreInv, OneKindOfEvidence, Fetched, Published, CompleteIsPublished
<1> QED BY <1>1, DispatchInvariant, PTL

\* The drivers use the queue as StoreSpec allows: whatever is proved of the queue
\* for arbitrary callers holds while they dispatch, fail and race.
THEOREM DispatchImplementsStore == Spec => StoreSpec
<1>1. Init => StoreInit
  BY DEF Init
<1> QED BY <1>1, StoreSteps, DispatchInvariant, PTL DEF Spec, StoreSpec

\* Seen from its receipts, a worker under dispatch is the worker of the contract.
THEOREM DispatchKeepsContract == Spec => ContractSpec
<1>1. Init => ContractInit
  BY DEF Init
<1> QED BY <1>1, ContractSteps, DispatchInvariant, PTL DEF Spec, ContractSpec

\* While drivers race, the evidence decides the status of a row.
THEOREM DispatchedEvidenceDecides == Spec => []StatusFollowsEvidence
BY DispatchImplementsStore, EvidenceDecides, PTL

\* While drivers race, a row is never both settled and fenced.
THEOREM DispatchedEvidenceIsExclusive == Spec => []OneKindOfEvidence
BY DispatchImplementsStore, EvidenceIsExclusive, PTL

\* While drivers race, CANCELLED is proven.
THEOREM DispatchedCancellationIsProven == Spec => []CancelledIsProven
BY DispatchImplementsStore, CancellationIsProven, PTL

\* While drivers race, evidence and assignments are never revised.
THEOREM DispatchedEvidenceIsImmutable == Spec => EvidenceIsFinal
BY DispatchImplementsStore, EvidenceIsImmutable, PTL

-----------------------------------------------------------------------------
(* The process lock. *)

\* Only assign writes worker_id.
LEMMA OnlyAssignWritesWorker ==
    ASSUME DispatchInv, [Next]_vars, \A d \in Drivers : ~AssignRow(d)
    PROVE  worker' = worker
<1>1. ASSUME NEW d \in Drivers, DriverStep(d) PROVE worker' = worker
  <2>1. CASE \/ Lock(d) \/ Tick(d) \/ Pick(d) \/ LoopEnds(d) \/ Choose(d) \/ Deliver(d)
             \/ Answer(d) \/ CollectRow(d) \/ ReadChain(d)
    BY <2>1 DEF Lock, Tick, Pick, LoopEnds, Choose, Deliver, Answer, CollectRow, ReadChain,
       storeVars
  <2>2. CASE ReconcileReply(d) \/ Settle(d) \/ Adopt(d)
    BY <2>2 DEF ReconcileReply, Settle, Adopt, Reconcile, storeVars
  <2>3. CASE Request(d) \/ Unreachable(d) \/ NoChain(d) \/ Resume(d) \/ ConfirmLoss(d)
    BY <2>3 DEF Request, RequestCancel, Unreachable, NoChain, MarkUnknown, Resume, Enqueue,
       ConfirmLoss, RecordRecovery, storeVars
  <2>4. CASE Ingest(d) \/ Import(d) \/ Complete(d) \/ RecordError(d) \/ SplitBrain(d)
    BY <2>4 DEF Ingest, Import, MarkIngestionNotRequired, Complete, MarkIngestionComplete,
       RecordError, SplitBrain, MarkIngestionError, RetainConflict, storeVars
  <2> QED BY <1>1, <2>1, <2>2, <2>3, <2>4 DEF DriverStep
<1>2. ASSUME NEW d \in Drivers, Fail(d) \/ Crash(d) PROVE worker' = worker
  BY <1>2 DEF Fail, Crash, storeVars
<1>3. ASSUME NEW d \in Drivers, NEW c \in Commands, NEW a \in Attempts, Command(d, c, a)
      PROVE worker' = worker
  BY <1>3 DEF Command, storeVars
<1>4. CASE Submit \/ UNCHANGED vars \/ \E a \in Attempts : WorkerStep(a) \/ Publish(a)
  BY <1>4 DEF Submit, Enqueue, WorkerStep, Publish, vars, storeVars
<1> QED BY <1>1, <1>2, <1>3, <1>4 DEF Next

\* Whom a step of d does not concern keeps place, phase and target.
Elsewhere(d) ==
    \A e \in Drivers \ {d} : pc'[e] = pc[e] /\ phase'[e] = phase[e] /\ target'[e] = target[e]

\* The steps on a row leave the loop and the lock alone and neither choose nor assign.
LEMMA RowStepsAdvance ==
    ASSUME DispatchInv, NEW d \in Drivers,
           \/ AssignRow(d) \/ Deliver(d) \/ Answer(d) \/ Fail(d) \/ ReconcileReply(d)
           \/ Request(d) \/ Unreachable(d) \/ Ingest(d) \/ Complete(d) \/ RecordError(d)
           \/ Resume(d) \/ CollectRow(d) \/ ReadChain(d) \/ NoChain(d) \/ SplitBrain(d)
           \/ Settle(d) \/ Adopt(d) \/ ConfirmLoss(d) \/ Import(d)
    PROVE  /\ Elsewhere(d) /\ plock' = plock
           /\ pc[d] # "idle" /\ pc'[d] \notin {"choose", "assign"} /\ phase'[d] = phase[d]
<1> USE DEF Elsewhere
<1>0. /\ pc \in [Drivers -> Steps] /\ phase \in [Drivers -> Phases]
      /\ target \in [Drivers -> Workers \cup {NoWorker}]
  BY DEF DispatchInv, TypeOK
<1>1. ASSUME NEW w, Goto(d, w)
      PROVE  /\ \A e \in Drivers \ {d} :
                  pc'[e] = pc[e] /\ phase'[e] = phase[e] /\ target'[e] = target[e]
             /\ plock' = plock /\ pc'[d] = w /\ phase'[d] = phase[d]
  BY <1>0, <1>1 DEF Goto, Forget, locals
<1>2. CASE AssignRow(d) \/ RecordError(d) \/ Resume(d) \/ Settle(d) \/ Adopt(d) \/ ConfirmLoss(d)
  BY <1>1, <1>2 DEF AssignRow, RecordError, Resume, Settle, Adopt, ConfirmLoss
<1>3. CASE Deliver(d) \/ Ingest(d)
  BY <1>1, <1>3 DEF Deliver, Ingest
<1>4. CASE Complete(d) \/ NoChain(d) \/ SplitBrain(d) \/ Import(d)
  BY <1>1, <1>4 DEF Complete, NoChain, SplitBrain, Import, Caught
<1>5. CASE Fail(d) \/ Request(d)
  BY <1>1, <1>5 DEF Fail, Request, AfterCancel, Calls
<1>6. CASE ReconcileReply(d)
  BY <1>1, <1>6 DEF ReconcileReply, AfterCancel, Redeliver
<1>7. CASE Answer(d)
  BY <1>0, <1>1, <1>7 DEF Answer, AfterCancel, Redeliver, Calls
<1>8. CASE Unreachable(d) \/ CollectRow(d)
  BY <1>0, <1>1, <1>8 DEF Unreachable, CollectRow
<1>9. CASE ReadChain(d)
  BY <1>0, <1>1, <1>9 DEF ReadChain, Caught
<1> QED BY <1>2, <1>3, <1>4, <1>5, <1>6, <1>7, <1>8, <1>9

\* A worker that is not occupied holds only attempts with an outcome.
LEMMA FreeWorker ==
    ASSUME StoreInv, NEW w \in Workers, ~Occupied(w), NEW a \in Attempts, worker[a] = w
    PROVE  HasTerminal(a)
BY StoreAssumption DEF StoreInv, StoreTypeOK, Undispatched, OutcomeHasReceipt, Occupied,
   QueueStates

\* Under the process lock only its holder assigns, and to a worker that is free.
LEMMA SlotSteps ==
    ASSUME Campaigns = {}, DispatchInv, SlotInv, [Next]_vars
    PROVE  SlotInv'
<1>0. /\ Monotone /\ pc \in [Drivers -> Steps] /\ phase \in [Drivers -> Phases]
      /\ target \in [Drivers -> Workers \cup {NoWorker}] /\ NoWorker \notin Workers
      /\ worker \in [Attempts -> Workers \cup {NoWorker}] /\ StoreInv /\ Nobody \notin Drivers
  BY StepsAreMonotone, StoreAssumption, DispatchAssumption
     DEF DispatchInv, TypeOK, StoreTypeOK, Drivers
<1>t. \A a \in Attempts : HasTerminal(a) => HasTerminal(a)'
  BY <1>0 DEF Monotone, HasTerminal
<1>1. ASSUME NEW d \in Drivers, AssignRow(d) PROVE SlotInv'
  <2>1. PICK a \in Attempts : a = cur[d].att
    BY <1>1 DEF AssignRow, DispatchInv, Locals, Busy
  <2>2. /\ pc[d] = "assign" /\ plock = d /\ phase[d] = "queued"
        /\ \A b \in Attempts : worker[b] = target[d] => HasTerminal(b)
    BY <1>1 DEF AssignRow, SlotInv, Locked
  <2>3. /\ Elsewhere(d) /\ plock' = plock
        /\ pc'[d] \notin {"choose", "assign"} /\ phase'[d] = phase[d]
    BY <1>1, RowStepsAdvance
  <2>4. Locked'
    BY <2>2, <2>3 DEF SlotInv, Locked, Elsewhere
  <2>5. worker' = worker \/ worker' = [worker EXCEPT ![a] = target[d]]
    BY <1>1, <2>1 DEF AssignRow, Assign, storeVars
  <2>6. OneAttemptPerWorker'
    BY <1>0, <1>t, <2>2, <2>5 DEF SlotInv, OneAttemptPerWorker, HasTerminal
  <2> QED BY <2>4, <2>6 DEF SlotInv
<1>2. CASE \A d \in Drivers : ~AssignRow(d)
  <2>w. worker' = worker
    BY <1>2, OnlyAssignWritesWorker
  <2>1. OneAttemptPerWorker'
    BY <1>t, <2>w DEF SlotInv, OneAttemptPerWorker
  <2> SUFFICES Locked'
    BY <2>1 DEF SlotInv
  <2>q. ASSUME UNCHANGED <<pc, phase, target>>,
               plock' = plock \/ \A e \in Drivers : plock # e
        PROVE  Locked'
    BY <2>q, <2>w, <1>t DEF SlotInv, Locked
  <2>d. ASSUME NEW d \in Drivers, Elsewhere(d), plock' = plock,
               /\ pc'[d] = "choose" => phase'[d] = "queued"
               /\ phase'[d] = "queued" /\ pc'[d] # "idle" => plock = d
               /\ pc'[d] # "assign"
        PROVE  Locked'
    BY <2>d, <2>w, <1>t DEF SlotInv, Locked, Elsewhere
  <2>2. CASE Submit \/ UNCHANGED vars \/ \E a \in Attempts : WorkerStep(a) \/ Publish(a)
    BY <2>2, <2>q DEF Submit, WorkerStep, Publish, vars, driverVars, locals
  <2>3. ASSUME NEW d \in Drivers, DriverStep(d) \/ Fail(d) PROVE Locked'
    <3>1. CASE \/ Deliver(d) \/ Answer(d) \/ Fail(d) \/ ReconcileReply(d)
               \/ Request(d) \/ Unreachable(d) \/ Ingest(d) \/ Complete(d) \/ RecordError(d)
               \/ Resume(d) \/ CollectRow(d) \/ ReadChain(d) \/ NoChain(d) \/ SplitBrain(d)
               \/ Settle(d) \/ Adopt(d) \/ ConfirmLoss(d) \/ Import(d)
      <4>1. /\ Elsewhere(d) /\ plock' = plock
            /\ pc[d] # "idle" /\ pc'[d] \notin {"choose", "assign"} /\ phase'[d] = phase[d]
        BY <3>1, RowStepsAdvance
      <4> QED BY <2>d, <4>1 DEF SlotInv, Locked
    <3>2. CASE Lock(d)
      BY <3>2, <2>q, <1>0 DEF Lock, locals
    <3>3. CASE Tick(d)
      BY <3>3, <2>d, <1>0 DEF Tick, Elsewhere, Drivers, locals
    <3>4. CASE Pick(d)
      <4>1. PICK j : /\ pc' = [pc EXCEPT ![d] = Entry(phase[d], j)] /\ pc[d] = "next"
                     /\ UNCHANGED <<plock, phase, target>>
        BY <3>4 DEF Pick
      <4>2. /\ Entry(phase[d], j) # "assign"
            /\ Entry(phase[d], j) = "choose" => phase[d] = "queued"
        BY DEF Entry
      <4> QED BY <4>1, <4>2, <2>d, <1>0 DEF SlotInv, Locked, Elsewhere
    <3>5. CASE LoopEnds(d)
      BY <3>5, <2>d, <1>0 DEF LoopEnds, NextPhase, Elsewhere, locals
    <3>6. CASE Choose(d)
      <4>1. CASE Goto(d, "next")
        BY <3>6, <4>1, <2>d, <1>0 DEF Choose, Goto, Forget, SlotInv, Locked, Elsewhere
      <4>2. CASE ~Goto(d, "next")
        <5>1. PICK w \in Workers :
                /\ ~Occupied(w) /\ pc[d] = "choose"
                /\ pc' = [pc EXCEPT ![d] = "assign"] /\ target' = [target EXCEPT ![d] = w]
                /\ UNCHANGED <<plock, phase>>
          BY <3>6, <4>2 DEF Choose
        <5>2. \A a \in Attempts : worker[a] = w => HasTerminal(a)
          BY <5>1, <1>0, FreeWorker
        <5> QED BY <5>1, <5>2, <2>w, <1>t, <1>0 DEF SlotInv, Locked
      <4> QED BY <4>1, <4>2
    <3> QED BY <1>2, <2>3, <3>1, <3>2, <3>3, <3>4, <3>5, <3>6 DEF DriverStep
  <2>4. ASSUME NEW d \in Drivers, Crash(d) PROVE Locked'
    BY <2>4, <2>w, <1>t, <1>0 DEF Crash, Forget, SlotInv, Locked
  <2>5. ASSUME NEW d \in Drivers, NEW c \in Commands, NEW a \in Attempts, Command(d, c, a)
        PROVE Locked'
    <3>1. PICK p \in {"poll", "cancel", "collect", "recover", "resume"} :
            /\ phase' = [phase EXCEPT ![d] = p] /\ pc' = [pc EXCEPT ![d] = Entry(p, Job(a))]
            /\ UNCHANGED <<plock, target>>
      BY <2>5, DispatchAssumption DEF Command
    <3>2. Entry(p, Job(a)) \notin {"choose", "assign"}
      BY <3>1 DEF Entry
    <3> QED BY <3>1, <3>2, <2>d, <1>0 DEF Elsewhere
  <2> QED BY <2>2, <2>3, <2>4, <2>5 DEF Next
<1> QED BY <1>1, <1>2

\* Where every tick takes the process lock, no two attempts without an outcome
\* are assigned to one worker.  (A campaign ticks without the lock.)
THEOREM OneAttemptPerSlot == Campaigns = {} => (Spec => []OneAttemptPerWorker)
<1> SUFFICES ASSUME Campaigns = {} PROVE Spec => []OneAttemptPerWorker
  OBVIOUS
<1>1. Init => SlotInv
  BY StoreAssumption DEF Init, StoreInit, SlotInv, Locked, OneAttemptPerWorker
<1>2. DispatchInv /\ SlotInv /\ [Next]_vars => SlotInv'
  BY SlotSteps
<1>3. SlotInv => OneAttemptPerWorker
  BY DEF SlotInv
<1> QED BY <1>1, <1>2, <1>3, DispatchInvariant, PTL DEF Spec
=============================================================================
