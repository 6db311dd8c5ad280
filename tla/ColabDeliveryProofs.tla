------------------------ MODULE ColabDeliveryProofs -------------------------
(***************************************************************************)
(* The properties of ColabDelivery for any number of attempts, of drivers  *)
(* and of operators, whatever fails.                                       *)
(*                                                                         *)
(* ReleasedIsOver needs that every receipt anybody has seen OVER is OVER   *)
(* on the worker, which keeps it.  OneLiveExec needs that a command leaves *)
(* a record that never becomes NONE again, so that the holder of the lock, *)
(* having found no other delivery, is alone with its attempt until it lets *)
(* go.  IssuedPerRecord is an account: what was sent and what is about to  *)
(* be never exceeds the number of drivers that have written a record, and  *)
(* none of them ever writes another.                                       *)
(***************************************************************************)
EXTENDS ColabDelivery, FiniteSetTheorems, TLAPS

\* Steps of issue_foreground_launch, all of them under the lock, and those of
\* them behind its check.
Locked == {"check", "idle", "issue", "exec"}
Admitted == {"idle", "issue", "exec"}

\* What an operation is about, and who may be where.
OpInv ==
    \A x \in Actors :
        /\ op[x].pc # "rest" => op[x].attempt \in Attempts
        /\ op[x].pc = "rest" => op[x].seen = "NONE"
        /\ op[x].pc \in Locked => lock = x
        /\ op[x].pc \in Locked \cup {"write"} => x \in Drivers

\* Whoever says that an attempt is over has it from its receipt.
SeenIsOver ==
    /\ \A x \in Actors : op[x].seen = "OVER" =>
         op[x].attempt \in Attempts /\ receipt[op[x].attempt] = "OVER"
    /\ hosted.state = "OVER" =>
         hosted.attempt \in Attempts /\ receipt[hosted.attempt] = "OVER"
    /\ \A a \in Attempts : row[a] = "OVER" => receipt[a] = "OVER"

\* A command under way that could still train.
Live(a) == Outstanding(a) /\ receipt[a] # "OVER"

\* A command, sent or still to be sent, has a delivery record, and what occupies
\* the kernel was sent.
CommandsAreRecorded ==
    /\ \A a \in Attempts :
         /\ begun[a] <= sent[a]
         /\ cell = a => sent[a] # 0
         /\ sent[a] # 0 => delivery[a] # "NONE"
    /\ \A x \in Actors : op[x].pc \in Admitted => delivery[op[x].attempt] # "NONE"

\* Behind the check the holder of the lock is alone.
AloneWhenAdmitted ==
    \A x \in Actors : op[x].pc \in Admitted =>
        \A a \in Attempts : Live(a) => a = op[x].attempt

\* The commands for an attempt that may still come from the records written so
\* far: one for the record that says PREPARED or whose holder has read that, one
\* about to be sent.  A driver about to write a record has not written one.
Writers(a) == {d \in Drivers : op[d].pc = "write" /\ op[d].attempt = a}
Issuable(a) ==
    \/ delivery[a] = "PREPARED"
    \/ \E d \in Drivers : op[d].pc \in {"idle", "issue"} /\ op[d].attempt = a
Sending(a) == \E d \in Drivers : op[d].pc = "exec" /\ op[d].attempt = a
ToCome(a) == (IF Issuable(a) THEN 1 ELSE 0) + (IF Sending(a) THEN 1 ELSE 0)

Account ==
    \A a \in Attempts :
        /\ sent[a] + ToCome(a) <= Cardinality(wrote[a])
        /\ Writers(a) \cap wrote[a] = {}
        /\ delivery[a] = "NONE" => wrote[a] = {}

DeliveryInv ==
    /\ TypeOK
    /\ OpInv
    /\ SeenIsOver
    /\ ReleasedIsOver
    /\ CommandsAreRecorded
    /\ AloneWhenAdmitted
    /\ OneLiveExec
    /\ Account

-----------------------------------------------------------------------------
(* Types, and where an operation can be. *)

\* Types and OpInv, for every step.
LEMMA OpsStayTyped == TypeOK /\ OpInv /\ [Next]_vars => TypeOK' /\ OpInv'
<1> SUFFICES ASSUME TypeOK, OpInv, [Next]_vars PROVE TypeOK' /\ OpInv'
  OBVIOUS
<1> USE ColabAssumption DEF TypeOK, OpInv, Locked, Actors, ReceiptStates, Resting, NoStatus,
        At, Idle, vars, controller, worker
<1>1. ASSUME NEW d \in Drivers, DriverStep(d) PROVE TypeOK' /\ OpInv'
  <2>1. ASSUME NEW a \in Attempts, StartLaunch(d, a) PROVE TypeOK' /\ OpInv'
    BY <2>1 DEF StartLaunch, Begin
  <2>2. ASSUME NEW a \in Attempts, StartReplay(d, a) PROVE TypeOK' /\ OpInv'
    BY <2>2 DEF StartReplay, Begin
  <2>3. ASSUME NEW a \in Attempts, StartPoll(d, a) PROVE TypeOK' /\ OpInv'
    BY <2>3 DEF StartPoll, Begin
  <2>4. CASE First(d)
    BY <2>4 DEF First, GoTo, Rest
  <2>5. CASE Replay(d)
    BY <2>5 DEF Replay, GoTo, Rest, Reconcile
  <2>6. CASE Precancel(d)
    BY <2>6 DEF Precancel, GoTo, CancelReceipt
  <2>7. CASE Launch(d)
    BY <2>7 DEF Launch, GoTo, Rest
  <2>8. CASE Prepare(d)
    BY <2>8 DEF Prepare, GoTo, Reconcile
  <2>9. CASE Record(d)
    BY <2>9 DEF Record, GoTo, Rest
  <2>10. CASE WriteRecord(d)
    BY <2>10 DEF WriteRecord, GoTo
  <2>11. CASE Reread(d)
    BY <2>11 DEF Reread, GoTo, Rest
  <2>12. CASE Lock(d)
    BY <2>12 DEF Lock, GoTo
  <2>13. CASE Check(d)
    BY <2>13 DEF Check, GoTo, GiveUp, Rest
  <2>14. CASE CheckWorker(d)
    BY <2>14 DEF CheckWorker, GoTo, GiveUp, Rest
  <2>15. CASE Issue(d)
    BY <2>15 DEF Issue, GoTo
  <2>16. CASE Exec(d)
    BY <2>16 DEF Exec, GiveUp, Rest
  <2>17. CASE Poll(d)
    BY <2>17 DEF Poll, Rest, Reconcile
  <2>18. CASE LosePrepareReply(d)
    BY <2>18 DEF LosePrepareReply, Rest
  <2> QED
    BY <1>1, <2>1, <2>2, <2>3, <2>4, <2>5, <2>6, <2>7, <2>8, <2>9, <2>10, <2>11, <2>12, <2>13, <2>14, <2>15, <2>16, <2>17, <2>18 DEF DriverStep
<1>2. ASSUME NEW x \in Actors, ActorStep(x) PROVE TypeOK' /\ OpInv'
  <2>1. ASSUME NEW a \in Attempts, StartCancel(x, a) PROVE TypeOK' /\ OpInv'
    BY <2>1 DEF StartCancel, Begin
  <2>2. CASE Cancel(x)
    BY <2>2 DEF Cancel, GoTo, Rest
  <2>3. CASE CancelRpc(x)
    BY <2>3, SMTT(40) DEF CancelRpc, Rest, Reconcile, CancelReceipt
  <2>4. CASE Mark(x)
    BY <2>4 DEF Mark, GoTo, Rest
  <2>5. CASE Observe(x)
    BY <2>5 DEF Observe, Rest
  <2>6. CASE Stop(x)
    BY <2>6 DEF Stop, Rest
  <2>7. CASE LoseCancelReply(x)
    BY <2>7 DEF LoseCancelReply, Rest, CancelReceipt
  <2> QED
    BY <1>2, <2>1, <2>2, <2>3, <2>4, <2>5, <2>6, <2>7 DEF ActorStep
<1>3. CASE InstanceStep
  <2>1. ASSUME NEW a \in Attempts, Deliver(a) PROVE TypeOK' /\ OpInv'
    BY <2>1 DEF Deliver
  <2>2. ASSUME NEW a \in Attempts, Undelivered(a) PROVE TypeOK' /\ OpInv'
    BY <2>2 DEF Undelivered
  <2>3. CASE Finish
    BY <2>3 DEF Finish
  <2>4. CASE Leave
    BY <2>4 DEF Leave
  <2>5. CASE Expire
    BY <2>5 DEF Expire
  <2>6. CASE Report
    BY <2>6 DEF Report
  <2> QED
    BY <1>3, <2>1, <2>2, <2>3, <2>4, <2>5, <2>6 DEF InstanceStep
<1>4. CASE UNCHANGED vars
  BY <1>4
<1> QED
  BY <1>1, <1>2, <1>3, <1>4 DEF Next

-----------------------------------------------------------------------------
(* An ended attempt stays ended, and everybody who knows of it is right. *)

\* The worker never takes a terminal receipt back.
LEMMA OverStays ==
    ASSUME TypeOK, OpInv, [Next]_vars, NEW b \in Attempts, receipt[b] = "OVER"
    PROVE  receipt'[b] = "OVER"
<1> USE ColabAssumption DEF TypeOK, OpInv, Actors, ReceiptStates, At, Idle, vars, controller, worker
<1>1. ASSUME NEW d \in Drivers, DriverStep(d) PROVE receipt'[b] = "OVER"
  <2>1. ASSUME NEW a \in Attempts, StartLaunch(d, a) PROVE receipt'[b] = "OVER"
    BY <2>1 DEF StartLaunch, Begin
  <2>2. ASSUME NEW a \in Attempts, StartReplay(d, a) PROVE receipt'[b] = "OVER"
    BY <2>2 DEF StartReplay, Begin
  <2>3. ASSUME NEW a \in Attempts, StartPoll(d, a) PROVE receipt'[b] = "OVER"
    BY <2>3 DEF StartPoll, Begin
  <2>4. CASE First(d)
    BY <2>4 DEF First, GoTo, Rest
  <2>5. CASE Replay(d)
    BY <2>5 DEF Replay, GoTo, Rest, Reconcile
  <2>6. CASE Precancel(d)
    BY <2>6 DEF Precancel, GoTo, CancelReceipt
  <2>7. CASE Launch(d)
    BY <2>7 DEF Launch, GoTo, Rest
  <2>8. CASE Prepare(d)
    BY <2>8 DEF Prepare, GoTo, Reconcile
  <2>9. CASE Record(d)
    BY <2>9 DEF Record, GoTo, Rest
  <2>10. CASE WriteRecord(d)
    BY <2>10 DEF WriteRecord, GoTo
  <2>11. CASE Reread(d)
    BY <2>11 DEF Reread, GoTo, Rest
  <2>12. CASE Lock(d)
    BY <2>12 DEF Lock, GoTo
  <2>13. CASE Check(d)
    BY <2>13 DEF Check, GoTo, GiveUp, Rest
  <2>14. CASE CheckWorker(d)
    BY <2>14 DEF CheckWorker, GoTo, GiveUp, Rest
  <2>15. CASE Issue(d)
    BY <2>15 DEF Issue, GoTo
  <2>16. CASE Exec(d)
    BY <2>16 DEF Exec, GiveUp, Rest
  <2>17. CASE Poll(d)
    BY <2>17 DEF Poll, Rest, Reconcile
  <2>18. CASE LosePrepareReply(d)
    BY <2>18 DEF LosePrepareReply, Rest
  <2> QED
    BY <1>1, <2>1, <2>2, <2>3, <2>4, <2>5, <2>6, <2>7, <2>8, <2>9, <2>10, <2>11, <2>12, <2>13, <2>14, <2>15, <2>16, <2>17, <2>18 DEF DriverStep
<1>2. ASSUME NEW x \in Actors, ActorStep(x) PROVE receipt'[b] = "OVER"
  <2>1. ASSUME NEW a \in Attempts, StartCancel(x, a) PROVE receipt'[b] = "OVER"
    BY <2>1 DEF StartCancel, Begin
  <2>2. CASE Cancel(x)
    BY <2>2 DEF Cancel, GoTo, Rest
  <2>3. CASE CancelRpc(x)
    BY <2>3 DEF CancelRpc, Rest, Reconcile, CancelReceipt
  <2>4. CASE Mark(x)
    BY <2>4 DEF Mark, GoTo, Rest
  <2>5. CASE Observe(x)
    BY <2>5 DEF Observe, Rest
  <2>6. CASE Stop(x)
    BY <2>6 DEF Stop, Rest
  <2>7. CASE LoseCancelReply(x)
    BY <2>7 DEF LoseCancelReply, Rest, CancelReceipt
  <2> QED
    BY <1>2, <2>1, <2>2, <2>3, <2>4, <2>5, <2>6, <2>7 DEF ActorStep
<1>3. CASE InstanceStep
  <2>1. ASSUME NEW a \in Attempts, Deliver(a) PROVE receipt'[b] = "OVER"
    BY <2>1 DEF Deliver
  <2>2. ASSUME NEW a \in Attempts, Undelivered(a) PROVE receipt'[b] = "OVER"
    BY <2>2 DEF Undelivered
  <2>3. CASE Finish
    BY <2>3 DEF Finish
  <2>4. CASE Leave
    BY <2>4 DEF Leave
  <2>5. CASE Expire
    BY <2>5 DEF Expire
  <2>6. CASE Report
    BY <2>6 DEF Report
  <2> QED
    BY <1>3, <2>1, <2>2, <2>3, <2>4, <2>5, <2>6 DEF InstanceStep
<1>4. CASE UNCHANGED vars
  BY <1>4
<1> QED
  BY <1>1, <1>2, <1>3, <1>4 DEF Next

\* SeenIsOver and ReleasedIsOver, for every step.
LEMMA SeenStaysOver ==
    TypeOK /\ OpInv /\ SeenIsOver /\ ReleasedIsOver /\ [Next]_vars
        => SeenIsOver' /\ ReleasedIsOver'
<1> SUFFICES ASSUME TypeOK, OpInv, SeenIsOver, ReleasedIsOver, [Next]_vars
             PROVE SeenIsOver' /\ ReleasedIsOver'
  OBVIOUS
<1>s. \A b \in Attempts : receipt[b] = "OVER" => receipt'[b] = "OVER"
  BY OverStays
<1> USE ColabAssumption, <1>s DEF TypeOK, OpInv, SeenIsOver, ReleasedIsOver, Actors,
        ReceiptStates, Resting, NoStatus, At, Idle, vars, controller, worker
<1>1. ASSUME NEW d \in Drivers, DriverStep(d) PROVE SeenIsOver' /\ ReleasedIsOver'
  <2>1. ASSUME NEW a \in Attempts, StartLaunch(d, a) PROVE SeenIsOver' /\ ReleasedIsOver'
    BY <2>1 DEF StartLaunch, Begin
  <2>2. ASSUME NEW a \in Attempts, StartReplay(d, a) PROVE SeenIsOver' /\ ReleasedIsOver'
    BY <2>2 DEF StartReplay, Begin
  <2>3. ASSUME NEW a \in Attempts, StartPoll(d, a) PROVE SeenIsOver' /\ ReleasedIsOver'
    BY <2>3 DEF StartPoll, Begin
  <2>4. CASE First(d)
    BY <2>4 DEF First, GoTo, Rest
  <2>5. CASE Replay(d)
    BY <2>5 DEF Replay, GoTo, Rest, Reconcile
  <2>6. CASE Precancel(d)
    BY <2>6 DEF Precancel, GoTo, CancelReceipt
  <2>7. CASE Launch(d)
    BY <2>7 DEF Launch, GoTo, Rest
  <2>8. CASE Prepare(d)
    BY <2>8 DEF Prepare, GoTo, Reconcile
  <2>9. CASE Record(d)
    BY <2>9 DEF Record, GoTo, Rest
  <2>10. CASE WriteRecord(d)
    BY <2>10 DEF WriteRecord, GoTo
  <2>11. CASE Reread(d)
    BY <2>11, SMTT(40) DEF Reread, GoTo, Rest
  <2>12. CASE Lock(d)
    BY <2>12 DEF Lock, GoTo
  <2>13. CASE Check(d)
    BY <2>13 DEF Check, GoTo, GiveUp, Rest
  <2>14. CASE CheckWorker(d)
    BY <2>14 DEF CheckWorker, GoTo, GiveUp, Rest
  <2>15. CASE Issue(d)
    BY <2>15 DEF Issue, GoTo
  <2>16. CASE Exec(d)
    BY <2>16 DEF Exec, GiveUp, Rest
  <2>17. CASE Poll(d)
    BY <2>17 DEF Poll, Rest, Reconcile
  <2>18. CASE LosePrepareReply(d)
    BY <2>18 DEF LosePrepareReply, Rest
  <2> QED
    BY <1>1, <2>1, <2>2, <2>3, <2>4, <2>5, <2>6, <2>7, <2>8, <2>9, <2>10, <2>11, <2>12, <2>13, <2>14, <2>15, <2>16, <2>17, <2>18 DEF DriverStep
<1>2. ASSUME NEW x \in Actors, ActorStep(x) PROVE SeenIsOver' /\ ReleasedIsOver'
  <2>1. ASSUME NEW a \in Attempts, StartCancel(x, a) PROVE SeenIsOver' /\ ReleasedIsOver'
    BY <2>1 DEF StartCancel, Begin
  <2>2. CASE Cancel(x)
    BY <2>2 DEF Cancel, GoTo, Rest
  <2>3. CASE CancelRpc(x)
    BY <2>3 DEF CancelRpc, Rest, Reconcile, CancelReceipt
  <2>4. CASE Mark(x)
    BY <2>4 DEF Mark, GoTo, Rest
  <2>5. CASE Observe(x)
    BY <2>5 DEF Observe, Rest
  <2>6. CASE Stop(x)
    BY <2>6 DEF Stop, Rest
  <2>7. CASE LoseCancelReply(x)
    BY <2>7 DEF LoseCancelReply, Rest, CancelReceipt
  <2> QED
    BY <1>2, <2>1, <2>2, <2>3, <2>4, <2>5, <2>6, <2>7 DEF ActorStep
<1>3. CASE InstanceStep
  <2>1. ASSUME NEW a \in Attempts, Deliver(a) PROVE SeenIsOver' /\ ReleasedIsOver'
    BY <2>1 DEF Deliver
  <2>2. ASSUME NEW a \in Attempts, Undelivered(a) PROVE SeenIsOver' /\ ReleasedIsOver'
    BY <2>2 DEF Undelivered
  <2>3. CASE Finish
    BY <2>3 DEF Finish
  <2>4. CASE Leave
    BY <2>4 DEF Leave
  <2>5. CASE Expire
    BY <2>5 DEF Expire
  <2>6. CASE Report
    BY <2>6 DEF Report
  <2> QED
    BY <1>3, <2>1, <2>2, <2>3, <2>4, <2>5, <2>6 DEF InstanceStep
<1>4. CASE UNCHANGED vars
  BY <1>4
<1> QED
  BY <1>1, <1>2, <1>3, <1>4 DEF Next

-----------------------------------------------------------------------------
(* One command under way. *)

\* CommandsAreRecorded, for every step.
LEMMA CommandsStayRecorded ==
    TypeOK /\ OpInv /\ CommandsAreRecorded /\ [Next]_vars => CommandsAreRecorded'
<1> SUFFICES ASSUME TypeOK, OpInv, CommandsAreRecorded, [Next]_vars
             PROVE CommandsAreRecorded'
  OBVIOUS
<1> USE ColabAssumption DEF TypeOK, OpInv, CommandsAreRecorded, Locked, Admitted, Actors,
        ReceiptStates, Resting, At, Idle, vars, controller, worker
<1>1. ASSUME NEW d \in Drivers, DriverStep(d) PROVE CommandsAreRecorded'
  <2>1. ASSUME NEW a \in Attempts, StartLaunch(d, a) PROVE CommandsAreRecorded'
    BY <2>1 DEF StartLaunch, Begin
  <2>2. ASSUME NEW a \in Attempts, StartReplay(d, a) PROVE CommandsAreRecorded'
    BY <2>2 DEF StartReplay, Begin
  <2>3. ASSUME NEW a \in Attempts, StartPoll(d, a) PROVE CommandsAreRecorded'
    BY <2>3 DEF StartPoll, Begin
  <2>4. CASE First(d)
    BY <2>4 DEF First, GoTo, Rest
  <2>5. CASE Replay(d)
    BY <2>5 DEF Replay, GoTo, Rest, Reconcile
  <2>6. CASE Precancel(d)
    BY <2>6 DEF Precancel, GoTo, CancelReceipt
  <2>7. CASE Launch(d)
    BY <2>7 DEF Launch, GoTo, Rest
  <2>8. CASE Prepare(d)
    BY <2>8 DEF Prepare, GoTo, Reconcile
  <2>9. CASE Record(d)
    BY <2>9 DEF Record, GoTo, Rest
  <2>10. CASE WriteRecord(d)
    BY <2>10 DEF WriteRecord, GoTo
  <2>11. CASE Reread(d)
    BY <2>11 DEF Reread, GoTo, Rest
  <2>12. CASE Lock(d)
    BY <2>12 DEF Lock, GoTo
  <2>13. CASE Check(d)
    BY <2>13 DEF Check, GoTo, GiveUp, Rest
  <2>14. CASE CheckWorker(d)
    BY <2>14 DEF CheckWorker, GoTo, GiveUp, Rest
  <2>15. CASE Issue(d)
    BY <2>15 DEF Issue, GoTo
  <2>16. CASE Exec(d)
    BY <2>16 DEF Exec, GiveUp, Rest
  <2>17. CASE Poll(d)
    BY <2>17 DEF Poll, Rest, Reconcile
  <2>18. CASE LosePrepareReply(d)
    BY <2>18 DEF LosePrepareReply, Rest
  <2> QED
    BY <1>1, <2>1, <2>2, <2>3, <2>4, <2>5, <2>6, <2>7, <2>8, <2>9, <2>10, <2>11, <2>12, <2>13, <2>14, <2>15, <2>16, <2>17, <2>18 DEF DriverStep
<1>2. ASSUME NEW x \in Actors, ActorStep(x) PROVE CommandsAreRecorded'
  <2>1. ASSUME NEW a \in Attempts, StartCancel(x, a) PROVE CommandsAreRecorded'
    BY <2>1 DEF StartCancel, Begin
  <2>2. CASE Cancel(x)
    BY <2>2 DEF Cancel, GoTo, Rest
  <2>3. CASE CancelRpc(x)
    BY <2>3 DEF CancelRpc, Rest, Reconcile, CancelReceipt
  <2>4. CASE Mark(x)
    BY <2>4 DEF Mark, GoTo, Rest
  <2>5. CASE Observe(x)
    BY <2>5 DEF Observe, Rest
  <2>6. CASE Stop(x)
    BY <2>6 DEF Stop, Rest
  <2>7. CASE LoseCancelReply(x)
    BY <2>7 DEF LoseCancelReply, Rest, CancelReceipt
  <2> QED
    BY <1>2, <2>1, <2>2, <2>3, <2>4, <2>5, <2>6, <2>7 DEF ActorStep
<1>3. CASE InstanceStep
  <2>1. ASSUME NEW a \in Attempts, Deliver(a) PROVE CommandsAreRecorded'
    BY <2>1 DEF Deliver
  <2>2. ASSUME NEW a \in Attempts, Undelivered(a) PROVE CommandsAreRecorded'
    BY <2>2 DEF Undelivered
  <2>3. CASE Finish
    BY <2>3 DEF Finish
  <2>4. CASE Leave
    BY <2>4 DEF Leave
  <2>5. CASE Expire
    BY <2>5 DEF Expire
  <2>6. CASE Report
    BY <2>6 DEF Report
  <2> QED
    BY <1>3, <2>1, <2>2, <2>3, <2>4, <2>5, <2>6 DEF InstanceStep
<1>4. CASE UNCHANGED vars
  BY <1>4
<1> QED
  BY <1>1, <1>2, <1>3, <1>4 DEF Next

\* Only the command itself makes an attempt live.
LEMMA LiveNeedsCommand ==
    ASSUME TypeOK, OpInv, CommandsAreRecorded, [Next]_vars, NEW b \in Attempts,
           Live(b)', ~Live(b)
    PROVE  \E d \in Drivers : Exec(d) /\ op[d].attempt = b
<1> DEFINE G == \E d \in Drivers : Exec(d) /\ op[d].attempt = b
<1>s. receipt[b] # "OVER"
  BY OverStays DEF Live
<1> USE ColabAssumption, <1>s DEF TypeOK, OpInv, CommandsAreRecorded, Live, Outstanding, Actors,
        ReceiptStates, Resting, At, Idle, vars, controller, worker
<1>1. ASSUME NEW d \in Drivers, DriverStep(d) PROVE G
  <2>1. ASSUME NEW a \in Attempts, StartLaunch(d, a) PROVE G
    BY <2>1 DEF StartLaunch, Begin
  <2>2. ASSUME NEW a \in Attempts, StartReplay(d, a) PROVE G
    BY <2>2 DEF StartReplay, Begin
  <2>3. ASSUME NEW a \in Attempts, StartPoll(d, a) PROVE G
    BY <2>3 DEF StartPoll, Begin
  <2>4. CASE First(d)
    BY <2>4 DEF First, GoTo, Rest
  <2>5. CASE Replay(d)
    BY <2>5 DEF Replay, GoTo, Rest, Reconcile
  <2>6. CASE Precancel(d)
    BY <2>6 DEF Precancel, GoTo, CancelReceipt
  <2>7. CASE Launch(d)
    BY <2>7 DEF Launch, GoTo, Rest
  <2>8. CASE Prepare(d)
    BY <2>8 DEF Prepare, GoTo, Reconcile
  <2>9. CASE Record(d)
    BY <2>9 DEF Record, GoTo, Rest
  <2>10. CASE WriteRecord(d)
    BY <2>10 DEF WriteRecord, GoTo
  <2>11. CASE Reread(d)
    BY <2>11 DEF Reread, GoTo, Rest
  <2>12. CASE Lock(d)
    BY <2>12 DEF Lock, GoTo
  <2>13. CASE Check(d)
    BY <2>13 DEF Check, GoTo, GiveUp, Rest
  <2>14. CASE CheckWorker(d)
    BY <2>14 DEF CheckWorker, GoTo, GiveUp, Rest
  <2>15. CASE Issue(d)
    BY <2>15 DEF Issue, GoTo
  <2>16. CASE Exec(d)
    BY <2>16 DEF Exec, GiveUp, Rest
  <2>17. CASE Poll(d)
    BY <2>17 DEF Poll, Rest, Reconcile
  <2>18. CASE LosePrepareReply(d)
    BY <2>18 DEF LosePrepareReply, Rest
  <2> QED
    BY <1>1, <2>1, <2>2, <2>3, <2>4, <2>5, <2>6, <2>7, <2>8, <2>9, <2>10, <2>11, <2>12, <2>13, <2>14, <2>15, <2>16, <2>17, <2>18 DEF DriverStep
<1>2. ASSUME NEW x \in Actors, ActorStep(x) PROVE G
  <2>1. ASSUME NEW a \in Attempts, StartCancel(x, a) PROVE G
    BY <2>1 DEF StartCancel, Begin
  <2>2. CASE Cancel(x)
    BY <2>2 DEF Cancel, GoTo, Rest
  <2>3. CASE CancelRpc(x)
    BY <2>3 DEF CancelRpc, Rest, Reconcile, CancelReceipt
  <2>4. CASE Mark(x)
    BY <2>4 DEF Mark, GoTo, Rest
  <2>5. CASE Observe(x)
    BY <2>5 DEF Observe, Rest
  <2>6. CASE Stop(x)
    BY <2>6 DEF Stop, Rest
  <2>7. CASE LoseCancelReply(x)
    BY <2>7 DEF LoseCancelReply, Rest, CancelReceipt
  <2> QED
    BY <1>2, <2>1, <2>2, <2>3, <2>4, <2>5, <2>6, <2>7 DEF ActorStep
<1>3. CASE InstanceStep
  <2>1. ASSUME NEW a \in Attempts, Deliver(a) PROVE G
    BY <2>1 DEF Deliver
  <2>2. ASSUME NEW a \in Attempts, Undelivered(a) PROVE G
    BY <2>2 DEF Undelivered
  <2>3. CASE Finish
    BY <2>3 DEF Finish
  <2>4. CASE Leave
    BY <2>4 DEF Leave
  <2>5. CASE Expire
    BY <2>5 DEF Expire
  <2>6. CASE Report
    BY <2>6 DEF Report
  <2> QED
    BY <1>3, <2>1, <2>2, <2>3, <2>4, <2>5, <2>6 DEF InstanceStep
<1>4. CASE UNCHANGED vars
  BY <1>4
<1> QED
  BY <1>1, <1>2, <1>3, <1>4 DEF Next

\* Nobody gets behind the check but by it.
LEMMA AdmissionNeedsCheck ==
    ASSUME TypeOK, OpInv, [Next]_vars, NEW e \in Actors, op'[e].pc \in Admitted
    PROVE  /\ op'[e].attempt = op[e].attempt
           /\ op[e].pc \in Admitted \/ ~OtherDelivery(op[e].attempt)
<1> DEFINE G == /\ op'[e].attempt = op[e].attempt
                /\ op[e].pc \in Admitted \/ ~OtherDelivery(op[e].attempt)
<1> USE ColabAssumption DEF TypeOK, OpInv, Admitted, Actors, ReceiptStates, Resting, At, Idle,
        vars, controller, worker
<1>1. ASSUME NEW d \in Drivers, DriverStep(d) PROVE G
  <2>1. ASSUME NEW a \in Attempts, StartLaunch(d, a) PROVE G
    BY <2>1 DEF StartLaunch, Begin
  <2>2. ASSUME NEW a \in Attempts, StartReplay(d, a) PROVE G
    BY <2>2 DEF StartReplay, Begin
  <2>3. ASSUME NEW a \in Attempts, StartPoll(d, a) PROVE G
    BY <2>3 DEF StartPoll, Begin
  <2>4. CASE First(d)
    BY <2>4 DEF First, GoTo, Rest
  <2>5. CASE Replay(d)
    BY <2>5 DEF Replay, GoTo, Rest, Reconcile
  <2>6. CASE Precancel(d)
    BY <2>6 DEF Precancel, GoTo, CancelReceipt
  <2>7. CASE Launch(d)
    BY <2>7 DEF Launch, GoTo, Rest
  <2>8. CASE Prepare(d)
    BY <2>8 DEF Prepare, GoTo, Reconcile
  <2>9. CASE Record(d)
    BY <2>9 DEF Record, GoTo, Rest
  <2>10. CASE WriteRecord(d)
    BY <2>10 DEF WriteRecord, GoTo
  <2>11. CASE Reread(d)
    BY <2>11 DEF Reread, GoTo, Rest
  <2>12. CASE Lock(d)
    BY <2>12 DEF Lock, GoTo
  <2>13. CASE Check(d)
    BY <2>13 DEF Check, GoTo, GiveUp, Rest
  <2>14. CASE CheckWorker(d)
    BY <2>14 DEF CheckWorker, GoTo, GiveUp, Rest
  <2>15. CASE Issue(d)
    BY <2>15 DEF Issue, GoTo
  <2>16. CASE Exec(d)
    BY <2>16 DEF Exec, GiveUp, Rest
  <2>17. CASE Poll(d)
    BY <2>17 DEF Poll, Rest, Reconcile
  <2>18. CASE LosePrepareReply(d)
    BY <2>18 DEF LosePrepareReply, Rest
  <2> QED
    BY <1>1, <2>1, <2>2, <2>3, <2>4, <2>5, <2>6, <2>7, <2>8, <2>9, <2>10, <2>11, <2>12, <2>13, <2>14, <2>15, <2>16, <2>17, <2>18 DEF DriverStep
<1>2. ASSUME NEW x \in Actors, ActorStep(x) PROVE G
  <2>1. ASSUME NEW a \in Attempts, StartCancel(x, a) PROVE G
    BY <2>1 DEF StartCancel, Begin
  <2>2. CASE Cancel(x)
    BY <2>2 DEF Cancel, GoTo, Rest
  <2>3. CASE CancelRpc(x)
    BY <2>3 DEF CancelRpc, Rest, Reconcile, CancelReceipt
  <2>4. CASE Mark(x)
    BY <2>4 DEF Mark, GoTo, Rest
  <2>5. CASE Observe(x)
    BY <2>5 DEF Observe, Rest
  <2>6. CASE Stop(x)
    BY <2>6 DEF Stop, Rest
  <2>7. CASE LoseCancelReply(x)
    BY <2>7 DEF LoseCancelReply, Rest, CancelReceipt
  <2> QED
    BY <1>2, <2>1, <2>2, <2>3, <2>4, <2>5, <2>6, <2>7 DEF ActorStep
<1>3. CASE InstanceStep
  <2>1. ASSUME NEW a \in Attempts, Deliver(a) PROVE G
    BY <2>1 DEF Deliver
  <2>2. ASSUME NEW a \in Attempts, Undelivered(a) PROVE G
    BY <2>2 DEF Undelivered
  <2>3. CASE Finish
    BY <2>3 DEF Finish
  <2>4. CASE Leave
    BY <2>4 DEF Leave
  <2>5. CASE Expire
    BY <2>5 DEF Expire
  <2>6. CASE Report
    BY <2>6 DEF Report
  <2> QED
    BY <1>3, <2>1, <2>2, <2>3, <2>4, <2>5, <2>6 DEF InstanceStep
<1>4. CASE UNCHANGED vars
  BY <1>4
<1> QED
  BY <1>1, <1>2, <1>3, <1>4 DEF Next

\* AloneWhenAdmitted and OneLiveExec, for every step.
LEMMA StaysAlone ==
    DeliveryInv /\ [Next]_vars => AloneWhenAdmitted' /\ OneLiveExec'
<1> SUFFICES ASSUME DeliveryInv, [Next]_vars PROVE AloneWhenAdmitted' /\ OneLiveExec'
  OBVIOUS
<1>n. ASSUME NEW b \in Attempts, Live(b)', ~Live(b)
      PROVE  \E d \in Drivers : Exec(d) /\ op[d].attempt = b
  BY <1>n, LiveNeedsCommand DEF DeliveryInv
<1>a. ASSUME NEW d \in Drivers, Exec(d), NEW b \in Attempts, Live(b)'
      PROVE  b = op[d].attempt
  <2>1. op[d].pc = "exec" /\ lock = d /\ d \in Actors
    BY <1>a DEF Exec, At, DeliveryInv, OpInv, Locked, Actors
  <2>2. CASE Live(b)
    BY <2>1, <2>2 DEF DeliveryInv, AloneWhenAdmitted, Admitted
  <2>3. CASE ~Live(b)
    <3> PICK e \in Drivers : Exec(e) /\ op[e].attempt = b
      BY <2>3, <1>a, <1>n
    <3>1. lock = e
      BY DEF Exec, At, DeliveryInv, OpInv, Locked, Actors
    <3> QED
      BY <2>1, <3>1
  <2> QED
    BY <2>2, <2>3
<1>1. OneLiveExec'
  <2> SUFFICES ASSUME NEW a \in Attempts, NEW b \in Attempts, Live(a)', Live(b)' PROVE a = b
    BY DEF OneLiveExec, Live
  <2>1. CASE Live(a) /\ Live(b)
    BY <2>1 DEF DeliveryInv, OneLiveExec, Live
  <2>2. CASE ~Live(a)
    BY <2>2, <1>n, <1>a
  <2>3. CASE ~Live(b)
    BY <2>3, <1>n, <1>a
  <2> QED
    BY <2>1, <2>2, <2>3
<1>2. AloneWhenAdmitted'
  <2> SUFFICES ASSUME NEW x \in Actors, op'[x].pc \in Admitted, NEW b \in Attempts, Live(b)'
               PROVE  b = op'[x].attempt
    BY DEF AloneWhenAdmitted
  <2>a. /\ op'[x].attempt = op[x].attempt
        /\ op[x].pc \in Admitted \/ ~OtherDelivery(op[x].attempt)
    BY AdmissionNeedsCheck DEF DeliveryInv
  <2>l. Live(b)
    <3> SUFFICES ASSUME ~Live(b) PROVE FALSE
      OBVIOUS
    <3> PICK d \in Drivers : Exec(d) /\ op[d].attempt = b
      BY <1>n
    <3>1. lock' = Nobody
      BY DEF Exec, GiveUp
    <3>2. lock' = x
      BY OpsStayTyped DEF DeliveryInv, OpInv, Locked, Admitted
    <3> QED
      BY <3>1, <3>2, ColabAssumption DEF Actors
  <2>1. CASE op[x].pc \in Admitted
    BY <2>1, <2>a, <2>l DEF DeliveryInv, AloneWhenAdmitted
  <2>2. CASE ~OtherDelivery(op[x].attempt)
    <3>1. sent[b] # 0
      BY <2>l DEF DeliveryInv, TypeOK, Live, Outstanding, CommandsAreRecorded
    <3>2. delivery[b] \in {"PREPARED", "ISSUED", "OBSERVED_RUNNING"}
      BY <3>1, <2>l DEF DeliveryInv, TypeOK, Live, CommandsAreRecorded, ReleasedIsOver
    <3> QED
      BY <2>2, <2>a, <3>2 DEF OtherDelivery
  <2> QED
    BY <2>a, <2>1, <2>2
<1> QED
  BY <1>1, <1>2

-----------------------------------------------------------------------------
(* The account of the commands. *)

\* Once an attempt has a delivery record nobody sets out to write one, and a
\* step settles at most one command: a writer makes the record issuable, its
\* issue is about to be sent, what was about to be sent is sent.
Kept(b) ==
    /\ wrote'[b] = wrote[b]
    /\ delivery[b] = "NONE" \/ Writers(b)' \subseteq Writers(b)
Quiet(b) ==
    /\ Kept(b)
    /\ sent'[b] = sent[b]
    /\ Issuable(b)' => Issuable(b)
    /\ Sending(b)' => Sending(b)
Written(b) ==
    /\ \E d \in Writers(b) :
         /\ wrote'[b] = wrote[b] \cup {d}
         /\ Writers(b)' \subseteq Writers(b) \ {d}
    /\ delivery'[b] # "NONE"
    /\ sent'[b] = sent[b]
    /\ Sending(b)' => Sending(b)
Issued(b) == Kept(b) /\ Issuable(b) /\ ~Issuable(b)' /\ sent'[b] = sent[b]
Sent(b) ==
    /\ Kept(b)
    /\ Sending(b) /\ ~Sending(b)'
    /\ sent'[b] = sent[b] + 1
    /\ Issuable(b)' => Issuable(b)

LEMMA AccountMoves ==
    ASSUME TypeOK, OpInv, [Next]_vars, NEW b \in Attempts
    PROVE  /\ delivery'[b] = "NONE" => delivery[b] = "NONE"
           /\ Quiet(b) \/ Written(b) \/ Issued(b) \/ Sent(b)
<1> DEFINE G == /\ delivery'[b] = "NONE" => delivery[b] = "NONE"
                /\ Quiet(b) \/ Written(b) \/ Issued(b) \/ Sent(b)
<1> USE ColabAssumption DEF TypeOK, OpInv, Locked, Actors, ReceiptStates, Resting, At, Idle,
        Writers, Issuable, Sending, Kept, Quiet, vars, controller, worker
<1>1. ASSUME NEW d \in Drivers, DriverStep(d) PROVE G
  <2>1. ASSUME NEW a \in Attempts, StartLaunch(d, a) PROVE G
    BY <2>1 DEF StartLaunch, Begin
  <2>2. ASSUME NEW a \in Attempts, StartReplay(d, a) PROVE G
    BY <2>2 DEF StartReplay, Begin
  <2>3. ASSUME NEW a \in Attempts, StartPoll(d, a) PROVE G
    BY <2>3 DEF StartPoll, Begin
  <2>4. CASE First(d)
    BY <2>4 DEF First, GoTo, Rest
  <2>5. CASE Replay(d)
    BY <2>5, SMTT(40) DEF Replay, GoTo, Rest, Reconcile
  <2>6. CASE Precancel(d)
    BY <2>6 DEF Precancel, GoTo, CancelReceipt
  <2>7. CASE Launch(d)
    BY <2>7 DEF Launch, GoTo, Rest
  <2>8. CASE Prepare(d)
    BY <2>8 DEF Prepare, GoTo, Reconcile
  <2>9. CASE Record(d)
    BY <2>9 DEF Record, GoTo, Rest
  <2>10. CASE WriteRecord(d)
    BY <2>10 DEF WriteRecord, GoTo, Written
  <2>11. CASE Reread(d)
    BY <2>11, SMTT(40) DEF Reread, GoTo, Rest
  <2>12. CASE Lock(d)
    BY <2>12 DEF Lock, GoTo
  <2>13. CASE Check(d)
    BY <2>13 DEF Check, GoTo, GiveUp, Rest
  <2>14. CASE CheckWorker(d)
    BY <2>14 DEF CheckWorker, GoTo, GiveUp, Rest
  <2>15. CASE Issue(d)
    BY <2>15 DEF Issue, GoTo, Issued
  <2>16. CASE Exec(d)
    BY <2>16 DEF Exec, GiveUp, Rest, Sent
  <2>17. CASE Poll(d)
    BY <2>17 DEF Poll, Rest, Reconcile
  <2>18. CASE LosePrepareReply(d)
    BY <2>18 DEF LosePrepareReply, Rest
  <2> QED
    BY <1>1, <2>1, <2>2, <2>3, <2>4, <2>5, <2>6, <2>7, <2>8, <2>9, <2>10, <2>11, <2>12, <2>13, <2>14, <2>15, <2>16, <2>17, <2>18 DEF DriverStep
<1>2. ASSUME NEW x \in Actors, ActorStep(x) PROVE G
  <2>1. ASSUME NEW a \in Attempts, StartCancel(x, a) PROVE G
    BY <2>1 DEF StartCancel, Begin
  <2>2. CASE Cancel(x)
    BY <2>2 DEF Cancel, GoTo, Rest
  <2>3. CASE CancelRpc(x)
    BY <2>3 DEF CancelRpc, Rest, Reconcile, CancelReceipt
  <2>4. CASE Mark(x)
    BY <2>4 DEF Mark, GoTo, Rest
  <2>5. CASE Observe(x)
    BY <2>5 DEF Observe, Rest
  <2>6. CASE Stop(x)
    BY <2>6 DEF Stop, Rest
  <2>7. CASE LoseCancelReply(x)
    BY <2>7 DEF LoseCancelReply, Rest, CancelReceipt
  <2> QED
    BY <1>2, <2>1, <2>2, <2>3, <2>4, <2>5, <2>6, <2>7 DEF ActorStep
<1>3. CASE InstanceStep
  <2>1. ASSUME NEW a \in Attempts, Deliver(a) PROVE G
    BY <2>1 DEF Deliver
  <2>2. ASSUME NEW a \in Attempts, Undelivered(a) PROVE G
    BY <2>2 DEF Undelivered
  <2>3. CASE Finish
    BY <2>3 DEF Finish
  <2>4. CASE Leave
    BY <2>4 DEF Leave
  <2>5. CASE Expire
    BY <2>5 DEF Expire
  <2>6. CASE Report
    BY <2>6 DEF Report
  <2> QED
    BY <1>3, <2>1, <2>2, <2>3, <2>4, <2>5, <2>6 DEF InstanceStep
<1>4. CASE UNCHANGED vars
  BY <1>4
<1> QED
  BY <1>1, <1>2, <1>3, <1>4 DEF Next

\* Account, for every step.
LEMMA AccountHolds == DeliveryInv /\ [Next]_vars => Account'
<1> SUFFICES ASSUME DeliveryInv, [Next]_vars, NEW b \in Attempts
             PROVE  /\ (sent[b] + ToCome(b) <= Cardinality(wrote[b]))'
                    /\ Writers(b)' \cap wrote'[b] = {}
                    /\ delivery'[b] = "NONE" => wrote'[b] = {}
  BY DEF Account
<1> DEFINE w == Cardinality(wrote[b])
           v == Cardinality(wrote'[b])
<1>t. sent[b] \in Nat /\ sent'[b] \in Nat
  BY OpsStayTyped DEF DeliveryInv, TypeOK
<1>w. IsFiniteSet(wrote[b]) /\ w \in Nat /\ IsFiniteSet(wrote'[b]) /\ v \in Nat
  <2>1. wrote[b] \in SUBSET Drivers /\ wrote'[b] \in SUBSET Drivers
    BY OpsStayTyped DEF DeliveryInv, TypeOK
  <2> QED
    BY <2>1, FS_Subset, FS_CardinalityType, ColabAssumption
<1>a. /\ sent[b] + ToCome(b) <= w
      /\ Writers(b) \cap wrote[b] = {}
      /\ delivery[b] = "NONE" => wrote[b] = {}
  BY DEF DeliveryInv, Account
<1>m. /\ delivery'[b] = "NONE" => delivery[b] = "NONE"
      /\ Quiet(b) \/ Written(b) \/ Issued(b) \/ Sent(b)
  BY AccountMoves DEF DeliveryInv
<1>k. ASSUME Kept(b)
      PROVE  /\ v = w
             /\ Writers(b)' \cap wrote'[b] = {}
             /\ delivery'[b] = "NONE" => wrote'[b] = {}
  BY <1>k, <1>a, <1>m DEF Kept
<1>1. CASE Quiet(b)
  BY <1>a, <1>t, <1>w, <1>k, <1>1 DEF ToCome, Quiet
<1>2. CASE Written(b)
  <2> PICK d \in Writers(b) : /\ wrote'[b] = wrote[b] \cup {d}
                              /\ Writers(b)' \subseteq Writers(b) \ {d}
    BY <1>2 DEF Written
  <2>1. v = w + 1
    BY <1>a, <1>w, FS_AddElement
  <2>2. Writers(b)' \cap wrote'[b] = {}
    BY <1>a
  <2> QED
    BY <1>a, <1>t, <1>w, <1>2, <2>1, <2>2 DEF ToCome, Written
<1>3. CASE Issued(b)
  BY <1>a, <1>t, <1>w, <1>k, <1>3 DEF ToCome, Issued
<1>4. CASE Sent(b)
  BY <1>a, <1>t, <1>w, <1>k, <1>4 DEF ToCome, Sent
<1> QED
  BY <1>m, <1>1, <1>2, <1>3, <1>4

-----------------------------------------------------------------------------
(* The theorems. *)

\* An instance without deliveries satisfies the invariant.
LEMMA DeliveryStarts == Init => DeliveryInv
<1> SUFFICES ASSUME Init PROVE DeliveryInv
  OBVIOUS
<1> USE ColabAssumption
<1>1. TypeOK /\ OpInv /\ SeenIsOver /\ ReleasedIsOver
  BY DEF Init, TypeOK, OpInv, SeenIsOver, ReleasedIsOver, Actors, Resting, NoStatus,
         ReceiptStates, Locked
<1>2. CommandsAreRecorded /\ AloneWhenAdmitted /\ OneLiveExec
  BY DEF Init, CommandsAreRecorded, AloneWhenAdmitted, OneLiveExec, Outstanding, Admitted,
         Actors, Resting
<1>3. Account
  <2> SUFFICES ASSUME NEW b \in Attempts
               PROVE  sent[b] + ToCome(b) <= Cardinality(wrote[b]) /\ wrote[b] = {}
    BY DEF Account
  <2>1. wrote[b] = {} /\ ~Issuable(b) /\ ~Sending(b) /\ sent[b] = 0
    BY DEF Init, Issuable, Sending, Actors, Resting
  <2>2. Cardinality(wrote[b]) = 0
    BY <2>1, FS_EmptySet
  <2> QED
    BY <2>1, <2>2 DEF ToCome
<1> QED
  BY <1>1, <1>2, <1>3 DEF DeliveryInv

\* The invariant of the deliveries to one Colab instance is inductive: every
\* step of the controller's processes (workers/controller.py), of colab.py and
\* of the instance keeps it.
THEOREM DeliveryInvariant == Spec => []DeliveryInv
<1>1. Init => DeliveryInv
  BY DeliveryStarts
<1>2. DeliveryInv /\ [Next]_vars => DeliveryInv'
  BY OpsStayTyped, SeenStaysOver, CommandsStayRecorded, StaysAlone, AccountHolds DEF DeliveryInv
<1> QED
  BY <1>1, <1>2, PTL DEF Spec

\* Delivery records, hosted statuses, rows and processes keep their types.
THEOREM DeliveryTyping == Spec => []TypeOK
<1>1. DeliveryInv => TypeOK
  BY DEF DeliveryInv
<1> QED
  BY <1>1, DeliveryInvariant, PTL

\* Two attempts never have a foreground command under way that could still
\* train, whichever processes drive the instance and die over it
\* (_assert_no_other_delivery, issue_foreground_launch).
THEOREM DeliveriesExclude == Spec => []OneLiveExec
<1>1. DeliveryInv => OneLiveExec
  BY DEF DeliveryInv
<1> QED
  BY <1>1, DeliveryInvariant, PTL

\* The instance is given away only when the attempt that held it has ended on
\* the worker (mark_delivery_observed).
THEOREM ReleaseIsProven == Spec => []ReleasedIsOver
<1>1. DeliveryInv => ReleasedIsOver
  BY DEF DeliveryInv
<1> QED
  BY <1>1, DeliveryInvariant, PTL

\* A row of the queue is ended by Colab's answers only when the worker's receipt
\* is (_reconcile_receipt).
THEOREM RowsEndWithReceipt ==
    Spec => [](\A a \in Attempts : row[a] = "OVER" => receipt[a] = "OVER")
<1>1. DeliveryInv => \A a \in Attempts : row[a] = "OVER" => receipt[a] = "OVER"
  BY DEF DeliveryInv, SeenIsOver
<1> QED
  BY <1>1, DeliveryInvariant, PTL

\* However often an attempt is replayed, and whoever dies, each of its foreground
\* commands has a PREPARED record of its own, written by a driver that had found
\* none; so with one driver an ambiguous launch is never retried
\* (record_prepared_delivery, _issue_foreground_launch).
THEOREM CommandsUseRecords ==
    Spec => [](IssuedPerRecord /\ (Cardinality(Drivers) = 1 => NeverReissued))
<1>1. DeliveryInv => IssuedPerRecord /\ (Cardinality(Drivers) = 1 => NeverReissued)
  <2> SUFFICES ASSUME DeliveryInv, NEW b \in Attempts
               PROVE  /\ sent[b] <= Cardinality(wrote[b])
                      /\ Cardinality(Drivers) = 1 => sent[b] <= 1
    BY DEF IssuedPerRecord, NeverReissued
  <2>1. sent[b] + ToCome(b) <= Cardinality(wrote[b]) /\ sent[b] \in Nat
    BY DEF DeliveryInv, Account, TypeOK
  <2>2. /\ Cardinality(wrote[b]) \in Nat /\ Cardinality(Drivers) \in Nat
        /\ Cardinality(wrote[b]) <= Cardinality(Drivers)
    <3>1. wrote[b] \in SUBSET Drivers
      BY DEF DeliveryInv, TypeOK
    <3> QED
      BY <3>1, FS_Subset, FS_CardinalityType, ColabAssumption
  <2>3. sent[b] <= Cardinality(wrote[b])
    BY <2>1, <2>2 DEF ToCome
  <2> QED
    BY <2>1, <2>2, <2>3
<1> QED
  BY <1>1, DeliveryInvariant, PTL
=============================================================================
