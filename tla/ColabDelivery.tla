---------------------------- MODULE ColabDelivery ---------------------------
(***************************************************************************)
(* How attempts are delivered to one Colab instance (workers/colab.py and  *)
(* its callers in workers/controller.py).  A launch is two calls: a native *)
(* prepare RPC, then one foreground `colab exec` that occupies the only    *)
(* kernel.  In between the controller keeps delivery.json, one per         *)
(* attempt, written without a lock except where the command is issued.     *)
(* Any operation may fail, or its process die, before any of its steps;    *)
(* the next one starts from the files.                                     *)
(*                                                                         *)
(* The queue row is QUEUED, then ASSIGNED (for every state in which it is  *)
(* polled or replayed), then OVER (a terminal receipt is stored).  Both    *)
(* rows may be assigned to the instance: the slot check that would forbid  *)
(* it is made without a lock (controller.py:841).                          *)
(***************************************************************************)
EXTENDS Naturals, FiniteSets

CONSTANTS
    Attempts,
    Drivers,        \* processes that tick the controller
    Operators,      \* processes that only cancel
    Nobody,
    NoAttempt

ASSUME ColabAssumption ==
    /\ Nobody \notin Drivers \cup Operators
    /\ NoAttempt \notin Attempts
    /\ Drivers \cap Operators = {}
    /\ IsFiniteSet(Drivers)

VARIABLES
    delivery,   \* delivery[a]: the state in its delivery.json
    row,        \* row[a]: its row in the queue
    wanted,     \* attempts whose cancellation was requested
    lock,       \* the holder of the instance's admission lock
    op,         \* op[x]: what the process x is doing, for which attempt, and the receipt it saw
    receipt,    \* receipt[a]: on the worker
    hosted,     \* hosted-status.json: the receipt it copies
    cell,       \* the attempt whose foreground cell occupies the kernel
    sent,       \* sent[a]: foreground commands started
    begun,      \* begun[a]: those of them that reached the kernel, or never will
    wrote       \* wrote[a]: the drivers that recorded it PREPARED (history)

controller == <<delivery, row, wanted, lock>>
worker == <<receipt, hosted, cell, begun>>
vars == <<controller, op, worker, sent, wrote>>

Actors == Drivers \cup Operators
NoStatus == [attempt |-> NoAttempt, state |-> "NONE"]
Resting == [pc |-> "rest", attempt |-> NoAttempt, seen |-> "NONE"]
ReceiptStates == {"NONE", "PREPARED", "RUNNING", "OVER"}

TypeOK ==
    /\ delivery \in [Attempts -> {"NONE", "PREPARED", "ISSUED",
                                  "OBSERVED_RUNNING", "OBSERVED_TERMINAL"}]
    /\ row \in [Attempts -> {"QUEUED", "ASSIGNED", "OVER"}]
    /\ wanted \subseteq Attempts
    /\ lock \in Actors \cup {Nobody}
    /\ op \in [Actors -> [pc : {"rest", "first", "replay", "precancel", "launch", "prepare",
                                "record", "write", "reread", "lock", "check", "idle",
                                "issue", "exec", "poll", "cancel", "cancelrpc", "mark",
                                "observe"},
                          attempt : Attempts \cup {NoAttempt},
                          seen : ReceiptStates]]
    /\ receipt \in [Attempts -> ReceiptStates]
    /\ hosted \in [attempt : Attempts \cup {NoAttempt}, state : ReceiptStates]
    /\ cell \in Attempts \cup {NoAttempt}
    /\ sent \in [Attempts -> Nat]
    /\ begun \in [Attempts -> Nat]
    /\ wrote \in [Attempts -> SUBSET Drivers]

Init ==
    /\ delivery = [a \in Attempts |-> "NONE"]
    /\ row = [a \in Attempts |-> "QUEUED"]
    /\ wanted = {}
    /\ lock = Nobody
    /\ op = [x \in Actors |-> Resting]
    /\ receipt = [a \in Attempts |-> "NONE"]
    /\ hosted = NoStatus
    /\ cell = NoAttempt
    /\ sent = [a \in Attempts |-> 0]
    /\ begun = [a \in Attempts |-> 0]
    /\ wrote = [a \in Attempts |-> {}]

-----------------------------------------------------------------------------
(* The steps of an operation. *)

Idle == cell = NoAttempt

At(x, pc) == op[x].pc = pc
GoTo(x, pc) == op' = [op EXCEPT ![x].pc = pc]
Rest(x) == op' = [op EXCEPT ![x] = Resting]
Begin(x, a, pc) ==
    /\ At(x, "rest")
    /\ op' = [op EXCEPT ![x] = [pc |-> pc, attempt |-> a, seen |-> "NONE"]]

\* _reconcile_receipt: the row first, then the delivery record.
Reconcile(x, seen) ==
    /\ op' = [op EXCEPT ![x].pc = "mark", ![x].seen = seen]
    /\ row' = IF seen = "OVER" THEN [row EXCEPT ![op[x].attempt] = "OVER"] ELSE row

\* Mutant of OtherDelivery: an issued command no longer holds the instance.
OtherDeliveryIssued(a) ==
    \E b \in Attempts \ {a} : delivery[b] \in {"PREPARED", "OBSERVED_RUNNING"}

\* _assert_no_other_delivery fails.
OtherDelivery(a) ==
    \E b \in Attempts \ {a} : delivery[b] \in {"PREPARED", "ISSUED", "OBSERVED_RUNNING"}

-----------------------------------------------------------------------------
(* Launching. *)

\* A queued row is launched for the first time ...
StartLaunch(d, a) ==
    /\ row[a] = "QUEUED"
    /\ Begin(d, a, "first")
    /\ UNCHANGED <<controller, worker, sent, wrote>>

\* ... by whoever assigns it.
First(d) ==
    LET a == op[d].attempt
    IN  /\ At(d, "first")
        /\ IF ~OtherDelivery(a) /\ row[a] = "QUEUED"
           THEN GoTo(d, "prepare") /\ row' = [row EXCEPT ![a] = "ASSIGNED"]
           ELSE Rest(d) /\ UNCHANGED row
        /\ UNCHANGED <<delivery, wanted, lock, worker, sent, wrote>>

\* _replay_assigned: an issued delivery is never replayed.
StartReplay(d, a) ==
    /\ row[a] = "ASSIGNED"
    /\ delivery[a] \in {"NONE", "PREPARED"}
    /\ Begin(d, a, "replay")
    /\ UNCHANGED <<controller, worker, sent, wrote>>

\* It needs the attempt's own status, still PREPARED.
Replay(d) ==
    LET a == op[d].attempt
    IN  /\ At(d, "replay")
        /\ CASE hosted.attempt # a -> Rest(d) /\ UNCHANGED row
             [] hosted.attempt = a /\ hosted.state # "PREPARED" -> Reconcile(d, hosted.state)
             [] OTHER -> GoTo(d, IF a \in wanted THEN "precancel" ELSE "launch")
                         /\ UNCHANGED row
        /\ UNCHANGED <<delivery, wanted, lock, worker, sent, wrote>>

\* cancel_attempt, on the worker: only a receipt that nobody executes is ended
\* at once; the hosted status is not rewritten.
CancelReceipt(a) ==
    receipt' = IF receipt[a] = "PREPARED" THEN [receipt EXCEPT ![a] = "OVER"] ELSE receipt

\* A requested cancellation is delivered before the launch; its reply is not read.
Precancel(d) ==
    /\ At(d, "precancel")
    /\ Idle
    /\ CancelReceipt(op[d].attempt)
    /\ GoTo(d, "launch")
    /\ UNCHANGED <<controller, hosted, cell, begun, sent, wrote>>

\* _launch of an assigned attempt: what was issued is left alone.
Launch(d) ==
    LET a == op[d].attempt
    IN  /\ At(d, "launch")
        /\ CASE OtherDelivery(a) -> Rest(d)
             [] ~OtherDelivery(a) /\ delivery[a] = "NONE" -> GoTo(d, "prepare")
             [] ~OtherDelivery(a) /\ delivery[a] = "PREPARED" -> GoTo(d, "lock")
             [] OTHER -> Rest(d)
        /\ UNCHANGED <<controller, worker, sent, wrote>>

\* The native prepare RPC and its reply.
Prepare(d) ==
    LET a == op[d].attempt
    IN  /\ At(d, "prepare")
        /\ Idle
        /\ IF receipt[a] \in {"NONE", "PREPARED"}
           THEN /\ receipt' = [receipt EXCEPT ![a] = "PREPARED"]
                /\ hosted' = [attempt |-> a, state |-> "PREPARED"]
                /\ GoTo(d, "record")
                /\ UNCHANGED row
           ELSE Reconcile(d, receipt[a]) /\ UNCHANGED <<receipt, hosted>>
        /\ UNCHANGED <<delivery, wanted, lock, cell, begun, sent, wrote>>

\* record_prepared_delivery looks ...
Record(d) ==
    LET a == op[d].attempt
    IN  /\ At(d, "record")
        /\ CASE OtherDelivery(a) -> Rest(d)
             [] ~OtherDelivery(a) /\ delivery[a] = "NONE" -> GoTo(d, "write")
             [] OTHER -> GoTo(d, "reread")
        /\ UNCHANGED <<controller, worker, sent, wrote>>

\* ... and then writes.
WriteRecord(d) ==
    /\ At(d, "write")
    /\ delivery' = [delivery EXCEPT ![op[d].attempt] = "PREPARED"]
    /\ wrote' = [wrote EXCEPT ![op[d].attempt] = @ \cup {d}]
    /\ GoTo(d, "reread")
    /\ UNCHANGED <<row, wanted, lock, worker, sent>>

Reread(d) ==
    /\ At(d, "reread")
    /\ IF delivery[op[d].attempt] = "PREPARED" THEN GoTo(d, "lock") ELSE Rest(d)
    /\ UNCHANGED <<controller, worker, sent, wrote>>

-----------------------------------------------------------------------------
(* issue_foreground_launch. *)

Lock(d) ==
    /\ At(d, "lock")
    /\ lock = Nobody
    /\ lock' = d
    /\ GoTo(d, "check")
    /\ UNCHANGED <<delivery, row, wanted, worker, sent, wrote>>

GiveUp(d) == Rest(d) /\ lock' = Nobody

Check(d) ==
    LET a == op[d].attempt
    IN  /\ At(d, "check")
        /\ IF OtherDelivery(a) \/ delivery[a] # "PREPARED" THEN GiveUp(d)
           ELSE GoTo(d, "idle") /\ UNCHANGED lock
        /\ UNCHANGED <<delivery, row, wanted, worker, sent, wrote>>

\* An idle kernel, and the exact PREPARED receipt in the hosted status.
CheckWorker(d) ==
    /\ At(d, "idle")
    /\ IF Idle /\ hosted = [attempt |-> op[d].attempt, state |-> "PREPARED"]
       THEN GoTo(d, "issue") /\ UNCHANGED lock
       ELSE GiveUp(d)
    /\ UNCHANGED <<delivery, row, wanted, worker, sent, wrote>>

\* Mutant of Issue: the record is left PREPARED until the command has run.
IssueUnrecorded(d) ==
    /\ At(d, "issue")
    /\ GoTo(d, "exec")
    /\ UNCHANGED <<controller, worker, sent, wrote>>

\* ISSUED is durable before the command.
Issue(d) ==
    /\ At(d, "issue")
    /\ delivery' = [delivery EXCEPT ![op[d].attempt] = "ISSUED"]
    /\ GoTo(d, "exec")
    /\ UNCHANGED <<row, wanted, lock, worker, sent, wrote>>

\* The command is started and not waited for.
Exec(d) ==
    /\ At(d, "exec")
    /\ sent' = [sent EXCEPT ![op[d].attempt] = @ + 1]
    /\ GiveUp(d)
    /\ UNCHANGED <<delivery, row, wanted, worker, wrote>>

-----------------------------------------------------------------------------
(* Observing and cancelling. *)

\* _poll_active.
StartPoll(d, a) ==
    /\ row[a] = "ASSIGNED"
    /\ Begin(d, a, "poll")
    /\ UNCHANGED <<controller, worker, sent, wrote>>

Poll(d) ==
    /\ At(d, "poll")
    /\ IF hosted.attempt # op[d].attempt \/ hosted.state = "PREPARED"
       THEN Rest(d) /\ UNCHANGED row
       ELSE Reconcile(d, hosted.state)
    /\ UNCHANGED <<delivery, wanted, lock, worker, sent, wrote>>

\* mark_delivery_observed reads the record ...
Mark(x) ==
    LET state == delivery[op[x].attempt]
    IN  /\ At(x, "mark")
        /\ IF state = "NONE" \/ (state = "OBSERVED_TERMINAL" /\ op[x].seen # "OVER")
           THEN Rest(x)
           ELSE GoTo(x, "observe")
        /\ UNCHANGED <<controller, worker, sent, wrote>>

\* ... and rewrites it.
Observe(x) ==
    /\ At(x, "observe")
    /\ delivery' = [delivery EXCEPT ![op[x].attempt] =
          IF op[x].seen = "OVER" THEN "OBSERVED_TERMINAL" ELSE "OBSERVED_RUNNING"]
    /\ Rest(x)
    /\ UNCHANGED <<row, wanted, lock, worker, sent, wrote>>

\* Operators cancel on their own account, a poll what was requested before.
StartCancel(x, a) ==
    /\ row[a] = "ASSIGNED"
    /\ x \in Operators \/ a \in wanted
    /\ wanted' = wanted \cup {a}
    /\ Begin(x, a, "cancel")
    /\ UNCHANGED <<delivery, row, lock, worker, sent, wrote>>

\* Mutant of Cancel: an uploaded intent is taken for its effect.
CancelAssumed(x) ==
    /\ At(x, "cancel")
    /\ IF delivery[op[x].attempt] \in {"NONE", "PREPARED"}
       THEN GoTo(x, "cancelrpc") /\ UNCHANGED row
       ELSE Reconcile(x, "OVER")
    /\ UNCHANGED <<delivery, wanted, lock, worker, sent, wrote>>

\* Once issued, only an intent is uploaded: the executor acts on it, as Finish.
Cancel(x) ==
    /\ At(x, "cancel")
    /\ IF delivery[op[x].attempt] \in {"NONE", "PREPARED"} THEN GoTo(x, "cancelrpc")
       ELSE Rest(x)
    /\ UNCHANGED <<controller, worker, sent, wrote>>

\* The native cancel RPC and its reply.
CancelRpc(x) ==
    LET a == op[x].attempt
    IN  /\ At(x, "cancelrpc")
        /\ Idle
        /\ CancelReceipt(a)
        /\ IF receipt[a] = "NONE" THEN Rest(x) /\ UNCHANGED row
           ELSE Reconcile(x, receipt'[a])
        /\ UNCHANGED <<delivery, wanted, lock, hosted, cell, begun, sent, wrote>>

\* An operation fails, or its process dies, with whatever it has done so far.
Stop(x) ==
    /\ ~At(x, "rest")
    /\ Rest(x)
    /\ lock' = IF lock = x THEN Nobody ELSE lock
    /\ UNCHANGED <<delivery, row, wanted, worker, sent, wrote>>

\* The same, after an RPC was carried out whose reply is lost.
LosePrepareReply(d) ==
    /\ At(d, "prepare")
    /\ Idle
    /\ receipt[op[d].attempt] \in {"NONE", "PREPARED"}
    /\ receipt' = [receipt EXCEPT ![op[d].attempt] = "PREPARED"]
    /\ hosted' = [attempt |-> op[d].attempt, state |-> "PREPARED"]
    /\ Rest(d)
    /\ UNCHANGED <<controller, cell, begun, sent, wrote>>

LoseCancelReply(x) ==
    /\ op[x].pc \in {"precancel", "cancelrpc"}
    /\ Idle
    /\ CancelReceipt(op[x].attempt)
    /\ Rest(x)
    /\ UNCHANGED <<controller, hosted, cell, begun, sent, wrote>>

-----------------------------------------------------------------------------
(* The Colab instance. *)

\* A foreground command reaches the kernel: the executor starts, or ends the
\* attempt at once, or finds it begun or ended and returns.
Deliver(a) ==
    /\ Idle
    /\ begun[a] < sent[a]
    /\ begun' = [begun EXCEPT ![a] = @ + 1]
    /\ IF receipt[a] = "PREPARED"
       THEN \E state \in {"RUNNING", "OVER"} :
              /\ receipt' = [receipt EXCEPT ![a] = state]
              /\ cell' = a
       ELSE UNCHANGED <<receipt, cell>>
    /\ UNCHANGED <<controller, op, hosted, sent, wrote>>

\* A foreground command never reaches the kernel, or leaves the receipt PREPARED.
Undelivered(a) ==
    /\ begun[a] < sent[a]
    /\ begun' = [begun EXCEPT ![a] = @ + 1]
    /\ UNCHANGED <<controller, op, receipt, hosted, cell, sent, wrote>>

\* The executor ends the attempt.
Finish ==
    /\ ~Idle
    /\ receipt[cell] = "RUNNING"
    /\ receipt' = [receipt EXCEPT ![cell] = "OVER"]
    /\ UNCHANGED <<controller, op, hosted, cell, begun, sent, wrote>>

\* write_hosted_status, after the receipt and with every heartbeat, which may
\* have read the receipt before the attempt ended.
Report ==
    /\ ~Idle
    /\ \E state \in {"RUNNING", receipt[cell]} :
         hosted' = [attempt |-> cell, state |-> state]
    /\ UNCHANGED <<controller, op, receipt, cell, begun, sent, wrote>>

\* The cell ends, or its executor dies: with a receipt that no status reports,
\* or with one that stays RUNNING, since no call on Colab recovers it.
Leave ==
    /\ ~Idle
    /\ cell' = NoAttempt
    /\ UNCHANGED <<controller, op, receipt, hosted, begun, sent, wrote>>

\* Without a heartbeat the status is too old to be accepted after 30 seconds.
Expire ==
    /\ hosted # NoStatus
    /\ hosted' = NoStatus
    /\ UNCHANGED <<controller, op, receipt, cell, begun, sent, wrote>>

-----------------------------------------------------------------------------
DriverStep(d) ==
    \/ \E a \in Attempts : StartLaunch(d, a) \/ StartReplay(d, a) \/ StartPoll(d, a)
    \/ First(d) \/ Replay(d) \/ Precancel(d) \/ Launch(d) \/ Prepare(d)
    \/ Record(d) \/ WriteRecord(d) \/ Reread(d)
    \/ Lock(d) \/ Check(d) \/ CheckWorker(d) \/ Issue(d) \/ Exec(d)
    \/ Poll(d)
    \/ LosePrepareReply(d)

ActorStep(x) ==
    \/ \E a \in Attempts : StartCancel(x, a)
    \/ Cancel(x) \/ CancelRpc(x) \/ Mark(x) \/ Observe(x)
    \/ Stop(x) \/ LoseCancelReply(x)

InstanceStep ==
    \/ \E a \in Attempts : Deliver(a) \/ Undelivered(a)
    \/ Finish \/ Report \/ Leave \/ Expire

Next ==
    \/ \E d \in Drivers : DriverStep(d)
    \/ \E x \in Actors : ActorStep(x)
    \/ InstanceStep

Spec == Init /\ [][Next]_vars

-----------------------------------------------------------------------------
(* Properties. *)

Outstanding(a) == begun[a] < sent[a] \/ cell = a

\* Every foreground command uses up a PREPARED record of its own, one that a
\* driver wrote because it had found none: whatever dies between the journalled
\* ISSUED and the command, and however often the attempt is replayed, an issued
\* record is not issued again.  With one driver, which is what the controller's
\* process lock is for, that is one command at most; each further command takes
\* another driver that looked before the first record was there and writes
\* PREPARED over ISSUED (colab.py:517-526, 563, 581).
IssuedPerRecord == \A a \in Attempts : sent[a] <= Cardinality(wrote[a])

\* No ambiguous launch is retried (colab.py:548-550).  With two drivers it is:
\* the second one's record hides that the command was issued.
NeverReissued == \A a \in Attempts : sent[a] <= 1

\* Two attempts never have a foreground command under way that could still
\* train, though nothing but the records, checked and written without a lock,
\* keeps the second one off the instance (colab.py:488-533).
OneLiveExec ==
    \A a, b \in Attempts :
        Outstanding(a) /\ receipt[a] # "OVER" /\ Outstanding(b) /\ receipt[b] # "OVER"
            => a = b

\* The instance is given away only when the attempt that held it has ended on
\* the worker: a stale or racing observation may hold it too long, never
\* release it early (colab.py:863-869).
ReleasedIsOver ==
    \A a \in Attempts : delivery[a] = "OBSERVED_TERMINAL" => receipt[a] = "OVER"

\* A delivery observed terminal is not taken back (colab.py:866).  It is: a
\* command about to be issued, or a second observer, writes what it decided
\* before, and nothing polls the attempt again to release the instance.
ObservedStays ==
    [][\A a \in Attempts :
          delivery[a] = "OBSERVED_TERMINAL" => delivery'[a] = "OBSERVED_TERMINAL"]_vars

\* A command is issued for a PREPARED receipt only (colab.py:572-580).  Not so
\* after a native cancel, which leaves the hosted status as it was.
IssuedOnPrepared ==
    [][\A a \in Attempts : sent'[a] > sent[a] => receipt[a] = "PREPARED"]_vars
=============================================================================
