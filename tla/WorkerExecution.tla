-------------------------- MODULE WorkerExecution ---------------------------
(***************************************************************************)
(* The processes of one worker (workers/execution.py, workers/agent.py):   *)
(* short-lived RPC processes (launch, prepare, status, cancel) and the     *)
(* executor wrappers that launch spawns, which train.  They share files    *)
(* and advisory file locks only:                                           *)
(*   receipt.json, cancel.json       (receipt and marker below)            *)
(*   receipt.lock                    serialises receipt read-modify-write  *)
(*   claim.lock                      taken without waiting by an executor  *)
(*   attempts/.admission.lock        serialises launches                   *)
(*   the worker's device lease       taken without waiting, inherited by   *)
(*                                   the pilot processes of staging        *)
(* Every step below is one file-system operation a process of another kind *)
(* can observe; a critical section whose middle nobody can see is one      *)
(* step.  A process may die between any two of its steps, which closes its *)
(* descriptors and so drops its locks.                                     *)
(***************************************************************************)
EXTENDS WorkerContract, Naturals

CONSTANTS
    Executors,    \* executor wrapper processes that may exist at once
    Rpcs,         \* RPC processes that may exist at once
    MaxCrashes,   \* bound: how many processes die
    Nobody        \* no process, no attempt

ASSUME ProcessAssumption ==
    /\ Executors \cap Rpcs = {}
    /\ Nobody \notin Executors \cup Rpcs \cup Attempts
    /\ MaxCrashes \in Nat

VARIABLES
    rlock,      \* rlock[a]: the process holding receipt.lock of a
    claim,      \* claim[a]: the process holding claim.lock of a
    admission,  \* the RPC holding .admission.lock
    leases,     \* the processes with a descriptor of the device lease
    pilots,     \* pilots[e]: the attempt of a live pilot spawned by e
    owner,      \* owner[a]: the pid/process_start recorded by begin
    pc,         \* pc[p]: where process p is; "idle": there is no such process
    att,        \* att[p]: the attempt p works for
    op,         \* op[r]: the operation of RPC r
    seen,       \* seen[r]: the receipt cancel_attempt read under receipt.lock
    out,        \* out[e]: the outcome executor e is about to record
    trains,     \* history: trains[a] counts the calls of train for a
    crashes

locks == <<rlock, claim, admission, leases>>
local == <<op, seen, out>>
vars == <<receipt, marker, rlock, claim, admission, leases, pilots, owner,
          pc, att, op, seen, out, trains, crashes>>

Procs == Executors \cup Rpcs

\* Where an executor is between begin and its end, with the lease.
Begun == {"validate", "prestage", "stage", "pilot", "staged",
          "arm", "train", "training", "stopped", "raised"}

ExecutorPcs == {"spawned", "claimed", "precheck", "lease", "begin",
                "finish", "close", "unclaim"} \cup Begun

RpcPcs == {"admit", "prepare", "spawn",
           "load", "recover", "reclaim", "finalize", "release", "probe", "unprobe",
           "lock", "mark", "tryclaim", "dropclaim", "cancel", "flag"}

Ops == {"launch", "prepare", "status", "cancel"}

TypeOK ==
    /\ receipt \in [Attempts -> Receipts]
    /\ marker \in SUBSET Attempts
    /\ rlock \in [Attempts -> Procs \cup {Nobody}]
    /\ claim \in [Attempts -> Procs \cup {Nobody}]
    /\ admission \in Rpcs \cup {Nobody}
    /\ leases \in SUBSET Procs
    /\ pilots \in [Executors -> Attempts \cup {Nobody}]
    /\ owner \in [Attempts -> Executors \cup {Nobody}]
    /\ pc \in [Procs -> {"idle"} \cup ExecutorPcs \cup RpcPcs]
    /\ att \in [Procs -> Attempts \cup {Nobody}]
    /\ op \in [Rpcs -> Ops]
    /\ seen \in [Rpcs -> Receipts]
    /\ out \in [Executors -> Outcomes]
    /\ trains \in [Attempts -> Nat]
    /\ crashes \in 0..MaxCrashes

Init ==
    /\ ContractInit
    /\ rlock = [a \in Attempts |-> Nobody]
    /\ claim = [a \in Attempts |-> Nobody]
    /\ admission = Nobody
    /\ leases = {}
    /\ pilots = [e \in Executors |-> Nobody]
    /\ owner = [a \in Attempts |-> Nobody]
    /\ pc = [p \in Procs |-> "idle"]
    /\ att = [p \in Procs |-> Nobody]
    /\ op = [r \in Rpcs |-> "status"]
    /\ seen = [r \in Rpcs |-> NoReceipt]
    /\ out = [e \in Executors |-> "FAILED"]
    /\ trains = [a \in Attempts |-> 0]
    /\ crashes = 0

-----------------------------------------------------------------------------
(* Locks and processes. *)

\* Mutant of LeaseFree: close unlocks the description its pilots inherited.
LeaseFreeOfWrappers == leases = {}

\* acquire_lease succeeds only when every descriptor of the lease, a pilot's
\* inherited one included, is closed.
LeaseFree == leases = {} /\ \A e \in Executors : pilots[e] = Nobody

\* Mutant of ProcessMatches: a pid, once recorded, is taken for a live process.
ProcessMatchesByPid(a) == owner[a] # Nobody

\* process_matches: the process that recorded itself at begin still runs.
ProcessMatches(a) ==
    /\ owner[a] # Nobody
    /\ att[owner[a]] = a
    /\ pc[owner[a]] \in Begun \cup {"finish", "close", "unclaim"}

\* A process that ends, or dies, drops the flocks it holds.
Drop(lock, p) == [a \in Attempts |-> IF lock[a] = p THEN Nobody ELSE lock[a]]

Go(p, where) == pc' = [pc EXCEPT ![p] = where] /\ UNCHANGED <<att, local>>

Start(p, where, a) == pc' = [pc EXCEPT ![p] = where] /\ att' = [att EXCEPT ![p] = a]

Exit(p) == Start(p, "idle", Nobody)

Reply(r) ==
    /\ Exit(r)
    /\ op' = [op EXCEPT ![r] = "status"]
    /\ seen' = [seen EXCEPT ![r] = NoReceipt]
    /\ UNCHANGED out

\* cancel_attempt returns: to its caller, or to the launch or prepare that met
\* a cancellation file and called it with the admission lock held.
CancelReturns(r) ==
    \/ op[r] = "cancel" /\ Reply(r)
    \/ /\ op[r] # "cancel"
       /\ pc' = [pc EXCEPT ![r] = "spawn"]
       /\ seen' = [seen EXCEPT ![r] = NoReceipt]
       /\ UNCHANGED <<att, op, out>>

\* Leave with a result that _terminal_receipt will write.
Leave(e, outcome) ==
    /\ pc' = [pc EXCEPT ![e] = "finish"]
    /\ out' = [out EXCEPT ![e] = outcome]
    /\ UNCHANGED <<att, op, seen>>

\* The marker test of _cancelled: cancelled here, or on to where.
UnlessCancelled(e, where) ==
    IF att[e] \in marker THEN Leave(e, "CANCELLED") ELSE Go(e, where)

-----------------------------------------------------------------------------
(* RPC processes. *)

Call(r, o, a) ==
    /\ pc[r] = "idle"
    /\ Start(r, CASE o = "status" -> "load"
                  [] o = "cancel" -> "lock"
                  [] OTHER -> "admit", a)
    /\ op' = [op EXCEPT ![r] = o]
    /\ UNCHANGED <<receipt, marker, locks, pilots, owner, seen, out, trains, crashes>>

\* _prepare_attempt: the admission lock, then the stored spec is compared.
Admit(r) ==
    /\ pc[r] = "admit"
    /\ admission = Nobody
    /\ admission' = r
    /\ Go(r, "prepare")
    /\ UNCHANGED <<receipt, marker, rlock, claim, leases, pilots, owner, trains, crashes>>

\* A receipt that runs or is terminal is returned; a missing one is written,
\* without receipt.lock.  process_cancel_intent then calls cancel_attempt if
\* the controller left an authentic colab-cancel.json for the attempt.
WriteOrReturn(r) ==
    LET a == att[r] IN
    /\ pc[r] = "prepare"
    /\ \/ /\ receipt[a].state \in {"RUNNING"} \cup TerminalStates
          /\ admission' = Nobody
          /\ Reply(r)
          /\ UNCHANGED receipt
       \/ /\ receipt[a].state \in {"NONE", "PREPARED"}
          /\ receipt' = [receipt EXCEPT ![a] =
                            IF @.state = "NONE" THEN Prepared ELSE @]
          /\ \E where \in {"lock", "spawn"} : Go(r, where)
          /\ UNCHANGED admission
    /\ UNCHANGED <<marker, rlock, claim, leases, pilots, owner, trains, crashes>>

\* The wrapper of launch, in a process of its own.
SpawnExecutor(r) ==
    /\ op[r] = "launch"
    /\ \E e \in Executors :
         /\ pc[e] = "idle" /\ pilots[e] = Nobody
         /\ pc' = [pc EXCEPT ![e] = "spawned", ![r] = "idle"]
         /\ att' = [att EXCEPT ![e] = att[r], ![r] = Nobody]

\* launch spawns a wrapper whatever the receipt has become, prepare none; nor
\* does a launch whose key check, boundary publication or Popen raises.
Spawn(r) ==
    /\ pc[r] = "spawn"
    /\ SpawnExecutor(r) \/ Exit(r)
    /\ admission' = Nobody
    /\ op' = [op EXCEPT ![r] = "status"]
    /\ UNCHANGED <<seen, out>>
    /\ UNCHANGED <<receipt, marker, rlock, claim, leases, pilots, owner, trains, crashes>>

\* status_worker: a RUNNING receipt whose process is gone may be recovered.
Load(r) ==
    LET a == att[r] IN
    /\ pc[r] = "load"
    /\ Go(r, IF receipt[a].state = "RUNNING" /\ ~ProcessMatches(a)
                THEN "recover" ELSE "probe")
    /\ UNCHANGED <<receipt, marker, locks, pilots, owner, trains, crashes>>

Recover(r) ==
    /\ pc[r] = "recover"
    /\ IF LeaseFree THEN leases' = {r} /\ Go(r, "reclaim")
                    ELSE Go(r, "probe") /\ UNCHANGED leases
    /\ UNCHANGED <<receipt, marker, rlock, claim, admission, pilots, owner, trains, crashes>>

Reclaim(r) ==
    LET a == att[r] IN
    /\ pc[r] = "reclaim"
    /\ IF claim[a] = Nobody
       THEN claim' = [claim EXCEPT ![a] = r] /\ Go(r, "finalize") /\ UNCHANGED leases
       ELSE leases' = leases \ {r} /\ Go(r, "probe") /\ UNCHANGED claim
    /\ UNCHANGED <<receipt, marker, rlock, admission, pilots, owner, trains, crashes>>

Finalize(r) ==
    LET a == att[r] IN
    /\ pc[r] = "finalize"
    /\ rlock[a] = Nobody
    /\ receipt' = [receipt EXCEPT ![a] = Finished(@, "UNKNOWN")]
    /\ Go(r, "release")
    /\ UNCHANGED <<marker, locks, pilots, owner, trains, crashes>>

Release(r) ==
    LET a == att[r] IN
    /\ pc[r] = "release"
    /\ claim' = [claim EXCEPT ![a] = Nobody]
    /\ leases' = leases \ {r}
    /\ Go(r, "probe")
    /\ UNCHANGED <<receipt, marker, rlock, admission, pilots, owner, trains, crashes>>

\* The lease is taken and closed again to tell a busy device from an idle one.
Probe(r) ==
    /\ pc[r] = "probe"
    /\ IF LeaseFree THEN leases' = {r} /\ Go(r, "unprobe")
                    ELSE Reply(r) /\ UNCHANGED leases
    /\ UNCHANGED <<receipt, marker, rlock, claim, admission, pilots, owner, trains, crashes>>

Unprobe(r) ==
    /\ pc[r] = "unprobe"
    /\ leases' = leases \ {r}
    /\ Reply(r)
    /\ UNCHANGED <<receipt, marker, rlock, claim, admission, pilots, owner, trains, crashes>>

\* Mutant of LockReceipt: no early return for a terminal receipt.
LockReceiptAlways(r) ==
    LET a == att[r] IN
    /\ pc[r] = "lock"
    /\ rlock[a] = Nobody
    /\ rlock' = [rlock EXCEPT ![a] = r]
    /\ pc' = [pc EXCEPT ![r] = "mark"]
    /\ seen' = [seen EXCEPT ![r] = receipt[a]]
    /\ UNCHANGED <<att, op, out>>
    /\ UNCHANGED <<receipt, marker, claim, admission, leases, pilots, owner, trains, crashes>>

\* cancel_attempt: receipt.lock is held from here to the last write.  (The
\* cancellation file an executor meets at its start or in its heartbeat is a
\* cancel call made beside it.)
LockReceipt(r) ==
    LET a == att[r] IN
    /\ pc[r] = "lock"
    /\ rlock[a] = Nobody
    /\ IF IsTerminal(receipt[a])
       THEN CancelReturns(r) /\ UNCHANGED rlock
       ELSE /\ rlock' = [rlock EXCEPT ![a] = r]
            /\ pc' = [pc EXCEPT ![r] = "mark"]
            /\ seen' = [seen EXCEPT ![r] = receipt[a]]
            /\ UNCHANGED <<att, op, out>>
    /\ UNCHANGED <<receipt, marker, claim, admission, leases, pilots, owner, trains, crashes>>

WriteMarker(r) ==
    LET a == att[r] IN
    /\ pc[r] = "mark"
    /\ marker' = marker \cup {a}
    /\ IF seen[r].state = "NONE"
       THEN rlock' = [rlock EXCEPT ![a] = Nobody] /\ CancelReturns(r)
       ELSE Go(r, "tryclaim") /\ UNCHANGED rlock
    /\ UNCHANGED <<receipt, claim, admission, leases, pilots, owner, trains, crashes>>

\* An unclaimed PREPARED attempt is finished here; the claim is closed before
\* the receipt is written.
TryClaim(r) ==
    LET a == att[r] IN
    /\ pc[r] = "tryclaim"
    /\ IF seen[r].state = "PREPARED" /\ claim[a] = Nobody
       THEN claim' = [claim EXCEPT ![a] = r] /\ Go(r, "dropclaim")
       ELSE Go(r, "flag") /\ UNCHANGED claim
    /\ UNCHANGED <<receipt, marker, rlock, admission, leases, pilots, owner, trains, crashes>>

DropClaim(r) ==
    /\ pc[r] = "dropclaim"
    /\ claim' = [claim EXCEPT ![att[r]] = Nobody]
    /\ Go(r, "cancel")
    /\ UNCHANGED <<receipt, marker, rlock, admission, leases, pilots, owner, trains, crashes>>

\* _write_receipt writes back the copy read under receipt.lock.
WriteCancelled(r) ==
    LET a == att[r] IN
    /\ pc[r] \in {"cancel", "flag"}
    /\ receipt' = [receipt EXCEPT ![a] =
                     IF pc[r] = "cancel" THEN Finished(seen[r], "CANCELLED")
                     ELSE [seen[r] EXCEPT !.requested = TRUE]]
    /\ rlock' = [rlock EXCEPT ![a] = Nobody]
    /\ CancelReturns(r)
    /\ UNCHANGED <<marker, claim, admission, leases, pilots, owner, trains, crashes>>

-----------------------------------------------------------------------------
(* Executor processes: execute_attempt. *)

Claim(e) ==
    LET a == att[e] IN
    /\ pc[e] = "spawned"
    /\ IF claim[a] = Nobody
       THEN claim' = [claim EXCEPT ![a] = e] /\ Go(e, "claimed")
       ELSE Exit(e) /\ UNCHANGED <<claim, local>>
    /\ UNCHANGED <<receipt, marker, rlock, admission, leases, pilots, owner, trains, crashes>>

\* An executor returns: its claim is closed last.
Quit(e) ==
    /\ Exit(e)
    /\ out' = [out EXCEPT ![e] = "FAILED"]
    /\ UNCHANGED <<op, seen>>
    /\ claim' = [claim EXCEPT ![att[e]] = Nobody]

\* Mutant of Reload: the receipt read before the claim is trusted.
ReloadTrusting(e) ==
    /\ pc[e] = "claimed"
    /\ Go(e, "precheck")
    /\ UNCHANGED <<receipt, marker, locks, pilots, owner, trains, crashes>>

Reload(e) ==
    /\ pc[e] = "claimed"
    /\ IF receipt[att[e]].state = "PREPARED"
       THEN Go(e, "precheck") /\ UNCHANGED claim
       ELSE Quit(e)
    /\ UNCHANGED <<receipt, marker, rlock, admission, leases, pilots, owner, trains, crashes>>

\* The marker, then the stored spec against this worker.  A spec that cannot
\* be read raises past the handler: the receipt stays PREPARED.
Precheck(e) ==
    /\ pc[e] = "precheck"
    /\ \/ UnlessCancelled(e, "lease") /\ UNCHANGED claim
       \/ att[e] \notin marker /\ Leave(e, "FAILED") /\ UNCHANGED claim
       \/ att[e] \notin marker /\ Quit(e)
    /\ UNCHANGED <<receipt, marker, rlock, admission, leases, pilots, owner, trains, crashes>>

\* A taken lease returns the PREPARED receipt; so, in effect, does a runtime
\* or a lease file that raises here.
Lease(e) ==
    /\ pc[e] = "lease"
    /\ \/ LeaseFree /\ leases' = {e} /\ Go(e, "begin") /\ UNCHANGED claim
       \/ Quit(e) /\ UNCHANGED leases
    /\ UNCHANGED <<receipt, marker, rlock, admission, pilots, owner, trains, crashes>>

BeginAttempt(e) ==
    LET a == att[e] IN
    /\ pc[e] = "begin"
    /\ rlock[a] = Nobody
    /\ \/ /\ receipt[a].state = "PREPARED"
          /\ receipt' = [receipt EXCEPT ![a].state = "RUNNING"]
          /\ owner' = [owner EXCEPT ![a] = e]
          /\ Go(e, "validate")
       \/ /\ receipt[a].state # "PREPARED"
          /\ Go(e, IF receipt[a].state = "RUNNING" THEN "validate" ELSE "close")
          /\ UNCHANGED <<receipt, owner>>
    /\ UNCHANGED <<marker, locks, pilots, trains, crashes>>

\* The relay's first commit, materialisation and validation, all of which
\* may raise, the first of them before the marker is looked at.
Validate(e) ==
    /\ pc[e] = "validate"
    /\ \/ UnlessCancelled(e, "prestage")
       \/ Leave(e, "FAILED")
    /\ UNCHANGED <<receipt, marker, locks, pilots, owner, trains, crashes>>

Prestage(e) ==
    /\ pc[e] = "prestage"
    /\ UnlessCancelled(e, "stage")
    /\ UNCHANGED <<receipt, marker, locks, pilots, owner, trains, crashes>>

\* stage runs pilots in child processes that inherit the lease.
Stage(e) ==
    /\ pc[e] = "stage"
    /\ pilots' = [pilots EXCEPT ![e] = att[e]]
    /\ Go(e, "pilot")
    /\ UNCHANGED <<receipt, marker, locks, owner, trains, crashes>>

PilotExit(e) ==
    /\ pilots[e] # Nobody
    /\ pilots' = [pilots EXCEPT ![e] = Nobody]
    /\ UNCHANGED <<receipt, marker, locks, owner, pc, att, local, trains, crashes>>

\* stage returns, raises InterruptedError, or raises something else.
StageReturns(e) ==
    /\ pc[e] = "pilot"
    /\ pilots[e] = Nobody
    /\ \/ Go(e, "staged")
       \/ Go(e, "raised")
       \/ Leave(e, "FAILED")
    /\ UNCHANGED <<receipt, marker, locks, pilots, owner, trains, crashes>>

\* Mutant of Staged: training starts before its start is recorded.
StagedUnarmed(e) ==
    /\ pc[e] = "staged"
    /\ UnlessCancelled(e, "train")
    /\ UNCHANGED <<receipt, marker, locks, pilots, owner, trains, crashes>>

Staged(e) ==
    /\ pc[e] = "staged"
    /\ UnlessCancelled(e, "arm")
    /\ UNCHANGED <<receipt, marker, locks, pilots, owner, trains, crashes>>

\* training_started_at is recorded before train is called.
ArmTraining(e) ==
    LET a == att[e] IN
    /\ pc[e] = "arm"
    /\ rlock[a] = Nobody
    /\ \/ /\ receipt[a].state = "RUNNING"
          /\ receipt' = [receipt EXCEPT ![a].training = TRUE]
          /\ Go(e, "train")
       \/ /\ receipt[a].state # "RUNNING"
          /\ Go(e, "close")
          /\ UNCHANGED receipt
    /\ UNCHANGED <<marker, locks, pilots, owner, trains, crashes>>

Train(e) ==
    /\ pc[e] = "train"
    /\ trains' = [trains EXCEPT ![att[e]] = @ + 1]
    /\ Go(e, "training")
    /\ UNCHANGED <<receipt, marker, locks, pilots, owner, crashes>>

\* train ends at its budget, at an interruption, or with an exception.
TrainReturns(e) ==
    /\ pc[e] = "training"
    /\ \/ Leave(e, "COMPLETE")
       \/ Go(e, "stopped")
       \/ Go(e, "raised")
       \/ Leave(e, "FAILED")
    /\ UNCHANGED <<receipt, marker, locks, pilots, owner, trains, crashes>>

\* An interruption is a cancellation only if the marker says so.
Stopped(e) ==
    /\ pc[e] \in {"stopped", "raised"}
    /\ Leave(e, IF att[e] \in marker THEN "CANCELLED"
                ELSE IF pc[e] = "stopped" THEN "INTERRUPTED" ELSE "FAILED")
    /\ UNCHANGED <<receipt, marker, locks, pilots, owner, trains, crashes>>

\* _terminal_receipt: the first terminal receipt stays.
FinishAttempt(e) ==
    LET a == att[e] IN
    /\ pc[e] = "finish"
    /\ rlock[a] = Nobody
    /\ receipt' = [receipt EXCEPT ![a] = Finished(@, out[e])]
    /\ Go(e, "close")
    /\ UNCHANGED <<marker, locks, pilots, owner, trains, crashes>>

\* The lease is closed before the claim.
Close(e) ==
    /\ pc[e] = "close"
    /\ leases' = leases \ {e}
    /\ Go(e, "unclaim")
    /\ UNCHANGED <<receipt, marker, rlock, claim, admission, pilots, owner, trains, crashes>>

Unclaim(e) ==
    /\ pc[e] = "unclaim"
    /\ Quit(e)
    /\ UNCHANGED <<receipt, marker, rlock, admission, leases, pilots, owner, trains, crashes>>

-----------------------------------------------------------------------------
(* A process dies: its pilots live on, with the lease they inherited. *)

Crash(p) ==
    /\ crashes < MaxCrashes
    /\ crashes' = crashes + 1
    /\ rlock' = Drop(rlock, p)
    /\ claim' = Drop(claim, p)
    /\ leases' = leases \ {p}
    /\ admission' = IF admission = p THEN Nobody ELSE admission
    /\ pc[p] # "idle"
    /\ \/ p \in Rpcs /\ Reply(p)
       \/ /\ p \in Executors
          /\ Exit(p)
          /\ out' = [out EXCEPT ![p] = "FAILED"]
          /\ UNCHANGED <<op, seen>>
    /\ UNCHANGED <<receipt, marker, pilots, owner, trains>>

RpcStep(r) ==
    \/ Admit(r) \/ WriteOrReturn(r) \/ Spawn(r)
    \/ Load(r) \/ Recover(r) \/ Reclaim(r) \/ Finalize(r) \/ Release(r)
    \/ Probe(r) \/ Unprobe(r)
    \/ LockReceipt(r) \/ WriteMarker(r) \/ TryClaim(r) \/ DropClaim(r)
    \/ WriteCancelled(r)

ExecutorStep(e) ==
    \/ Claim(e) \/ Reload(e) \/ Precheck(e) \/ Lease(e) \/ BeginAttempt(e)
    \/ Validate(e) \/ Prestage(e) \/ Stage(e) \/ StageReturns(e)
    \/ Staged(e) \/ ArmTraining(e) \/ Train(e) \/ TrainReturns(e) \/ Stopped(e)
    \/ FinishAttempt(e) \/ Close(e) \/ Unclaim(e)

Next ==
    \/ \E r \in Rpcs : RpcStep(r)
    \/ \E r \in Rpcs, a \in Attempts, o \in Ops : Call(r, o, a)
    \/ \E e \in Executors : ExecutorStep(e) \/ PilotExit(e)
    \/ \E p \in Procs : Crash(p)

Spec == Init /\ [][Next]_vars

(***************************************************************************)
(* Processes that run keep running (a training budget is finite and a      *)
(* pilot ends).  Fairness is strong because a step may wait in flock: a    *)
(* lock that keeps being released is granted to a waiter in the end.  The  *)
(* controller polls status and replays launch for ever, whatever else is   *)
(* called in between (Controller.run), and a launch that is replayed for   *)
(* ever spawns its wrapper in the end.                                     *)
(***************************************************************************)
FairSpec ==
    /\ Spec
    /\ \A r \in Rpcs : SF_vars(RpcStep(r)) /\ SF_vars(Spawn(r) /\ SpawnExecutor(r))
    /\ \A e \in Executors : SF_vars(ExecutorStep(e)) /\ WF_vars(PilotExit(e))
    /\ \A a \in Attempts, o \in {"launch", "status"} :
         SF_vars(\E r \in Rpcs : Call(r, o, a))

-----------------------------------------------------------------------------
(* Properties. *)

(***************************************************************************)
(* A duplicate wrapper never trains: over all launches, replays, crashes   *)
(* and recoveries of one attempt, execute_attempt calls train at most once *)
(* (docstring of execute_attempt; docs/workers.md, "never restarted").     *)
(***************************************************************************)
TrainOnce == \A a \in Attempts : trains[a] <= 1

(***************************************************************************)
(* One slot per worker: two executors, of one attempt or of two, are never *)
(* both between begin and the end of their run, and none runs beside a     *)
(* pilot whose wrapper died.                                               *)
(***************************************************************************)
OneSlot ==
    \A e, f \in Executors :
        pc[e] \in Begun /\ (pc[f] \in Begun \/ pilots[f] # Nobody) => e = f

(***************************************************************************)
(* status_worker finalises an attempt as UNKNOWN only when nothing of it   *)
(* is left: no executor of it is past begin and no pilot of it lives.      *)
(***************************************************************************)
UnknownMeansGone ==
    \A a \in Attempts : receipt[a].state = "UNKNOWN" =>
        /\ \A e \in Executors : att[e] = a => pc[e] \notin Begun
        /\ \A e \in Executors : pilots[e] # a

(***************************************************************************)
(* train is entered only under a receipt that says RUNNING with its        *)
(* training start recorded, so a cancellation or recovery that already     *)
(* ended the attempt cannot be followed by training.                       *)
(***************************************************************************)
TrainsUnderReceipt ==
    [][\A a \in Attempts : trains'[a] # trains[a] =>
          receipt[a].state = "RUNNING" /\ receipt[a].training]_vars

(***************************************************************************)
(* A cancellation marker is never forgotten: once the receipt exists the   *)
(* attempt ends, whichever process was to see the marker and whichever     *)
(* died first.                                                             *)
(***************************************************************************)
CancelSettles ==
    \A a \in Attempts :
        a \in marker /\ receipt[a].state # "NONE" ~> IsTerminal(receipt[a])
=============================================================================
