------------------------------ MODULE Dispatch ------------------------------
(***************************************************************************)
(* Dispatch of attempts to a worker (workers/controller.py, the collection *)
(* half of workers/relay_collection.py, the commands of workers/cli.py).   *)
(* Drivers share the queue of ControllerStore:                             *)
(*   controllers  tick under the store's process lock (controller run)     *)
(*   campaigns    tick without it (campaign/engine.py)                     *)
(*   operators    run one command: cancel, collect, recover or resume      *)
(* A driver reads rows, calls a worker over a transport that loses         *)
(* requests and replies, and writes back what it learnt, so it acts on     *)
(* stale rows and late replies.  The worker is WorkerContract.  A worker   *)
(* with a relay also publishes a chain of commits the controller reads     *)
(* without the worker.  Every step is one transaction, one RPC effect, one *)
(* reply or one read of the relay.                                         *)
(***************************************************************************)
EXTENDS ControllerStore, WorkerContract, Sequences

CONSTANTS
    Controllers, Campaigns, Operators,
    Commands,       \* what operators do: cancel, collect, recover, resume
    Relayed,        \* BOOLEAN: workers publish to a relay
    MaxCommits,     \* bound: nonterminal relay commits of an attempt
    MaxFailures,    \* bound: lost messages, failed transfers, dead drivers
    Nobody

ASSUME DispatchAssumption ==
    /\ Relayed \in BOOLEAN
    /\ MaxCommits \in Nat /\ MaxFailures \in Nat
    /\ Observations = 1..MaxCommits /\ NoObservation = 0
    /\ Commands \subseteq {"cancel", "collect", "recover", "resume"}
    /\ Nobody \notin Controllers \cup Campaigns \cup Operators \cup Attempts

VARIABLES
    chain,      \* chain[a]: the commits of a on the relay
    plock,      \* the controller holding the process lock
    phase,      \* phase[d]: the loop of tick, or the command, d is in
    pc,         \* pc[d]: the step of that loop's body d is at
    todo,       \* todo[d]: the rows the loop read and has not handled yet
    cur,        \* cur[d]: the row being handled, as it was read
    target,     \* target[d]: the worker _eligible_worker chose
    reply,      \* reply[d]: the receipt the worker answered with
    via,        \* via[d]: the call that answered, or why collect_relay runs
    basis,      \* basis[d]: the recovery commit collect_relay works from
    failures

Drivers == Controllers \cup Campaigns \cup Operators

locals == <<cur, target, reply, via, basis>>
driverVars == <<plock, phase, pc, todo, locals>>
vars == <<storeVars, contractVars, chain, driverVars, failures>>

\* A row as a driver remembers it.
Job(a) == [att |-> a, status |-> status[a], fenced |-> HasRecovery(a)]
NoJob == [att |-> Nobody, status |-> "NONE", fenced |-> FALSE]
Jobs == [att : Attempts \cup {Nobody}, status : {"NONE"} \cup QueueStates, fenced : BOOLEAN]

\* Relay commits: before and after the first checkpoint, and the terminal one.
Commits == {"open", "saved", "done"}

Phases == {"queued", "poll", "replay", "ingest", "cancel", "collect", "recover", "resume"}
Calls == {"launched", "cancelled", "status"}
Steps == {"idle", "next", "choose", "assign", "launch", "cancel", "reconcile", "request",
          "unknown", "ingest", "complete", "error", "splitbrain", "collect", "chain",
          "nochain", "conflict", "conflicted", "settle", "adopt", "record", "import",
          "enqueue"} \cup Calls

TypeOK ==
    /\ StoreTypeOK
    /\ receipt \in [Attempts -> Receipts]
    /\ marker \in SUBSET Attempts
    /\ chain \in [Attempts -> Seq(Commits)]
    /\ \A a \in Attempts : Len(chain[a]) <= MaxCommits + 1
    /\ plock \in Controllers \cup {Nobody}
    /\ phase \in [Drivers -> Phases]
    /\ pc \in [Drivers -> Steps]
    /\ todo \in [Drivers -> SUBSET Jobs]
    /\ cur \in [Drivers -> Jobs]
    /\ target \in [Drivers -> Workers \cup {NoWorker}]
    /\ reply \in [Drivers -> Receipts]
    /\ via \in [Drivers -> Calls \cup {"none", "unknown"}]
    /\ basis \in [Drivers -> 0..MaxCommits]
    /\ failures \in 0..MaxFailures

Init ==
    /\ StoreInit
    /\ ContractInit
    /\ chain = [a \in Attempts |-> <<>>]
    /\ plock = Nobody
    /\ phase = [d \in Drivers |-> "queued"]
    /\ pc = [d \in Drivers |-> "idle"]
    /\ todo = [d \in Drivers |-> {}]
    /\ cur = [d \in Drivers |-> NoJob]
    /\ target = [d \in Drivers |-> NoWorker]
    /\ reply = [d \in Drivers |-> NoReceipt]
    /\ via = [d \in Drivers |-> "none"]
    /\ basis = [d \in Drivers |-> 0]
    /\ failures = 0

-----------------------------------------------------------------------------
(* Drivers. *)

Forget(d) ==
    /\ cur' = [cur EXCEPT ![d] = NoJob]
    /\ target' = [target EXCEPT ![d] = NoWorker]
    /\ reply' = [reply EXCEPT ![d] = NoReceipt]
    /\ via' = [via EXCEPT ![d] = "none"]
    /\ basis' = [basis EXCEPT ![d] = 0]

\* On to a step; at "next" the row has been handled.
Goto(d, where) ==
    /\ pc' = [pc EXCEPT ![d] = where]
    /\ IF where = "next" THEN Forget(d) ELSE UNCHANGED locals
    /\ UNCHANGED <<plock, phase, todo>>

\* What handles a row in each loop.
Entry(p, j) ==
    CASE p = "queued" -> "choose"
      [] p \in {"poll", "replay"} /\ j.fenced -> "next"
      [] p = "replay" /\ worker[j.att] = NoWorker -> "next"
      [] p = "poll" /\ worker[j.att] = NoWorker -> "unknown"
      [] p = "poll" /\ j.status = "CANCEL_REQUESTED" -> "request"
      [] p \in {"collect", "recover"} \/ (p = "ingest" /\ Relayed) -> "collect"
      [] p = "cancel" -> "request"
      [] p = "resume" -> "enqueue"
      [] OTHER -> "status"

\* After cancel's RPC: _poll_active asks for the status, the command returns.
AfterCancel(p) == IF p = "poll" THEN "status" ELSE "next"

\* _replay_assigned, once the worker has no receipt or a PREPARED one.
Redeliver(d) == IF cur[d].status = "CANCEL_REQUESTED" THEN "cancel" ELSE "launch"

\* Who catches an exception of _ingest or collect_relay, and records it.
Caught(d, text) ==
    IF phase[d] = "ingest" \/ (phase[d] = "poll" /\ via[d] # "unknown")
    THEN IF text = "CONFLICT" THEN "splitbrain" ELSE "error"
    ELSE "next"

NextPhase(p) ==
    CASE p = "queued" -> "poll" [] p = "poll" -> "replay" [] OTHER -> "ingest"

\* Mutant of Rows: a cancelled assignment is not redelivered.
RowsAssignedOnly(p) ==
    {a \in Attempts :
        CASE p = "queued" -> status[a] = "QUEUED"
          [] p = "poll" -> status[a] \in ReconcilableStates /\ ~HasTerminal(a)
          [] p = "replay" -> status[a] = "ASSIGNED"
          [] OTHER -> PendingIngestion(a)}

\* The rows each loop of tick reads.
Rows(p) ==
    {a \in Attempts :
        CASE p = "queued" -> status[a] = "QUEUED"
          [] p = "poll" -> status[a] \in ReconcilableStates /\ ~HasTerminal(a)
          [] p = "replay" -> status[a] \in {"ASSIGNED", "CANCEL_REQUESTED"}
          [] OTHER -> PendingIngestion(a)}

Lock(d) ==
    /\ d \in Controllers
    /\ plock = Nobody
    /\ plock' = d
    /\ UNCHANGED <<storeVars, contractVars, chain, phase, pc, todo, locals, failures>>

Tick(d) ==
    /\ d \in Controllers => plock = d
    /\ d \notin Operators
    /\ pc[d] = "idle"
    /\ pc' = [pc EXCEPT ![d] = "next"]
    /\ phase' = [phase EXCEPT ![d] = "queued"]
    /\ todo' = [todo EXCEPT ![d] = {Job(a) : a \in Rows("queued")}]
    /\ UNCHANGED <<storeVars, contractVars, chain, plock, locals, failures>>

Pick(d) ==
    /\ pc[d] = "next"
    /\ \E j \in todo[d] :
         /\ todo' = [todo EXCEPT ![d] = @ \ {j}]
         /\ pc' = [pc EXCEPT ![d] = Entry(phase[d], j)]
         /\ cur' = [cur EXCEPT ![d] = IF Entry(phase[d], j) = "next" THEN NoJob ELSE j]
    /\ UNCHANGED <<storeVars, contractVars, chain, plock, phase, target, reply, via, basis, failures>>

\* The loop is done: the next one reads its rows; tick, or the command, ends.
LoopEnds(d) ==
    /\ pc[d] = "next"
    /\ todo[d] = {}
    /\ IF phase[d] = "ingest" \/ d \in Operators
       THEN /\ pc' = [pc EXCEPT ![d] = "idle"]
            /\ phase' = [phase EXCEPT ![d] = "queued"]
            /\ UNCHANGED todo
       ELSE /\ phase' = [phase EXCEPT ![d] = NextPhase(@)]
            /\ todo' = [todo EXCEPT ![d] = {Job(a) : a \in Rows(NextPhase(phase[d]))}]
            /\ UNCHANGED pc
    /\ UNCHANGED <<storeVars, contractVars, chain, plock, locals, failures>>

\* Collecting a run without a relay is one _poll_active of its row.
Command(d, c, a) ==
    LET p == IF c = "collect" /\ (~Relayed \/ worker[a] = NoWorker) THEN "poll" ELSE c IN
    /\ d \in Operators
    /\ pc[d] = "idle"
    /\ status[a] # "NONE"
    /\ c = "recover" => Relayed /\ worker[a] # NoWorker
    /\ c = "resume" => CanResume(a)
    /\ Entry(p, Job(a)) # "next"
    /\ phase' = [phase EXCEPT ![d] = p]
    /\ pc' = [pc EXCEPT ![d] = Entry(p, Job(a))]
    /\ cur' = [cur EXCEPT ![d] = Job(a)]
    /\ UNCHANGED <<storeVars, contractVars, chain, plock, todo, target, reply, via, basis, failures>>

-----------------------------------------------------------------------------
(* Steps on a row. *)

\* _eligible_worker reads the occupied slots; a probe may refuse every worker.
Choose(d) ==
    /\ pc[d] = "choose"
    /\ \/ \E w \in Workers :
            /\ ~Occupied(w)
            /\ pc' = [pc EXCEPT ![d] = "assign"]
            /\ target' = [target EXCEPT ![d] = w]
            /\ UNCHANGED <<plock, phase, todo, cur, reply, via, basis>>
       \/ Goto(d, "next")
    /\ UNCHANGED <<storeVars, contractVars, chain, failures>>

\* Mutant of AssignRow: the result of the compare-and-set is not looked at.
AssignRowRegardless(d) ==
    /\ pc[d] = "assign"
    /\ Assign(cur[d].att, target[d])
    /\ Goto(d, "launch")
    /\ UNCHANGED <<contractVars, chain, failures>>

AssignRow(d) ==
    /\ pc[d] = "assign"
    /\ Assign(cur[d].att, target[d])
    /\ Goto(d, IF status[cur[d].att] = "QUEUED" THEN "launch" ELSE "next")
    /\ UNCHANGED <<contractVars, chain, failures>>

\* A launch or cancel request takes effect on the worker.
Deliver(d) ==
    LET a == cur[d].att IN
    /\ \/ /\ pc[d] = "launch"
          /\ Prepare(a) \/ (receipt[a].state # "NONE" /\ UNCHANGED contractVars)
          /\ Goto(d, "launched")
       \/ /\ pc[d] = "cancel"
          /\ Mark(a) \/ (IsTerminal(receipt[a]) /\ UNCHANGED contractVars)
          /\ Goto(d, "cancelled")
    /\ UNCHANGED <<storeVars, chain, failures>>

\* The answer arrives: the receipt as it is on the worker, or none.
Answer(d) ==
    LET r == receipt[cur[d].att]
        where == CASE pc[d] = "launched" -> "reconcile"
                   [] pc[d] = "cancelled" /\ phase[d] = "replay" -> "launch"
                   [] pc[d] = "cancelled" /\ r.state = "NONE" -> AfterCancel(phase[d])
                   [] pc[d] = "status" /\ phase[d] = "ingest" -> "ingest"
                   [] pc[d] = "status" /\ r.state = "NONE" ->
                        IF phase[d] = "replay" THEN Redeliver(d) ELSE "next"
                   [] OTHER -> "reconcile" IN
    /\ pc[d] \in Calls
    /\ \/ where = "next" /\ Goto(d, where)
       \/ /\ where # "next"
          /\ pc' = [pc EXCEPT ![d] = where]
          /\ reply' = [reply EXCEPT ![d] = r]
          /\ via' = [via EXCEPT ![d] = pc[d]]
          /\ UNCHANGED <<plock, phase, todo, cur, target, basis>>
    /\ UNCHANGED <<storeVars, contractVars, chain, failures>>

\* A request or its answer is lost, or the worker refuses.
Fail(d) ==
    /\ failures < MaxFailures
    /\ failures' = failures + 1
    /\ pc[d] \in {"launch", "cancel"} \cup Calls
    /\ Goto(d, CASE pc[d] \in {"cancel", "cancelled"} -> AfterCancel(phase[d])
                 [] pc[d] = "status" /\ phase[d] = "poll" -> "unknown"
                 [] pc[d] = "status" /\ phase[d] = "ingest" -> "error"
                 [] OTHER -> "next")
    /\ UNCHANGED <<storeVars, contractVars, chain>>

ReconcileReply(d) ==
    /\ pc[d] = "reconcile"
    /\ Reconcile(cur[d].att, reply[d])
    /\ Goto(d, CASE via[d] = "cancelled" -> AfterCancel(phase[d])
                 [] via[d] = "status" /\ phase[d] = "poll" /\ IsTerminal(reply[d]) ->
                      IF Relayed THEN "collect" ELSE "ingest"
                 [] via[d] = "status" /\ phase[d] = "replay"
                      /\ reply[d].state = "PREPARED" -> Redeliver(d)
                 [] OTHER -> "next")
    /\ UNCHANGED <<contractVars, chain, failures>>

\* cancel: the durable request, then the RPC if a worker may hold the attempt.
Request(d) ==
    LET a == cur[d].att IN
    /\ pc[d] = "request"
    /\ RequestCancel(a)
    /\ Goto(d, IF CancelTarget(a) = "CANCEL_REQUESTED" /\ worker[a] # NoWorker
               THEN "cancel" ELSE AfterCancel(phase[d]))
    /\ UNCHANGED <<contractVars, chain, failures>>

\* A worker that cannot be asked: UNKNOWN, then whatever the relay has.
Unreachable(d) ==
    LET a == cur[d].att IN
    /\ pc[d] = "unknown"
    /\ MarkUnknown(a)
    /\ \/ /\ Relayed /\ worker[a] # NoWorker
          /\ pc' = [pc EXCEPT ![d] = "collect"]
          /\ via' = [via EXCEPT ![d] = "unknown"]
          /\ UNCHANGED <<plock, phase, todo, cur, target, reply, basis>>
       \/ ~(Relayed /\ worker[a] # NoWorker) /\ Goto(d, "next")
    /\ UNCHANGED <<contractVars, chain, failures>>

\* _ingest over the transport: nothing to transfer, or records and artifacts.
Ingest(d) ==
    LET a == cur[d].att
        r == IF phase[d] = "ingest" THEN terminal[a] ELSE reply[d] IN
    /\ pc[d] = "ingest"
    /\ \/ /\ r.state # "COMPLETE"
          /\ MarkIngestionNotRequired(a)
          /\ Goto(d, "next")
          /\ UNCHANGED failures
       \/ Goto(d, "complete") /\ UNCHANGED <<storeVars, failures>>
       \/ /\ failures < MaxFailures
          /\ failures' = failures + 1
          /\ Goto(d, "error")
          /\ UNCHANGED storeVars
    /\ UNCHANGED <<contractVars, chain>>

Complete(d) ==
    LET a == cur[d].att IN
    /\ pc[d] = "complete"
    /\ MarkIngestionComplete(a)
    /\ Goto(d, IF CompletionRefused(a) THEN Caught(d, "text") ELSE "next")
    /\ UNCHANGED <<contractVars, chain, failures>>

RecordError(d) ==
    /\ pc[d] \in {"error", "splitbrain"}
    /\ MarkIngestionError(cur[d].att, IF pc[d] = "error" THEN "text" ELSE "CONFLICT")
    /\ Goto(d, "next")
    /\ UNCHANGED <<contractVars, chain, failures>>

\* resume: a child attempt is submitted; the parent was read at the command.
Resume(d) ==
    /\ pc[d] = "enqueue"
    /\ \E c \in Attempts : Enqueue({c})
    /\ Goto(d, "next")
    /\ UNCHANGED <<contractVars, chain, failures>>

-----------------------------------------------------------------------------
(* collect_relay. *)

\* The row is read first.
CollectRow(d) ==
    /\ pc[d] = "collect"
    /\ pc' = [pc EXCEPT ![d] = "chain"]
    /\ basis' = [basis EXCEPT ![d] = recovered[cur[d].att]]
    /\ UNCHANGED <<storeVars, contractVars, chain, plock, phase, todo, cur, target, reply, via, failures>>

\* The last commit with a checkpoint, 0 if there is none.
Frontier(commits) ==
    LET saved == {i \in 1..Len(commits) : commits[i] = "saved"} IN
    IF saved = {} THEN 0 ELSE CHOOSE i \in saved : \A k \in saved : k <= i

\* Mutant of ReadChain: a prefix of the chain is collected like a whole one.
ReadChainEager(d) ==
    /\ pc[d] = "chain"
    /\ Goto(d, CASE chain[cur[d].att] = <<>> -> "nochain"
                 [] phase[d] = "recover" -> "next"
                 [] OTHER -> "import")
    /\ UNCHANGED <<storeVars, contractVars, chain, failures>>

\* Then the authenticated chain.
ReadChain(d) ==
    LET commits == chain[cur[d].att]
        last == commits[Len(commits)]
        where == CASE commits = <<>> -> "nochain"
                   [] basis[d] # 0 ->
                        IF Len(commits) = basis[d] THEN "import" ELSE "conflict"
                   [] last = "done" ->
                        IF phase[d] = "recover" THEN "next" ELSE "settle"
                   [] phase[d] # "recover" -> Caught(d, "text")
                   [] Frontier(commits) = 0 -> "nochain"
                   [] OTHER -> "adopt" IN
    /\ pc[d] = "chain"
    /\ \/ where # "adopt" /\ Goto(d, where)
       \/ /\ where = "adopt"
          /\ pc' = [pc EXCEPT ![d] = where]
          /\ basis' = [basis EXCEPT ![d] = Frontier(commits)]
          /\ UNCHANGED <<plock, phase, todo, cur, target, reply, via>>
    /\ UNCHANGED <<storeVars, contractVars, chain, failures>>

NoChain(d) ==
    /\ pc[d] = "nochain"
    /\ MarkUnknown(cur[d].att)
    /\ Goto(d, Caught(d, "text"))
    /\ UNCHANGED <<contractVars, chain, failures>>

\* A commit newer than the confirmed recovery: retained, recorded, raised.
SplitBrain(d) ==
    LET a == cur[d].att IN
    /\ \/ pc[d] = "conflict" /\ RetainConflict(a) /\ Goto(d, "conflicted")
       \/ /\ pc[d] = "conflicted"
          /\ MarkIngestionError(a, "CONFLICT")
          /\ Goto(d, Caught(d, "CONFLICT"))
    /\ UNCHANGED <<contractVars, chain, failures>>

\* The terminal commit carries the worker's terminal receipt.
Settle(d) ==
    /\ pc[d] = "settle"
    /\ Reconcile(cur[d].att, receipt[cur[d].att])
    /\ Goto(d, "import")
    /\ UNCHANGED <<contractVars, chain, failures>>

\* Confirmed loss: the receipt of the chosen commit, then the observation.
Adopt(d) ==
    /\ pc[d] = "adopt"
    /\ Reconcile(cur[d].att, [Prepared EXCEPT !.state = "RUNNING", !.training = TRUE])
    /\ Goto(d, "record")
    /\ UNCHANGED <<contractVars, chain, failures>>

ConfirmLoss(d) ==
    LET a == cur[d].att IN
    /\ pc[d] = "record"
    /\ RecordRecovery(a, basis[d])
    /\ Goto(d, IF Recoverable(a) THEN "import" ELSE "next")
    /\ UNCHANGED <<contractVars, chain, failures>>

Import(d) ==
    LET a == cur[d].att IN
    /\ pc[d] = "import"
    /\ \/ Goto(d, "complete") /\ UNCHANGED <<storeVars, failures>>
       \/ /\ basis[d] = 0
          /\ receipt[a].state # "COMPLETE"
          /\ MarkIngestionNotRequired(a)
          /\ Goto(d, "next")
          /\ UNCHANGED failures
       \/ /\ failures < MaxFailures
          /\ failures' = failures + 1
          /\ Goto(d, Caught(d, "text"))
          /\ UNCHANGED storeVars
    /\ UNCHANGED <<contractVars, chain>>

-----------------------------------------------------------------------------
(* The worker, submissions and dying drivers. *)

\* publish_boundary: commits inherit the checkpoint; the terminal one is last.
Publish(a) ==
    /\ Relayed
    /\ \E commit \in Commits :
         /\ CASE commit = "open" -> /\ receipt[a].state \in {"PREPARED", "RUNNING"}
                                    /\ Frontier(chain[a]) = 0
                                    /\ Len(chain[a]) < MaxCommits
              [] commit = "saved" -> /\ receipt[a].state = "RUNNING"
                                     /\ receipt[a].training
                                     /\ Len(chain[a]) < MaxCommits
              [] OTHER -> /\ IsTerminal(receipt[a])
                          /\ \A i \in 1..Len(chain[a]) : chain[a][i] # "done"
         /\ chain' = [chain EXCEPT ![a] = Append(@, commit)]
    /\ UNCHANGED <<storeVars, contractVars, driverVars, failures>>

WorkerStep(a) ==
    /\ Begin(a) \/ Arm(a) \/ Flag(a) \/ Finish(a)
    /\ UNCHANGED <<storeVars, chain, driverVars, failures>>

Submit ==
    /\ \E S \in SUBSET Attempts : S # {} /\ Enqueue(S)
    /\ UNCHANGED <<contractVars, chain, driverVars, failures>>

\* A driver dies, or a campaign's deadline ends its tick.
Crash(d) ==
    /\ pc[d] # "idle"
    /\ failures < MaxFailures
    /\ failures' = failures + 1
    /\ Forget(d)
    /\ pc' = [pc EXCEPT ![d] = "idle"]
    /\ phase' = [phase EXCEPT ![d] = "queued"]
    /\ todo' = [todo EXCEPT ![d] = {}]
    /\ plock' = IF plock = d THEN Nobody ELSE plock
    /\ UNCHANGED <<storeVars, contractVars, chain>>

DriverStep(d) ==
    \/ Lock(d) \/ Tick(d) \/ Pick(d) \/ LoopEnds(d)
    \/ Choose(d) \/ AssignRow(d) \/ Deliver(d) \/ Answer(d) \/ ReconcileReply(d)
    \/ Request(d) \/ Unreachable(d) \/ Ingest(d) \/ Complete(d) \/ RecordError(d)
    \/ Resume(d)
    \/ CollectRow(d) \/ ReadChain(d) \/ NoChain(d) \/ SplitBrain(d)
    \/ Settle(d) \/ Adopt(d) \/ ConfirmLoss(d) \/ Import(d)

Next ==
    \/ Submit
    \/ \E d \in Drivers : DriverStep(d) \/ Fail(d) \/ Crash(d)
    \/ \E d \in Drivers, c \in Commands, a \in Attempts : Command(d, c, a)
    \/ \E a \in Attempts : WorkerStep(a) \/ Publish(a)

Spec == Init /\ [][Next]_vars

(***************************************************************************)
(* A controller keeps ticking (Controller.run loops for ever) and a started*)
(* command runs to its end; the worker begins what is prepared and ends    *)
(* what runs, the progress WorkerExecution shows for replayed launches.    *)
(* Failures are finitely many: the transport works again in the end.       *)
(***************************************************************************)
WorkerProgress(a) ==
    /\ Begin(a) \/ Finish(a)
    /\ UNCHANGED <<storeVars, chain, driverVars, failures>>

FairSpec ==
    /\ Spec
    /\ \A d \in Drivers : WF_vars(DriverStep(d))
    /\ \A a \in Attempts : WF_vars(WorkerProgress(a)) /\ WF_vars(Publish(a))

-----------------------------------------------------------------------------
(* Properties. *)

(***************************************************************************)
(* The controller never invents or alters a result: a stored terminal      *)
(* receipt is the one on the worker, through lost polls, late replies,     *)
(* relay collection and concurrent drivers (_poll_active, "only transport  *)
(* failures create UNKNOWN", and those leave no terminal evidence).        *)
(***************************************************************************)
EvidenceIsGenuine ==
    \A a \in Attempts : HasTerminal(a) => terminal[a] = receipt[a]

(***************************************************************************)
(* Cancelling a queued experiment creates no executor (docs/workers.md):   *)
(* however the cancellation races the assignment of a tick that read the   *)
(* row before, no worker ever sees the attempt.                            *)
(***************************************************************************)
QueuedCancelCreatesNothing ==
    \A a \in Attempts :
        status[a] = "CANCELLED" /\ worker[a] = NoWorker => receipt[a].state = "NONE"

(***************************************************************************)
(* A tick that read a queued row may find it cancelled, or assigned by a   *)
(* tick without the process lock to the worker that one chose: only the    *)
(* winner of assign's compare-and-set launches, on the worker of the row.  *)
(***************************************************************************)
LaunchFollowsAssignment ==
    \A d \in Drivers :
        phase[d] = "queued" /\ pc[d] \in {"launch", "launched"} =>
            target[d] = worker[cur[d].att]

(***************************************************************************)
(* One slot per worker in the queue, too: under the process lock no two    *)
(* attempts without an outcome are assigned to one worker, and none is     *)
(* assigned to a worker fenced by a confirmed loss.                        *)
(***************************************************************************)
OneAttemptPerWorker ==
    \A a, b \in Attempts :
        /\ worker[a] # NoWorker /\ worker[a] = worker[b]
        /\ ~HasTerminal(a) /\ ~HasTerminal(b)
        => a = b

(***************************************************************************)
(* With a relay, a settled run is only COMPLETE when its terminal commit   *)
(* is on the relay: collect_relay never takes a nonterminal prefix for the *)
(* artifacts of a finished run.                                            *)
(***************************************************************************)
CompleteIsPublished ==
    \A a \in Attempts :
        Relayed /\ HasTerminal(a) /\ ingestion[a] = "COMPLETE" =>
            chain[a] # <<>> /\ chain[a][Len(chain[a])] = "done"

(***************************************************************************)
(* Contradictory evidence, once kept under conflicts/ and recorded in the  *)
(* row, forbids a resume until it is reconciled explicitly                 *)
(* (mark_ingestion_complete, "conflicting evidence requires explicit       *)
(* reconciliation").                                                       *)
(***************************************************************************)
ConflictBlocksResume ==
    \A a \in Attempts :
        a \in retained /\ (\A d \in Drivers : cur[d].att = a => pc[d] # "conflicted")
        => ~CanResume(a)

(***************************************************************************)
(* UNKNOWN means a worker could not be asked: a row no worker was assigned *)
(* to never becomes UNKNOWN (_poll_active, "only transport failures create *)
(* UNKNOWN").                                                              *)
(***************************************************************************)
UnknownNeedsWorker ==
    \A a \in Attempts : status[a] = "UNKNOWN" => worker[a] # NoWorker

(***************************************************************************)
(* A cancellation of an assigned attempt is redelivered until evidence     *)
(* arrives (docs/workers.md), whatever was lost before.                    *)
(***************************************************************************)
CancelResolves ==
    \A a \in Attempts : status[a] = "CANCEL_REQUESTED" ~> HasEvidence(a)

(***************************************************************************)
(* Terminal evidence is followed by ingestion: a failed transfer is        *)
(* retried until the artifacts are here or none are needed.                *)
(***************************************************************************)
IngestionSettles ==
    \A a \in Attempts :
        HasTerminal(a) ~> ingestion[a] \in {"COMPLETE", "NOT_REQUIRED"}

(***************************************************************************)
(* An assigned attempt is settled in the end: an assignment whose launch   *)
(* was lost remains eligible for same-ID receipt reconciliation (tick).    *)
(***************************************************************************)
AssignedSettles ==
    \A a \in Attempts : status[a] = "ASSIGNED" ~> HasEvidence(a)
=============================================================================
