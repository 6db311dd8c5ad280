# A TLA+ model of the sparselab worker fleet

sparselab trains small language models on a handful of machines. A controller
keeps a queue of experiment attempts in SQLite, sends each to a worker over SSH
or a subprocess, and collects what the worker produced, directly or through a
relay: an append-only object store the worker publishes to and the controller
reads when the worker can no longer be reached. Nothing in this is a daemon with
shared memory. Worker operations are short processes that meet in files and
advisory locks; controller, campaign and operator commands are processes that
meet in one database. Any of them may die between two statements, and any call
between them may be lost after it took effect. What a run leaves behind, and what
a later one resumes from, is a directory of checkpoints that has to survive the
same deaths.

That is the part of the repository modelled here. The rest (tensors, corpora,
evaluation, dashboards, configuration) is sequential code over data.

Paths below are relative to `src/sparselab/` in the repository.

## 1. Inventory

| Part | State | Operations | Meets |
| --- | --- | --- | --- |
| Worker execution (`workers/execution.py`, `agent.py`) | `receipt.json`, `cancel.json`, `receipt.lock`, `claim.lock`, `.admission.lock` | prepare, launch, status, cancel, `execute_attempt` | leases, relay publication, trainer; called by the controller |
| Device leases (`workers/leases.py`) | lock files whose descriptors pilots inherit | acquire, inherit, close, `process_matches` | executors and status probes |
| Controller queue (`workers/store.py`) | `attempts` rows: status, worker, receipts, recovery observation, ingestion | one transaction per method | every controller-side process |
| Controller dispatch (`workers/controller.py`, `cli.py`) | process lock, rows read into memory | `tick` (queue, poll, replay, ingest), `cancel`, `collect`, `resume` | queue, transport, relay collection |
| Relay publication (`workers/relay_execution.py`, `relay.py`) | commits on the relay, `relay-commit.json` | `publish_boundary`, `flush_terminal`, `verified_chain` | worker execution; read by collection |
| Relay collection (`workers/relay_collection.py`) | recovery observation and conflicts in the queue | `collect_relay`, `import_commit_records` | relay, queue, record store |
| Outbox and record import (`training/metrics.py`) | worker's `outbox`; controller's `ingested_records`, projections | append, `export_records`, `import_records` | dispatch and collection drive it |
| Campaign engine (`campaign/engine.py`, `state.py`) | `state.json`, a receipt per committed stage, approvals, a campaign lock | `apply`, `resume`, `approve`; `Controller.tick` | queue, budget, corpus and evaluation |
| Attempt budget (`training/attempt_budget.py`) | shared charges and reservations | reserve, charge, settle | trainer, campaign |
| Checkpoints and retention (`training/checkpoints.py`, `retention.py`) | generation directories, staging directories, `latest.json`, `best.json`, `retention-policy.json`, `retention.json` | `writer_lease`, `save`, `reconcile`, `_project_records`, `recovery_report` | trainer, recovery, relay publication |
| Colab delivery (`workers/colab.py`, `hosted_status.py`) | `delivery.json` per attempt, an admission lock per instance; on the instance one kernel and `hosted-status.json` | `record_prepared_delivery`, `issue_foreground_launch`, `mark_delivery_observed` | dispatch, worker execution |
| Recovery engine (`recovery/`) | copied lineages | verify and adopt checkpoints | resume |
| Trainer, data, corpus, models, evaluation, dashboard, configuration | files, tensors | sequential | |

What is hard here, and what makes each part correct:

* **One attempt, many processes.** A launch whose reply was lost is replayed, so
  two wrappers of one attempt exist; a cancellation, a status call that recovers
  a dead wrapper and a wrapper that just starts race for three locks, two of
  which are only tried. Correct: the attempt trains at most once; UNKNOWN is
  declared only when nothing of it is left; a cancellation always ends.
* **Deaths.** A wrapper dies and its pilot goes on using the device; a writer
  dies between a relay upload and the local record of it. Correct: one execution
  per device; no commit repeated, skipped or lost.
* **Lost and late messages.** A reply describes the worker as it was before a
  cancellation, a confirmed loss or another driver's poll. Correct: evidence is
  genuine, final, and of one kind; an intent to cancel is never forgotten.
* **Unlocked readers of shared rows.** A campaign ticks without the process
  lock; two imports of one page interleave before their transactions begin.
  Correct: only the driver that won the assignment launches; each record is
  projected once; a completed ingestion has every record.
* **A launch nobody can observe.** A Colab instance has one kernel; a launch
  is a command started and not waited for, and whether it arrived shows only in a
  status file that goes stale. Correct: a record that says ISSUED is not issued
  again, two attempts never train on one instance, the instance is not released
  early.
* **A directory that must survive its writer.** A trainer dies between the rename
  of a generation, two pointers, a keep-set and a row of unlinks, while a reader
  without the lease looks on. Correct: the newest, the best and every promised
  generation stay readable, the pointers resolve and are repaired.
* **A workflow in files.** A campaign command may fail or be killed between the
  receipt of a stage and the index, between a submission and its record, between
  an approval and its gate; operators resume, approve and reject in any order.
  Correct: what is committed is neither repeated nor contradicted, only what was
  approved runs, a submitted run is never replaced.
* **Things that must happen.** Redelivered cancellations, retried ingestions,
  published terminal receipts, attempts waiting for older ones.

`PROJECT.json` lists these hazards line by line with the properties that cover
them, and the ones no property covers, with the reason.

## 2. Modules

```
AttemptReceipts        what a receipt says, how it ends
  WorkerContract       what a worker promises about receipt and marker
    WorkerExecution    its processes and locks          => WorkerContract
    RelayPublication   who publishes which commit
  ControllerStore      the queue's transactions
    Dispatch           ControllerStore x WorkerContract x transport x relay
                                                        => both
OutboxReplication      outbox, pages, import
ColabDelivery          launches on one Colab instance
CampaignStages         stages, receipts, gates, runs
RecoveryPoint          what a checkpoint directory promises
  CheckpointStore      its renames, pointers and prunes => RecoveryPoint
```

Each module `X` from WorkerExecution down to CheckpointStore has its theorems in
`XProofs`, and all but ControllerStore their TLC instance in `MCX`. DispatchProofs
extends ControllerStoreProofs.

**AttemptReceipts, WorkerContract.** A receipt is its state and the fields that
decide something: whether training started, whether a cancellation was
requested and acknowledged. The contract has one action per way a receipt or the
cancellation marker may change, and says which changes exist at all: evidence is
final, an attempt never goes back, only a marked attempt is acknowledged as
cancelled. It is the abstract specification WorkerExecution implements, and the
worker Dispatch and RelayPublication are composed with.

**WorkerExecution.** `receipt` and `marker` are the files; `rlock`, `claim`,
`admission` and `leases` the locks; `pilots` the children that inherited the
lease; `owner` the PID with its start time. `pc` is a process's position in
`_prepare_attempt` (`Admit`, `WriteOrReturn`, `Spawn`), `status_worker` (`Load`
to `Unprobe`), `cancel_attempt` (`LockReceipt` to `WriteCancelled`) or
`execute_attempt` (`Claim` to `Unclaim`). A step is one file operation that
another process can observe. A launch or preparation that finds an uploaded
cancellation intent calls `cancel_attempt` itself, still holding
`.admission.lock` (`workers/execution.py:579`): `WriteOrReturn` enters the steps
of a cancellation and `CancelReturns` drops the lock at their end. `Spawn` may
fail, in `publish_boundary` or in starting the process, and then nothing is
spawned. An executor whose `Precheck` or `Lease` raises past the handler closes
its descriptors and leaves the receipt as it was. `Crash` ends a process anywhere
and closes its descriptors; its pilot keeps the lease. What training does is any
outcome.

**ControllerStore.** One action per transaction of the store that decides
anything, with callers in no order at all. `QueueStatus` is
`_reconcile_receipt`'s translation of a receipt to a status, `CanResume` the
conditions of `resume`, `Occupied` the slot test of `_eligible_worker`. TLC
checks its properties where its transactions are called from, in the runs of
Dispatch; the proofs take it on its own, for callers in any order.

**Dispatch.** Drivers (controllers with the process lock, campaigns without it,
operators with one command) work through the loops of `tick`: a loop reads its
rows once (`todo`), and handles each as it was read (`cur`) although the row may
have changed. A call is two steps, its effect on the worker and its reply, each
of which may be lost. With `Relayed` the ingestion goes through `collect_relay`:
choice of the commit, split brain, adoption, confirmed loss.

**RelayPublication.** The four callers of `publish_boundary` with the locks they
hold, its load of the receipt, read of the chain, upload and local record, each
of which may fail or be the writer's last; `Refuses` and `HistoryComplete` are
its two refusals.

**OutboxReplication.** The worker appends while drivers fetch a page (rows, then
`has_more` in a second transaction), look records up, compute the watermark, and
then write atomically, since sqlite3 begins its transaction at the first write.

**ColabDelivery.** `delivery` is the state in an attempt's `delivery.json`,
`hosted` what `hosted-status.json` says, `cell` the attempt whose foreground
command occupies the kernel. `op` is what a process is doing: a first launch
(`first` to `exec`), a replay, a poll, a cancellation, and the marking that ends
each of them. A look at the records and the write that follows from it are two
steps, because no lock covers both; only `Lock` to `Exec` hold the admission
lock. `Stop` is a failure or a death at any step, and a reply may be lost after
its call took effect. An RPC is a cell as well, so it runs when the kernel is
idle; one whose caller has given up and which runs later is not modelled, nor is
the end of the virtual machine. `Deliver` and `Finish` write the worker's receipt;
`Report` is the hosted status that follows it, perhaps with a RUNNING read before
the end; `Leave` is the end of the cell, which comes at any time, since an
executor may die: with a terminal receipt nobody reported, or with one that says
RUNNING, which no Colab call recovers. An uploaded cancellation intent acts
through the executor alone, as `Finish`. `Expire` is the 30 seconds after which a
status without a heartbeat is refused. `wrote` remembers which drivers have
written a PREPARED record and is read by no action. That the kernel is idle and
the status PREPARED is one step. The queue row is reduced to what the delivery reads of it; both
attempts may be assigned, since the slot check (`workers/controller.py:841`) is
made without a lock.

**RecoveryPoint, CheckpointStore.** The abstract specification has three things a
resume may ask for, the newest generation, the best one and the first to reach
each milestone, and one action that moves them. CheckpointStore has the
directory: `disk[g]` says whether a generation is there, and whole; `latest`,
`best` and `keep` are the pointer and retention files; `stages` counts staging
directories whose writer died. A session of the writer goes from `Open`, which
takes the lease and binds or adopts the policy, through `Reconcile` and any
number of saves (`Save`, `Finalize`) to the projection both end in
(`ProjectLatest`, `ProjectBest`, `PublishRetention`, `Unlink`,
`RemoveDirectory`). The trainer opens it with `keep_periodic` false and prunes; a
recovery (`training/continuation.py:304`) takes the default and never does. A
snapshot's position and loss are chosen at the rename, before which nobody can
see them. The refinement maps the three promises to functions of the generations
that verify, so it says that pruning, repair and death never change what a
resume finds. `Footprint` counts what `retention.footprint` does, every file below
the root: each generation and staging directory with `GenerationBytes`, which is
`max_generation_bytes`, and pointers, policy and retention file together with
`MetadataBytes`. Both are upper bounds, so a write that might exceed `Room` may be
refused or may go through, and one that cannot is never refused. A second writer that is refused
the lease changes nothing. Deaths are those of the process; the loss of power,
against which the code calls `fsync`, is not modelled.

**CampaignStages.** `saved` and `index` are `state.json`, `receipts` and
`approvals` the immutable files, `attempt` the controller's attempt for a run
stage as the campaign sees it. The command that holds the campaign lock is `cmd`,
its rows `mem`; its steps are the places where it writes a file or calls the
controller: `Load`, `Interrupt`, `Begin` and `Settle` replace the index after
projecting it, `Link` publishes a receipt, `PublishApproval` a decision, `Submit`
and `Wait` deal with the attempt. `Stop` ends it before any of them, by a failure
or a kill; killed inside `publish_immutable` it leaves its temporary file
(`litter`). The next command reconciles (`Reconcile`), or refuses
(`ReconcileRefuses`, `Unbound`). A digest is what is hashed, so two inputs are
equal when everything they were made from is; the stage itself is part of its
input (`campaign/state.py:330`), so no input is `NoInput`. What a build computes, and whether
its declared inputs are found, is any outcome; `via` stands for the wording of a
result, which `_compare_committed` compares. Declarations do not change while the
campaign runs, and no stage is selected by name.

## 3. Runs

Counts are distinct states.

| Run | Bounds | Shows |
| --- | --- | --- |
| `worker` (32 thousand) | 1 attempt, 2 wrappers, 1 RPC at a time, 2 deaths | `TrainOnce`, `UnknownMeansGone`, `TrainsUnderReceipt`, refinement `ContractSpec`, `CancelSettles` |
| `dispatch_live` (239 thousand) | 1 row, a controller, an operator who cancels, 2 failures | `QueuedCancelCreatesNothing`, `LaunchFollowsAssignment`, `CancelledIsProven`, `CancelResolves`, `IngestionSettles` |
| `dispatch_slots` (67 thousand) | 2 rows, 1 worker, resume, 1 failure | `OneAttemptPerWorker` |
| `dispatch_relay` (791 thousand) | 1 row, 2 commits, recovery and collection, 1 failure | `CompleteIsPublished`, `EvidenceIsGenuine`, `StatusFollowsEvidence`, `OneKindOfEvidence`, `EvidenceIsFinal` |
| `relay_cancel` (24 thousand) | 1 attempt, 3 processes, 2 checkpoints, cancellation, 2 failures | `FrontierIsCommitted`, `ForkedNeverBegan`, `RecoveryPointSurvives` |
| `relay_live` (33 thousand) | 2 attempts, 2 processes, no cancellation, 1 failure | `TerminalEndsChain`, `TerminalIsPublished`, `PreparedMovesOn` |
| `outbox_import` (85 thousand) | 2 drivers, 2 records in pages of 1 or 2, with and without relay, 1 failure | `ProjectedOnce`, `CompleteHasRecords`, `DrainSettles` |
| `checkpoint_store` (603 thousand) | 4 generations, 2 positions, 2 losses or none, with and without a policy, 2 deaths, a reader | `PointersResolve`, `PointersAgree`, `KeepSetSurvives`, `PlanFits`, `ScanFindsNewest`, refinement `RecoverySpec` |
| `colab_delivery` (4.3 million) | 2 attempts, 2 drivers, an operator, failures without bound | `IssuedPerRecord`, `OneLiveExec`, `ReleasedIsOver` |
| `campaign_stages` (94 thousand) | a snapshot, a build, a gate that binds the snapshot, a run; 2 outputs, 3 failed or killed commands, 1 loss of the controller | `CommittedNeverRerun`, `RunsAreApproved`, `ReceiptsCohere`, `NeverReplaced`, `RunSettles` |
| `dispatch_lost` | 1 row, 2 failures | `AssignedSettles` violated: section 5 |
| `relay_fork` | 1 attempt, 2 processes, cancellation | `ChainStaysReadable` violated: section 5 |

*Why the bounds are enough.* Every lock has at most two contenders of a kind
that behave differently, so two wrappers and an RPC give every pairing but that of two RPCs.
`WorkerExecution_race.cfg` adds it (114 thousand states; its symmetry is sound
because no process is named), and the safety properties are proved for any
number. `Dispatch_ticks.cfg` has two workers and a campaign beside the controller
(258 thousand states): it is where two drivers read one queued row, and where
`LaunchFollowsAssignment` and `EvidenceIsFinal` meet replies of both; they hold
there as in `dispatch_live` and `dispatch_relay`, and are proved for any drivers. A second death matters (a wrapper dies, and so does the process recovering from
it); a third repeats the first. Two failures lose both the launch and the poll
that would have shown it. Two records in pages that end at the row limit of two
or, by the byte limit, after one, give an ingestion of one page and of two, and
an import that overlaps both. Four generations are the first number at which
latest, previous, best and terminal are four different ones. `Room` is what they,
one generation more and the metadata take, and no more, so that a staging
directory left by a death already meets the limit and both answers to a write are
taken. `CheckpointStore_milestone.cfg` adds a milestone, a fifth generation and
`TypeOK` (895 thousand states, four minutes).
Three processes give ColabDelivery a slower writer of each record, a faster one
and a cancellation between them; `ColabDelivery_one.cfg` has the one driver the
process lock allows, for which `NeverReissued` holds, at most one command for an
attempt, and checks `TypeOK`. Its symmetry permutes drivers and attempts, none of which is
named. The bounds are `MaxCrashes`, `MaxFailures`,
`MaxCommits`, `MaxSaves`, `MaxRecords`, `PageLimit`, `MaxGeneration`, `MaxStops`,
`MaxLosses`; `Room` and `GenerationBytes` are parameters of the code. A campaign of four stages has one
of each kind, with a stage between the gate and what it binds, so that an
approval can come before the gate's turn; three stops are one to fall behind
with the index, one in the repair, and one in the run. `CampaignStages_wide.cfg`
has four. The type invariants are checked by that one, by the other
configurations named here, and by `Dispatch_types.cfg` and
`RelayPublication_types.cfg`; all of them are proved.

*Fairness.* Processes that exist go on (`WF`, or `SF` where a step waits in
`flock`: a lock that keeps being released is granted in the end). A launch that
is repeated for ever succeeds in spawning its executor some time (`SF` of `Spawn`
with `SpawnExecutor`): publication and process creation do not fail for ever. The
controller
polls and replays for ever because `Controller.run` loops; status and launch are
therefore called again and again, cancel never of its own accord. Failures are
finite: the transport works again in the end. A drain is strongly fair, because
`pending_ingestion` makes every tick retry. Training ends, because its budget is
finite. Nothing forces an operator to act, with one exception: somebody resumes
the campaign again and again, as its next action says, and gets through whenever
no command holds the lock (`SF` of `Apply(FALSE, TRUE)`).

Deadlock is checked in every run but two, where the system may really stop: in
`colab_delivery` nothing is left to do when both attempts are over, and in
`campaign_stages` a campaign may come to refuse every command (section 5); that
is the exception `RunSettles` makes. No liveness is claimed for Colab: two deliveries recorded PREPARED at once block each other, and
one whose status expired is not issued any more, until an operator cancels. Nor is
any for the checkpoint directory: a retention policy stops for an operator by
design.

Every property of a passing run has a mutant of the code (a dropped lock, a
comparison by PID alone, a compare-and-set without
the compare, `has_more` from the page's size, a pointer moved after its target
was pruned) that makes TLC find it violated; the mutants stand beside the
definitions they change and are used by no specification.

## 4. Proofs

TLAPS checks the following for every value of the constants: any number of
attempts, processes, workers, drivers, records, generations, commits, deaths and
failures, any page size, any retention policy, any declaration of stages. They
assume only what the modules' named `ASSUME`s say, which TLC evaluates in the
runs: kinds of process are disjoint and their placeholders none of them, bounds
are naturals, a page holds at least one record, the drivers of a Colab instance
are finitely many, a policy has room for the generations it retains and one more
(`config/models.py:595` refuses it otherwise; room for the metadata is not
assumed), stages come after what they
require and bind (`campaign/plan.py:507`).

Every safety invariant and every safety action property the passing runs check
is a theorem, with the two restrictions named below; so are the refinements,
WorkerExecution of WorkerContract, CheckpointStore of RecoveryPoint and Dispatch
of both ControllerStore and WorkerContract.

**WorkerExecutionProofs.** `Typing`, `LockSafety` and `EvidenceInvariant` build
the inductive invariant in three layers. `TrainOnce` is far from inductive: a
wrapper that reaches `train` has read the receipt long before. `Locking` and
`Leasing` tie each lock to the control states that hold it. `Evidence` then says
what each process may still rely on: `Progress` (nobody else ends the attempt of
a wrapper past begin: its receipt is RUNNING), `Leaving` (which outcome a wrapper
may be about to record), `Observing` (what status and cancel read under a lock
still holds when they write), `Training` (an attempt that has not begun, or is
not armed, has not trained), `Orphans` (no pilot outlives the verdict UNKNOWN).
From these follow `DuplicateWrappersNeverTrain`, `SingleSlot`, `UnknownIsQuiet`, `TrainingIsRecorded` and
`ExecutionImplementsContract`, the refinement that justifies using
WorkerContract in place of the processes elsewhere.

**ControllerStoreProofs.** `StoreInvariant` adds to the checked invariants that a
row not yet dispatched has no worker, that a row without a worker has no
evidence, and that what is stored as terminal is terminal. No order of
callers is assumed, so the results hold for any driver: `EvidenceDecides`,
`OutcomesAreProven`, `CancellationIsProven`, `EvidenceIsExclusive`,
`EvidenceIsImmutable`, `CancelIntentIsDurable`.

**DispatchProofs.** What a driver remembers is stale by design, so its invariant
(`Locals`, `Collecting`) may only say what stays true while others act: a
terminal receipt is final, a receipt does not disappear, an assigned worker, a
recovery and the published end of a chain are never taken back (`Monotone`). With
`Delivered` (a worker has a receipt only of an attempt that was assigned) this
gives `EvidenceGenuine`, `QueuedCancelIsSilent`, `LaunchIsAssigned` and, with
`Fetched`, `CompletionIsPublished`. `DispatchImplementsStore` shows that every
step of a driver is a transaction of ControllerStore or leaves the queue alone,
so that the results about arbitrary callers are results about the drivers
(`DispatchedEvidence...`, `DispatchedCancellationIsProven`);
`DispatchKeepsContract` does the same for the worker. `OneAttemptPerSlot` is proved
for `Campaigns = {}` only, because a campaign ticks without the process lock and
the property is then false (section 6).

**RelayPublicationProofs.** One process at a time publishes an attempt
(`OnePublisher`), as long as it is not cancelled before it began. The locks do not
see to that, since a launch holds `.admission.lock` and the others `claim.lock`;
the recorded frontier does: a launch publishes only while there is none, and
nothing is claimed before there is one. A cancellation before the attempt began
breaks this, which is the fork of section 5. The invariant therefore has the
exception `EndedEarly`: such an attempt has not begun, and has no checkpoint on
disk or relay. `ForksLoseNothing` is what is left to rely on: a chain that is not
readable any more is one of an attempt that never began, so no training is lost
with it. It, `RecoveryPointsSurvive` and `FrontierStaysCommitted` hold with
cancellations; `TerminalIsTheEnd` is proved for `~Cancels` and false otherwise.

**OutboxReplicationProofs.** `CompleteHasRecords` is not inductive: that the last
page of a drain reaches the end of the attempt rests on `has_more` being read
after the rows, and that nothing before the page is missing on the page starting
at a watermark that only rises. `DriverInv` says so for each step of a driver.
From it `RecordsAreProjectedOnce`, `WatermarkIsContiguous` and
`CompletionHasEveryRecord`.

**ColabDeliveryProofs.** `ReleasedIsOver` rests on everything anybody has seen to
be over being over on the worker, which keeps it so (`SeenIsOver`). `OneLiveExec`
rests on a command leaving a record that never becomes NONE again
(`CommandsAreRecorded`), so that the holder of the admission lock, once it has
found no other delivery, stays alone (`AloneWhenAdmitted`). `IssuedPerRecord` is
an account: what was sent plus what may still come, one for a record that says
PREPARED and one about to be sent, never exceeds the number of drivers that have
written such a record, and a driver writes at most one (`Account`).
`CommandsUseRecords` concludes that with one driver no launch is repeated; with
two it may be (section 5).

**CheckpointStoreProofs.** Training moves forward, so the generations on disk are
in the order of their positions (`Forward`); the newest two are always whole
(`TopTwo`), because a prune is cut short only below them. `SessionInv` says what
the writer's `records` are at each step, and `PruneInv` that what it is removing
is nothing a selection from the directory would find, before, while or after it
is removed. The pointers then resolve and agree; `KeepSetAlwaysSurvives` follows
with a count of what is retained (`RoomInv`), and so does `PlanAlwaysFits`: a
policy whose room also covers the metadata and whatever staging directories dead
writers left (`RoomBeyondPlan`) never refuses a save of the plan. Then
`DirectoryKeepsPromise`, the refinement of RecoveryPoint, because selecting gives
the same before and after every step but the rename. `ScanInv` is for the reader
without the lease.

**CampaignStagesProofs.** What `reconcile` makes of the receipts alone is the
`Ledger`. `reconcile` refuses an index that has more complete stages than
receipts, so the rows a command starts from agree with the ledger wherever a
stage is committed, and nothing else in them is complete; `RowsInv` says that
they go on to, the result about to be committed excepted. `StageInv` says what a
command may rely on at each step: it dispatches a stage that is not committed and
whose predecessors are, with the input the ledger makes, and comes to commit only
a result that may be committed (`Result`: for that input, and for a gate only with
an approval of what it binds). `LedgerInv` says the same of every receipt. Since
receipts are only added, and above committed stages only, inputs and bindings
computed from them never change (`LedgerGrows`, `ResultsStay`). From this
`CommittedIsFinal`, `ReceiptsFormChain`, `OnlyApprovedRuns` (with `RunsInv`: an
attempt exists only above committed requirements) and `AttemptNeverReplaced`.
`CampaignTyping` includes that no more attempts are submitted than losses of the
controller's state, and one. Each invariant was checked by TLC on the
configuration of its run, and on a branching declaration, before it was proved.

*Only model-checked:* every liveness property (`CancelSettles`,
`CancelResolves`, `IngestionSettles`, `TerminalIsPublished`, `PreparedMovesOn`,
`DrainSettles`, `RunSettles`), because fairness and ENABLED are out of the prover's
reach; `OneAttemptPerWorker` has no instance with a campaign, and
`TerminalEndsChain` none with cancellation, in either tool, since they are false
there.

## 5. What the models found

Two runs state what a comment says and are violated by the code:

1. `dispatch_lost` (`AssignedSettles`): a launch is lost and so is one later status
   call. The row is UNKNOWN; polls find no receipt and return, the replay loop
   reads only ASSIGNED and CANCEL_REQUESTED rows, and the worker's slot stays
   taken.
2. `relay_fork` (`ChainStaysReadable`): a cancelled attempt is flushed while its
   launch still publishes; the two hold different locks
   (`workers/execution.py:587`, `workers/relay_execution.py:320`), both upload
   sequence 0 under names of their own, and the read-back that
   `workers/relay.py:504` says catches a competing descriptor finds its own. The
   chain can never be verified again, and later attempts on the worker are
   refused. `relay_cancel` shows what holds nevertheless: the attempt never began
   (`ForkedNeverBegan`). Without cancellation there is no second publisher.

More configurations, which are not part of the regular runs, each show a
counterexample when TLC is run on them:

3. `Dispatch_conflict.cfg` (`ConflictBlocksResume`): a terminal receipt arriving
   after a confirmed recovery is recorded as CONFLICT; the ingestion it starts
   fails in `mark_ingestion_complete`, and `mark_ingestion_error` replaces the
   word later checks look for (`workers/store.py:341`), so the row completes and
   may be resumed. What is kept under `conflicts/` stays; only the row forgets.
4. `Dispatch_unassigned.cfg` (`UnknownNeedsWorker`): `experiment collect` on a
   queued or cancelled row turns it UNKNOWN (`workers/controller.py:1064`)
   although no worker was involved, which the docstring reserves for transport
   failures.
5. `OutboxReplication_race.cfg` (`ImportIsIdempotent`): of two imports of one
   page the slower one is refused, or fails with an integrity error that
   `_poll_active` and `_retry_ingestion` do not catch, where it should find
   nothing to do (`training/metrics.py:950`; `docs/metrics.md:75` calls the
   import idempotent). `ProjectedOnce` and `DrainSettles` show that nothing is
   lost by it once the driver is started again.
6. `ColabDelivery_cancel.cfg` (`ObservedStays`): an operator cancels natively
   between the status check of a launch (`workers/colab.py:569`) and its ISSUED
   record; the record is OBSERVED_TERMINAL, then ISSUED. The row is over, so
   nothing polls the attempt again, and the instance counts as occupied. A slow
   `mark_delivery_observed` of a second observer does the same. `ReleasedIsOver`
   shows that the error is never on the other side.
7. `ColabDelivery_issued.cfg` (`IssuedOnPrepared`): a native cancellation does not
   rewrite the hosted status, and `_replay_assigned` goes on to launch without
   reading its reply (`workers/controller.py:1389`), so a command is issued for an
   attempt that has ended. The worker finds the terminal receipt and trains
   nothing; only the instance is busy for nothing.

8. `CampaignStages_litter.cfg` (`ResumeReconciles`): a command killed inside
   `publish_immutable` leaves its temporary file beside the receipt
   (`campaign/state.py:127`); reconcile finds a file under `receipts/` that is no
   receipt and raises, for this and every later command, although the receipt
   itself may be in place. `docs/campaigns.md:321`: "Resume reconciles receipts
   after a crash between receipt and index publication". Removing the file by
   hand is the only way on.
9. `CampaignStages_bound.cfg` (`CommittedIsBound`): a command dies between the
   receipt of a gate's last requirement and the index, which still has the gate
   BLOCKED. An operator approves it at once: `approve` accepts BLOCKED, reconciles,
   and commits the gate without the `declaration_provenance` only `apply` gives a
   row. From then on `_assert_declaration_identity` (`campaign/engine.py:549`)
   refuses every command.
10. `CampaignStages_failed.cfg` (`FailedIsFinal`): an ingestion in error when the
   campaign looks (`campaign/engine.py:2507`), or an error of the campaign's own
   while it waits, is committed as FAILED; the controller's next tick completes
   the attempt, and the stage stays FAILED.

11. `ColabDelivery_reissue.cfg` (`NeverReissued`, two drivers):
   `record_prepared_delivery` checks and writes without a lock. A campaign, which
   does not take the process lock, may write PREPARED over the controller's
   ISSUED, and the next replay issues a second command;
   `workers/colab.py:548` says of a crash after the ISSUED write that callers
   "must never silently retry it". The attempt still trains once, by
   the claim on the worker (`TrainOnce`). `IssuedPerRecord` is what holds for any
   drivers: a command never without a PREPARED record of its own.
12. `CheckpointStore_minimum.cfg` (`PlanFitsMinimum`): with the least
   `max_bytes` that `config/models.py:595` accepts and generations of full size, a
   save of the plan may be refused, since the pointer and retention files count
   too. `docs/checkpoint-milestones.md:64` asks for that extra room, so this is a
   limit of the validator rather than a disagreement; `PlanFits` has the room in
   its hypothesis.

## 6. Not modelled

* Transport frames, encryption, archives, file verification: pure input and
  output; the models take them as a step that works or fails.
* Trainer, models, data, corpora, evaluation: numbers and text, out of a model
  checker's reach; a training is one call with any outcome.
* Worker eligibility beyond the slot, validation and forecast requests: they
  read and decide, and keep no state another step relies on.
* The attempt budget reads, compares and writes its totals in one SQLite
  transaction; the case left is a trainer that dies between two of them.
* Of a checkpoint: tensors and hashes (a directory verifies or it does not, in
  one step), milestones inherited by a child run, the MLX and legacy formats.
  Under a policy a prune cut short stops reconciliation and saves, as
  `docs/checkpoint-milestones.md` says it should; the model has that refusal, and
  `KeepSetSurvives` that it is never about a promised generation.
* Of a campaign: what its adapters compute and how their outputs are verified,
  edits of the declaration (they change the identity every command compares),
  attempt contracts, selected stages, workflow and preparation contexts, and the
  commands that only read.
* Of Colab: provisioning, bulk transfers, the format of status and intents.
* Dashboard, configuration and command-line parsing change no shared state.
* `OneAttemptPerWorker` holds under the process lock. A campaign, which ticks
  without it, may assign a second row to a worker; the worker's own lease
  (`OneSlot`, proved as `SingleSlot`) then serialises the two, and on a Colab
  instance the delivery records do (`OneLiveExec`).
* Hosted provisioning, process ownership and monitors: around operating system
  and vendor interfaces whose behaviour the repository does not determine.

## 7. Plan

Done: the modules of section 2, a run for each question, and proofs of every
safety property the passing runs check. What would come next, in this order:

1. **More of what is proved about composition**: that a campaign's view of an
   attempt (`attempt` in CampaignStages) is one Dispatch gives it, and that the
   relay chain Dispatch collects from is one RelayPublication leaves, both by a
   refinement mapping.
2. **AttemptBudget**: reservation, charge and settlement against a shared limit
   with crashed reservations; an abstract counter as its specification.
3. **DeviceLeases**: the configured and the OS-wide lock namespace apart, with
   inherited descriptors, shown to implement the single lease used here.
