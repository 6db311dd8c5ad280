---------------------------- MODULE CampaignStages --------------------------
(***************************************************************************)
(* A campaign works through the stages of its declaration                  *)
(* (campaign/engine.py, campaign/state.py).  Commands hold the campaign's  *)
(* lock from end to end and may fail or be killed before any step; what    *)
(* they leave is state.json, an immutable receipt for every committed      *)
(* stage, the approvals, and the attempts submitted to the controller.     *)
(* The next command starts by reconciling index and receipts.              *)
(*                                                                         *)
(* A stage is a build (any adapter that computes something from its        *)
(* inputs), a snapshot (a build whose interrupted acquisition is resumed   *)
(* on request), an approval or a run.  A digest is what is hashed: the     *)
(* input of a stage is the stage, and the inputs and outputs of the stages *)
(* it requires.                                                            *)
(***************************************************************************)
EXTENDS Naturals, Sequences, FiniteSets

CONSTANTS
    Order,          \* ordered_stages: the stages, each after those it requires
    Kind,           \* Kind[s]: "build", "snapshot", "approval" or "run"
    Requires,       \* Requires[s]: set of stages
    Bind,           \* Bind[s]: the ancestors an approval stage binds
    Outputs,        \* what builds may put out
    NoOutput,
    MaxStops,       \* bound: commands that fail or are killed
    MaxLosses       \* bound: losses of the controller's state

Stages == {Order[n] : n \in 1..Len(Order)}
Runs == {s \in Stages : Kind[s] = "run"}
Gates == {s \in Stages : Kind[s] = "approval"}

ASSUME CampaignAssumption ==
    /\ Len(Order) \in Nat \ {0}
    /\ \A m, n \in 1..Len(Order) : Order[m] = Order[n] => m = n
    /\ \A n \in 1..Len(Order) : Requires[Order[n]] \subseteq {Order[m] : m \in 1..(n - 1)}
    /\ \A s \in Stages : Kind[s] \in {"build", "snapshot", "approval", "run"}
    /\ \A n \in 1..Len(Order) : Order[n] \in Gates =>
         Bind[Order[n]] # {} /\ Bind[Order[n]] \subseteq {Order[m] : m \in 1..(n - 1)}
    /\ MaxStops \in Nat /\ MaxLosses \in Nat

VARIABLES
    saved,      \* state.json exists
    index,      \* its rows
    receipts,   \* receipts/<stage>/<input>.json
    litter,     \* a temporary file was left under receipts/
    approvals,  \* approvals/<gate>/<binding>.json
    attempt,    \* attempt[r]: the controller's attempt for the run r
    submitted,  \* submitted[r]: attempts ever submitted
    cmd,        \* the command that holds the lock
    mem,        \* the rows it works on
    stops,
    losses

files == <<saved, index, receipts, litter, approvals>>
fleet == <<attempt, submitted, losses>>
vars == <<files, fleet, cmd, mem, stops>>

Committable == {"COMPLETE", "BLOCKED", "FAILED", "INCONCLUSIVE", "INTERRUPTED"}
RowStates == Committable \cup {"NOT_STARTED", "READY", "RUNNING", "AWAITING_APPROVAL"}

\* A row without a digest of its inputs.
NoInput == <<>>

\* input, output and receipt as in the code; run is the submitted attempt its
\* measurements name, bound that it has declaration_provenance, via which
\* command's wording the result has.
NewRow == [state |-> "NOT_STARTED", input |-> NoInput, out |-> NoOutput, receipt |-> FALSE,
           run |-> 0, bound |-> FALSE, via |-> "apply"]
Initial == [s \in Stages |-> NewRow]
NoAttempt == [id |-> 0, status |-> "none"]
NoCommand == [pc |-> "none", stage |-> Order[1], op |-> "apply", execute |-> FALSE,
              resume |-> FALSE, lost |-> FALSE, decision |-> "approve"]

TypeOK ==
    /\ saved \in BOOLEAN /\ litter \in BOOLEAN
    /\ DOMAIN index = Stages /\ DOMAIN mem = Stages
    /\ \A s \in Stages : \A r \in {index[s], mem[s]} :
         r.state \in RowStates /\ r.receipt \in BOOLEAN /\ r.run \in 0..submitted[s]
    /\ \A r \in receipts : r.stage \in Stages /\ r.state \in Committable /\ r.input # NoInput
    /\ \A a \in approvals : a.stage \in Gates /\ a.decision \in {"approve", "reject"}
    /\ submitted \in [Stages -> 0..(MaxLosses + 1)]
    /\ attempt \in [Stages -> [id : 0..(MaxLosses + 1),
                               status : {"none", "active", "complete", "error", "failed",
                                         "cancelled"}]]
    /\ cmd.pc \in {"none", "load", "select", "interrupt", "begin", "dispatch", "wait",
                   "approve", "gate", "commit", "link", "unlink", "settle"}
    /\ stops \in 0..MaxStops /\ losses \in 0..MaxLosses

Init ==
    /\ saved = FALSE
    /\ index = Initial
    /\ receipts = {}
    /\ litter = FALSE
    /\ approvals = {}
    /\ attempt = [s \in Stages |-> NoAttempt]
    /\ submitted = [s \in Stages |-> 0]
    /\ cmd = NoCommand
    /\ mem = Initial
    /\ stops = 0
    /\ losses = 0

-----------------------------------------------------------------------------
(* Inputs, receipts and the index. *)

\* Mutant of InputKnown: the state of the dependencies is not looked at.
InputKnownAnyhow(s, rows) == \A d \in Requires[s] : rows[d].input # NoInput

\* input_sha raises unless every dependency is complete.
InputKnown(s, rows) ==
    \A d \in Requires[s] : rows[d].state = "COMPLETE" /\ rows[d].input # NoInput

Input(s, rows) == <<s, [d \in Requires[s] |-> <<rows[d].input, rows[d].out>>]>>

\* The digest an approval binds.
Binding(g, rows) == [b \in Bind[g] |-> <<rows[b].input, rows[b].out>>]

ReceiptOf(s) == {r \in receipts : r.stage = s}
Committed(s) == ReceiptOf(s) # {}

\* What commit writes of a row, and what reconcile makes of it again.
AsReceipt(s, row) == [stage |-> s, input |-> row.input, state |-> row.state, out |-> row.out,
                      run |-> row.run, bound |-> row.bound, via |-> row.via]
AsRow(r) == [state |-> r.state, input |-> r.input, out |-> r.out, receipt |-> TRUE,
             run |-> r.run, bound |-> r.bound, via |-> r.via]

\* Mutant of Reconcile: a stage the index has as running is left to be resumed.
ReconcileIdle(rows) ==
    [s \in Stages |-> IF Committed(s) /\ rows[s].state # "RUNNING"
                      THEN AsRow(CHOOSE r \in ReceiptOf(s) : TRUE) ELSE rows[s]]

\* Receipts win over the index.
Reconcile(rows) ==
    [s \in Stages |-> IF Committed(s) THEN AsRow(CHOOSE r \in ReceiptOf(s) : TRUE)
                      ELSE rows[s]]

\* reconcile raises: the index names a receipt that is not there ...
ReceiptMissing(s, row) ==
    /\ ~Committed(s)
    /\ \/ row.receipt \/ row.state = "COMPLETE"
       \/ row.state \in {"FAILED", "INCONCLUSIVE"} /\ row.input # NoInput

\* ... or has something else than the receipt: a stage blocked or failed for want
\* of its inputs never has the result a receipt says.
Conflicting(s, row) ==
    \E r \in ReceiptOf(s) :
        \/ row.input \notin {NoInput, r.input}
        \/ row.receipt /\ row # AsRow(r)
        \/ ~row.receipt /\ row.state \in {"COMPLETE", "BLOCKED", "FAILED", "INCONCLUSIVE"}
        \/ ~InputKnown(s, Reconcile(index))
        \/ r.input # Input(s, Reconcile(index))

ReconcileRefuses ==
    \/ litter
    \/ \E s \in Stages : Cardinality(ReceiptOf(s)) > 1
    \/ \E s \in Stages : ReceiptMissing(s, index[s]) \/ Conflicting(s, index[s])

\* _assert_declaration_identity: what was dispatched or committed names the
\* declaration files it was made from.
Unbound(rows) ==
    \E s \in Stages : (rows[s].input # NoInput \/ rows[s].receipt) /\ ~rows[s].bound

\* No command that changes anything gets past its first checks.
Wedged == ReconcileRefuses \/ Unbound(index) \/ Unbound(Reconcile(index))

-----------------------------------------------------------------------------
(* The projection. *)

\* Stages whose state is computed afresh.
Open(row) == row.state \in {"NOT_STARTED", "READY"} \/ (row.state = "BLOCKED" /\ ~row.receipt)

\* Stages whose declared inputs are looked for.
Candidates(rows) ==
    {s \in Stages : /\ Kind[s] \in {"build", "snapshot"}
                    /\ Open(rows[s])
                    /\ \A d \in Requires[s] : rows[d].state = "COMPLETE"}

\* What _availability may find of them: all there, missing, or not readable.
Finds(rows) == [Candidates(rows) -> {"READY", "BLOCKED", "FAILED"}]

Approved(g, rows) == {a \in approvals : a.stage = g /\ a.binding = Binding(g, rows)}

\* _project_once.  It never makes a stage complete, so the order in which it goes
\* through the stages does not show.
Projection(rows, found) ==
    [s \in Stages |->
        CASE s \in DOMAIN found -> [rows[s] EXCEPT !.state = found[s]]
          [] s \notin DOMAIN found /\ Open(rows[s]) ->
               [rows[s] EXCEPT !.state =
                  IF \E d \in Requires[s] : rows[d].state # "COMPLETE" THEN "BLOCKED" ELSE "READY"]
          [] rows[s].state = "AWAITING_APPROVAL" /\ Approved(s, rows) # {} ->
               [rows[s] EXCEPT !.state = "READY"]
          [] OTHER -> rows[s]]

AllComplete(rows) == \A s \in Stages : rows[s].state = "COMPLETE"

\* The stage next_action is about: the first that is not complete.
Current(rows) ==
    Order[CHOOSE n \in 1..Len(Order) :
            /\ rows[Order[n]].state # "COMPLETE"
            /\ \A m \in 1..(n - 1) : rows[Order[m]].state = "COMPLETE"]

\* Mutant of Proceeds: a run left running waits for somebody else.
ProceedsIdle(s, rows) ==
    \/ rows[s].state = "READY"
    \/ rows[s].state \in {"RUNNING", "INTERRUPTED"} /\ Kind[s] # "run"

\* next_action is apply or resume.
Proceeds(s, rows) ==
    \/ rows[s].state \in {"READY", "RUNNING"}
    \/ rows[s].state = "INTERRUPTED" /\ Kind[s] # "run"

-----------------------------------------------------------------------------
(* Steps of a command. *)

GoTo(pc) == cmd' = [cmd EXCEPT !.pc = pc]
End == cmd' = NoCommand /\ mem' = Initial

\* _record: project, then replace state.json.
Record(rows) ==
    \E found \in Finds(rows) :
        /\ mem' = Projection(rows, found)
        /\ index' = mem'
        /\ saved' = TRUE
        /\ UNCHANGED <<receipts, litter, approvals>>

\* apply and resume.
Apply(execute, resume) ==
    /\ cmd = NoCommand
    /\ resume => saved
    /\ ~Wedged
    /\ mem' = Reconcile(index)
    /\ cmd' = [NoCommand EXCEPT !.execute = execute, !.resume = resume,
                   !.pc = IF saved /\ mem' = index THEN "select" ELSE "load"]
    /\ UNCHANGED <<files, fleet, stops>>

Load ==
    /\ cmd.pc = "load"
    /\ Record(mem)
    /\ GoTo("select")
    /\ UNCHANGED <<fleet, stops>>

\* Mutant of LostSubmission: any attempt for the cell is taken, also a new one.
LostSubmissionIgnored(s) == FALSE

\* LOST_SUBMISSION: the attempt the row names is not the controller's.
LostSubmission(s) == mem[s].run # 0 /\ attempt[s].id # mem[s].run

\* One turn of apply's loop, up to the decision to dispatch.
Select ==
    /\ cmd.pc = "select"
    /\ \E found \in Finds(mem) :
         LET rows == Projection(mem, found)
             s == Current(rows)
             unattended == Kind[s] = "snapshot" /\ ~cmd.resume
                           /\ mem[s].state \in {"RUNNING", "INTERRUPTED"}
             unauthorised == Kind[s] = "run" /\ ~cmd.execute
                             /\ attempt[s] = NoAttempt /\ ~LostSubmission(s)
         IN  IF AllComplete(rows) \/ ~Proceeds(s, rows) \/ unattended \/ unauthorised
             THEN End
             ELSE /\ cmd' = [cmd EXCEPT !.stage = s,
                                !.lost = Kind[s] = "run" /\ LostSubmission(s),
                                !.pc = IF mem[s].state = "RUNNING" /\ Kind[s] # "run"
                                       THEN "interrupt" ELSE "begin"]
                  /\ UNCHANGED mem
    /\ UNCHANGED <<files, fleet, stops>>

\* A stage found running was cut short, and is shown so.
Interrupt ==
    /\ cmd.pc = "interrupt"
    /\ Record([mem EXCEPT ![cmd.stage].state = "INTERRUPTED"])
    /\ GoTo("begin")
    /\ UNCHANGED <<fleet, stops>>

\* RUNNING is durable before side effects.
Begin ==
    /\ cmd.pc = "begin"
    /\ Record([mem EXCEPT ![cmd.stage].state = "RUNNING",
                          ![cmd.stage].input = Input(cmd.stage, mem),
                          ![cmd.stage].bound = TRUE])
    /\ GoTo("dispatch")
    /\ UNCHANGED <<fleet, stops>>

\* A result updates the row; all but RUNNING, AWAITING_APPROVAL and an interrupted
\* acquisition are committed.
Return(state, out, run) ==
    /\ LET row == mem[cmd.stage] IN
       mem' = [mem EXCEPT ![cmd.stage] =
                  [row EXCEPT !.state = state, !.out = out, !.via = "apply",
                              !.run = IF run = 0 THEN row.run ELSE run]]
    /\ GoTo(IF state \notin Committable \/ (Kind[cmd.stage] = "snapshot" /\ state = "INTERRUPTED")
            THEN "settle" ELSE "commit")

\* A dispatch that raises is a result, too.
Raise ==
    /\ cmd.pc \in {"dispatch", "wait"}
    /\ Return("FAILED", NoOutput, 0)
    /\ UNCHANGED <<files, fleet, stops>>

\* dispatch of everything but approvals and runs.
Build ==
    /\ cmd.pc = "dispatch"
    /\ \/ /\ Kind[cmd.stage] \in {"build", "snapshot"}
          /\ \E out \in Outputs : Return("COMPLETE", out, 0)
       \/ Kind[cmd.stage] = "build" /\ Return("BLOCKED", NoOutput, 0)
       \/ Kind[cmd.stage] = "build" /\ Return("INCONCLUSIVE", NoOutput, 0)
       \/ Kind[cmd.stage] = "snapshot" /\ Return("INTERRUPTED", NoOutput, 0)
    /\ UNCHANGED <<files, fleet, stops>>

\* Mutant of Decided: any decision opens the gate.
DecidedAnyhow(found) ==
    IF found = {} THEN "AWAITING_APPROVAL" ELSE "COMPLETE"

Decided(found) ==
    CASE found = {} -> "AWAITING_APPROVAL"
      [] \E a \in found : a.decision = "reject" -> "BLOCKED"
      [] OTHER -> "COMPLETE"

\* dispatch of an approval stage.
AskApproval ==
    LET g == cmd.stage
        state == Decided(Approved(g, mem))
    IN  /\ cmd.pc = "dispatch"
        /\ Kind[g] = "approval"
        /\ Return(state, IF state = "COMPLETE" THEN Binding(g, mem) ELSE NoOutput, 0)
        /\ UNCHANGED <<files, fleet, stops>>

\* dispatch of a run: the attempt there is, or a new one.
Submit ==
    LET r == cmd.stage
    IN  /\ cmd.pc = "dispatch"
        /\ Kind[r] = "run"
        /\ \/ /\ cmd.lost \/ LostSubmission(r) \/ (attempt[r] = NoAttempt /\ ~cmd.execute)
              /\ Return("FAILED", NoOutput, 0)
              /\ UNCHANGED fleet
           \/ /\ ~cmd.lost /\ ~LostSubmission(r) /\ attempt[r] # NoAttempt
              /\ GoTo("wait")
              /\ UNCHANGED <<mem, fleet>>
           \/ /\ ~cmd.lost /\ ~LostSubmission(r) /\ attempt[r] = NoAttempt /\ cmd.execute
              /\ \/ Return("BLOCKED", NoOutput, 0) /\ UNCHANGED fleet
                 \/ /\ submitted' = [submitted EXCEPT ![r] = @ + 1]
                    /\ attempt' = [attempt EXCEPT ![r] = [id |-> submitted'[r], status |-> "active"]]
                    /\ GoTo("wait")
                    /\ UNCHANGED <<mem, losses>>
        /\ UNCHANGED <<files, stops>>

\* The loop that ticks the controller until the attempt is over or time is up.
Wait ==
    LET r == cmd.stage
        now == attempt[r]
    IN  /\ cmd.pc = "wait"
        /\ CASE now.status = "none" -> Return("FAILED", NoOutput, 0)
             [] now.status = "active" -> Return("RUNNING", NoOutput, now.id)
             [] now.status = "complete" -> Return("COMPLETE", now.id, now.id)
             [] now.status \in {"failed", "error"} -> Return("FAILED", NoOutput, now.id)
             [] now.status = "cancelled" -> Return("INTERRUPTED", NoOutput, now.id)
        /\ UNCHANGED <<files, fleet, stops>>

-----------------------------------------------------------------------------
(* commit, then the index. *)

\* A receipt for the same input is compared, never overwritten.
Commit ==
    LET new == AsReceipt(cmd.stage, mem[cmd.stage])
        old == {r \in ReceiptOf(cmd.stage) : r.input = new.input}
    IN  /\ cmd.pc = "commit"
        /\ CASE old = {} -> GoTo("link") /\ UNCHANGED mem
             [] old = {new} -> /\ GoTo("settle")
                               /\ mem' = [mem EXCEPT ![cmd.stage].receipt = TRUE]
             [] OTHER -> End
        /\ UNCHANGED <<files, fleet, stops>>

\* publish_immutable: from a temporary file beside it.
Link ==
    /\ cmd.pc = "link"
    /\ receipts' = receipts \cup {AsReceipt(cmd.stage, mem[cmd.stage])}
    /\ mem' = [mem EXCEPT ![cmd.stage].receipt = TRUE]
    /\ GoTo("unlink")
    /\ UNCHANGED <<saved, index, litter, approvals, fleet, stops>>

Unlink ==
    /\ cmd.pc = "unlink"
    /\ GoTo("settle")
    /\ UNCHANGED <<files, fleet, mem, stops>>

\* The index follows; apply goes on after a completed stage.
Settle ==
    /\ cmd.pc = "settle"
    /\ \E found \in Finds(mem) :
         LET rows == Projection(mem, found)
         IN  /\ index' = rows
             /\ saved' = TRUE
             /\ IF cmd.op = "apply" /\ mem[cmd.stage].state = "COMPLETE"
                THEN GoTo("select") /\ mem' = rows
                ELSE End
    /\ UNCHANGED <<receipts, litter, approvals, fleet, stops>>

-----------------------------------------------------------------------------
(* approve. *)

Approve(g, decision) ==
    LET rows == Reconcile(index)
    IN  /\ cmd = NoCommand
        /\ saved
        /\ ~Wedged
        /\ rows[g].state \in {"AWAITING_APPROVAL", "COMPLETE", "BLOCKED"}
        /\ \A b \in Bind[g] : rows[b].state = "COMPLETE"
        /\ \A a \in Approved(g, rows) : a.decision = decision
        /\ mem' = rows
        /\ cmd' = [NoCommand EXCEPT !.pc = "approve", !.op = "approve", !.stage = g,
                                    !.decision = decision]
        /\ UNCHANGED <<files, fleet, stops>>

PublishApproval ==
    /\ cmd.pc = "approve"
    /\ approvals' = approvals \cup {[stage |-> cmd.stage, binding |-> Binding(cmd.stage, mem),
                                     decision |-> cmd.decision]}
    /\ GoTo("gate")
    /\ UNCHANGED <<saved, index, receipts, litter, fleet, mem, stops>>

\* The gate's own result; input_sha raises when it is not its turn yet.
Gate ==
    LET g == cmd.stage
    IN  /\ cmd.pc = "gate"
        /\ IF ~InputKnown(g, mem) THEN End
           ELSE /\ mem' = [mem EXCEPT ![g] =
                     [@ EXCEPT !.state = IF cmd.decision = "approve" THEN "COMPLETE" ELSE "BLOCKED",
                               !.out = Binding(g, mem), !.input = Input(g, mem),
                               !.via = "approve"]]
                /\ GoTo("commit")
        /\ UNCHANGED <<files, fleet, stops>>

-----------------------------------------------------------------------------
(* Failures and the controller. *)

\* A command raises, or is killed; only a killed one leaves its temporary file.
Stop(killed) ==
    /\ cmd # NoCommand
    /\ stops < MaxStops
    /\ stops' = stops + 1
    /\ litter' = (litter \/ (killed /\ cmd.pc \in {"link", "unlink"}))
    /\ End
    /\ UNCHANGED <<saved, index, receipts, approvals, fleet>>

\* The controller brings an attempt to its end, retries a failed ingestion ...
Progress(r) ==
    /\ \/ attempt[r].status = "active" /\ \E status \in {"complete", "error", "failed", "cancelled"} :
            attempt' = [attempt EXCEPT ![r].status = status]
       \/ attempt[r].status = "error" /\ attempt' = [attempt EXCEPT ![r].status = "complete"]
    /\ UNCHANGED <<files, submitted, losses, cmd, mem, stops>>

\* ... or loses its directory.
LoseController ==
    /\ losses < MaxLosses
    /\ losses' = losses + 1
    /\ attempt' = [s \in Stages |-> NoAttempt]
    /\ UNCHANGED <<files, submitted, cmd, mem, stops>>

CommandStep ==
    \/ Load \/ Select \/ Interrupt \/ Begin
    \/ Raise \/ Build \/ AskApproval \/ Submit \/ Wait
    \/ Commit \/ Link \/ Unlink \/ Settle
    \/ PublishApproval \/ Gate

Next ==
    \/ \E execute, resume \in BOOLEAN : Apply(execute, resume)
    \/ \E g \in Gates, decision \in {"approve", "reject"} : Approve(g, decision)
    \/ CommandStep
    \/ \E killed \in BOOLEAN : Stop(killed)
    \/ \E r \in Runs : Progress(r)
    \/ LoseController

Spec == Init /\ [][Next]_vars

\* Commands run to their end, somebody resumes the campaign again and again, and
\* the controller's attempts end.
FairSpec ==
    /\ Spec
    /\ WF_vars(CommandStep)
    /\ SF_vars(Apply(FALSE, TRUE))
    /\ \A r \in Runs : WF_vars(Progress(r))

-----------------------------------------------------------------------------
(* Properties. *)

\* A stage with a receipt is never dispatched again, whichever of receipt and
\* index a killed command left behind (engine.py:1544, state.py:518).
CommittedNeverRerun ==
    cmd.pc \in {"begin", "dispatch", "wait"} => ~Committed(cmd.stage)

\* What was approved is what runs: an attempt exists only below gates approved
\* for exactly the committed outputs they bind, rejections and approvals given
\* before the gate's turn included (engine.py:1824, 2349-2379).
RunsAreApproved ==
    \A r \in Runs : \A g \in Gates \cap Requires[r] :
        submitted[r] > 0 =>
            [stage |-> g, binding |-> Binding(g, Reconcile(index)), decision |-> "approve"]
                \in approvals

\* A run whose attempt was recorded is never given another one, the loss of the
\* controller's state included (engine.py:1413-1425, 2393-2413).
NeverReplaced ==
    [][\A r \in Runs : submitted'[r] # submitted[r] => index[r].run = 0 /\ ~Committed(r)]_vars

\* Receipts form one chain: one for each stage, for the input its requirements'
\* receipts make, all of them COMPLETE (state.py:314, 415).
ReceiptsCohere ==
    \A r \in receipts :
        /\ ReceiptOf(r.stage) = {r}
        /\ InputKnown(r.stage, Reconcile(Initial))
        /\ r.input = Input(r.stage, Reconcile(Initial))

\* An attempt that ends gets its stage committed, through timeouts, failed and
\* killed commands, as long as the campaign is not wedged (engine.py:2484-2530).
RunSettles ==
    \A r \in Runs : attempt[r].status \in {"complete", "failed", "cancelled"} ~>
        Committed(r) \/ Wedged \/ attempt[r] = NoAttempt

\* "Resume reconciles receipts after a crash between receipt and index
\* publication" (docs/campaigns.md:321), and any other.  Not so when the crash
\* leaves the temporary file of publish_immutable under receipts/, which
\* reconcile refuses (state.py:127, 535).
ResumeReconciles == ~ReconcileRefuses

\* Every committed stage names its declaration (engine.py:543).  Not so a gate
\* approved while the index still has it BLOCKED, after a crash between the
\* receipt of its last requirement and the index.
CommittedIsBound == \A r \in receipts : r.bound

\* A run is committed FAILED only when its attempt failed for good.  Not so when
\* the campaign meets an ingestion error the controller goes on to repair
\* (engine.py:2507), or an error of its own while it looks at the attempt.
FailedIsFinal ==
    \A r \in Runs : attempt[r].status = "complete" =>
        \A c \in ReceiptOf(r) : c.state # "FAILED" \/ c.run # attempt[r].id
=============================================================================
