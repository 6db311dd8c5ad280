-------------------------- MODULE RelayPublication --------------------------
(***************************************************************************)
(* How a worker publishes an attempt to the relay (workers/                *)
(* relay_execution.py, the writing half of workers/relay.py): a chain of   *)
(* immutable, content-addressed commits.  publish_boundary loads the       *)
(* receipt, reads and verifies the whole chain, uploads a descriptor that  *)
(* extends its newest commit and records it in relay-commit.json.  It is   *)
(* called by                                                               *)
(*   launch    under the admission lock, before the executor is spawned    *)
(*   execute   under claim.lock: at begin, per checkpoint, at the end      *)
(*   recover   status_worker finalising a dead executor, under claim.lock  *)
(*   flush     flush_terminal, under claim.lock                            *)
(* so two processes that hold different locks may publish at once.         *)
(*                                                                         *)
(* A commit's file name holds its sequence and digest.  previous_commit    *)
(* is left out: a commit extends the newest one its writer read, and if    *)
(* sequences are unique there was only one it can have been.               *)
(***************************************************************************)
EXTENDS WorkerContract, Naturals, FiniteSets

CONSTANTS
    Procs,        \* processes of the worker that may exist at once
    Cancels,      \* BOOLEAN: cancel_attempt is called
    MaxSaves,     \* bound: checkpoints an attempt commits
    MaxFailures,  \* bound: failed transfers and dead processes
    Nobody

ASSUME PublicationAssumption ==
    /\ Nobody \notin Procs \cup Attempts
    /\ Cancels \in BOOLEAN
    /\ MaxSaves \in Nat /\ MaxFailures \in Nat

VARIABLES
    remote,     \* remote[a]: the commits of a on the relay
    frontier,   \* frontier[a]: commits up to the one in relay-commit.json
    disk,       \* disk[a]: checkpoints of a on the worker's disk
    admission,  \* the process holding .admission.lock
    claim,      \* claim[a]: the process holding claim.lock of a
    spawned,    \* attempts with a wrapper that has not claimed yet
    job, mode,  \* job[p]: what p runs; mode[p]: the boundary it publishes
    pc, att,    \* pc[p]: its step; att[p]: its attempt
    draft,      \* draft[p]: the commit it is preparing
    failures

procVars == <<job, mode, pc, att, draft>>
vars == <<contractVars, remote, frontier, disk, admission, claim, spawned, procVars, failures>>

Jobs == {"launch", "execute", "recover", "flush"}
Modes == {"open", "saved", "final"}
Steps == {"idle", "load", "read", "upload", "record", "run"}

(* saved: the checkpoint frontier of the commit, 0 for none. *)
Commit == [seq : Nat, receipt : Receipts, saved : Nat]
Blank == [seq |-> 0, receipt |-> NoReceipt, saved |-> 0]

TypeOK ==
    /\ receipt \in [Attempts -> Receipts]
    /\ marker \in SUBSET Attempts
    /\ remote \in [Attempts -> SUBSET Commit]
    /\ frontier \in [Attempts -> Nat]
    /\ disk \in [Attempts -> 0..MaxSaves]
    /\ admission \in Procs \cup {Nobody}
    /\ claim \in [Attempts -> Procs \cup {Nobody}]
    /\ spawned \in SUBSET Attempts
    /\ job \in [Procs -> Jobs]
    /\ mode \in [Procs -> Modes]
    /\ pc \in [Procs -> Steps]
    /\ att \in [Procs -> Attempts \cup {Nobody}]
    /\ draft \in [Procs -> Commit]
    /\ failures \in 0..MaxFailures

Init ==
    /\ ContractInit
    /\ remote = [a \in Attempts |-> {}]
    /\ frontier = [a \in Attempts |-> 0]
    /\ disk = [a \in Attempts |-> 0]
    /\ admission = Nobody
    /\ claim = [a \in Attempts |-> Nobody]
    /\ spawned = {}
    /\ job = [p \in Procs |-> "launch"]
    /\ mode = [p \in Procs |-> "open"]
    /\ pc = [p \in Procs |-> "idle"]
    /\ att = [p \in Procs |-> Nobody]
    /\ draft = [p \in Procs |-> Blank]
    /\ failures = 0

-----------------------------------------------------------------------------
(* The chain. *)

\* verified_chain: sequences 0, 1, ... without a gap or a duplicate.
Readable(a) == {c.seq : c \in remote[a]} = 0..Cardinality(remote[a]) - 1

Newest(a) == CHOOSE c \in remote[a] : \A d \in remote[a] : d.seq <= c.seq

\* The newest commit carries the receipt as it is now.
Committed(a) == Readable(a) /\ remote[a] # {} /\ Newest(a).receipt = receipt[a]

\* Mutant of HistoryComplete: only a successful earlier attempt counts.
HistoryCompletedOnly(a) ==
    \A b \in Attempts \ {a} : frontier[b] # 0 =>
        Readable(b) /\ remote[b] # {} /\ Newest(b).receipt.state = "COMPLETE"

\* Every other attempt that published here has its terminal commit.
HistoryComplete(a) ==
    \A b \in Attempts \ {a} : frontier[b] # 0 =>
        Readable(b) /\ remote[b] # {} /\ IsTerminal(Newest(b).receipt)

\* A terminal receipt is published once.
AlreadyPublished(p) ==
    /\ mode[p] = "final"
    /\ remote[att[p]] # {}
    /\ Newest(att[p]).receipt = draft[p].receipt

\* Mutant of Refuses: a frontier that is on the relay is taken for a lost one.
RefusesEqual(p) ==
    LET a == att[p] IN
    \/ ~Readable(a)
    \/ frontier[a] > 0 /\ frontier[a] >= Cardinality(remote[a])
    \/ ~AlreadyPublished(p) /\ ~HistoryComplete(a)

\* What publish_boundary refuses to extend.
Refuses(p) ==
    LET a == att[p] IN
    \/ ~Readable(a)
    \/ frontier[a] > Cardinality(remote[a])
    \/ ~AlreadyPublished(p) /\ ~HistoryComplete(a)

\* Mutant of Extend: only the boundary's own checkpoint is named.
ExtendFresh(p) ==
    [draft[p] EXCEPT !.seq = Cardinality(remote[att[p]]),
                     !.saved = IF mode[p] = "saved" THEN disk[att[p]] ELSE 0]

\* The commit that follows the chain; checkpoints are inherited.
Extend(p) ==
    LET a == att[p]
        inherited == IF remote[a] = {} THEN 0 ELSE Newest(a).saved IN
    [draft[p] EXCEPT !.seq = Cardinality(remote[a]),
                     !.saved = IF mode[p] = "open" THEN inherited ELSE disk[a]]

-----------------------------------------------------------------------------
(* Processes. *)

Idle(p) == pc[p] = "idle"

\* No executor and no recovery holds the device lease.
LeaseFree == \A q \in Procs : Idle(q) \/ job[q] \notin {"execute", "recover"}

Start(p, j, m, a) ==
    /\ job' = [job EXCEPT ![p] = j]
    /\ mode' = [mode EXCEPT ![p] = m]
    /\ pc' = [pc EXCEPT ![p] = "load"]
    /\ att' = [att EXCEPT ![p] = a]
    /\ UNCHANGED draft

Step(p, where) ==
    /\ pc' = [pc EXCEPT ![p] = where]
    /\ UNCHANGED <<job, mode, att, draft>>

\* The process ends and drops its locks.
Exit(p) ==
    /\ job' = [job EXCEPT ![p] = "launch"]
    /\ mode' = [mode EXCEPT ![p] = "open"]
    /\ pc' = [pc EXCEPT ![p] = "idle"]
    /\ att' = [att EXCEPT ![p] = Nobody]
    /\ draft' = [draft EXCEPT ![p] = Blank]
    /\ admission' = IF admission = p THEN Nobody ELSE admission
    /\ claim' = [a \in Attempts |-> IF claim[a] = p THEN Nobody ELSE claim[a]]

\* Mutant of Launch: the commit is published outside the admission lock.
LaunchUnlocked(p, a) ==
    /\ Idle(p)
    /\ \/ Prepare(a)
       \/ receipt[a].state = "PREPARED" /\ UNCHANGED contractVars
    /\ \/ frontier[a] = 0 /\ Start(p, "launch", "open", a) /\ UNCHANGED spawned
       \/ frontier[a] # 0 /\ spawned' = spawned \cup {a} /\ UNCHANGED procVars
    /\ UNCHANGED <<remote, frontier, disk, admission, claim, failures>>

\* A launch without an earlier commit publishes first; others only spawn.
Launch(p, a) ==
    /\ Idle(p)
    /\ admission = Nobody
    /\ \/ Prepare(a)
       \/ receipt[a].state = "PREPARED" /\ UNCHANGED contractVars
    /\ \/ /\ frontier[a] = 0
          /\ admission' = p
          /\ Start(p, "launch", "open", a)
          /\ UNCHANGED spawned
       \/ /\ frontier[a] # 0
          /\ spawned' = spawned \cup {a}
          /\ UNCHANGED <<admission, procVars>>
    /\ UNCHANGED <<remote, frontier, disk, claim, failures>>

\* A wrapper claims and begins, or rejects; one that cannot simply returns.
Execute(p, a) ==
    /\ Idle(p)
    /\ a \in spawned
    /\ spawned' = spawned \ {a}
    /\ \/ /\ receipt[a].state = "PREPARED" /\ claim[a] = Nobody
          /\ claim' = [claim EXCEPT ![a] = p]
          /\ \/ LeaseFree /\ Begin(a) /\ Start(p, "execute", "open", a)
             \/ Finish(a) /\ Start(p, "execute", "final", a)
       \/ /\ receipt[a].state # "PREPARED" \/ claim[a] # Nobody \/ ~LeaseFree
          /\ UNCHANGED <<contractVars, claim, procVars>>
    /\ UNCHANGED <<remote, frontier, disk, admission, failures>>

\* Between publications the executor trains, saves and, in the end, finishes.
Run(p) ==
    LET a == att[p] IN
    /\ pc[p] = "run"
    /\ \/ /\ ~receipt[a].training
          /\ Arm(a)
          /\ UNCHANGED <<disk, procVars>>
       \/ /\ receipt[a].training
          /\ disk[a] < MaxSaves
          /\ disk' = [disk EXCEPT ![a] = @ + 1]
          /\ Start(p, "execute", "saved", a)
          /\ UNCHANGED contractVars
       \/ /\ Finish(a)
          /\ Start(p, "execute", "final", a)
          /\ UNCHANGED disk
    /\ UNCHANGED <<remote, frontier, admission, claim, spawned, failures>>

\* status_worker finds the executor gone.
Recover(p, a) ==
    /\ Idle(p)
    /\ receipt[a].state = "RUNNING"
    /\ LeaseFree
    /\ claim[a] = Nobody
    /\ claim' = [claim EXCEPT ![a] = p]
    /\ receipt' = [receipt EXCEPT ![a] = Finished(@, "UNKNOWN")]
    /\ Start(p, "recover", "final", a)
    /\ UNCHANGED <<marker, remote, frontier, disk, admission, spawned, failures>>

\* Mutant of Flush: the claim is not taken.
FlushUnclaimed(p, a) ==
    /\ Idle(p)
    /\ receipt[a].state # "NONE"
    /\ Start(p, "flush", "final", a)
    /\ UNCHANGED <<contractVars, remote, frontier, disk, admission, claim, spawned, failures>>

Flush(p, a) ==
    /\ Idle(p)
    /\ IsTerminal(receipt[a])
    /\ claim[a] = Nobody
    /\ claim' = [claim EXCEPT ![a] = p]
    /\ Start(p, "flush", "final", a)
    /\ UNCHANGED <<contractVars, remote, frontier, disk, admission, spawned, failures>>

\* cancel_attempt ends an unclaimed PREPARED attempt and publishes nothing.
Cancel(a) ==
    /\ Cancels
    /\ ~IsTerminal(receipt[a])
    /\ marker' = marker \cup {a}
    /\ receipt' = [receipt EXCEPT ![a] =
                     CASE @.state = "NONE" -> @
                       [] @.state = "PREPARED" /\ claim[a] = Nobody -> Finished(@, "CANCELLED")
                       [] OTHER -> [@ EXCEPT !.requested = TRUE]]
    /\ UNCHANGED <<remote, frontier, disk, admission, claim, spawned, procVars, failures>>

-----------------------------------------------------------------------------
(* publish_boundary. *)

Load(p) ==
    /\ pc[p] = "load"
    /\ draft' = [draft EXCEPT ![p].receipt = receipt[att[p]]]
    /\ pc' = [pc EXCEPT ![p] = "read"]
    /\ UNCHANGED <<contractVars, remote, frontier, disk, admission, claim, spawned, job, mode, att, failures>>

\* It returned: the executor goes on, a launch spawns, the others end.
Published(p) ==
    /\ spawned' = IF job[p] = "launch" THEN spawned \cup {att[p]} ELSE spawned
    /\ \/ /\ mode[p] # "final" /\ job[p] = "execute"
          /\ Step(p, "run")
          /\ UNCHANGED <<admission, claim>>
       \/ /\ mode[p] = "final" \/ job[p] # "execute"
          /\ Exit(p)

\* It raised: a running attempt is FAILED and publishes that, the rest end.
Raised(p) ==
    LET a == att[p] IN
    \/ /\ mode[p] # "final" /\ job[p] = "execute"
       /\ receipt' = [receipt EXCEPT ![a] = Finished(@, "FAILED")]
       /\ Start(p, "execute", "final", a)
       /\ UNCHANGED <<admission, claim>>
    \/ /\ mode[p] = "final" \/ job[p] # "execute"
       /\ Exit(p)
       /\ UNCHANGED receipt

\* The chain is read and verified.
Read(p) ==
    /\ pc[p] = "read"
    /\ \/ /\ Refuses(p)
          /\ Raised(p)
          /\ UNCHANGED spawned
       \/ /\ ~Refuses(p) /\ AlreadyPublished(p)
          /\ Published(p)
          /\ UNCHANGED receipt
       \/ /\ ~Refuses(p) /\ ~AlreadyPublished(p)
          /\ draft' = [draft EXCEPT ![p] = Extend(p)]
          /\ pc' = [pc EXCEPT ![p] = "upload"]
          /\ UNCHANGED <<receipt, job, mode, att, admission, claim, spawned>>
    /\ UNCHANGED <<marker, remote, frontier, disk, failures>>

\* Mutant of Upload: a failed upload goes unnoticed.
UploadUnchecked(p) ==
    /\ pc[p] = "upload"
    /\ \/ remote' = [remote EXCEPT ![att[p]] = @ \cup {draft[p]}]
       \/ UNCHANGED remote
    /\ Step(p, "record")
    /\ UNCHANGED <<contractVars, frontier, disk, admission, claim, spawned, failures>>

\* An immutable upload: a descriptor that is there already is the same one.
Upload(p) ==
    /\ pc[p] = "upload"
    /\ remote' = [remote EXCEPT ![att[p]] = @ \cup {draft[p]}]
    /\ Step(p, "record")
    /\ UNCHANGED <<contractVars, frontier, disk, admission, claim, spawned, failures>>

Record(p) ==
    /\ pc[p] = "record"
    /\ frontier' = [frontier EXCEPT ![att[p]] = draft[p].seq + 1]
    /\ Published(p)
    /\ UNCHANGED <<contractVars, remote, disk, failures>>

\* A transfer fails, the readback after the upload included.
Fail(p) ==
    /\ pc[p] \in {"read", "upload", "record"}
    /\ failures < MaxFailures
    /\ failures' = failures + 1
    /\ Raised(p)
    /\ UNCHANGED <<marker, remote, frontier, disk, spawned>>

Crash(p) ==
    /\ ~Idle(p)
    /\ failures < MaxFailures
    /\ failures' = failures + 1
    /\ Exit(p)
    /\ UNCHANGED <<contractVars, remote, frontier, disk, spawned>>

ProcStep(p) == Run(p) \/ Load(p) \/ Read(p) \/ Upload(p) \/ Record(p)

Next ==
    \/ \E p \in Procs : ProcStep(p) \/ Fail(p) \/ Crash(p)
    \/ \E p \in Procs, a \in Attempts :
         Launch(p, a) \/ Execute(p, a) \/ Recover(p, a) \/ Flush(p, a)
    \/ \E a \in Attempts : Cancel(a)

Spec == Init /\ [][Next]_vars

(***************************************************************************)
(* Processes finish what they do (training included); the controller       *)
(* replays launches, polls and retries collection, and a spawned wrapper   *)
(* runs.  Strong fairness: the calls wait for locks that others keep       *)
(* taking and giving back.                                                 *)
(***************************************************************************)
FairSpec ==
    /\ Spec
    /\ \A p \in Procs : WF_vars(ProcStep(p))
    /\ \A a \in Attempts :
         /\ SF_vars(\E p \in Procs : Launch(p, a))
         /\ SF_vars(\E p \in Procs : Execute(p, a))
         /\ SF_vars(\E p \in Procs : Recover(p, a))
         /\ SF_vars(\E p \in Procs : Flush(p, a))

-----------------------------------------------------------------------------
(* Properties. *)

(***************************************************************************)
(* publish_commit says "Readback catches a competing/conflicting immutable *)
(* descriptor": publishers that hold different locks never leave a chain   *)
(* that no reader can verify.  True as long as nothing is cancelled; a     *)
(* cancellation during the first publication refutes it, because the       *)
(* launch and flush_terminal then publish sequence 0 at once.              *)
(***************************************************************************)
ChainStaysReadable == \A a \in Attempts : Readable(a)

(***************************************************************************)
(* What such a fork can cost, whichever publishers overlap, fail, die or   *)
(* are cancelled: a chain that cannot be verified any more is one of an    *)
(* attempt cancelled before it began, which has trained nothing and has no *)
(* recovery point on the relay.                                            *)
(***************************************************************************)
ForkedNeverBegan ==
    \A a \in Attempts : ~Readable(a) =>
        /\ receipt[a].state = "INTERRUPTED" /\ receipt[a].acknowledged
        /\ ~receipt[a].training
        /\ \A c \in remote[a] : c.saved = 0

(***************************************************************************)
(* A death between the upload and relay-commit.json loses nothing: the     *)
(* recorded frontier is on the relay, so the next publication is never     *)
(* refused for "local relay frontier lacks a committed remote descriptor". *)
(***************************************************************************)
FrontierIsCommitted ==
    \A a \in Attempts : \A n \in 0..frontier[a] - 1 : \E c \in remote[a] : c.seq = n

(***************************************************************************)
(* Once the relay holds a recovery point it keeps one at least as new: the *)
(* chain stays verifiable and its newest commit inherits the checkpoint,   *)
(* through failures, cancellations, recovery and flushes.                  *)
(***************************************************************************)
RecoveryPointSurvives ==
    [][\A a \in Attempts : \A c \in remote[a] : c.saved # 0 =>
          Readable(a)' /\ Newest(a)'.saved >= c.saved]_vars

(***************************************************************************)
(* Where nothing is cancelled the terminal commit is the end of the chain, *)
(* through deaths, recovery and flushes: what collect_relay reads as the   *)
(* newest commit never turns from a terminal receipt back into a           *)
(* nonterminal one.  (A launch that loaded its PREPARED receipt before a   *)
(* cancellation may extend the chain after the flush.)                     *)
(***************************************************************************)
TerminalEndsChain ==
    \A a \in Attempts : \A c, d \in remote[a] :
        IsTerminal(c.receipt) /\ c.seq < d.seq => d.receipt = c.receipt

(***************************************************************************)
(* Where nothing is cancelled every terminal receipt gets to the relay,    *)
(* after failed uploads and deaths at any step (flush_terminal).           *)
(***************************************************************************)
TerminalIsPublished == \A a \in Attempts : IsTerminal(receipt[a]) ~> Committed(a)

(***************************************************************************)
(* "collect the previous attempt first" is not a dead end: a launch that   *)
(* is refused because an earlier attempt's chain is still open goes        *)
(* through once that chain is finished, so every prepared attempt begins   *)
(* or ends.                                                                *)
(***************************************************************************)
PreparedMovesOn ==
    \A a \in Attempts : receipt[a].state = "PREPARED" ~> receipt[a].state # "PREPARED"
=============================================================================
