--------------------------- MODULE CheckpointStore --------------------------
(***************************************************************************)
(* The checkpoint directory of a run (training/checkpoints.py,             *)
(* training/retention.py): immutable generations, the pointers latest.json *)
(* and best.json, and, when a retention policy was bound before the first  *)
(* generation, retention.json with the published keep-set.  One writer at  *)
(* a time holds the lease; it saves, projects the pointers and prunes, one *)
(* rename, one pointer or one unlink per step, and may die before any of   *)
(* them.  recovery_report scans the directory without the lease.  Nothing  *)
(* survives a session but the directory.                                   *)
(*                                                                         *)
(* A generation is torn from the first of its members that is unlinked to  *)
(* the rmdir.  Positions stand for the pair of update and target counters. *)
(* Sizes are upper bounds: a generation takes at most GenerationBytes, the *)
(* files beside the generations at most MetadataBytes together, since each *)
(* has a fixed name and is replaced, never added to.  A limit that these   *)
(* bounds exceed may be exceeded.                                          *)
(***************************************************************************)
EXTENDS Naturals, FiniteSets

CONSTANTS
    Positions,      \* set of Nat: where a snapshot of the run can be taken
    Losses,         \* set of Nat: validation losses
    NoLoss,
    Milestones,     \* positions declared in the retention policy
    Terminal,       \* the position that ends the training budget
    GenerationBytes,    \* max_generation_bytes
    MetadataBytes,  \* of pointers, policy and retention files and their temporaries
    Room,           \* max_peak_bytes
    MaxGeneration,  \* bound: saves
    MaxCrashes      \* bound: writers that die

NoGeneration == 0
Generations == 1..MaxGeneration

\* What the policy keeps the first generation to reach.
Boundaries == Milestones \cup {Terminal}

\* Mutant of RetainedUpper: the terminal generation is taken to be the latest.
RetainedUpperShared == Cardinality(Milestones) + 3

\* The conservative keep-set: milestones, latest, previous, best and terminal.
RetainedUpper == Cardinality(Milestones) + 4

ASSUME CheckpointAssumption ==
    /\ Positions \subseteq Nat /\ Losses \subseteq Nat /\ NoLoss \notin Losses
    /\ IsFiniteSet(Milestones) /\ Milestones \subseteq Nat /\ Terminal \in Nat
    /\ \A m \in Milestones : m <= Terminal
    /\ GenerationBytes \in Nat \ {0} /\ MetadataBytes \in Nat
    /\ Room \in Nat /\ Room >= (RetainedUpper + 1) * GenerationBytes
    /\ MaxGeneration \in Nat /\ MaxCrashes \in Nat

VARIABLES
    bound,      \* retention-policy.json is there
    disk,       \* disk[g]: "absent", "whole" or "torn"
    info,       \* info[g]: what the manifest of g says
    stages,     \* staging directories nobody will finish
    latest,     \* latest.json
    best,       \* best.json
    keep,       \* the generations retention.json retains
    pc,         \* where the holder of the lease is; "closed" when there is none
    saver,      \* it is the run's trainer, not a recovery
    records,    \* _write_records
    doomed,     \* what is left to prune
    scan,       \* the reader: directories to verify, the newest generation at its start
    crashes

directory == <<bound, disk, info, stages, latest, best, keep>>
session == <<pc, saver, records, doomed>>
vars == <<directory, session, scan, crashes>>

NoInfo == [at |-> 0, loss |-> NoLoss]
Manifests == [at : Positions \cup {0}, loss : Losses \cup {NoLoss}]
Unread == {NoGeneration}            \* _write_records = None
Idle == [todo |-> {}, began |-> NoGeneration]

TypeOK ==
    /\ bound \in BOOLEAN
    /\ disk \in [Generations -> {"absent", "whole", "torn"}]
    /\ info \in [Generations -> Manifests]
    /\ stages \in 0..MaxCrashes
    /\ latest \in Generations \cup {NoGeneration}
    /\ best \in Generations \cup {NoGeneration}
    /\ keep \in SUBSET Generations
    /\ pc \in {"closed", "open", "rename", "project", "best", "retain", "prune"}
    /\ saver \in BOOLEAN
    /\ records \in {Unread} \cup SUBSET Generations
    /\ doomed \in SUBSET Generations
    /\ scan \in [todo : SUBSET Generations, began : Generations \cup {NoGeneration}]
    /\ crashes \in 0..MaxCrashes

Init ==
    /\ bound = FALSE
    /\ disk = [g \in Generations |-> "absent"]
    /\ info = [g \in Generations |-> NoInfo]
    /\ stages = 0
    /\ latest = NoGeneration
    /\ best = NoGeneration
    /\ keep = {}
    /\ pc = "closed"
    /\ saver = FALSE
    /\ records = Unread
    /\ doomed = {}
    /\ scan = Idle
    /\ crashes = 0

-----------------------------------------------------------------------------
(* What a set of generations amounts to. *)

Present == {g \in Generations : disk[g] # "absent"}
Whole == {g \in Generations : disk[g] = "whole"}
Torn == {g \in Generations : disk[g] = "torn"}

\* Records are sorted by step, then by generation.
Before(g, h) ==
    \/ info[g].at < info[h].at
    \/ info[g].at = info[h].at /\ g < h

LastOf(S) ==
    IF S = {} THEN NoGeneration ELSE CHOOSE g \in S : \A h \in S \ {g} : Before(h, g)

FirstOf(S) ==
    IF S = {} THEN NoGeneration ELSE CHOOSE g \in S : \A h \in S \ {g} : Before(g, h)

PreviousOf(S) == LastOf(S \ {LastOf(S)})

BestOf(S) ==
    LET evaluated == {g \in S : info[g].loss # NoLoss}
    IN  IF evaluated = {} THEN NoGeneration
        ELSE CHOOSE g \in evaluated : \A h \in evaluated \ {g} :
               \/ info[g].loss < info[h].loss
               \/ info[g].loss = info[h].loss /\ g < h

\* The first generation to reach a boundary.
Reaches(S, m) == FirstOf({g \in S : info[g].at >= m})

\* Mutant of Protected: the best generation is pruned like any other.
ProtectedRecent(S) == {LastOf(S), PreviousOf(S)} \ {NoGeneration}

\* Mutant of Protected: the predecessor of the latest generation is pruned.
ProtectedLatestOnly(S) == {LastOf(S), BestOf(S)} \ {NoGeneration}

\* Without a policy: the last two generations and the best.
Protected(S) == {LastOf(S), PreviousOf(S), BestOf(S)} \ {NoGeneration}

\* Mutant of KeepSet: milestones are re-selected from the last two generations.
KeepSetRecent(S) ==
    LET recent == {LastOf(S), PreviousOf(S)} \ {NoGeneration}
    IN  (Protected(S) \cup {Reaches(recent, m) : m \in Boundaries})
            \ {NoGeneration}

\* retention.plan: the roles of the policy.
KeepSet(S) ==
    (Protected(S) \cup {Reaches(S, m) : m \in Boundaries}) \ {NoGeneration}

\* retention.footprint: all files below the root, interrupted staging included.
Footprint == (Cardinality(Present) + stages) * GenerationBytes + MetadataBytes

NextGeneration == IF Present = {} THEN 1 ELSE CHOOSE n \in 1..(MaxGeneration + 1) :
    n - 1 \in Present /\ \A g \in Present : g < n

-----------------------------------------------------------------------------
(* Sessions of the writer. *)

\* The lease is released, or its holder died: what it knew is gone.
EndSession ==
    /\ pc' = "closed"
    /\ saver' = FALSE
    /\ records' = Unread
    /\ doomed' = {}

\* writer_lease: a policy, which needs keep_periodic = false, is bound before the
\* first generation or not at all; a recovery opens the directory without one
\* and adopts what is bound.
Open(saves, declares) ==
    /\ pc = "closed"
    /\ declares => saves /\ (bound \/ Present = {})
    /\ saves /\ bound => declares
    /\ bound' = (bound \/ declares)
    /\ pc' = "open"
    /\ saver' = saves
    /\ UNCHANGED <<disk, info, stages, latest, best, keep, records, doomed,
                   scan, crashes>>

Close ==
    /\ pc = "open"
    /\ EndSession
    /\ UNCHANGED <<directory, scan, crashes>>

\* reconcile refuses a generation that does not verify, under a policy.
Refused == bound /\ Torn # {}

\* reconcile: what verifies is what there is.
Reconcile ==
    /\ pc = "open"
    /\ IF Refused
       THEN EndSession
       ELSE /\ records' = Whole
            /\ pc' = "project"
            /\ UNCHANGED <<saver, doomed>>
    /\ UNCHANGED <<directory, scan, crashes>>

\* admit_write: the staged generation may not fit.
AdmissionMayFail == Footprint + GenerationBytes > Room

\* save, up to the verified staging directory: admission, then the files.
Save ==
    /\ pc = "open"
    /\ saver
    /\ records # Unread
    /\ NextGeneration <= MaxGeneration
    /\ \/ bound /\ AdmissionMayFail /\ EndSession
       \/ pc' = "rename" /\ UNCHANGED <<saver, records, doomed>>
    /\ UNCHANGED <<directory, scan, crashes>>

\* An error before the rename takes the staging directory away again.
Abort ==
    /\ pc = "rename"
    /\ EndSession
    /\ UNCHANGED <<directory, scan, crashes>>

\* The rename that makes a generation of the snapshot: only from here does
\* anyone see where the run was and what its validation loss.
Finalize(at, loss) ==
    LET new == NextGeneration
    IN  /\ pc = "rename"
        /\ records # {} => at >= info[LastOf(records)].at
        /\ disk' = [disk EXCEPT ![new] = "whole"]
        /\ info' = [info EXCEPT ![new] = [at |-> at, loss |-> loss]]
        /\ records' = records \cup {new}
        /\ pc' = "project"
        /\ UNCHANGED <<bound, stages, latest, best, keep, saver, doomed, scan, crashes>>

\* retention.plan refuses a lost keep-set and more generations than the policy
\* allows, and it may find more bytes than max_peak_bytes.
PlanRefused ==
    \/ ~(keep \subseteq records)
    \/ Cardinality(KeepSet(records)) > RetainedUpper

PlanMayFail == PlanRefused \/ Footprint > Room

\* Mutant of ProjectLatest: latest.json names the predecessor's generation.
ProjectLatestStale ==
    /\ pc = "project"
    /\ latest' = IF latest = NoGeneration THEN LastOf(records) ELSE latest
    /\ IF records = {} THEN best' = NoGeneration /\ pc' = "open"
       ELSE pc' = "best" /\ UNCHANGED best
    /\ UNCHANGED <<bound, disk, info, stages, keep, saver, records, doomed, scan, crashes>>

\* _project_records: the plan, then latest.json; an empty directory has no pointers.
ProjectLatest ==
    /\ pc = "project"
    /\ \/ /\ bound /\ PlanMayFail
          /\ EndSession
          /\ UNCHANGED <<latest, best>>
       \/ /\ ~(bound /\ PlanRefused)
          /\ latest' = LastOf(records)
          /\ IF records = {} THEN best' = NoGeneration /\ pc' = "open"
             ELSE pc' = "best" /\ UNCHANGED best
          /\ UNCHANGED <<saver, records, doomed>>
    /\ UNCHANGED <<bound, disk, info, stages, keep, scan, crashes>>

\* What _project_records deletes, and the records it goes on with.
StartPruning(kept) ==
    /\ doomed' = records \ kept
    /\ records' = records \cap kept
    /\ pc' = IF doomed' = {} THEN "open" ELSE "prune"

\* best.json.  The trainer goes on to prune (keep_periodic = false); a recovery
\* does not (keep_periodic = true, the default).
ProjectBest ==
    /\ pc = "best"
    /\ best' = BestOf(records)
    /\ CASE ~saver -> pc' = "open" /\ UNCHANGED <<records, doomed>>
         [] saver /\ bound -> pc' = "retain" /\ UNCHANGED <<records, doomed>>
         [] OTHER -> StartPruning(Protected(records))
    /\ UNCHANGED <<bound, disk, info, stages, latest, keep, saver, scan, crashes>>

\* Mutant of PublishRetention: the keep-set is not republished before pruning.
PublishRetentionLate ==
    /\ pc = "retain"
    /\ StartPruning(KeepSet(records))
    /\ keep' = IF keep = {} THEN KeepSet(records) ELSE keep
    /\ UNCHANGED <<bound, disk, info, stages, latest, best, saver, scan, crashes>>

\* retention.json is durable before anything is deleted.
PublishRetention ==
    /\ pc = "retain"
    /\ keep' = KeepSet(records)
    /\ StartPruning(KeepSet(records))
    /\ UNCHANGED <<bound, disk, info, stages, latest, best, saver, scan, crashes>>

\* The first member of the next generation to go.
Unlink ==
    /\ pc = "prune"
    /\ disk[FirstOf(doomed)] = "whole"
    /\ disk' = [disk EXCEPT ![FirstOf(doomed)] = "torn"]
    /\ UNCHANGED <<bound, info, stages, latest, best, keep, session, scan, crashes>>

\* The last one, and its directory.
RemoveDirectory ==
    LET g == FirstOf(doomed)
    IN  /\ pc = "prune"
        /\ disk[g] = "torn"
        /\ disk' = [disk EXCEPT ![g] = "absent"]
        /\ info' = [info EXCEPT ![g] = NoInfo]
        /\ doomed' = doomed \ {g}
        /\ pc' = IF doomed' = {} THEN "open" ELSE "prune"
        /\ UNCHANGED <<bound, stages, latest, best, keep, saver, records,
                       scan, crashes>>

\* The process dies; a staging directory stays behind.
Crash ==
    /\ pc # "closed"
    /\ crashes < MaxCrashes
    /\ crashes' = crashes + 1
    /\ stages' = IF pc = "rename" THEN stages + 1 ELSE stages
    /\ EndSession
    /\ UNCHANGED <<bound, disk, info, latest, best, keep, scan>>

-----------------------------------------------------------------------------
(* recovery_report, without the lease. *)

ScanStart ==
    /\ scan = Idle
    /\ Present # {}
    /\ scan' = [todo |-> Present, began |-> LastOf(Whole)]
    /\ UNCHANGED <<directory, session, crashes>>

\* Newest first.
ScanOrder(S) == CHOOSE g \in S : \A h \in S : h <= g

\* _verified_records verifies the directories one after the other.  The first
\* that verifies is the record reported: those after it are older.
ScanNext ==
    LET g == ScanOrder(scan.todo)
    IN  /\ scan # Idle
        /\ scan' = IF disk[g] = "whole" \/ scan.todo = {g} THEN Idle
                   ELSE [scan EXCEPT !.todo = @ \ {g}]
        /\ UNCHANGED <<directory, session, crashes>>

-----------------------------------------------------------------------------
Next ==
    \/ \E saves, declares \in BOOLEAN : Open(saves, declares)
    \/ Close
    \/ Reconcile
    \/ Save
    \/ Abort
    \/ \E at \in Positions, loss \in Losses \cup {NoLoss} : Finalize(at, loss)
    \/ ProjectLatest
    \/ ProjectBest
    \/ PublishRetention
    \/ Unlink
    \/ RemoveDirectory
    \/ Crash
    \/ ScanStart
    \/ ScanNext

Spec == Init /\ [][Next]_vars

-----------------------------------------------------------------------------
(* Properties. *)

\* Whatever was interrupted, latest.json and best.json name generations that
\* are there in full: a pointer moves before its old target is pruned
\* (checkpoints.py:1359-1391).
PointersResolve == {latest, best} \ {NoGeneration} \subseteq Whole

\* After a successful reconcile or save both pointers agree with the verified
\* generations, however many writers died between the rename, latest.json and
\* best.json before it (checkpoints.py:1111, 1359, 1363).
PointersAgree ==
    pc = "open" /\ records # Unread => latest = LastOf(Whole) /\ best = BestOf(Whole)

\* Every generation retention.json retains verifies: pruning cut short leaves a
\* torn generation only outside the published keep-set, so the refusal of later
\* sessions is about a file nobody promised (checkpoints.py:1384-1391).
KeepSetSurvives == keep \subseteq Whole

\* The conservative plan of CheckpointRetention is enough once max_peak_bytes
\* also has room for what the validator does not count, the files beside the
\* generations and staging a dead writer left: then no save is refused for lack
\* of room and no plan exceeds its limits, crashes after a rename included
\* (config/models.py:579-600, retention.py:131, 240).
RoomBeyondPlan ==
    Room >= (RetainedUpper + 1 + stages) * GenerationBytes + MetadataBytes

PlanFits ==
    bound /\ saver /\ RoomBeyondPlan =>
        /\ pc = "open" /\ records # Unread => ~AdmissionMayFail
        /\ pc = "project" => ~PlanMayFail

\* The same with the least max_peak_bytes the validator accepts, which the code
\* does not promise: generations of the declared size leave no room for the
\* files beside them.
PlanFitsMinimum ==
    bound /\ saver /\ stages = 0 /\ pc = "open" /\ records # Unread => ~AdmissionMayFail

\* A lease-free recovery_report that overlaps at most one save reports the
\* newest generation there was when it began or a newer one: as long as it has
\* found none, that generation is ahead of it and complete.  Newest-first
\* verification meets it before the writer may prune it (checkpoints.py:1203).
ScanFindsNewest ==
    scan.began # NoGeneration /\ NextGeneration <= scan.began + 2 =>
        scan.began \in scan.todo \cap Whole

\* The directory implements what RecoveryPoint promises: only the rename of a
\* generation moves the newest, the best or a milestone's generation that can
\* be read back, never a prune, a crash or a repair.
Nothing == [id |-> NoGeneration, at |-> 0, loss |-> NoLoss]

Described(g) ==
    IF g = NoGeneration THEN Nothing
    ELSE [id |-> g, at |-> info[g].at, loss |-> info[g].loss]

Promise == INSTANCE RecoveryPoint WITH
    NoGeneration <- Nothing,
    Milestones <- Boundaries,
    declared <- bound,
    newest <- Described(LastOf(Whole)),
    best <- Described(BestOf(Whole)),
    selected <- [m \in Boundaries |->
                    IF bound THEN Described(Reaches(Whole, m)) ELSE Nothing]

RecoverySpec == Promise!Spec
=============================================================================
