---------------------------- MODULE RecoveryPoint ---------------------------
(***************************************************************************)
(* What a run's checkpoint directory promises whoever resumes from it,     *)
(* whatever is renamed, repointed, pruned or interrupted underneath: the   *)
(* newest generation ever finalised, the best evaluated one and, once a    *)
(* retention policy was declared, the first to reach each milestone can    *)
(* all be read back in full.  Finalising a generation is the only thing    *)
(* that moves them; a milestone, once reached, keeps its generation.       *)
(***************************************************************************)
EXTENDS Naturals

CONSTANTS
    Milestones,     \* positions of the training run
    NoLoss,         \* the loss of a generation that was not evaluated
    NoGeneration

VARIABLES
    declared,       \* milestones are kept
    newest,         \* the newest generation: its id, position and loss
    best,           \* the evaluated generation of least loss
    selected        \* selected[m]: the first generation to reach m

promised == <<declared, newest, best, selected>>

Init ==
    /\ declared = FALSE
    /\ newest = NoGeneration
    /\ best = NoGeneration
    /\ selected = [m \in Milestones |-> NoGeneration]

\* Milestones are declared before there is anything to keep.
Declare ==
    /\ newest = NoGeneration
    /\ declared' = TRUE
    /\ UNCHANGED <<newest, best, selected>>

\* Of two evaluated generations the older one wins a tie.
Improves(g) ==
    /\ g.loss # NoLoss
    /\ best = NoGeneration \/ g.loss < best.loss

\* A generation is finalised; ids count up and training only moves forward.
Commit(g) ==
    /\ IF newest = NoGeneration THEN g.id = 1
       ELSE g.id = newest.id + 1 /\ g.at >= newest.at
    /\ best' = IF Improves(g) THEN g ELSE best
    /\ selected' = [m \in Milestones |->
          IF declared /\ selected[m] = NoGeneration /\ g.at >= m THEN g ELSE selected[m]]
    /\ UNCHANGED declared

Next == Declare \/ (newest' # newest /\ newest' # NoGeneration /\ Commit(newest'))

Spec == Init /\ [][Next]_promised
=============================================================================
