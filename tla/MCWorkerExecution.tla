------------------------- MODULE MCWorkerExecution --------------------------
(* Instances of WorkerExecution for TLC. *)
EXTENDS WorkerExecution, TLC

\* Executors are interchangeable, and so are RPC processes; only used by runs
\* that check invariants and action properties.
ProcessSymmetry == Permutations(Executors) \cup Permutations(Rpcs)
=============================================================================
