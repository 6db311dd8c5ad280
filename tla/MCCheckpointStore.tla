-------------------------- MODULE MCCheckpointStore -------------------------
(* Instances of CheckpointStore for TLC. *)
EXTENDS CheckpointStore
=============================================================================
