------------------------ MODULE MCOutboxReplication -------------------------
(* Instances of OutboxReplication for TLC. *)
EXTENDS OutboxReplication
=============================================================================
