------------------------- MODULE MCRelayPublication -------------------------
(* Instances of RelayPublication for TLC. *)
EXTENDS RelayPublication
=============================================================================
