--------------------------- MODULE MCColabDelivery --------------------------
(* Instances of ColabDelivery for TLC. *)
EXTENDS ColabDelivery, TLC

\* Attempts are interchangeable, and so are drivers.
DeliverySymmetry == Permutations(Attempts) \cup Permutations(Drivers)
=============================================================================
