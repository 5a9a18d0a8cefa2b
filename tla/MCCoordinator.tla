--------------------------- MODULE MCCoordinator ---------------------------
(* Coordinator for TLC: the values are in the configurations. *)
EXTENDS Coordinator
=============================================================================
