--------------------------- MODULE MCRecoveryExit ---------------------------
(* Recovery in one session that nothing goes wrong in but the user's exit.   *)
EXTENDS Recovery

NoFaults == {}
=============================================================================
